---------------------------- MODULE MCDevicePool ----------------------------
(* A device of four 512-byte units, two size classes (512 and 1024), limits *)
(* below, at and above what the device holds.                               *)
EXTENDS DevicePoolProps

MCBytes  == {100, 512, 700}
MCLimits == {-1, 512, 1100}
=============================================================================
