----------------------------- MODULE MCAutograd -----------------------------
(* A narrow and a wide parameter and programs of up to three operations.    *)
EXTENDS AutogradProps

MCWide == {2}
=============================================================================
