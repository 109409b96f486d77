CONSTANTS
    Scores = {1, 2}
    Absent = Absent
    NumOptimizers = 1
    Configs <- StopConfigs
    MaxFits = 1
    MaxLives = 1
    MaxWait = 2
SPECIFICATION TSpec
INVARIANTS
    StopsEarly
CHECK_DEADLOCK FALSE
