CONSTANTS
    Scores = {1, 2, 3}
    Absent = Absent
    NumOptimizers = 2
    Configs <- MCConfigs
    MaxFits = 2
    MaxLives = 2
    MaxWait = 2
SPECIFICATION TSpec
INVARIANTS
    TTypeOK
    GradientOnce
    BestOnDisk
PROPERTIES
    LastSurvives
CHECK_DEADLOCK FALSE
