CONSTANTS
    Commands = {c1, c2}
    NoCommand = NoCommand
    ExitDeals = {d1}
    Lots = 2
    Starts <- EveryStart
    Volumes = {1}
    MaxStop = 2
    MaxRestarts = 1
    ForeignRows = TRUE
SPECIFICATION Spec
CONSTRAINT DeniedOrRestarted
CHECK_DEADLOCK FALSE
SYMMETRY Symmetry
INVARIANTS ExposureNotUnderstated StopIsTheBrokers DoubtHasWork
