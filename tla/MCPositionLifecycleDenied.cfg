CONSTANTS
    Commands = {c1, c2}
    NoCommand = NoCommand
    ExitDeals = {d1}
    Lots = 2
    Starts <- EveryStart
    Volumes = {0, 1}
    MaxStop = 2
    MaxRestarts = 1
    ForeignRows = TRUE
SPECIFICATION Spec
CHECK_DEADLOCK FALSE
SYMMETRY Symmetry
INVARIANTS DeniedOnProofOnly
