CONSTANTS
    Commands = {c1, c2}
    NoCommand = NoCommand
    ExitDeals = {d1}
    Lots = 2
    Starts <- EveryStart
    Volumes = {0}
    MaxStop = 2
    MaxRestarts = 0
    ForeignRows = FALSE
SPECIFICATION Spec
CHECK_DEADLOCK FALSE
PROPERTIES NeverLooser
