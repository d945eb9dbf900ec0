SPECIFICATION Spec
CONSTANTS
    Commands = {c1, c2}
    Closes = {c1, c2}
    NoCommand = NoCommand
    MaxEpoch = 0
    MaxSessions = 2
    MaxRestarts = 0
SYMMETRY Symmetry
INVARIANT ReconnectReconciles
CHECK_DEADLOCK FALSE
