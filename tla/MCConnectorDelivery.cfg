SPECIFICATION Spec
CONSTANTS
    Commands = {c1, c2}
    Closes = {c1}
    NoCommand = NoCommand
    MaxEpoch = 1
    MaxSessions = 3
    MaxRestarts = 1
CHECK_DEADLOCK FALSE
INVARIANTS NeverHandedTwice TablesAgree AckedIsRecorded ResultsFit NoGap FenceStopsReplay
