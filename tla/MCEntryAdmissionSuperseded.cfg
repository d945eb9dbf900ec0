CHECK_DEADLOCK FALSE
SPECIFICATION Spec
CONSTANTS
    Tasks = {t1, t2}
    Keys = {k1}
    NoKey = NoKey
    MaxSignals = 2
    MaxOrders = 3
    Limit = 1
    MaxChanges = 1
    MaxRestarts = 1
SYMMETRY Symmetry
PROPERTY SupersededStaysInvalid
