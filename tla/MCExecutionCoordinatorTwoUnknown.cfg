CONSTANTS
    Orders = {o1, o2}
    NoOrder = NoOrder
    Transport = "stream"
    HealthReports <- NoHealth
    MaxRestarts = 0
    Deadlines = FALSE
    ForeignRows = FALSE
SPECIFICATION Spec
CHECK_DEADLOCK FALSE
INVARIANT InDoubtMeansFenced
