CONSTANTS
    Orders = {o1}
    NoOrder = NoOrder
    Transport = "stream"
    HealthReports <- NoHealth
    MaxRestarts = 0
    Deadlines = FALSE
    ForeignRows = TRUE
SPECIFICATION Spec
CHECK_DEADLOCK FALSE
INVARIANT AbsentStaysInDoubt
