CONSTANTS
    Orders = {o1}
    NoOrder = NoOrder
    Transport = "stream"
    HealthReports <- ConnectorHealth
    MaxRestarts = 0
    Deadlines = FALSE
    ForeignRows = FALSE
SPECIFICATION Spec
CHECK_DEADLOCK FALSE
INVARIANT EmergencyHolds
