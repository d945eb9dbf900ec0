CONSTANTS
    Orders = {o1, o2}
    NoOrder = NoOrder
    Transport = "direct"
    HealthReports <- NoHealth
    MaxRestarts = 1
    Deadlines = FALSE
    ForeignRows = FALSE
SPECIFICATION Spec
CHECK_DEADLOCK FALSE
SYMMETRY Symmetry
PROPERTIES GateOpensProtected NoSendInDoubt
