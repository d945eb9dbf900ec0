CONSTANTS
    Orders = {o1}
    NoOrder = NoOrder
    Transport = "stream"
    HealthReports <- BackupHealth
    MaxRestarts = 2
    Deadlines = TRUE
    ForeignRows = TRUE
SPECIFICATION FairSpec
CHECK_DEADLOCK FALSE
PROPERTIES CustodianOnly DoubtSettles QueuedIsDelivered
