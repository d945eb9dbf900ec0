SPECIFICATION Spec
CONSTANTS
    Orders = {o1, o2}
    Keys = {k1, k2}
    None = None
    Lots = 1
    MaxRestarts = 1
PROPERTY CommandKeepsOrder
