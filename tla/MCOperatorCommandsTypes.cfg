SPECIFICATION Spec
CONSTANTS
    Orders = {o1}
    Keys = {k1, k2}
    None = None
    Lots = 2
    MaxRestarts = 1
SYMMETRY Symmetry
INVARIANTS TypeOK InFlightHasWork
