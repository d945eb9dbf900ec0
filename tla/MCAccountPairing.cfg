SPECIFICATION Spec
CONSTANTS
    Pairings = {p1, p2}
    Connectors = {c1, c2}
    Identities = {i1, i2}
    Registers = {g1}
    Rebinds = {r1}
    None = None
    MaxFailures = 2
    MaxGuesses = 2
    MaxFaults = 1
    MaxRestarts = 1
SYMMETRY Symmetry
CONSTRAINT GuessesOrRebinds
CHECK_DEADLOCK FALSE
INVARIANTS CodeTakenOnce ConfirmedAsSeen CreatedOnce SupersededKeyIsDead GuessesBounded HandedKeyOpens
