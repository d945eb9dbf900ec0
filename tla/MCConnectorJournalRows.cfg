CONSTANTS
    Commands = {c1, c2}
    Keys = {k1, k2}
    NoCommand = NoCommand
    NoKey = NoKey
    MaxSeq = 3
    MaxFaults = 0
    MaxCrashes = 1
SPECIFICATION Spec
INVARIANT NoEffectIsProof
