CONSTANTS
    Commands = {c1, c2, c3}
    Keys = {k1, k2}
    NoCommand = NoCommand
    NoKey = NoKey
    MaxSeq = 3
    MaxFaults = 0
    MaxCrashes = 1
SPECIFICATION FairSpec
INVARIANTS AtMostOnce JournalTruth NotInvokedIsTrue
PROPERTIES AmbiguityFences CallsInSequence VerdictStands PromiseSpec EveryCommandSettles
