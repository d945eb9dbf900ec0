CONSTANTS
    Commands = {c1, c2}
    Keys = {k1, k2}
    NoCommand = NoCommand
    NoKey = NoKey
    MaxSeq = 3
    MaxFaults = 1
    MaxCrashes = 2
SPECIFICATION FairSpec
INVARIANTS AtMostOnce JournalTruth NotInvokedIsTrue
PROPERTIES AmbiguityFences CallsInSequence VerdictStands PromiseSpec EveryCommandSettles
