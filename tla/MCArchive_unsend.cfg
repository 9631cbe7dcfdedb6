SPECIFICATION Spec
CONSTANTS
    w1 = w1
    w2 = w2
    a1 = a1
    a2 = a2
    MaxMessages = 2
    PageLimit = 2
    BatchSize = 1
    Workers <- TwoWorkers
    Archivers <- OneArchiver
    OldestFirst = FALSE
    Calls <- ReplyCalls
    MaxCrashes = 1
SYMMETRY Symmetry
INVARIANTS NoUnsentQuoted
PROPERTY ImplementsMessageLog
