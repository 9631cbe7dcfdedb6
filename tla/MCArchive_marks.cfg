SPECIFICATION Spec
CONSTANTS
    w1 = w1
    w2 = w2
    a1 = a1
    a2 = a2
    MaxMessages = 1
    PageLimit = 2
    BatchSize = 1
    Workers <- TwoWorkers
    Archivers <- TwoArchivers
    OldestFirst = FALSE
    Calls <- UpdateCalls
    MaxCrashes = 0
SYMMETRY Symmetry
INVARIANT OneReaction
