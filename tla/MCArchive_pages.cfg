SPECIFICATION FairSpec
CONSTANTS
    w1 = w1
    w2 = w2
    a1 = a1
    a2 = a2
    MaxMessages = 3
    PageLimit = 2
    BatchSize = 2
    Workers <- OneWorker
    Archivers <- OneArchiver
    OldestFirst = TRUE
    Calls <- PageCalls
    MaxCrashes = 1
INVARIANTS NothingLost PageComplete ListExact
PROPERTY ArchivedUnlessCutOff
