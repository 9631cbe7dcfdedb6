SPECIFICATION FairSpec
CONSTANTS
    w1 = w1
    w2 = w2
    a1 = a1
    a2 = a2
    MaxMessages = 2
    PageLimit = 2
    BatchSize = 1
    Workers <- OneWorker
    Archivers <- OneArchiver
    OldestFirst = TRUE
    Calls <- CreateCalls
    MaxCrashes = 1
PROPERTY OldMessagesArchived
