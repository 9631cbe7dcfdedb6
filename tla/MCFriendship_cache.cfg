SPECIFICATION Spec
CONSTANTS
    w1 = w1
    w2 = w2
    i1 = i1
    i2 = i2
    i3 = i3
    Accounts <- MCAccounts
    Workers <- TwoWorkers
    Ids <- MCIds
    NoId = NoId
    Calls <- CacheCalls
    Crashes = FALSE
SYMMETRY Symmetry
INVARIANTS CacheCurrent
