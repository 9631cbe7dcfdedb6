SPECIFICATION Spec
CONSTANTS
    a1 = a1
    a2 = a2
    a3 = a3
    w1 = w1
    w2 = w2
    Accounts <- MCAccounts
    Workers <- TwoWorkers
    NoOne = NoOne
    Calls <- EveryCall
SYMMETRY Symmetry
INVARIANTS SplitOnlyByTransfers FrozenAfterDisband
PROPERTIES LeaderKept RolesKeptByAdd DeputiesKickOnlyMembers
CHECK_DEADLOCK FALSE
