SPECIFICATION Spec
CONSTANTS
    w1 = w1
    w2 = w2
    Accounts <- TwoAccounts
    Listeners = {"b"}
    MaxMessages = 2
    Workers <- TwoWorkers
    Calls <- EveryCall
    Crashes = TRUE
SYMMETRY Symmetry
INVARIANTS TypeOK OneConversation Reappears NoGap MarkerFollows
PROPERTY NoContactAcrossBlock
