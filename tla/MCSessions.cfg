SPECIFICATION Spec
CONSTANTS
    w1 = w1
    w2 = w2
    p1 = p1
    p2 = p2
    Passwords <- MCPasswords
    MaxTokens = 3
    MaxResets = 2
    Workers <- TwoWorkers
    Calls <- EveryCall
    Crashes = TRUE
SYMMETRY Symmetry
INVARIANTS TypeOK RotatedOnce SessionsRevoked ResetExactlyOnce ProfileCurrent
