SPECIFICATION Spec
CONSTANTS
    w1 = w1
    w2 = w2
    MaxAccounts = 2
    MaxCodes = 4
    MaxAttempts = 2
    Workers <- TwoWorkers
    Calls <- EveryCall
    Crashes = TRUE
SYMMETRY Symmetry
INVARIANTS TypeOK PasswordConfirmed GuessesBounded ResendsBounded
PROPERTIES SignedInKept
