SPECIFICATION LoginFairSpec
CONSTANTS
    Threads = {w1, w2, w3, w4}
    MaxAttempts = 5
    Lockout = 2
INVARIANTS
    FailuresBounded
PROPERTY LockoutEnds
