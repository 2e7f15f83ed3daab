SPECIFICATION NfcFairSpec
CONSTANTS
    Tags = {t1, t2}
    NoTag = NoTag
    MaxQueue = 2
    MaxRestarts = 1
INVARIANTS
    NfcTypeOK
PROPERTIES
    LedMatchesOutcome
    HeldCardIsHandled
