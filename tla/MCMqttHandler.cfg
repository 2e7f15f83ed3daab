SPECIFICATION FairSpec
CONSTANT MaxOut = 3
INVARIANTS
    TypeOK
    TopicsFollowState
    GoneIsOffline
PROPERTY UpIsOnline
