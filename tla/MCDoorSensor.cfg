SPECIFICATION FairSpec
CONSTANTS
    QueueSize = 3
    Threshold = 1
INVARIANTS
    TypeOK
    StateFollowsLevel
    ReportFollowsState
    AlertDiscipline
PROPERTIES
    LongOpenIsAlerted
