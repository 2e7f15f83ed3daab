SPECIFICATION FairSpec
CONSTANTS
    MaxCalls = 3
    QueueSize = 2
    Backlog = 2
INVARIANTS
    TypeOK
    AnswersAreTrue
    RealTimeOrder
PROPERTIES
    ServedDespiteStall
    CommandsAreLogged
