SPECIFICATION Spec
CONSTANTS
    MaxEvents = 4
    PageSize = 2
INVARIANTS
    TypeOK
    HistoryIsFaithful
    NoRowSkipped
