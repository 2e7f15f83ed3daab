SPECIFICATION FairSpec
CONSTANTS
    Tags = {a}
    Window = 1
    QueueSize = 2
    Calls = {c1, c2}
    NoCall = NoCall
    None = None
    Failed = Failed
    MaxArms = 2
INVARIANTS
    TypeOK
    OneShot
    OutcomeIsKept
PROPERTIES
    ArmExpires
    PageSettles
