SPECIFICATION Spec
CONSTANTS
    Uids = {u1, u2}
    Settings = {s1}
    Texts = {x, y}
    None = None
    Torn = Torn
    MaxVersions = 3
SYMMETRY Symmetry
INVARIANTS
    TypeOK
    RunningMatchesDisk
PROPERTIES
    CommandsAreAtomic
