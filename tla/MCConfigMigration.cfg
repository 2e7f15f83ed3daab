SPECIFICATION MSpec
CONSTANTS
    Uids = {u1}
    Settings = {s1}
    Texts = {x, y}
    None = None
    Torn = Torn
    MaxVersions = 3
INVARIANT MigrationKeepsEntries
