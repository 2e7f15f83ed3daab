SPECIFICATION FairSpec
CONSTANTS
    MaxCommit = 3
    Mixed = Mixed
    Down = Down
INVARIANTS
    FilesFollowCheckout
    BadReleaseIsUndone
PROPERTIES
    PageStopsWaiting
