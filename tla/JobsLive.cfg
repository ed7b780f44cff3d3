CONSTANTS
    Workers = {w1, w2}
    Tasks = {"batch", "retry"}
    Admin = FALSE
    Catalog = {c}
    Sales = {}
    MaxJobs = 3
    MAX_SYNC_RETRIES = 2
    BACKOFF <- MCBackoff
    TaskLimit = 1
    StaleTimeout = 2
    Free = Free
    Orphan = Orphan
    None = None
SPECIFICATION FairSpec
INVARIANTS CatalogExportsExclusive OneJobEach
PROPERTIES
    PendingIsPickedUp
    Unblocks
