CONSTANTS
    Workers = {w1, w2}
    Tasks = {"sales", "entity", "retry"}
    Admin = FALSE
    Catalog = {}
    Sales = {s}
    MaxJobs = 2
    MAX_SYNC_RETRIES = 2
    BACKOFF <- MCBackoff
    TaskLimit = 1
    StaleTimeout = 2
    Free = Free
    Orphan = Orphan
    None = None
SPECIFICATION Spec
INVARIANTS
    IInv
    LiveJobProtected
    SalesExportsSerial
SYMMETRY Symmetry
