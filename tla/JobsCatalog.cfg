CONSTANTS
    Workers = {w1, w2}
    Tasks = {"batch", "entity", "retry"}
    Admin = TRUE
    Catalog = {c}
    Sales = {}
    MaxJobs = 2
    MAX_SYNC_RETRIES = 2
    BACKOFF <- MCBackoff
    TaskLimit = 1
    StaleTimeout = 2
    Free = Free
    Orphan = Orphan
    None = None
SPECIFICATION Spec
INVARIANTS
    IInv
    LiveJobProtected
    AttemptsBounded
    
PROPERTY RetriesAreDue
SYMMETRY Symmetry
