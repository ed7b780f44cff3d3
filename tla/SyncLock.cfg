\* Every process is a Celery task.  The limits are scaled to two time steps.
CONSTANTS
    NoWorker = NoWorker
    Orphan = Orphan
    Workers = {w1, w2, w3}
    Cli = {}
    LockTimeout = 2
    TaskLimit = 2
SPECIFICATION FairSpec
INVARIANTS
    IInv
    MutualExclusion
    TakeOverIsSafe
PROPERTIES
    ReleasesOwnRow
    Refinement
    Recovers
