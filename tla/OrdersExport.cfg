CONSTANTS
    Workers = {w1, w2}
    Tasks = {"sales", "recheck", "retry", "entity"}
    Admin = FALSE
    MaxOrder = 1
    MaxVersion = 2
    Lines <- MCLines
    PageLimit = 1
    Free = Free
    Orphan = Orphan
SPECIFICATION LiveSpec
INVARIANTS SucceededIsComplete ExportsCurrent
PROPERTIES
    ScheduledOnlyPaid
    
    PaidIsExported
