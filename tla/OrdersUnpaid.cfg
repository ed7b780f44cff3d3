CONSTANTS
    Workers = {w1, w2}
    Tasks = {"sales", "retry"}
    Admin = FALSE
    MaxOrder = 1
    MaxVersion = 1
    Lines <- MCOneVersion
    PageLimit = 1
    Free = Free
    Orphan = Orphan
SPECIFICATION Spec
PROPERTY UnpaidOnlyByStaff
