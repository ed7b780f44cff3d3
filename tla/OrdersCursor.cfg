CONSTANTS
    Workers = {w1, w2}
    Tasks = {"sales", "refresh"}
    Admin = TRUE
    MaxOrder = 2
    MaxVersion = 1
    Lines <- MCOneVersion
    PageLimit = 2
    Free = Free
    Orphan = Orphan
SPECIFICATION Spec
INVARIANTS
    IInv
    CursorBehindMirror
SYMMETRY Symmetry
