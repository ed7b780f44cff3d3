SPECIFICATION FairSpec
CONSTANTS
    i1 = i1
    i2 = i2
    i3 = i3
    Workers = {w1}
    Sources = {"products", "prices"}
    Items = {i1, i2, i3}
    Unwanted = {}
    Poison = {i3}
    Code <- MCCode
    PageLimit = 2
    Overlap = FALSE
    MaxChanges = 3
INVARIANTS
    IInv
    NothingIsLost
PROPERTIES
    Imported
    ImportEnds
