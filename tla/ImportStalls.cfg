SPECIFICATION FairSpec
CONSTANTS
    i1 = i1
    i2 = i2
    i3 = i3
    Workers = {w1}
    Sources = {"products", "stock"}
    Items = {i1, i2, i3}
    Unwanted = {i3}
    Poison = {}
    Code <- MCCode
    PageLimit = 1
    Overlap = FALSE
    MaxChanges = 3
PROPERTY ImportEnds
