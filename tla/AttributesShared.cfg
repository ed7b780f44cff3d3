\* Two batches whose merges cross can lose and create values again and again;
\* MaxValues and MaxGroups stop them, which is no deadlock of the system.
SPECIFICATION Spec
CONSTANTS
    Workers = {w1, w2}
    Values = {red}
    Free = free
    Orphan = orphan
    MaxPsid = 2
    MaxGroups = 5
    MaxValues = 6
    MaxEvents = 2
INVARIANTS
    TypeOK
    ValuesInv
    MappedIsLive
    NoTwins
PROPERTY NoValueLost
SYMMETRY Symmetry
CHECK_DEADLOCK FALSE
