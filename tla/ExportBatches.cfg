\* Batches of two combinations, of which one is a placeholder and in the shop from before.
CONSTANTS
    Workers = {w1}
    Combos = {c1, c2}
    Placeholders = {c2}
    Legacy = {c2}
    MaxIds = 5
    MaxEvents = 1
SPECIFICATION FairSpec
INVARIANTS
    IInv
    MappedToOwn
    FlagsInv
PROPERTY Exported
