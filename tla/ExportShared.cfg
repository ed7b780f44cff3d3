\* Two tasks on one combination.
CONSTANTS
    Workers = {w1, w2}
    Combos = {c1}
    Placeholders = {}
    Legacy = {}
    MaxIds = 5
    MaxEvents = 2
SPECIFICATION Spec
INVARIANTS
    FlagsTell
    
SYMMETRY Symmetry
