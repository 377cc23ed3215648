SPECIFICATION FormSpec
CONSTANTS
    Products = {p1, p2}
    NoProduct = NoProduct
    Texts = {a, b}
    NoText = NoText
    MaxVisits = 3
    MaxPresses = 2
    MaxChanges = 1
SYMMETRY Symmetry
CHECK_DEADLOCK FALSE
INVARIANTS
    OnlyTheTagOverwrites
    OnlyALateReadMisfiles
