SPECIFICATION Spec
CONSTANTS
    Products = {p1, p2}
    Persons = {ada, bob}
    Nobody = Nobody
    LineCap = 2
    MaxAdded = 2
    MaxVisits = 4
SYMMETRY Symmetry
CHECK_DEADLOCK FALSE
INVARIANTS
    KeyMeansOneBody
    MergedOnce
    NothingLost
