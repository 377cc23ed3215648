SPECIFICATION Spec
CONSTANTS
    Baskets = {b1, b2}
    Empty = Empty
    Persons = {ada, bob}
    Nobody = Nobody
    Retries = 1
    MaxCalls = 4
    MaxVisits = 3
    MaxChanges = 1
SYMMETRY Symmetry
CHECK_DEADLOCK FALSE
INVARIANTS
    UnheardIsSaved
    NoStalePoll
PROPERTIES
    ImplementsOneOrder
