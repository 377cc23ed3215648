SPECIFICATION Spec
CONSTANTS
    Products = {p1}
    Whole = Whole
    MaxQuantity = 2
    StartQuantity = 1
    MaxSent = 4
    InOrder = TRUE
CHECK_DEADLOCK FALSE
INVARIANT
    LastClickKept
