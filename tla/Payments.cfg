SPECIFICATION Spec
CONSTANTS
    Orders = {o1, o2}
    None = None
    MaxPresses = 3
    MaxTurns = 2
SYMMETRY Symmetry
CHECK_DEADLOCK FALSE
INVARIANTS
    LostAttemptKeepsKeyElse
    NoBlindRefund
