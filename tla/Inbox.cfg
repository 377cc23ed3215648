SPECIFICATION Spec
CONSTANTS
    Persons = {ada, bob}
    Numbers = {n1, n2}
    MaxReads = 3
    MaxMoves = 5
    None = None
SYMMETRY Sym
CHECK_DEADLOCK FALSE
INVARIANTS
    OnlyTheirOwn
    NothingHeardIsLost
    NothingGoneComesBack
    InStep
