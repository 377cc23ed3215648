SPECIFICATION Spec
CONSTANTS
    Tabs = {t1, t2}
    Persons = {ada}
    Pages = {"cart"}
    Rereads = {"reread"}
    Doors = {"login", "signup"}
    MaxSessions = 2
    MaxInputs <- SomeInputs
    None = None
SYMMETRY Sym
CHECK_DEADLOCK FALSE
INVARIANTS
    NoCredentialFromEarlierEra
    NobodyWaitsForNothing
    RevokedIsDropped
    SignedOutStaysOut
