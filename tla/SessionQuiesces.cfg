SPECIFICATION FairSpec
CONSTANTS
    Tabs = {t1, t2}
    Persons = {ada}
    Pages = {"cart"}
    Rereads = {"reread"}
    Doors = {"login", "signup"}
    MaxSessions = 1
    MaxInputs <- FewInputs
    None = None
CHECK_DEADLOCK FALSE
PROPERTY
    Quiesces
