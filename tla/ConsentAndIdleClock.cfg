SPECIFICATION EitherSpec
CONSTANTS
    Persons = {ada, ben}
    Nobody = Nobody
    MaxCalls = 3
    MaxInputs = 5
    Tabs = {t1, t2}
    Timeout = 2
    Warning = 1
    Skew = 0
    Latency = 1
    MaxTime = 4
    MaxRequests = 2
    MaxSessions = 2
SYMMETRY Symmetry
CHECK_DEADLOCK FALSE
INVARIANTS
    FaroFollows
    NobodyMeasuredUnasked
    LastWordIsOnRecord
    EndsHereFirst
PROPERTIES
    SparesTheActive
    AskedFirst
