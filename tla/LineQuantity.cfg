SPECIFICATION FairSpec
CONSTANTS
    Products = {p1, p2}
    Whole = Whole
    MaxQuantity = 2
    StartQuantity = 1
    MaxSent = 3
    InOrder = TRUE
CHECK_DEADLOCK FALSE
INVARIANTS
    StepOnItsWay
    OrderAfterItsSteps
    LastClickLands
    ScreenMatchesServer
PROPERTY
    EverythingSettles
