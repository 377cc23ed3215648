SPECIFICATION WishlistSpec
CONSTANTS
    Requests = {r1, r2, r3}
    Persons = {ada, bob}
    Products = {plant, pot}
    FirstLists = {{}, {plant, pot}}
    Nobody = Nobody
    NoClaim = NoClaim
    NoRead = NoRead
    MaxIssued = 4
    MaxElsewhere = 1
    MaxReads = 1
SYMMETRY Symmetry
CHECK_DEADLOCK FALSE
INVARIANTS
    OnlyTheirOwn
    NewestArrivedIsShown
    HeartsMatch
    BadgeFollowsMove
    OneReadForTheHearts
PROPERTY
    ImplementsLatestAnswer
