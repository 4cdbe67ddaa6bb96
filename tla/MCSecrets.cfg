\* Five rows to begin with, pages of two, two operations in progress, two deeds.
SPECIFICATION FairSpec
CONSTANTS
    MaxRow = 6
    MaxKey = 3
    PageSize = 2
    Shapes <- AllShapes
    Recipient = {r1, r2}
    NoOne = NoOne
    Unsafe = {r2}
    Op = {o1, o2}
    MaxDeeds = 2
    Offered = {"reload", "open", "lock", "create", "remove", "share", "rotate", "destroy", "arrive", "fail"}
INVARIANTS
    SecretsInv
    ChunksInv
    NothingHidden
PROPERTIES
    RewrapComplete
    RewrapEnds
CHECK_DEADLOCK FALSE
