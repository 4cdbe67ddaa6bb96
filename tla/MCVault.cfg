SPECIFICATION KeysSpec
CONSTANTS
    Id = {i1, i2}
    ExtId = ExtId
    NoId = NoId
    Tab = {t1, t2}
    Op = {o1, o2}
    MaxKey = 3
    MaxRetired = 2
    MaxWriters = 1
    MaxDeeds = 2
    Offered = {"add", "switch", "delete", "import", "export", "rotate", "destroy", "enable", "erase", "leave"}
    Req = {o1, o2}
    Origin = {site, other}
    Holder = {a1, a2}
    NoAccount = NoAccount
    Window = {t1, t2}
    NoWindow = NoWindow
    Kinds = {"connect", "decrypt", "rotate"}
    MaxTotal = 2
    MaxPerOrigin = 1
    MaxRestarts = 1
SYMMETRY Symmetric
INVARIANTS
    VaultInv
    ApprovalsInv
    RotatesNamedAccount
PROPERTIES
    ForgetsOnlyErased
CHECK_DEADLOCK FALSE
