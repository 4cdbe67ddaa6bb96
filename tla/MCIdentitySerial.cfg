\* One identity, attested or not, every operation, one request at a time.
SPECIFICATION Spec
CONSTANTS
    Addr = {a1}
    Key = {k1, k2}
    NoKey = NoKey
    Nonce = {n1, n2, n3, n4}
    NoNonce = NoNonce
    Code = {c1, c2}
    NoCode = NoCode
    MaxUses <- SingleUse
    InvitesRequired = TRUE
    Unattested = {a1}
    Req = {r1}
    Offered = {"login", "leave", "erase", "logout", "rotate"}
    MaxVersion = 2
SYMMETRY Symmetric
INVARIANTS
    SerialInv
    DeadTokensStayDead
CHECK_DEADLOCK FALSE
