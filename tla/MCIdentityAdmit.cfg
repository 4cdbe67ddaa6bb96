\* Two identities, two requests in flight, one single-use invite code.
SPECIFICATION Spec
CONSTANTS
    Addr = {a1, a2}
    Key = {k1}
    NoKey = NoKey
    Nonce = {n1, n2, n3}
    NoNonce = NoNonce
    Code = {c1}
    NoCode = NoCode
    MaxUses <- SingleUse
    InvitesRequired = TRUE
    Unattested = {}
    Req = {r1, r2}
    Offered = {"login", "leave", "erase"}
    MaxVersion = 2
SYMMETRY Symmetric
INVARIANTS
    OneEffectPerChallenge
    DeadTokensStayDead
PROPERTIES
    AdmissionIsPaid
CHECK_DEADLOCK FALSE
