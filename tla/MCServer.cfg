\* Two workers, two sockets, one logout, one fault.  Or a group of two members,
\* four identities, five requests of which two may overlap.  Or two codes, two
\* devices that send and two that claim.
SPECIFICATION ServerSpec
CONSTANTS
    Worker = {w1, w2}
    Socket = {s1, s2}
    Task = {t1}
    Kinds = {"message", "hangup"}
    Period = 2
    MaxFaults = 1
    Addr = {a1, a2, a3, a4}
    NoAddr = NoAddr
    Req = {r1, r2}
    MaxMembers = 2
    MaxDeeds = 5
    Code = {c1, c2}
    NoCode = NoCode
    Sender = {m1, m2}
    Claim = {d1, d2}
    Ttl = 2
    MaxTime = 5
SYMMETRY Symmetric
INVARIANTS
    SocketsInv
    HangupComplete
    GroupsInv
    ClaimedOnce
PROPERTIES
    NobodyReturns
    WaitsItsTime
CHECK_DEADLOCK FALSE
