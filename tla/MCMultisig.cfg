\* Three users, one workflow, two requests in flight, no account erase.
SPECIFICATION Spec
CONSTANTS
    User = {u1, u2, u3}
    NoUser = NoUser
    Wf = {w1}
    LegacyWf = {}
    Req = {r1, r2}
    SubmittedLists <- AllLists
    Offered = {"sign", "reject", "delete"}
SYMMETRY Symmetric
INVARIANTS
    QuorumReachable
    ReadBehindQuorum
PROPERTIES
    DecisionIsFinal
    ImplementsDecision
CHECK_DEADLOCK FALSE
