\* Three identities, two requests that may overlap.
SPECIFICATION GroupsSpec
CONSTANTS
    Addr = {a1, a2, a3}
    NoAddr = NoAddr
    Req = {r1, r2}
    MaxMembers = 3
    MaxDeeds = 4
INVARIANT
    NeverOwnerless
CHECK_DEADLOCK FALSE
