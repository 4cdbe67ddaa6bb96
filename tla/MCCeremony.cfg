\* Three people, two workflows, two handlers, two list requests, two deeds.
SPECIFICATION FairSpec
CONSTANTS
    User = {me, a, b}
    Me = me
    Wf = {w1, w2}
    NoWf = NoWf
    CoSigner = a
    Recipient = b
    First = w1
    Start <- Worlds
    Job = {j1, j2}
    MaxPolls = 2
    MaxPeople = 2
    MaxDeeds = 2
    Offered = {"open", "form", "fail", "others", "erase", "publish"}
INVARIANTS
    CeremonyInv
    
PROPERTIES
    DotFollows
CHECK_DEADLOCK FALSE
