\* The creation form alone: what becomes of the threshold as signers are added.
SPECIFICATION Spec
CONSTANTS
    User = {me, a, b}
    Me = me
    Wf = {w1, w2}
    NoWf = NoWf
    CoSigner = a
    Recipient = b
    First = w1
    Start <- Worlds
    Job = {j1, j2}
    MaxPolls = 1
    MaxPeople = 2
    MaxDeeds = 1
    Offered = {"form"}
PROPERTIES
    AllByDefault
CHECK_DEADLOCK FALSE
