\* Two peers, one with a direct conversation, and the group they may be in; any
\* three of: a send, a conversation opened, something a peer or an admin does.
\* Or a tab that reads: any three of a conversation opened, a frame, a press of
\* the decrypt button and a session minted, by at most two handlers at once.
SPECIFICATION TabSpec
CONSTANTS
    Peer = {p1, p2}
    Dms = {p1}
    Writer = p1
    Grp = Grp
    None = None
    Nil = Nil
    Me = Me
    User = {p1}
    Group = {Grp}
    s1 = s1
    s2 = s2
    s3 = s3
    Sid = {s1, s2, s3}
    Session <- TheSession
    Fresh = {s3}
    Row <- Mailbox
    Job = {j1, j2}
    MaxKey = 1
    MaxSeq = 2
    MaxDeeds = 3
    MaxReads = 3
INVARIANTS
    
    
    ForwardSecret
    TrueKeys
PROPERTIES
    SeenKeysStay
CHECK_DEADLOCK FALSE
