------------------------------- MODULE Groups -------------------------------
(***************************************************************************)
(* The members of one group on the server (backend/routers/groups.py, with *)
(* account_deletion._leave_all_groups): who is in it, in which role, and   *)
(* who inherits it.                                                        *)
(*                                                                         *)
(* A handler reads the channel and its members without a row lock, decides *)
(* and commits.  Its UPDATEs name rows by primary key and raise when the   *)
(* row is gone; its DELETE of a membership goes by address and takes what  *)
(* it finds.                                                               *)
(***************************************************************************)
EXTENDS Naturals, FiniteSets

CONSTANTS
    Addr,         \* identities
    NoAddr,       \* no owner_address
    Req,          \* requests in progress at once
    MaxMembers,   \* schemas.MAX_GROUP_MEMBERS
    MaxDeeds      \* bound: requests

VARIABLES
    active,    \* identities that are not deleted
    chan,      \* the channel: its row exists, owner_address, [address -> membership]
    next,      \* the next membership id, in the order of joined_at; 0 before the channel
    req,       \* the requests
    met,       \* history: two requests have overlapped
    deeds

groupVars == <<active, chan, next, req, met, deeds>>

GroupsConstants ==
    /\ NoAddr \notin Addr /\ IsFiniteSet(Addr) /\ IsFiniteSet(Req)
    /\ MaxMembers \in Nat \ {0} /\ MaxDeeds \in Nat

NoSeat == [id |-> 0, role |-> "none"]
NoRequest == [op |-> "idle"]
Gone == [alive |-> FALSE, heir |-> NoAddr, seat |-> [a \in Addr |-> NoSeat]]

In(c) == {a \in Addr : c.seat[a] # NoSeat}
Role(c, a) == c.seat[a].role

GroupsInit ==
    /\ active = Addr
    /\ chan = Gone /\ next = 0
    /\ req = [r \in Req |-> NoRequest] /\ met = FALSE /\ deeds = 0

----------------------------------------------------------------------------
(* What a request may ask (security/authorization.py), by what it reads. *)

MayRemove(a, t) ==
    a = t \/ Role(chan, a) = "owner" \/ (Role(chan, a) = "admin" /\ Role(chan, t) = "member")

Room(c) == Cardinality(In(c)) < MaxMembers

Reads(r, q) ==
    /\ req[r] = NoRequest /\ deeds < MaxDeeds
    /\ req' = [req EXCEPT ![r] = q]
    /\ met' = (met \/ \E x \in Req : req[x] # NoRequest)
    /\ deeds' = deeds + 1
    /\ UNCHANGED <<active, chan, next>>

AskCreate(r, a, who) ==
    /\ next = 0 /\ a \in who /\ who \subseteq active /\ Cardinality(who) <= MaxMembers
    /\ Reads(r, [op |-> "create", by |-> a, who |-> who])

AskAdd(r, a, t) ==
    /\ a \in active /\ Role(chan, a) \in {"owner", "admin"}
    /\ t \in active \ In(chan) /\ Room(chan)
    /\ Reads(r, [op |-> "add", who |-> t])

AskRemove(r, a, t) ==
    /\ a \in active \cap In(chan) /\ t \in In(chan) /\ MayRemove(a, t)
    /\ Reads(r, [op |-> "remove", who |-> t, seen |-> chan])

AskRole(r, a, t, role) ==
    /\ a \in active /\ Role(chan, a) = "owner"
    /\ t \in In(chan) /\ Role(chan, t) # "owner"
    /\ Reads(r, [op |-> "role", who |-> t, seen |-> chan, role |-> role])

\* Both kinds of account deletion leave every group.
AskDelete(r, a) ==
    /\ a \in active
    /\ Reads(r, [op |-> "delete", who |-> a, seen |-> chan])

----------------------------------------------------------------------------
(* What a commit makes of the channel: no outcome when it raises. *)

\* An UPDATE finds the row that was read, or none is sent: it had that role.
Writable(c, s, a, role) == Role(s, a) = role \/ c.seat[a].id = s.seat[a].id

\* Any admin, else whoever joined first.
Successors(s, a) ==
    LET rest == In(s) \ {a}
        admins == {m \in rest : Role(s, m) = "admin"}
    IN  IF admins # {} THEN admins
        ELSE {m \in rest : \A n \in rest : s.seat[m].id <= s.seat[n].id}

MutHanded(c, s, w) ==
    IF Role(s, w) = "owner" THEN c ELSE [c EXCEPT !.seat[w].role = "owner"]
\* The successor's row, and the channel's column.
Handed(c, s, w) ==
    [c EXCEPT !.seat[w].role = IF Role(s, w) = "owner" THEN @ ELSE "owner",
              !.heir = IF s.heir = w THEN @ ELSE w]

\* succeed_group_owner.  A member who was not read keeps the channel from being deleted.
Succeeded(c, s, a) ==
    IF In(s) \subseteq {a}
    THEN {x \in {Gone} : \A m \in In(c) \ {a} : c.seat[m].id = s.seat[m].id}
    ELSE {Handed(c, s, w) : w \in {m \in Successors(s, a) :
            Writable(c, s, m, "owner") /\ (c.alive \/ s.heir = m)}}

Left(c, a) == [c EXCEPT !.seat[a] = NoSeat]

\* A member goes; an owner hands the group over or ends it.
Departed(c, s, a) ==
    IF Role(s, a) = "owner" THEN {Left(x, a) : x \in Succeeded(c, s, a)} ELSE {Left(c, a)}

\* A channel whose column still names the departed is handed over again, by the
\* members as they were first loaded.
Adopted(c, s, a) ==
    IF c.heir # a THEN {c} ELSE Succeeded(c, IF a \in In(s) THEN s ELSE c, a)

----------------------------------------------------------------------------
Answered(r) == req' = [req EXCEPT ![r] = NoRequest] /\ UNCHANGED <<met, deeds>>

CommitCreate(r) ==
    LET q == req[r]
        n == Cardinality(q.who)
    IN  /\ q.op = "create" /\ next = 0 /\ Answered(r)
        /\ next' = n + 1
        /\ \E id \in [q.who -> 1 .. n] :
            /\ \A a, b \in q.who : a # b => id[a] # id[b]
            /\ chan' = [alive |-> TRUE, heir |-> q.by,
                        seat |-> [a \in Addr |-> IF a \notin q.who THEN NoSeat
                            ELSE [id |-> id[a], role |-> IF a = q.by THEN "owner" ELSE "member"]]]
        /\ UNCHANGED active

\* The unique constraint and the foreign key stop a late insert.
CommitAdd(r) ==
    /\ req[r].op = "add" /\ chan.alive /\ req[r].who \notin In(chan) /\ Answered(r)
    /\ chan' = [chan EXCEPT !.seat[req[r].who] = [id |-> next, role |-> "member"]]
    /\ next' = next + 1
    /\ UNCHANGED active

CommitRemove(r) ==
    /\ req[r].op = "remove" /\ Answered(r)
    /\ chan' \in Departed(chan, req[r].seen, req[r].who)
    /\ UNCHANGED <<active, next>>

MutCommitRole(r) ==
    LET q == req[r]
    IN  /\ q.op = "role" /\ Answered(r)
        /\ chan' = [chan EXCEPT !.seat[q.who] = [id |-> q.seen.seat[q.who].id, role |-> q.role]]
        /\ UNCHANGED <<active, next>>
CommitRole(r) ==
    LET q == req[r]
    IN  /\ q.op = "role" /\ Writable(chan, q.seen, q.who, q.role) /\ Answered(r)
        /\ chan' = IF Role(q.seen, q.who) = q.role THEN chan
                   ELSE [chan EXCEPT !.seat[q.who].role = q.role]
        /\ UNCHANGED <<active, next>>

CommitDelete(r) ==
    LET q == req[r]
    IN  /\ q.op = "delete" /\ Answered(r)
        /\ active' = active \ {q.who}
        /\ \E c \in IF q.who \in In(q.seen) THEN Departed(chan, q.seen, q.who) ELSE {chan} :
            chan' \in Adopted(c, q.seen, q.who)
        /\ UNCHANGED next

\* A constraint or a row that is gone fails the commit, or the worker dies.
Abort(r) == req[r] # NoRequest /\ Answered(r) /\ UNCHANGED <<active, chan, next>>

GroupsNext == \E r \in Req :
    \/ \E a \in Addr, who \in SUBSET Addr : AskCreate(r, a, who)
    \/ \E a, t \in Addr : AskAdd(r, a, t) \/ AskRemove(r, a, t)
    \/ \E a, t \in Addr, role \in {"admin", "member"} : AskRole(r, a, t, role)
    \/ \E a \in Addr : AskDelete(r, a)
    \/ CommitCreate(r) \/ CommitAdd(r) \/ CommitRemove(r) \/ CommitRole(r)
    \/ CommitDelete(r) \/ Abort(r)

GroupsSpec == GroupsInit /\ [][GroupsNext]_groupVars

----------------------------------------------------------------------------
(* Properties. *)

Roles == {"none", "member", "admin", "owner"}

GroupsTypeOK ==
    /\ active \subseteq Addr /\ chan.alive \in BOOLEAN /\ chan.heir \in Addr \cup {NoAddr}
    /\ \A a \in Addr : Role(chan, a) \in Roles /\ (Role(chan, a) = "none") = (chan.seat[a].id = 0)
    /\ \A a, b \in In(chan) : a # b => chan.seat[a].id # chan.seat[b].id
    /\ next \in Nat /\ met \in BOOLEAN /\ deeds \in 0 .. MaxDeeds

\* Whoever was removed comes back by an addition only: a change of role or a
\* succession that was decided before writes no membership.
NobodyReturns ==
    [][\A a \in Addr : a \in In(chan)' \ In(chan) =>
            \/ \E r \in Req : req[r].op = "add" /\ req[r].who = a /\ req'[r] = NoRequest
            \/ ~ chan.alive]_groupVars

\* add_member counts the members it read: additions that overlap pass the limit,
\* by no more than one for each of the others.
MembersBounded == Cardinality(In(chan)) < MaxMembers + Cardinality(Req)

\* "They cannot disagree today": while requests do not overlap, a channel has one
\* owner, its column names it, and no deleted identity is left in it.  Overlaps
\* break it (NeverOwnerless).
OwnedUnlessOverlap ==
    chan.alive /\ ~ met =>
        {a \in Addr : Role(chan, a) = "owner"} = {chan.heir} /\ In(chan) \subseteq active

\* What holds of the group at every step.
GroupsInv == GroupsTypeOK /\ MembersBounded /\ OwnedUnlessOverlap

\* "It is never left ownerless" (remove_member).
NeverOwnerless == chan.alive => \E a \in Addr : Role(chan, a) = "owner"
=============================================================================
