----------------------------- MODULE Messenger -----------------------------
(***************************************************************************)
(* One tab of the messenger (frontend/src/context/MessengerContext.jsx     *)
(* with context/messenger/): its sessions, its copies of the directory and *)
(* of a group's members, and the sends, loads and frames that interleave.  *)
(*                                                                         *)
(* A session is a key the tab minted and wrapped for the recipients it     *)
(* knew; it travels in the first message only.  Every await of a handler   *)
(* ends a step, and what a handler captured before (a view, an active      *)
(* session) is used as it was captured.                                    *)
(***************************************************************************)
EXTENDS Naturals, Sequences, FiniteSets, SequencesExt

CONSTANTS
    Peer,        \* the other users
    Dms,         \* the peers with a direct conversation
    Grp,         \* the group channel
    None,        \* no conversation, nothing pinned, no answer
    MaxKey,      \* bound: how often a peer replaces its encryption key
    MaxSeq,      \* SESSION_MAX_MESSAGES
    MaxDeeds     \* bound: conversations opened, sends, and what the peers do

MessengerConstants ==
    /\ IsFiniteSet(Peer) /\ Dms \subseteq Peer
    /\ Grp \notin Peer /\ None \notin Peer \cup {Grp} /\ "me" \notin Peer
    /\ MaxKey \in Nat /\ MaxSeq \in Nat \ {0}
    /\ MaxDeeds \in Nat

VARIABLES
    members,   \* server: the group's members besides this user
    key,       \* server: each peer's published encryption key
    log,       \* server: the messages of every conversation
    wire,      \* frames on this tab's socket
    slot,      \* activeConversation and activeGroupConversation
    row,       \* sidebar rows: what each conversation's members look like
    loads,     \* loadConversation / loadGroupConversation in progress
    fetches,   \* fetchGroupConversations in progress
    dir,       \* usePartnerDirectory: the cache and the requests in flight
    pin,       \* trustedKeys' STORE_KEY
    sess,      \* every session this tab minted
    active,    \* activeSessionIds
    send,      \* the send in progress; the form is disabled meanwhile
    op,        \* the group operation of this user in progress
    left,      \* bound: deeds left
    seen       \* history: keys accepted, rotations and additions heard

server == <<members, key, log>>
trust == <<dir, pin>>
sessions == <<sess, active>>
views == <<slot, row, loads, fetches>>
F == INSTANCE Freshness WITH MaxSkew <- 0

vars == <<server, wire, views, trust, sessions, send, op, left, seen>>

Key == 0..MaxKey
Conv == Dms \cup {Grp}
Slot(c) == IF c = Grp THEN "group" ELSE "dm"

\* A user object: its encryption key, and whether the attestation of that key
\* came with it.  A view is who a conversation is with, as some copy has it.
Full(k) == [k |-> k, att |-> TRUE]
Bare(k) == [k |-> k, att |-> FALSE]
NoView == [p \in {} |-> Full(0)]
NoRow == [p \in {None} |-> Bare(0)]     \* the sidebar does not list it
Without(v, p) == Restrict(v, DOMAIN v \ {p})
Only(p, u) == [q \in {p} |-> u]
\* What the view has of p stays.
With(v, p, u) == [q \in DOMAIN v \cup {p} |-> IF q \in DOMAIN v THEN v[q] ELSE u]

\* What the server answers about a conversation.
Served(c) == [p \in (IF c = Grp THEN members ELSE {c}) |-> Full(key[p])]

Closed == [conv |-> None, view |-> NoView, shown |-> <<>>]
Opened(c, v, ids) == [conv |-> c, view |-> v, shown |-> ids]
Idle == [pc |-> "idle"]

\* The conversation whose screen is up: the group wins when both are set.
OnScreen == IF slot["group"].conv # None THEN Grp ELSE slot["dm"].conv

Wrapped(s) == sess[s].wraps
WrappedPeers(s) == {w[1] : w \in Wrapped(s)}

\* A message joins a screen unless the screen has it.
Show(ids, m) == IF Contains(ids, m) THEN ids ELSE Append(ids, m)
\* The messages of a conversation, in the order they were stored.
IdsOf(c) ==
    LET ids == {i \in 1..Len(log) : log[i].conv = c}
    IN  CHOOSE f \in [1..Cardinality(ids) -> ids] : \A m, n \in DOMAIN f : m < n => f[m] < f[n]

Frame(kind, p, k, m) == [kind |-> kind, p |-> p, k |-> k, m |-> m]

\* Whoever some copy, some answer or some frame still counts as a member.
Named ==
    UNION ({members, DOMAIN row[Grp], DOMAIN slot["group"].view}
           \cup {DOMAIN l.view : l \in {x \in loads : x.conv = Grp}}
           \cup {DOMAIN v : v \in fetches}
           \cup {{f.p} : f \in {x \in ToSet(wire) : x.kind = "added"}}
           \cup {IF op.pc = "idle" THEN {} ELSE {op.p}})

Deed == left > 0 /\ left' = left - 1

----------------------------------------------------------------------------
Init ==
    /\ members \in SUBSET Peer
    /\ key = [p \in Peer |-> 0]
    /\ log = <<>>
    /\ wire = <<>>
    /\ slot = [s \in {"dm", "group"} |->
                 IF s = "group" THEN Opened(Grp, Served(Grp), <<>>) ELSE Closed]
    /\ \E known \in SUBSET Dms :
         row = [c \in Conv |-> IF c = Grp \/ c \in known THEN Served(c) ELSE NoRow]
    /\ loads = {}
    /\ fetches = {}
    /\ dir = [cache |-> [p \in Peer |-> None], asked |-> [p \in Peer |-> None]]
    /\ \E pins \in {None, 0} : pin = [p \in Peer |-> pins]     \* a new device, or not
    /\ sess = <<>>
    /\ active = [c \in Conv |-> 0]
    /\ send = Idle
    /\ op = Idle
    /\ left = MaxDeeds
    /\ seen = [accepted |-> {<<p, pin[p]>> : p \in Peer}, rotated |-> key, added |-> {}, failed |-> {}]

----------------------------------------------------------------------------
(* The directory. *)

\* applyPartner: the record reaches the sidebar row and the open chat.
ApplyPartner(p, k) ==
    /\ row' = IF p \in Dms /\ row[p] # NoRow
              THEN [row EXCEPT ![p] = Only(p, Full(k))] ELSE row
    /\ slot' = IF slot["dm"].conv = p
               THEN [slot EXCEPT !["dm"].view = Only(p, Full(k))] ELSE slot

\* resolvePartner: a cached record, the request in flight, or a new request.
Resolve(d, p) ==
    IF d.cache[p] # None \/ d.asked[p] # None THEN d
    ELSE [d EXCEPT !.asked[p] = key[p]]

\* The answer, as the server had it when asked or has it now.
DirectoryAnswers(p) ==
    /\ dir.asked[p] # None
    /\ \E k \in {dir.asked[p], key[p]} :
         /\ dir' = [cache |-> [dir.cache EXCEPT ![p] = k],
                    asked |-> [dir.asked EXCEPT ![p] = None]]
         /\ ApplyPartner(p, k)
    /\ UNCHANGED <<server, wire, loads, fetches, pin, sessions, send, op, left, seen>>

DirectoryFails(p) ==
    /\ dir.asked[p] # None
    /\ dir' = [dir EXCEPT !.asked[p] = None]
    /\ UNCHANGED <<server, wire, views, pin, sessions, send, op, left, seen>>

----------------------------------------------------------------------------
(* Opening a conversation. *)

\* The sidebar or the new-chat search; the other panel is closed.  A row that a
\* live message made has no key, and the directory is asked before it opens.
OpenConv(c) ==
    LET v == IF row[c] = NoRow THEN Served(c) ELSE row[c]
        keyless == c # Grp /\ v = NoView
        pc == IF keyless THEN "user" ELSE IF c = Grp THEN "channel" ELSE "history"
    IN  /\ Deed
        /\ loads' = loads \cup {[pc |-> pc, conv |-> c, view |-> v, msgs |-> <<>>]}
        /\ slot' = [s \in {"dm", "group"} |->
                      IF s # Slot(c) THEN Closed
                      ELSE IF keyless THEN slot[s] ELSE Opened(c, v, <<>>)]
        /\ UNCHANGED <<server, wire, row, fetches, trust, sessions, send, op, seen>>

Reload(l, pc, v, ids) ==
    loads' = (loads \ {l}) \cup {[pc |-> pc, conv |-> l.conv, view |-> v, msgs |-> ids]}

\* The record of a keyless partner; a failure opens the chat without a key.
LoadUser(l) ==
    /\ l.pc = "user"
    /\ \E ok \in BOOLEAN :
         LET v == IF ok THEN Served(l.conv) ELSE NoView
         IN  /\ Reload(l, "history", v, <<>>)
             /\ row' = IF ok THEN [row EXCEPT ![l.conv] = v] ELSE row
             /\ slot' = [slot EXCEPT !["dm"] = Opened(l.conv, v, <<>>)]
    /\ UNCHANGED <<server, wire, fetches, trust, sessions, send, op, left, seen>>

\* The full channel; a failure keeps the row's copy.
LoadChannel(l) ==
    /\ l.pc = "channel"
    /\ \E v \in {Served(Grp), l.view} : Reload(l, "history", v, <<>>)
    /\ UNCHANGED <<server, wire, slot, row, fetches, trust, sessions, send, op, left, seen>>

LoadHistory(l) ==
    /\ l.pc = "history"
    /\ Reload(l, "answer", l.view, IdsOf(l.conv))
    /\ UNCHANGED <<server, wire, slot, row, fetches, trust, sessions, send, op, left, seen>>

\* The screen is replaced, whatever it shows by now and whoever it is with.
LoadAnswer(l) ==
    /\ l.pc = "answer"
    /\ loads' = loads \ {l}
    /\ slot' = [slot EXCEPT ![Slot(l.conv)] = Opened(l.conv, l.view, l.msgs)]
    /\ UNCHANGED <<server, wire, row, fetches, trust, sessions, send, op, left, seen>>

LoadFails(l) ==
    /\ l.pc \in {"history", "answer"}
    /\ loads' = loads \ {l}
    /\ UNCHANGED <<server, wire, slot, row, fetches, trust, sessions, send, op, left, seen>>

\* Back, or the messenger is left.
Back ==
    /\ OnScreen # None
    /\ slot' = [s \in {"dm", "group"} |-> Closed]
    /\ UNCHANGED <<server, wire, row, loads, fetches, trust, sessions, send, op, left, seen>>

\* fetchGroupConversations answers: the list as it was when asked, or is now.
FetchAnswers(v) ==
    /\ v \in fetches
    /\ fetches' = fetches \ {v}
    /\ \E w \in {v, Served(Grp)} : row' = [row EXCEPT ![Grp] = w]
    /\ UNCHANGED <<server, wire, slot, loads, trust, sessions, send, op, left, seen>>

FetchFails(v) ==
    /\ v \in fetches
    /\ fetches' = fetches \ {v}
    /\ UNCHANGED <<server, wire, slot, row, loads, trust, sessions, send, op, left, seen>>

----------------------------------------------------------------------------
(* Frames.  A handler of a message awaits before it touches the screen, so  *)
(* later frames may overtake it; the others act as they arrive.             *)

Arrived == {i \in 1..Len(wire) : \A j \in 1..(i - 1) : wire[j].kind = "message"}

Consume(i) == wire' = RemoveAt(wire, i)

\* NEW_MESSAGE: an unknown partner gets a row without a key, and the directory is
\* asked for the name.
HearDirect(i) ==
    LET c == log[wire[i].m].conv
        cached == dir.cache[c]
        listed == IF row[c] = NoRow THEN [row EXCEPT ![c] = NoView] ELSE row
        screen == IF slot["dm"].conv = c
                  THEN [slot EXCEPT !["dm"].shown = Show(@, wire[i].m)] ELSE slot
    IN  /\ wire[i].kind = "message" /\ c # Grp
        /\ Consume(i)
        /\ row' = IF cached = None THEN listed ELSE [listed EXCEPT ![c] = Only(c, Full(cached))]
        /\ slot' = IF cached = None \/ slot["dm"].conv # c THEN screen
                   ELSE [screen EXCEPT !["dm"].view = Only(c, Full(cached))]
        /\ dir' = Resolve(dir, c)
        /\ UNCHANGED <<server, loads, fetches, pin, sessions, send, op, left, seen>>

\* NEW_GROUP_MESSAGE.
HearGroup(i) ==
    /\ wire[i].kind = "message" /\ log[wire[i].m].conv = Grp
    /\ Consume(i)
    /\ slot' = IF slot["group"].conv = Grp
               THEN [slot EXCEPT !["group"].shown = Show(@, wire[i].m)] ELSE slot
    /\ UNCHANGED <<server, row, loads, fetches, trust, sessions, send, op, left, seen>>

\* KEY_ROTATED: the cached record is dropped and the directory asked, unless a
\* request is in flight.  The groups are refetched if a row of theirs has a
\* `members` that names the peer; rows keep their members under `channel`, so
\* none does.
HearRotated(i) ==
    LET p == wire[i].p
    IN  /\ wire[i].kind = "rotated"
        /\ Consume(i)
        /\ dir' = Resolve([dir EXCEPT !.cache[p] = None], p)
        /\ seen' = [seen EXCEPT !.rotated[p] = wire[i].k]
        /\ UNCHANGED <<server, views, pin, sessions, send, op, left>>

\* GROUP_MEMBER_ADDED: the member joins an open group's view as the frame
\* describes it, which is without the attestation of its key.
HearAdded(i) ==
    LET p == wire[i].p
    IN  /\ wire[i].kind = "added"
        /\ Consume(i)
        /\ fetches' = fetches \cup {Served(Grp)}
        /\ active' = [active EXCEPT ![Grp] = 0]
        /\ slot' = IF slot["group"].conv = Grp
                   THEN [slot EXCEPT !["group"].view = With(@, p, Bare(wire[i].k))]
                   ELSE slot
        /\ seen' = [seen EXCEPT !.added = @ \cup {p}]
        /\ UNCHANGED <<server, row, loads, trust, sess, send, op, left>>

\* GROUP_MEMBER_REMOVED, of somebody else.
HearRemoved(i) ==
    LET p == wire[i].p
    IN  /\ wire[i].kind = "removed"
        /\ Consume(i)
        /\ fetches' = fetches \cup {Served(Grp)}
        /\ active' = [active EXCEPT ![Grp] = 0]
        /\ slot' = [slot EXCEPT !["group"].view = Without(@, p)]
        /\ seen' = [seen EXCEPT !.added = @ \ {p}]
        /\ UNCHANGED <<server, row, loads, trust, sess, send, op, left>>

\* The socket drops: what was on its way is lost, and a reconnect asks for nothing.
SocketDrops ==
    /\ wire # <<>>
    /\ wire' = <<>>
    /\ UNCHANGED <<server, views, trust, sessions, send, op, left, seen>>

----------------------------------------------------------------------------
(* Sending. *)

\* The form is submitted: the conversation on screen, its view and the active
\* session are captured.
Submit ==
    LET c == OnScreen
    IN  /\ send.pc = "idle" /\ Deed
        /\ c # None
        /\ send' = [pc |-> "gate", conv |-> c, view |-> slot[Slot(c)].view, sid |-> active[c],
                    keys |-> FALSE, seq |-> 0, safe |-> {}, id |-> 0,
                    strangers |-> Peer \ (IF c = Grp THEN Named ELSE {c}),
                    rotated |-> seen.rotated, added |-> seen.added]
        /\ UNCHANGED <<server, wire, views, trust, sessions, op, seen>>

\* pinContactKey: the first key seen is pinned.
Unchanged(p, k) == pin[p] \in {None, k}

\* The recipients whose key is attested and is the pinned one.
Safe(v) == {<<p, v[p].k>> : p \in {q \in DOMAIN v : v[q].att /\ Unchanged(q, v[q].k)}}

MutUsable(s, safe) ==
    s # 0 /\ sess[s].alive /\ sess[s].next < MaxSeq
\* The captured session may go on if it is not used up, and wrapped for
\* exactly these recipients under these keys.
Usable(s, safe) ==
    /\ s # 0 /\ sess[s].alive
    /\ sess[s].next < MaxSeq
    /\ Wrapped(s) = safe

\* What either gate pins on the way.
Pinning(v) ==
    LET new == {p \in DOMAIN v : v[p].att /\ pin[p] = None}
    IN  /\ pin' = [p \in Peer |-> IF p \in new THEN v[p].k ELSE pin[p]]
        /\ seen' = [seen EXCEPT !.accepted = @ \cup {<<p, v[p].k>> : p \in new}]

\* Past the gate: the next position of the captured session, or a new one (the
\* captured one may also be older than SESSION_MAX_AGE_MS).
Proceed(safe) ==
    \/ /\ Usable(send.sid, safe)
       /\ send' = [send EXCEPT !.pc = "post", !.seq = sess[send.sid].next]
       /\ sess' = [sess EXCEPT ![send.sid].next = @ + 1]
    \/ /\ send' = [send EXCEPT !.pc = "mint", !.safe = safe]
       /\ UNCHANGED sess

\* assertSafeRecipient and assertKeyUnchanged refuse the whole message.
GateDirect ==
    /\ send.pc = "gate" /\ send.conv # Grp
    /\ Pinning(send.view)
    /\ IF Safe(send.view) # {} THEN Proceed(Safe(send.view))
       ELSE send' = Idle /\ UNCHANGED sess
    /\ UNCHANGED <<server, wire, views, dir, active, op, left>>

\* gateGroupMembers leaves members out.
GateGroup ==
    /\ send.pc = "gate" /\ send.conv = Grp
    /\ Pinning(send.view)
    /\ Proceed(Safe(send.view))
    /\ UNCHANGED <<server, wire, views, dir, active, op, left>>

MutMint ==
    /\ send.pc = "mint"
    /\ sess' = Append(sess, [conv |-> send.conv, wraps |-> send.safe, next |-> 0,
                             alive |-> TRUE])
    /\ active' = [active EXCEPT ![send.conv] = Len(sess')]
    /\ send' = [send EXCEPT !.pc = "post", !.sid = Len(sess'), !.keys = TRUE, !.seq = 0]
    /\ UNCHANGED <<server, wire, views, trust, op, left, seen>>
\* A session is minted and wrapped, then becomes the active one; its first
\* message takes position 0.
Mint ==
    /\ send.pc = "mint"
    /\ sess' = Append(sess, [conv |-> send.conv, wraps |-> send.safe, next |-> 1,
                             alive |-> TRUE])
    /\ active' = [active EXCEPT ![send.conv] = Len(sess')]
    /\ send' = [send EXCEPT !.pc = "post", !.sid = Len(sess'), !.keys = TRUE, !.seq = 0]
    /\ UNCHANGED <<server, wire, views, trust, op, left, seen>>

\* The server stores the message and echoes it to every socket of the sender.
PostStored ==
    /\ send.pc = "post"
    /\ log' = Append(log, [conv |-> send.conv, by |-> "me", sid |-> send.sid, seq |-> send.seq,
                           keys |-> send.keys, strangers |-> send.strangers,
                           rotated |-> send.rotated, added |-> send.added])
    /\ send' = [send EXCEPT !.pc = "answer", !.id = Len(log')]
    /\ wire' = Append(wire, Frame("message", None, 0, Len(log')))
    /\ UNCHANGED <<members, key, views, trust, sessions, op, left, seen>>

MutPostFails ==
    /\ send.pc \in {"post", "answer"}
    /\ send' = Idle
    /\ seen' = [seen EXCEPT !.failed = @ \cup {send.sid}]
    /\ UNCHANGED <<server, wire, views, trust, sessions, op, left>>

\* The POST fails, or its answer is lost after it was stored.  A session whose
\* keys were in it is abandoned.
PostFails ==
    /\ send.pc \in {"post", "answer"}
    /\ sess' = [sess EXCEPT ![send.sid].alive = @ /\ ~ send.keys]
    /\ active' = IF send.keys THEN [active EXCEPT ![send.conv] = 0] ELSE active
    /\ send' = Idle
    /\ seen' = [seen EXCEPT !.failed = @ \cup {send.sid}]
    /\ UNCHANGED <<server, wire, views, trust, op, left>>

\* Stored and answered: the message joins whatever conversation of that kind is
\* open by now.
Joins(c, id) ==
    slot' = IF slot[Slot(c)].conv = None THEN slot
            ELSE [slot EXCEPT ![Slot(c)].shown = Show(@, id)]

\* The row takes the recipient as the composer held it.
DirectAnswered ==
    /\ send.pc = "answer" /\ send.conv # Grp
    /\ Joins(send.conv, send.id)
    /\ row' = [row EXCEPT ![send.conv] = send.view]
    /\ send' = Idle
    /\ UNCHANGED <<server, wire, loads, fetches, trust, sessions, op, left, seen>>

GroupAnswered ==
    /\ send.pc = "answer" /\ send.conv = Grp
    /\ Joins(Grp, send.id)
    /\ fetches' = fetches \cup {Served(Grp)}
    /\ send' = Idle
    /\ UNCHANGED <<server, wire, row, loads, trust, sessions, op, left, seen>>

\* KeyTrustPanel: the reader accepts the changed key on screen.
Accept(p) ==
    LET v == IF OnScreen = None THEN NoView ELSE slot[Slot(OnScreen)].view
    IN  /\ p \in DOMAIN v /\ ~ Unchanged(p, v[p].k)
        /\ pin' = [pin EXCEPT ![p] = v[p].k]
        /\ seen' = [seen EXCEPT !.accepted = @ \cup {<<p, v[p].k>>}]
        /\ UNCHANGED <<server, wire, views, dir, sessions, send, op, left>>

----------------------------------------------------------------------------
(* This user changes the open group's members. *)

\* The server applies it and tells every member's sockets, this one too.
AskRemove(p) ==
    /\ op.pc = "idle" /\ Deed
    /\ OnScreen = Grp /\ p \in members /\ p \in DOMAIN slot["group"].view
    /\ members' = members \ {p}
    /\ wire' = Append(wire, Frame("removed", p, 0, 0))
    /\ op' = [pc |-> "remove", p |-> p, u |-> Full(key[p])]
    /\ UNCHANGED <<key, log, views, trust, sessions, send, seen>>

AskAdd(p) ==
    /\ op.pc = "idle" /\ Deed
    /\ OnScreen = Grp /\ p \notin members /\ p \notin DOMAIN slot["group"].view
    /\ members' = members \cup {p}
    /\ wire' = Append(wire, Frame("added", p, key[p], 0))
    /\ op' = [pc |-> "add", p |-> p, u |-> Full(key[p])]
    /\ UNCHANGED <<key, log, views, trust, sessions, send, seen>>

\* The answer: the open group's view is corrected and its session dropped.
OpAnswered ==
    /\ op.pc # "idle"
    /\ active' = [active EXCEPT ![Grp] = 0]
    /\ slot' = IF slot["group"].conv # Grp THEN slot
               ELSE [slot EXCEPT !["group"].view =
                        IF op.pc = "add" THEN With(@, op.p, op.u) ELSE Without(@, op.p)]
    /\ op' = Idle
    /\ UNCHANGED <<server, wire, row, loads, fetches, trust, sess, send, left, seen>>

OpFails ==
    /\ op.pc # "idle"
    /\ op' = Idle
    /\ UNCHANGED <<server, wire, views, trust, sessions, send, left, seen>>

----------------------------------------------------------------------------
(* What the peers and the server do. *)

\* An admin elsewhere changes the group.
PeerAdds(p) ==
    /\ Deed /\ p \notin members
    /\ members' = members \cup {p}
    /\ wire' = Append(wire, Frame("added", p, key[p], 0))
    /\ UNCHANGED <<key, log, views, trust, sessions, send, op, seen>>

PeerRemoves(p) ==
    /\ Deed /\ p \in members
    /\ members' = members \ {p}
    /\ wire' = Append(wire, Frame("removed", p, 0, 0))
    /\ UNCHANGED <<key, log, views, trust, sessions, send, op, seen>>

\* Partners and co-members hear of a rotation.
PeerRotates(p) ==
    /\ Deed /\ key[p] < MaxKey
    /\ key' = [key EXCEPT ![p] = @ + 1]
    /\ wire' = IF p \in Dms \cup members
               THEN Append(wire, Frame("rotated", p, key'[p], 0)) ELSE wire
    /\ UNCHANGED <<members, log, views, trust, sessions, send, op, seen>>

\* A peer writes under a session of its own.
PeerWrites(p, c) ==
    /\ Deed
    /\ IF c = Grp THEN p \in members ELSE p = c
    /\ log' = Append(log, [conv |-> c, by |-> p, sid |-> 0, seq |-> 0, keys |-> TRUE,
                           strangers |-> {}, rotated |-> key, added |-> {}])
    /\ wire' = Append(wire, Frame("message", None, 0, Len(log')))
    /\ UNCHANGED <<members, key, views, trust, sessions, send, op, seen>>

SendStep ==
    GateDirect \/ GateGroup \/ Mint \/ PostStored \/ PostFails \/ DirectAnswered \/ GroupAnswered

LoadStep(l) ==
    LoadUser(l) \/ LoadChannel(l) \/ LoadHistory(l) \/ LoadAnswer(l) \/ LoadFails(l)

Next ==
    \/ \E c \in Conv : OpenConv(c)
    \/ \E l \in loads : LoadStep(l)
    \/ Back
    \/ \E v \in fetches : FetchAnswers(v) \/ FetchFails(v)
    \/ \E i \in Arrived :
         HearDirect(i) \/ HearGroup(i) \/ HearRotated(i) \/ HearAdded(i) \/ HearRemoved(i)
    \/ SocketDrops
    \/ Submit
    \/ SendStep
    \/ \E p \in Peer :
         \/ DirectoryAnswers(p) \/ DirectoryFails(p)
         \/ Accept(p)
         \/ AskRemove(p) \/ AskAdd(p)
         \/ PeerAdds(p) \/ PeerRemoves(p) \/ PeerRotates(p)
         \/ \E c \in Conv : PeerWrites(p, c)
    \/ OpAnswered
    \/ OpFails

Spec == Init /\ [][Next]_vars

----------------------------------------------------------------------------
(* Properties. *)

IsView(v) == DOMAIN v \subseteq Peer /\ \A p \in DOMAIN v : v[p].k \in Key

TypeOK ==
    /\ members \subseteq Peer /\ key \in [Peer -> Key]
    /\ \A m \in ToSet(log) : m.conv \in Conv /\ m.sid \in 0..Len(sess) /\ m.seq < MaxSeq
    /\ \A s \in {"dm", "group"} : /\ slot[s].conv \in (IF s = "group" THEN {Grp} ELSE Dms) \cup {None}
                                  /\ IsView(slot[s].view)
    /\ \A c \in Conv : (row[c] = NoRow \/ IsView(row[c])) /\ active[c] \in 0..Len(sess)
    /\ \A l \in loads : l.conv \in Conv /\ IsView(l.view)
    /\ \A v \in fetches : IsView(v)
    /\ \A p \in Peer : {dir.cache[p], dir.asked[p], pin[p]} \subseteq Key \cup {None}
    /\ send.pc \in {"idle", "gate", "mint", "post", "answer"}
    /\ op.pc \in {"idle", "add", "remove"}

Mine == {i \in DOMAIN log : log[i].by = "me"}

\* "A session whose FIRST message never reached the server was delivered to
\* nobody": whatever fails or is lost, each stored message has the message that
\* carries its session's keys stored no later than itself.
Readable ==
    \A i \in Mine : \E j \in Mine : j <= i /\ log[j].sid = log[i].sid /\ log[j].keys

\* This tab's messages as a recipient reads them, for freshness.js.
Sent == LET ids == SelectSeq([i \in 1..Len(log) |-> i], LAMBDA i : log[i].by = "me")
        IN  [n \in DOMAIN ids |-> [id |-> ids[n], by |-> log[ids[n]].sid, at |-> ids[n],
                                   ts |-> ids[n], seq |-> log[ids[n]].seq]]

\* An honest server and sender raise no alarm: no position of a session is used
\* twice or stored out of order, and one is missing only where a POST failed.
NoFalseAlarm ==
    LET rows == Sent
        verdicts == F!Assess(F!NothingSeen, rows).verdicts
    IN  \A n \in DOMAIN rows :
          \/ verdicts[n] = "fine"
          \/ verdicts[n] = "gap" /\ rows[n].by \in seen.failed

\* Forward secrecy: once no copy this tab holds, no answer under way and no frame
\* names somebody as a member, no message is sent under a session wrapped for
\* them, though an older send may have put that session back.
ForwardSecret ==
    \A i \in Mine : log[i].strangers \cap WrappedPeers(log[i].sid) = {}

\* A key that is neither the first one seen nor one the reader accepted gets no
\* message, whichever copy of the directory the send was made from (K-05).
OnlyAcceptedKeys ==
    \A i \in Mine : Wrapped(log[i].sid) \subseteq seen.accepted

\* The echo, the answer of the POST and a reload bring the same message: a screen
\* shows it once.
ShownOnce == \A s \in {"dm", "group"} : IsInjective(slot[s].shown)

\* What holds of every send and every screen.
SendsInv == TypeOK /\ Readable /\ OnlyAcceptedKeys /\ ShownOnce

\* KEY_ROTATED "refetch the groups they are in, for the same reason": a group
\* message submitted after it is not sealed to the retired key.  The code does
\* not guarantee it (see the README).
RetiredKeyUnused ==
    \A i \in Mine : \A w \in Wrapped(log[i].sid) :
        log[i].conv = Grp => w[2] >= log[i].rotated[w[1]]

\* "added member: included in the new wrap, so they can read from the next
\* message on".  The code does not guarantee it (see the README).
AddedCanRead ==
    \A i \in Mine : log[i].conv = Grp => log[i].added \subseteq WrappedPeers(log[i].sid)
=============================================================================
