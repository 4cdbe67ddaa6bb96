--------------------------- MODULE MessengerProofs ---------------------------
(***************************************************************************)
(* What a send may reach, whatever loads, frames and answers cross it.     *)
(*                                                                         *)
(* A handler works on what it captured, so the invariant follows a session *)
(* from the gate that chose its recipients to the message that carries its *)
(* keys (SendInv, SessionsInv), and a view from the copy it was taken from *)
(* to the screen and the row it reaches (ScreensInv, RowsInv, LoadsInv).   *)
(***************************************************************************)
EXTENDS Messenger, Reading, FiniteSetTheorems, SequenceTheorems, WellFoundedInduction, TLAPS

Person == [k : Key, att : BOOLEAN]
View == UNION {[S -> Person] : S \in SUBSET Peer}
Wraps == SUBSET (Peer \X Key)
Screen == [conv : Conv \cup {None}, view : View, shown : Seq(Nat)]
Load == [pc : {"user", "channel", "history", "answer"}, conv : Conv, view : View, msgs : Seq(Nat)]
Keyed == [conv : Conv, wraps : Wraps, next : 0 .. MaxSeq, alive : BOOLEAN]
Message ==
    [conv : Conv, by : Peer \cup {"me"}, sid : Nat, seq : 0 .. MaxSeq - 1, keys : BOOLEAN,
     strangers : SUBSET Peer, rotated : [Peer -> Key], added : SUBSET Peer]
Frames == [kind : {"message", "added", "removed", "rotated"}, p : Peer \cup {None}, k : Key, m : Nat]
Draft ==
    [pc : {"gate", "mint", "post", "answer"}, conv : Conv, view : View, sid : Nat, keys : BOOLEAN,
     seq : Nat, safe : Wraps, id : Nat, strangers : SUBSET Peer, rotated : [Peer -> Key],
     added : SUBSET Peer]
Change == [pc : {"add", "remove"}, p : Peer, u : Person]
Directory == [cache : [Peer -> Key \cup {None}], asked : [Peer -> Key \cup {None}]]
Memory ==
    [accepted : SUBSET (Peer \X (Key \cup {None})), rotated : [Peer -> Key], added : SUBSET Peer,
     failed : SUBSET Nat]

\* A copy of who is in a conversation: a direct one has its partner, or nobody yet.
Of(c, v) == v \in View /\ (c # Grp => DOMAIN v \subseteq {c})

DmScreen(x) ==
    /\ x \in Screen /\ IsInjective(x.shown) /\ x.conv \in Dms \cup {None}
    /\ x.conv # None => Of(x.conv, x.view)
GroupScreen(x) == x \in Screen /\ IsInjective(x.shown) /\ x.conv \in {None, Grp}
Loading(l) ==
    /\ l \in Load /\ IsInjective(l.msgs) /\ Of(l.conv, l.view)
    /\ l.pc = "user" => l.conv # Grp
    /\ l.pc = "channel" => l.conv = Grp
Arriving(f) ==
    /\ f \in Frames
    /\ IF f.kind = "message" THEN f.m \in 1 .. Len(log) ELSE f.p \in Peer

ScreensInv == DOMAIN slot = {"dm", "group"} /\ DmScreen(slot["dm"]) /\ GroupScreen(slot["group"])
RowsInv == DOMAIN row = Conv /\ \A c \in Conv : row[c] = NoRow \/ Of(c, row[c])
LoadsInv == (\A l \in loads : Loading(l)) /\ fetches \subseteq View
ViewsInv == ScreensInv /\ RowsInv /\ LoadsInv

TypeInv ==
    /\ members \subseteq Peer /\ key \in [Peer -> Key] /\ log \in Seq(Message)
    /\ wire \in Seq(Frames) /\ \A i \in 1 .. Len(wire) : Arriving(wire[i])
    /\ dir \in Directory /\ pin \in [Peer -> Key \cup {None}] /\ seen \in Memory
    /\ sess \in Seq(Keyed) /\ active \in [Conv -> Nat] /\ \A c \in Conv : active[c] <= Len(sess)
    /\ send \in {Idle} \cup Draft /\ op \in {Idle} \cup Change

\* A stored message brought the keys of session s.
Carried(s) == \E j \in Mine : log[j].sid = s /\ log[j].keys

\* Nobody's position in a wrap is a stranger's.
Apart(w, strangers) == \A x \in w : x[1] \notin strangers

SendInv ==
    /\ send.pc # "idle" => send.sid <= Len(sess) /\ Of(send.conv, send.view)
    /\ send.pc = "gate" => DOMAIN send.view \cap send.strangers = {} /\ ~ send.keys
    /\ send.pc = "mint" => Apart(send.safe, send.strangers) /\ send.safe \subseteq seen.accepted
    /\ send.pc \in {"post", "answer"} =>
        send.sid # 0 /\ Apart(Wrapped(send.sid), send.strangers) /\ send.seq < MaxSeq
    /\ send.pc = "post" => send.keys \/ Carried(send.sid)
    /\ send.pc = "answer" => Carried(send.sid)

\* A session that may go on was delivered, or its first message is being posted.
SessionsInv ==
    \A s \in 1 .. Len(sess) :
        /\ Wrapped(s) \subseteq seen.accepted
        /\ sess[s].alive => Carried(s) \/ (send.pc = "post" /\ send.sid = s /\ send.keys)

LogInv ==
    /\ Readable
    /\ \A i \in 1 .. Len(log) : log[i].sid <= Len(sess)
    /\ \A i \in Mine : log[i].sid # 0 /\ Apart(Wrapped(log[i].sid), log[i].strangers)

PinInv == \A p \in Peer : pin[p] = None \/ <<p, pin[p]>> \in seen.accepted

CoreInv == SendInv /\ SessionsInv /\ LogInv /\ PinInv

Inv == TypeInv /\ ViewsInv /\ CoreInv

----------------------------------------------------------------------------
(* Views. *)

LEMMA ViewIs == ASSUME NEW v PROVE v \in View <=> DOMAIN v \subseteq Peer /\ v \in [DOMAIN v -> Person]
<1>1. ASSUME v \in View PROVE DOMAIN v \subseteq Peer /\ v \in [DOMAIN v -> Person]
    BY <1>1 DEF View
<1>2. ASSUME DOMAIN v \subseteq Peer, v \in [DOMAIN v -> Person] PROVE v \in View
    BY <1>2 DEF View
<1> QED BY <1>1, <1>2

LEMMA KeysTyped == ASSUME MessengerConstants PROVE \A k \in Key : Full(k) \in Person /\ Bare(k) \in Person
BY DEF Person, Full, Bare

LEMMA NoViewOf == \A c : Of(c, NoView)
<1>1. DOMAIN NoView = {} /\ NoView \in [{} -> Person]
    BY DEF NoView
<1> QED BY <1>1, ViewIs DEF Of

LEMMA ServedOf ==
    ASSUME MessengerConstants, TypeInv, NEW c \in Conv PROVE Of(c, Served(c))
<1> DEFINE S == IF c = Grp THEN members ELSE {c}
<1>1. S \subseteq Peer
    BY DEF Conv, MessengerConstants, TypeInv
<1>2. \A p \in S : Full(key[p]) \in Person
    BY <1>1, KeysTyped DEF TypeInv
<1>3. DOMAIN Served(c) = S /\ Served(c) \in [S -> Person]
    BY <1>2 DEF Served
<1> QED BY <1>1, <1>3, ViewIs DEF Of

LEMMA OnlyOf == ASSUME MessengerConstants, NEW p \in Peer, NEW k \in Key PROVE Of(p, Only(p, Full(k)))
<1>1. DOMAIN Only(p, Full(k)) = {p} /\ Only(p, Full(k)) \in [{p} -> Person]
    BY KeysTyped DEF Only
<1> QED BY <1>1, ViewIs DEF Of

LEMMA WithView ==
    ASSUME NEW v \in View, NEW p \in Peer, NEW u \in Person PROVE With(v, p, u) \in View
<1>1. v \in [DOMAIN v -> Person] /\ DOMAIN v \subseteq Peer
    BY ViewIs
<1>2. DOMAIN With(v, p, u) = DOMAIN v \cup {p} /\ With(v, p, u) \in [DOMAIN v \cup {p} -> Person]
    BY <1>1 DEF With
<1> QED BY <1>1, <1>2, ViewIs

LEMMA WithoutView == ASSUME NEW v \in View, NEW p PROVE Without(v, p) \in View
<1>1. v \in [DOMAIN v -> Person] /\ DOMAIN v \subseteq Peer
    BY ViewIs
<1>2. DOMAIN Without(v, p) = DOMAIN v \ {p} /\ Without(v, p) \in [DOMAIN v \ {p} -> Person]
    BY <1>1 DEF Without, Restrict
<1> QED BY <1>1, <1>2, ViewIs

----------------------------------------------------------------------------
(* What a screen shows. *)

\* The least number principle: an induction without a predicate to instantiate.
LEMMA Least == ASSUME NEW T \in SUBSET Nat, T # {} PROVE \E x \in T : \A y \in T : x <= y
<1>1. PICK x \in T : \A y \in T : ~ (<<y, x>> \in OpToRel(<, Nat))
    BY WFMin, NatLessThanWellFounded
<1>2. \A y \in T : ~ (y < x)
    BY <1>1 DEF OpToRel
<1> QED BY <1>2

Enumerates(f, S) ==
    f \in [1 .. Cardinality(S) -> S] /\ \A m, n \in DOMAIN f : m < n => f[m] < f[n]

\* A set of positions can be listed in order.
LEMMA Enumerable == ASSUME NEW n \in Nat, NEW S \in SUBSET (1 .. n) PROVE \E f : Enumerates(f, S)
<1> DEFINE Stuck == {k \in Nat : \E X \in SUBSET (1 .. k) : \A f : ~ Enumerates(f, X)}
<1> SUFFICES Stuck = {}
    OBVIOUS
<1> SUFFICES ASSUME Stuck # {} PROVE FALSE
    OBVIOUS
<1>1. PICK k \in Stuck : \A j \in Stuck : k <= j
    BY Least
<1>2. PICK X \in SUBSET (1 .. k) : \A f : ~ Enumerates(f, X)
    OBVIOUS
<1>3. CASE k = 0
    <2>1. X = {} /\ Cardinality(X) = 0
        <3>1. X = {}
            BY <1>3
        <3> QED BY <3>1, FS_EmptySet
    <2>2. Enumerates([m \in {} |-> m], X)
        BY <2>1 DEF Enumerates
    <2> QED BY <1>2, <2>2
<1>4. CASE k # 0
    <2>1. k - 1 \in Nat /\ k - 1 \notin Stuck
        BY <1>1, <1>4
    <2> DEFINE Y == X \ {k}
    <2>2. Y \in SUBSET (1 .. k - 1)
        BY <2>1
    <2>3. PICK f : Enumerates(f, Y)
        BY <2>1, <2>2
    <2>4. k \in X
        BY <1>2, <2>3
    <2>5. Cardinality(Y) = Cardinality(X) - 1 /\ Cardinality(Y) \in Nat /\ Cardinality(X) \in Nat
        <3>1. IsFiniteSet(1 .. k)
            BY FS_Interval
        <3>2. IsFiniteSet(X) /\ IsFiniteSet(Y)
            BY <3>1, FS_Subset
        <3>3. Cardinality(Y) = Cardinality(X) - 1
            BY <2>4, <3>2, FS_RemoveElement
        <3> QED BY <3>2, <3>3, FS_CardinalityType
    <2> DEFINE c == Cardinality(Y)
               g == [m \in 1 .. c + 1 |-> IF m = c + 1 THEN k ELSE f[m]]
    <2> HIDE DEF c
    <2>6. c \in Nat /\ Cardinality(X) = c + 1 /\ f \in [1 .. c -> Y]
          /\ \A m, n_1 \in 1 .. c : m < n_1 => f[m] < f[n_1]
        <3>1. f \in [1 .. c -> Y] /\ \A m, n_1 \in DOMAIN f : m < n_1 => f[m] < f[n_1]
            BY <2>3 DEF c, Enumerates
        <3>2. DOMAIN f = 1 .. c
            BY <3>1
        <3>3. c \in Nat /\ Cardinality(X) = c + 1
            BY <2>5 DEF c
        <3> QED BY <3>1, <3>2, <3>3
    <2>7. g \in [1 .. c + 1 -> X]
        BY <2>4, <2>6
    <2>8. \A m, n_1 \in 1 .. c + 1 : m < n_1 => g[m] < g[n_1]
        <3>1. \A m \in 1 .. c : f[m] \in 1 .. k - 1
            BY <2>2, <2>6
        <3> QED BY <2>1, <2>6, <3>1
    <2>9. Enumerates(g, X)
        BY <2>6, <2>7, <2>8 DEF Enumerates
    <2> QED BY <1>2, <2>9
<1> QED BY <1>3, <1>4

\* A history lists each message once.
LEMMA Histories ==
    ASSUME TypeInv, NEW c PROVE IdsOf(c) \in Seq(Nat) /\ IsInjective(IdsOf(c))
<1> DEFINE S == {i \in 1 .. Len(log) : log[i].conv = c}
           f == IdsOf(c)
<1>1. Len(log) \in Nat /\ S \in SUBSET (1 .. Len(log))
    BY DEF TypeInv
<1>2. \E g : Enumerates(g, S)
    BY <1>1, Enumerable
<1>3. Enumerates(f, S)
    <2>1. \E g \in [1 .. Cardinality(S) -> S] : \A m, n \in DOMAIN g : m < n => g[m] < g[n]
        BY <1>2 DEF Enumerates
    <2> QED BY <2>1 DEF IdsOf, Enumerates
<1>4. Cardinality(S) \in Nat
    <2>1. IsFiniteSet(1 .. Len(log))
        BY <1>1, FS_Interval
    <2>2. IsFiniteSet(S)
        BY <1>1, <2>1, FS_Subset
    <2> QED BY <2>2, FS_CardinalityType
<1>5. f \in [1 .. Cardinality(S) -> Nat] /\ DOMAIN f = 1 .. Cardinality(S)
    BY <1>1, <1>3 DEF Enumerates
<1> HIDE DEF f, S
<1>6. f \in Seq(Nat)
    BY <1>4, <1>5
<1>7. \A m, n \in DOMAIN f : f[m] = f[n] => m = n
    BY <1>3, <1>4, <1>5 DEF Enumerates
<1> QED BY <1>6, <1>7 DEF IsInjective, f

LEMMA ShowOnce ==
    ASSUME NEW ids \in Seq(Nat), IsInjective(ids), NEW m \in Nat
    PROVE  Show(ids, m) \in Seq(Nat) /\ IsInjective(Show(ids, m))
BY DEF Show, Contains, IsInjective

LEMMA NothingShown == <<>> \in Seq(Nat) /\ IsInjective(<<>>)
BY DEF IsInjective

\* A sequence without one of its elements.
LEMMA Removed ==
    ASSUME NEW S, NEW t \in Seq(S), NEW i \in 1 .. Len(t)
    PROVE  /\ RemoveAt(t, i) \in Seq(S) /\ Len(RemoveAt(t, i)) = Len(t) - 1
           /\ \A j \in 1 .. Len(RemoveAt(t, i)) : \E n \in 1 .. Len(t) : RemoveAt(t, i)[j] = t[n]
<1> DEFINE a == SubSeq(t, 1, i - 1)
           b == SubSeq(t, i + 1, Len(t))
<1>0. Len(t) \in Nat /\ i \in Nat /\ i >= 1 /\ \A n \in 1 .. Len(t) : t[n] \in S
    OBVIOUS
<1>1. a \in Seq(S) /\ Len(a) = i - 1 /\ \A j \in 1 .. i - 1 : a[j] = t[j]
    OBVIOUS
<1>2. b \in Seq(S) /\ Len(b) = Len(t) - i /\ \A j \in 1 .. Len(t) - i : b[j] = t[i + j]
    OBVIOUS
<1>3. RemoveAt(t, i) = a \o b
    BY DEF RemoveAt
<1> HIDE DEF a, b
<1>4. /\ a \o b \in Seq(S) /\ Len(a \o b) = Len(a) + Len(b)
      /\ \A j \in 1 .. Len(a) + Len(b) : (a \o b)[j] = IF j <= Len(a) THEN a[j] ELSE b[j - Len(a)]
    BY <1>1, <1>2, ConcatProperties
<1>5. Len(a) + Len(b) = Len(t) - 1
    BY <1>0, <1>1, <1>2
<1>6. ASSUME NEW j \in 1 .. Len(t) - 1 PROVE \E n \in 1 .. Len(t) : (a \o b)[j] = t[n]
    <2>1. CASE j <= i - 1
        <3>1. (a \o b)[j] = t[j]
            BY <1>0, <1>1, <1>4, <1>5, <2>1
        <3> QED BY <1>0, <3>1
    <2>2. CASE j > i - 1
        <3> DEFINE m == j - (i - 1)
        <3>1. m \in 1 .. Len(t) - i
            BY <1>0, <2>2
        <3>2. (a \o b)[j] = b[m]
            BY <1>0, <1>1, <1>4, <1>5, <2>2
        <3> HIDE DEF m
        <3>3. b[m] = t[i + m] /\ i + m \in 1 .. Len(t)
            BY <1>0, <1>2, <3>1
        <3> QED BY <3>2, <3>3
    <2>3. j <= i - 1 \/ j > i - 1
        BY <1>0
    <2> QED BY <2>1, <2>2, <2>3
<1> QED BY <1>3, <1>4, <1>5, <1>6

\* A frame is taken off the wire.
LEMMA Consumed ==
    ASSUME TypeInv, NEW i \in Arrived, Consume(i), log' = log
    PROVE  /\ wire' \in Seq(Frames) /\ \A j \in 1 .. Len(wire') : Arriving(wire[j])'
           /\ Arriving(wire[i])
<1>1. i \in 1 .. Len(wire) /\ wire \in Seq(Frames) /\ \A j \in 1 .. Len(wire) : Arriving(wire[j])
    BY DEF Arrived, TypeInv
<1>2. wire' \in Seq(Frames) /\ \A j \in 1 .. Len(wire') : \E n \in 1 .. Len(wire) : wire'[j] = wire[n]
    <2>1. /\ RemoveAt(wire, i) \in Seq(Frames)
          /\ \A j \in 1 .. Len(RemoveAt(wire, i)) : \E n \in 1 .. Len(wire) : RemoveAt(wire, i)[j] = wire[n]
        BY <1>1, Removed
    <2> QED BY <2>1 DEF Consume
<1>3. \A j \in 1 .. Len(wire') : Arriving(wire[j])'
    BY <1>1, <1>2 DEF Arriving
<1> QED BY <1>1, <1>2, <1>3

----------------------------------------------------------------------------
(* Screens. *)

LEMMA ClosedScreen == DmScreen(Closed) /\ GroupScreen(Closed)
<1>1. NoView \in View
    BY NoViewOf DEF Of
<1> QED BY <1>1, NothingShown DEF Closed, DmScreen, GroupScreen, Screen

LEMMA OpenedScreen ==
    ASSUME MessengerConstants, NEW c \in Conv, NEW v, Of(c, v), NEW ids \in Seq(Nat), IsInjective(ids)
    PROVE  IF c = Grp THEN GroupScreen(Opened(c, v, ids)) ELSE DmScreen(Opened(c, v, ids))
BY DEF MessengerConstants, Opened, GroupScreen, DmScreen, Screen, Conv, Of

LEMMA ShowsScreen ==
    ASSUME NEW x, NEW m \in Nat
    PROVE  /\ DmScreen(x) => DmScreen([x EXCEPT !.shown = Show(@, m)])
           /\ GroupScreen(x) => GroupScreen([x EXCEPT !.shown = Show(@, m)])
BY ShowOnce DEF DmScreen, GroupScreen, Screen

LEMMA ViewScreen ==
    ASSUME NEW x, NEW v
    PROVE  /\ DmScreen(x) /\ x.conv # None /\ Of(x.conv, v) => DmScreen([x EXCEPT !.view = v])
           /\ GroupScreen(x) /\ v \in View => GroupScreen([x EXCEPT !.view = v])
BY DEF DmScreen, GroupScreen, Screen, Of

\* Only the views change.
LEMMA Elsewhere ==
    ASSUME TypeInv, CoreInv, UNCHANGED <<server, wire, trust, sessions, send, op, seen>>
    PROVE  TypeInv' /\ CoreInv'
<1>1. UNCHANGED <<members, key, log, wire, dir, pin, sess, active, send, op, seen>>
    BY DEF server, trust, sessions
<1>2. TypeInv'
    BY <1>1 DEF TypeInv, Arriving
<1>3. CoreInv'
    BY <1>1 DEF CoreInv, SendInv, SessionsInv, LogInv, PinInv, Readable, Mine, Carried, Apart, Wrapped
<1> QED BY <1>2, <1>3

\* What a send and the sessions stand on does not change.
LEMMA Quiet ==
    ASSUME CoreInv, UNCHANGED <<log, sess, send, pin>>, seen'.accepted = seen.accepted
    PROVE  CoreInv'
BY DEF CoreInv, SendInv, SessionsInv, LogInv, PinInv, Readable, Mine, Carried, Apart, Wrapped

----------------------------------------------------------------------------
(* Opening and loading. *)

LEMMA OpenConvViews ==
    ASSUME MessengerConstants, TypeInv, ViewsInv, NEW c \in Conv, OpenConv(c) PROVE ViewsInv'
<1> DEFINE v == IF row[c] = NoRow THEN Served(c) ELSE row[c]
           keyless == c # Grp /\ v = NoView
           pc == IF keyless THEN "user" ELSE IF c = Grp THEN "channel" ELSE "history"
           l == [pc |-> pc, conv |-> c, view |-> v, msgs |-> <<>>]
<1>1. Of(c, v)
    BY ServedOf DEF ViewsInv, RowsInv
<1>2. /\ loads' = loads \cup {l} /\ UNCHANGED <<row, fetches>>
      /\ slot' = [s \in {"dm", "group"} |->
                    IF s # Slot(c) THEN Closed
                    ELSE IF keyless THEN slot[s] ELSE Opened(c, v, <<>>)]
    BY DEF OpenConv
<1> HIDE DEF v
<1>3. Loading(l)
    <2>1. l.pc \in {"user", "channel", "history"} /\ (l.pc = "user" => c # Grp) /\ (l.pc = "channel" => c = Grp)
        OBVIOUS
    <2>2. l \in Load
        BY <1>1, NothingShown DEF Load, Of
    <2> QED BY <1>1, <2>1, <2>2, NothingShown DEF Loading
<1>4. LoadsInv'
    BY <1>2, <1>3 DEF ViewsInv, LoadsInv
<1>5. RowsInv'
    BY <1>2 DEF ViewsInv, RowsInv
<1>6. ScreensInv'
    <2>1. IF c = Grp THEN GroupScreen(Opened(c, v, <<>>)) ELSE DmScreen(Opened(c, v, <<>>))
        BY <1>1, NothingShown, OpenedScreen
    <2>2. DOMAIN slot' = {"dm", "group"}
        BY <1>2
    <2>3. DmScreen(slot'["dm"])
        BY <1>2, <2>1, ClosedScreen DEF Slot, ViewsInv, ScreensInv
    <2>4. GroupScreen(slot'["group"])
        BY <1>2, <2>1, ClosedScreen DEF Slot, ViewsInv, ScreensInv
    <2> QED BY <2>2, <2>3, <2>4 DEF ScreensInv
<1> QED BY <1>4, <1>5, <1>6 DEF ViewsInv

\* A load goes on with the view of the same conversation.
LEMMA ReloadLoads ==
    ASSUME ViewsInv, NEW l \in loads, NEW pc \in {"history", "answer"}, NEW v, Of(l.conv, v),
           NEW ids \in Seq(Nat), IsInjective(ids), Reload(l, pc, v, ids), UNCHANGED fetches
    PROVE  LoadsInv'
<1> DEFINE m == [pc |-> pc, conv |-> l.conv, view |-> v, msgs |-> ids]
<1>1. l.conv \in Conv
    BY DEF ViewsInv, LoadsInv, Loading, Load
<1>2. Loading(m)
    BY <1>1 DEF Loading, Load, Of
<1>3. loads' = (loads \ {l}) \cup {m}
    BY DEF Reload
<1> HIDE DEF m
<1> QED BY <1>2, <1>3 DEF ViewsInv, LoadsInv

LEMMA LoadStepViews ==
    ASSUME MessengerConstants, TypeInv, ViewsInv, NEW l \in loads, LoadStep(l) PROVE ViewsInv'
<1>1. Loading(l) /\ l.conv \in Conv /\ Of(l.conv, l.view) /\ l.msgs \in Seq(Nat) /\ IsInjective(l.msgs)
    BY DEF ViewsInv, LoadsInv, Loading, Load
<1>2. CASE LoadUser(l)
    <2>1. l.conv # Grp
        BY <1>1, <1>2 DEF Loading, LoadUser
    <2>2. PICK v : /\ Of(l.conv, v) /\ Reload(l, "history", v, <<>>) /\ UNCHANGED fetches
                   /\ row' \in {[row EXCEPT ![l.conv] = v], row}
                   /\ slot' = [slot EXCEPT !["dm"] = Opened(l.conv, v, <<>>)]
        BY <1>1, <1>2, ServedOf, NoViewOf DEF LoadUser
    <2>3. LoadsInv'
        BY <2>2, NothingShown, ReloadLoads
    <2>4. RowsInv'
        BY <2>2 DEF ViewsInv, RowsInv
    <2>5. DmScreen(Opened(l.conv, v, <<>>))
        BY <1>1, <2>1, <2>2, NothingShown, OpenedScreen
    <2>6. ScreensInv'
        BY <2>2, <2>5 DEF ViewsInv, ScreensInv
    <2> QED BY <2>3, <2>4, <2>6 DEF ViewsInv
<1>3. CASE LoadChannel(l)
    <2>1. l.conv = Grp
        BY <1>1, <1>3 DEF Loading, LoadChannel
    <2>2. PICK v : Of(l.conv, v) /\ Reload(l, "history", v, <<>>) /\ UNCHANGED <<slot, row, fetches>>
        BY <1>1, <1>3, <2>1, ServedOf DEF LoadChannel
    <2>3. LoadsInv'
        BY <2>2, NothingShown, ReloadLoads
    <2> QED BY <2>2, <2>3 DEF ViewsInv, RowsInv, ScreensInv
<1>4. CASE LoadHistory(l)
    <2>1. Reload(l, "answer", l.view, IdsOf(l.conv)) /\ UNCHANGED <<slot, row, fetches>>
        BY <1>4 DEF LoadHistory
    <2>2. LoadsInv'
        BY <1>1, <2>1, Histories, ReloadLoads
    <2> QED BY <2>1, <2>2 DEF ViewsInv, RowsInv, ScreensInv
<1>5. CASE LoadAnswer(l)
    <2>1. /\ loads' = loads \ {l} /\ UNCHANGED <<row, fetches>>
          /\ slot' = [slot EXCEPT ![Slot(l.conv)] = Opened(l.conv, l.view, l.msgs)]
        BY <1>5 DEF LoadAnswer
    <2>2. IF l.conv = Grp THEN GroupScreen(Opened(l.conv, l.view, l.msgs))
                          ELSE DmScreen(Opened(l.conv, l.view, l.msgs))
        BY <1>1, OpenedScreen
    <2>3. ScreensInv'
        BY <2>1, <2>2 DEF Slot, ViewsInv, ScreensInv
    <2> QED BY <2>1, <2>3 DEF ViewsInv, RowsInv, LoadsInv
<1>6. CASE LoadFails(l)
    BY <1>6 DEF LoadFails, ViewsInv, ScreensInv, RowsInv, LoadsInv
<1> QED BY <1>2, <1>3, <1>4, <1>5, <1>6 DEF LoadStep

LEMMA BackViews == ASSUME ViewsInv, Back PROVE ViewsInv'
<1>1. slot' = [s \in {"dm", "group"} |-> Closed] /\ UNCHANGED <<row, loads, fetches>>
    BY DEF Back
<1>2. ScreensInv'
    BY <1>1, ClosedScreen DEF ScreensInv
<1> QED BY <1>1, <1>2 DEF ViewsInv, RowsInv, LoadsInv

LEMMA FetchViews ==
    ASSUME MessengerConstants, TypeInv, ViewsInv, NEW v \in fetches, FetchAnswers(v) \/ FetchFails(v)
    PROVE  ViewsInv'
<1>1. v \in View
    BY DEF ViewsInv, LoadsInv
<1>2. CASE FetchAnswers(v)
    <2>1. PICK w \in {v, Served(Grp)} : row' = [row EXCEPT ![Grp] = w]
        BY <1>2 DEF FetchAnswers
    <2>2. Of(Grp, w)
        BY <1>1, <2>1, ServedOf DEF Conv, Of
    <2>3. UNCHANGED <<slot, loads>> /\ fetches' = fetches \ {v}
        BY <1>2 DEF FetchAnswers
    <2> QED BY <2>1, <2>2, <2>3 DEF ViewsInv, ScreensInv, RowsInv, LoadsInv
<1>3. CASE FetchFails(v)
    BY <1>3 DEF FetchFails, ViewsInv, ScreensInv, RowsInv, LoadsInv
<1> QED BY <1>2, <1>3

----------------------------------------------------------------------------
(* The directory and the frames. *)

LEMMA Asked ==
    ASSUME MessengerConstants, NEW d \in Directory, NEW p \in Peer, NEW k \in Key \cup {None}
    PROVE  /\ [d EXCEPT !.asked[p] = k] \in Directory
           /\ [d EXCEPT !.cache[p] = k] \in Directory
<1>1. d.asked \in [Peer -> Key \cup {None}] /\ d.cache \in [Peer -> Key \cup {None}]
    BY DEF Directory
<1>2. [d.asked EXCEPT ![p] = k] \in [Peer -> Key \cup {None}]
    BY <1>1
<1>3. [d.cache EXCEPT ![p] = k] \in [Peer -> Key \cup {None}]
    BY <1>1
<1> QED BY <1>1, <1>2, <1>3 DEF Directory

LEMMA Resolved ==
    ASSUME MessengerConstants, key \in [Peer -> Key], NEW d \in Directory, NEW p \in Peer
    PROVE  Resolve(d, p) \in Directory
<1>1. key[p] \in Key \cup {None}
    OBVIOUS
<1> QED BY <1>1, Asked DEF Resolve

\* The row and the open chat of a partner take its record.
LEMMA Applied ==
    ASSUME MessengerConstants, ViewsInv, NEW p \in Peer, NEW k \in Key, ApplyPartner(p, k),
           UNCHANGED <<loads, fetches>>
    PROVE  ViewsInv'
<1> DEFINE v == Only(p, Full(k))
<1>1. Of(p, v)
    BY OnlyOf
<1>2. /\ row' = IF p \in Dms /\ row[p] # NoRow THEN [row EXCEPT ![p] = v] ELSE row
      /\ slot' = IF slot["dm"].conv = p THEN [slot EXCEPT !["dm"].view = v] ELSE slot
    BY DEF ApplyPartner
<1> HIDE DEF v
<1>3. RowsInv'
    BY <1>1, <1>2 DEF ViewsInv, RowsInv, Conv
<1>4. ScreensInv'
    <2>1. CASE slot["dm"].conv = p
        <3>1. p # None
            BY DEF MessengerConstants
        <3>2. DmScreen([slot["dm"] EXCEPT !.view = v])
            BY <1>1, <2>1, <3>1, ViewScreen DEF ViewsInv, ScreensInv
        <3>3. slot' = [slot EXCEPT !["dm"] = [slot["dm"] EXCEPT !.view = v]]
            BY <1>2, <2>1
        <3> QED BY <3>2, <3>3 DEF ViewsInv, ScreensInv
    <2>2. CASE slot["dm"].conv # p
        BY <1>2, <2>2 DEF ViewsInv, ScreensInv
    <2> QED BY <2>1, <2>2
<1> QED BY <1>3, <1>4 DEF ViewsInv, LoadsInv

LEMMA DirectoryStep ==
    ASSUME MessengerConstants, Inv, NEW p \in Peer, DirectoryAnswers(p) \/ DirectoryFails(p)
    PROVE  Inv'
<1>1. dir \in Directory /\ key \in [Peer -> Key] /\ dir.asked[p] # None /\ dir.asked[p] \in Key \cup {None}
    BY DEF Inv, TypeInv, Directory, DirectoryAnswers, DirectoryFails
<1>2. UNCHANGED <<members, key, log, wire, loads, fetches, pin, sess, active, send, op, seen>>
    BY DEF DirectoryAnswers, DirectoryFails, server, sessions, views
<1>3. dir' \in Directory
    <2>1. CASE DirectoryAnswers(p)
        <3>1. PICK k \in Key : dir' = [cache |-> [dir.cache EXCEPT ![p] = k],
                                       asked |-> [dir.asked EXCEPT ![p] = None]]
            BY <1>1, <2>1 DEF DirectoryAnswers
        <3> QED BY <1>1, <3>1 DEF Directory
    <2>2. CASE DirectoryFails(p)
        BY <1>1, <2>2, Asked DEF DirectoryFails
    <2> QED BY <2>1, <2>2
<1>4. TypeInv'
    BY <1>2, <1>3 DEF Inv, TypeInv, Arriving
<1>5. ViewsInv'
    <2>1. CASE DirectoryAnswers(p)
        <3>1. PICK k \in {dir.asked[p], key[p]} : ApplyPartner(p, k)
            BY <2>1 DEF DirectoryAnswers
        <3> QED BY <1>1, <1>2, <3>1, Applied DEF Inv
    <2>2. CASE DirectoryFails(p)
        BY <1>2, <2>2 DEF DirectoryFails, views, Inv, ViewsInv, ScreensInv, RowsInv, LoadsInv
    <2> QED BY <2>1, <2>2
<1> QED BY <1>2, <1>4, <1>5, Quiet DEF Inv

\* A conversation's session is dropped.
LEMMA Dropped ==
    ASSUME TypeInv, UNCHANGED sess, active' \in {active, [active EXCEPT ![Grp] = 0]}
    PROVE  active' \in [Conv -> Nat] /\ \A c \in Conv : active'[c] <= Len(sess')
<1>1. Len(sess) \in Nat /\ active \in [Conv -> Nat] /\ \A c \in Conv : active[c] <= Len(sess)
    BY DEF TypeInv
<1>2. CASE active' = active
    BY <1>1, <1>2
<1>3. CASE active' = [active EXCEPT ![Grp] = 0]
    <2>1. active' \in [Conv -> Nat] /\ \A c \in Conv : active'[c] = 0 \/ active'[c] = active[c]
        BY <1>1, <1>3
    <2> QED BY <1>1, <2>1
<1> QED BY <1>2, <1>3

\* A step that takes a frame and touches neither the server nor a send.
LEMMA HeardTyped ==
    ASSUME TypeInv, NEW i \in Arrived, Consume(i), UNCHANGED <<server, pin, sess, send, op>>,
           dir' \in Directory, seen' \in Memory, active' \in {active, [active EXCEPT ![Grp] = 0]}
    PROVE  TypeInv'
<1>1. UNCHANGED <<members, key, log, pin, sess, send, op>>
    BY DEF server
<1>2. wire' \in Seq(Frames) /\ \A j \in 1 .. Len(wire') : Arriving(wire[j])'
    BY <1>1, Consumed
<1>3. active' \in [Conv -> Nat] /\ \A c \in Conv : active'[c] <= Len(sess')
    BY Dropped, <1>1
<1> QED BY <1>1, <1>2, <1>3 DEF TypeInv

LEMMA HearDirectStep ==
    ASSUME MessengerConstants, Inv, NEW i \in Arrived, HearDirect(i) PROVE Inv'
<1> DEFINE m == wire[i].m
           c == log[m].conv
           cached == dir.cache[c]
           v == Only(c, Full(cached))
           listed == IF row[c] = NoRow THEN [row EXCEPT ![c] = NoView] ELSE row
           pane == IF slot["dm"].conv = c
                     THEN [slot EXCEPT !["dm"].shown = Show(@, m)] ELSE slot
<1>1. /\ wire[i].kind = "message" /\ c # Grp /\ Consume(i)
      /\ UNCHANGED <<server, loads, fetches, pin, sessions, send, op, left, seen>>
      /\ dir' = Resolve(dir, c)
      /\ row' = IF cached = None THEN listed ELSE [listed EXCEPT ![c] = v]
      /\ slot' = IF cached = None \/ slot["dm"].conv # c THEN pane
                 ELSE [pane EXCEPT !["dm"].view = v]
    BY DEF HearDirect
<1>2. UNCHANGED <<members, key, log, sess, active, pin, send, op, seen>>
    BY <1>1 DEF server, sessions
<1>3. m \in 1 .. Len(log) /\ m \in Nat
    <2>1. Arriving(wire[i]) /\ Len(log) \in Nat
        BY <1>1, <1>2, Consumed DEF Inv, TypeInv
    <2> QED BY <1>1, <2>1 DEF Arriving
<1>4. c \in Dms /\ c \in Peer /\ c \in Conv /\ c # None
    <2>1. log[m] \in Message
        BY <1>3 DEF Inv, TypeInv
    <2>2. c \in Conv
        BY <2>1 DEF Message
    <2> QED BY <1>1, <2>2 DEF Conv, MessengerConstants
<1>5. cached \in Key \cup {None}
    BY <1>4 DEF Inv, TypeInv, Directory
<1>6. cached # None => Of(c, v)
    BY <1>4, <1>5, OnlyOf
<1>7. TypeInv'
    <2>1. dir' \in Directory
        BY <1>1, <1>4, Resolved DEF Inv, TypeInv
    <2> QED BY <1>1, <1>2, <2>1, HeardTyped DEF Inv, TypeInv
<1> HIDE DEF v, c, m, cached
<1>8. RowsInv'
    <2>1. DOMAIN listed = Conv /\ \A d \in Conv : listed[d] = NoRow \/ Of(d, listed[d])
        BY NoViewOf DEF Inv, ViewsInv, RowsInv
    <2> HIDE DEF listed
    <2> QED BY <1>1, <1>6, <2>1 DEF RowsInv
<1>9. ScreensInv'
    <2>1. /\ DOMAIN pane = {"dm", "group"} /\ DmScreen(pane["dm"]) /\ GroupScreen(pane["group"])
          /\ pane["dm"].conv = slot["dm"].conv
        <3>1. DmScreen([slot["dm"] EXCEPT !.shown = Show(@, m)])
            BY <1>3, ShowsScreen DEF Inv, ViewsInv, ScreensInv
        <3>2. [slot EXCEPT !["dm"].shown = Show(@, m)]
              = [slot EXCEPT !["dm"] = [slot["dm"] EXCEPT !.shown = Show(@, m)]]
            OBVIOUS
        <3>3. [slot["dm"] EXCEPT !.shown = Show(@, m)].conv = slot["dm"].conv
            BY DEF Inv, ViewsInv, ScreensInv, DmScreen, Screen
        <3> QED BY <3>1, <3>2, <3>3 DEF Inv, ViewsInv, ScreensInv
    <2> HIDE DEF pane
    <2>2. CASE cached = None \/ slot["dm"].conv # c
        BY <1>1, <2>1, <2>2 DEF ScreensInv
    <2>3. CASE cached # None /\ slot["dm"].conv = c
        <3>1. DmScreen([pane["dm"] EXCEPT !.view = v])
            BY <1>4, <1>6, <2>1, <2>3, ViewScreen
        <3>2. slot' = [pane EXCEPT !["dm"] = [pane["dm"] EXCEPT !.view = v]]
            BY <1>1, <2>3
        <3> QED BY <2>1, <3>1, <3>2 DEF ScreensInv
    <2> QED BY <2>2, <2>3
<1>10. ViewsInv'
    BY <1>1, <1>8, <1>9 DEF Inv, ViewsInv, LoadsInv
<1> QED BY <1>2, <1>7, <1>10, Quiet DEF Inv

\* The open group's screen takes a view.
LEMMA GroupViewed ==
    ASSUME ViewsInv, NEW v \in View, slot' \in {slot, [slot EXCEPT !["group"].view = v]}
    PROVE  ScreensInv'
<1>1. GroupScreen([slot["group"] EXCEPT !.view = v])
    BY ViewScreen DEF ViewsInv, ScreensInv
<1>2. [slot EXCEPT !["group"].view = v] = [slot EXCEPT !["group"] = [slot["group"] EXCEPT !.view = v]]
    OBVIOUS
<1> QED BY <1>1, <1>2 DEF ViewsInv, ScreensInv

LEMMA GroupShown ==
    ASSUME ViewsInv, NEW m \in Nat, slot' \in {slot, [slot EXCEPT !["group"].shown = Show(@, m)]}
    PROVE  ScreensInv'
<1>1. GroupScreen([slot["group"] EXCEPT !.shown = Show(@, m)])
    BY ShowsScreen DEF ViewsInv, ScreensInv
<1>2. [slot EXCEPT !["group"].shown = Show(@, m)]
      = [slot EXCEPT !["group"] = [slot["group"] EXCEPT !.shown = Show(@, m)]]
    OBVIOUS
<1> QED BY <1>1, <1>2 DEF ViewsInv, ScreensInv

LEMMA GroupView == ASSUME ViewsInv PROVE slot["group"].view \in View
BY DEF ViewsInv, ScreensInv, GroupScreen, Screen

LEMMA FetchStarted ==
    ASSUME MessengerConstants, TypeInv, ViewsInv, fetches' = fetches \cup {Served(Grp)}, UNCHANGED loads
    PROVE  LoadsInv'
<1>1. Served(Grp) \in View
    BY ServedOf DEF Conv, Of
<1> QED BY <1>1 DEF ViewsInv, LoadsInv

LEMMA HearGroupStep ==
    ASSUME MessengerConstants, Inv, NEW i \in Arrived, HearGroup(i) PROVE Inv'
<1>1. /\ wire[i].kind = "message" /\ Consume(i)
      /\ UNCHANGED <<members, key, log, row, loads, fetches, dir, pin, sess, active, send, op, left, seen>>
      /\ slot' \in {slot, [slot EXCEPT !["group"].shown = Show(@, wire[i].m)]}
    BY DEF HearGroup, server, trust, sessions
<1>2. wire[i].m \in Nat
    BY <1>1, Consumed DEF Inv, Arriving, Frames
<1>3. TypeInv'
    BY <1>1, HeardTyped DEF Inv, TypeInv, server
<1>4. ViewsInv'
    BY <1>1, <1>2, GroupShown DEF Inv, ViewsInv, RowsInv, LoadsInv
<1> QED BY <1>1, <1>3, <1>4, Quiet DEF Inv

LEMMA HearRotatedStep ==
    ASSUME MessengerConstants, Inv, NEW i \in Arrived, HearRotated(i) PROVE Inv'
<1> DEFINE p == wire[i].p
<1>1. /\ wire[i].kind = "rotated" /\ Consume(i)
      /\ dir' = Resolve([dir EXCEPT !.cache[p] = None], p)
      /\ seen' = [seen EXCEPT !.rotated[p] = wire[i].k]
      /\ UNCHANGED <<members, key, log, slot, row, loads, fetches, pin, sess, active, send, op, left>>
    BY DEF HearRotated, server, views, sessions
<1>2. p \in Peer /\ wire[i].k \in Key
    BY <1>1, Consumed DEF Inv, Arriving, Frames
<1> HIDE DEF p
<1>3. dir' \in Directory
    <2>1. [dir EXCEPT !.cache[p] = None] \in Directory
        BY <1>2, Asked DEF Inv, TypeInv
    <2> QED BY <1>1, <1>2, <2>1, Resolved DEF Inv, TypeInv
<1>4. seen' \in Memory /\ seen'.accepted = seen.accepted
    <2>1. seen.rotated \in [Peer -> Key] /\ seen \in Memory
        BY DEF Inv, TypeInv, Memory
    <2>2. [seen.rotated EXCEPT ![p] = wire[i].k] \in [Peer -> Key]
        BY <1>2, <2>1
    <2>3. seen' = [seen EXCEPT !.rotated = [seen.rotated EXCEPT ![p] = wire[i].k]]
        BY <1>1
    <2> QED BY <2>1, <2>2, <2>3 DEF Memory
<1>5. TypeInv'
    BY <1>1, <1>3, <1>4, HeardTyped DEF Inv, TypeInv, server
<1>6. ViewsInv'
    BY <1>1 DEF Inv, ViewsInv, ScreensInv, RowsInv, LoadsInv
<1> QED BY <1>1, <1>4, <1>5, <1>6, Quiet DEF Inv

\* A member is added or removed in a frame: the group's view follows, its session goes.
LEMMA HearMemberStep ==
    ASSUME MessengerConstants, Inv, NEW i \in Arrived, HearAdded(i) \/ HearRemoved(i) PROVE Inv'
<1> DEFINE p == wire[i].p
<1>1. /\ wire[i].kind \in {"added", "removed"} /\ Consume(i)
      /\ fetches' = fetches \cup {Served(Grp)}
      /\ active' = [active EXCEPT ![Grp] = 0]
      /\ UNCHANGED <<members, key, log, row, loads, dir, pin, sess, send, op, left>>
      /\ seen' \in {[seen EXCEPT !.added = @ \cup {p}], [seen EXCEPT !.added = @ \ {p}]}
      /\ slot' \in {slot, [slot EXCEPT !["group"].view = With(@, p, Bare(wire[i].k))],
                    [slot EXCEPT !["group"].view = Without(@, p)]}
    BY DEF HearAdded, HearRemoved, server, trust
<1>2. p \in Peer /\ wire[i].k \in Key
    BY <1>1, Consumed DEF Inv, Arriving, Frames
<1>3. seen' \in Memory /\ seen'.accepted = seen.accepted
    <2>1. seen \in Memory
        BY DEF Inv, TypeInv
    <2> QED BY <1>1, <1>2, <2>1 DEF Memory
<1>4. TypeInv'
    BY <1>1, <1>3, HeardTyped DEF Inv, TypeInv, server
<1>5. ScreensInv'
    <2>1. With(slot["group"].view, p, Bare(wire[i].k)) \in View /\ Without(slot["group"].view, p) \in View
        BY <1>2, GroupView, WithView, WithoutView, KeysTyped DEF Inv
    <2> HIDE DEF p
    <2>2. \E v \in View : slot' \in {slot, [slot EXCEPT !["group"].view = v]}
        BY <1>1, <2>1
    <2> QED BY <2>2, GroupViewed DEF Inv
<1>6. LoadsInv'
    BY <1>1, FetchStarted DEF Inv
<1>7. ViewsInv'
    BY <1>1, <1>5, <1>6 DEF Inv, ViewsInv, RowsInv
<1> QED BY <1>1, <1>3, <1>4, <1>7, Quiet DEF Inv

LEMMA SocketDropsStep == ASSUME Inv, SocketDrops PROVE Inv'
<1>1. /\ wire' = <<>>
      /\ UNCHANGED <<members, key, log, slot, row, loads, fetches, dir, pin, sess, active, send, op, left, seen>>
    BY DEF SocketDrops, server, views, trust, sessions
<1>2. TypeInv'
    BY <1>1 DEF Inv, TypeInv
<1>3. ViewsInv'
    BY <1>1 DEF Inv, ViewsInv, ScreensInv, RowsInv, LoadsInv
<1> QED BY <1>1, <1>2, <1>3, Quiet DEF Inv

----------------------------------------------------------------------------
(* Members and keys change at the server. *)

\* A frame joins the wire.
LEMMA Sends ==
    ASSUME TypeInv, NEW f \in Frames, Len(log') \in Nat, Len(log) <= Len(log'),
           IF f.kind = "message" THEN f.m \in 1 .. Len(log') ELSE f.p \in Peer,
           wire' \in {wire, Append(wire, f)}
    PROVE  wire' \in Seq(Frames) /\ \A j \in 1 .. Len(wire') : Arriving(wire[j])'
<1>1. wire \in Seq(Frames) /\ Len(wire) \in Nat /\ Len(log) \in Nat /\ \A j \in 1 .. Len(wire) : Arriving(wire[j])
    BY DEF TypeInv
<1>2. \A j \in 1 .. Len(wire) : /\ wire[j] \in Frames
                                /\ IF wire[j].kind = "message" THEN wire[j].m \in 1 .. Len(log')
                                                               ELSE wire[j].p \in Peer
    BY <1>1 DEF Arriving
<1>3. wire' \in Seq(Frames) /\ \A j \in 1 .. Len(wire') : wire'[j] = f \/ \E n \in 1 .. Len(wire) : wire'[j] = wire[n]
    <2>1. CASE wire' = wire
        BY <1>1, <2>1
    <2>2. CASE wire' = Append(wire, f)
        BY <1>1, <2>2, AppendProperties
    <2> QED BY <2>1, <2>2
<1> QED BY <1>2, <1>3 DEF Arriving

LEMMA MembersStep ==
    ASSUME MessengerConstants, Inv, NEW p \in Peer,
           AskRemove(p) \/ AskAdd(p) \/ PeerAdds(p) \/ PeerRemoves(p)
    PROVE  Inv'
<1> DEFINE f == Frame("added", p, key[p], 0)
           g == Frame("removed", p, 0, 0)
<1>1. /\ members' \in {members \cup {p}, members \ {p}}
      /\ wire' \in {Append(wire, f), Append(wire, g)}
      /\ UNCHANGED <<key, log, slot, row, loads, fetches, dir, pin, sess, active, send, seen>>
      /\ op' \in {op, [pc |-> "remove", p |-> p, u |-> Full(key[p])], [pc |-> "add", p |-> p, u |-> Full(key[p])]}
    BY DEF AskRemove, AskAdd, PeerAdds, PeerRemoves, views, trust, sessions
<1>2. key[p] \in Key /\ Full(key[p]) \in Person /\ 0 \in Key
    BY KeysTyped DEF Inv, TypeInv, MessengerConstants, Key
<1>3. f \in Frames /\ g \in Frames /\ f.p = p /\ g.p = p /\ f.kind # "message" /\ g.kind # "message"
    BY <1>2 DEF Frames, Frame
<1>4. op' \in {Idle} \cup Change
    BY <1>1, <1>2 DEF Inv, TypeInv, Change
<1> HIDE DEF f, g
<1>5. wire' \in Seq(Frames) /\ \A j \in 1 .. Len(wire') : Arriving(wire[j])'
    <2>1. Len(log) \in Nat /\ log' = log
        BY <1>1 DEF Inv, TypeInv
    <2> QED BY <1>1, <1>3, <2>1, Sends DEF Inv
<1>6. TypeInv'
    BY <1>1, <1>4, <1>5 DEF Inv, TypeInv
<1>7. ViewsInv'
    BY <1>1 DEF Inv, ViewsInv, ScreensInv, RowsInv, LoadsInv
<1> QED BY <1>1, <1>6, <1>7, Quiet DEF Inv

LEMMA PeerRotatesStep ==
    ASSUME MessengerConstants, Inv, NEW p \in Peer, PeerRotates(p) PROVE Inv'
<1> DEFINE f == Frame("rotated", p, key'[p], 0)
<1>1. /\ key[p] < MaxKey /\ key' = [key EXCEPT ![p] = @ + 1]
      /\ wire' \in {wire, Append(wire, f)}
      /\ UNCHANGED <<members, log, slot, row, loads, fetches, dir, pin, sess, active, send, op, seen>>
    BY DEF PeerRotates, views, trust, sessions
<1>2. key' \in [Peer -> Key]
    <2>1. key \in [Peer -> Key] /\ key[p] + 1 \in Key
        BY <1>1 DEF Inv, TypeInv, MessengerConstants, Key
    <2> QED BY <1>1, <2>1
<1>3. f \in Frames /\ f.p = p /\ f.kind # "message"
    BY <1>2 DEF Frames, Frame
<1> HIDE DEF f
<1>4. wire' \in Seq(Frames) /\ \A j \in 1 .. Len(wire') : Arriving(wire[j])'
    <2>1. Len(log) \in Nat /\ log' = log
        BY <1>1 DEF Inv, TypeInv
    <2> QED BY <1>1, <1>3, <2>1, Sends DEF Inv
<1>5. TypeInv'
    BY <1>1, <1>2, <1>4 DEF Inv, TypeInv
<1>6. ViewsInv'
    BY <1>1 DEF Inv, ViewsInv, ScreensInv, RowsInv, LoadsInv
<1> QED BY <1>1, <1>5, <1>6, Quiet DEF Inv

LEMMA OpStep == ASSUME MessengerConstants, Inv, OpAnswered \/ OpFails PROVE Inv'
<1>1. /\ op.pc # "idle" /\ op' = Idle
      /\ UNCHANGED <<members, key, log, wire, row, loads, fetches, dir, pin, sess, send, left, seen>>
      /\ active' \in {active, [active EXCEPT ![Grp] = 0]}
      /\ slot' \in {slot, [slot EXCEPT !["group"].view = With(@, op.p, op.u)],
                    [slot EXCEPT !["group"].view = Without(@, op.p)]}
    BY DEF OpAnswered, OpFails, server, views, trust, sessions
<1>2. op.p \in Peer /\ op.u \in Person
    BY <1>1 DEF Inv, TypeInv, Idle, Change
<1>3. TypeInv'
    <2>1. active' \in [Conv -> Nat] /\ \A c \in Conv : active'[c] <= Len(sess')
        BY <1>1, Dropped DEF Inv
    <2> QED BY <1>1, <2>1 DEF Inv, TypeInv, Arriving
<1>4. ScreensInv'
    <2>1. With(slot["group"].view, op.p, op.u) \in View /\ Without(slot["group"].view, op.p) \in View
        BY <1>2, GroupView, WithView, WithoutView DEF Inv
    <2>2. \E v \in View : slot' \in {slot, [slot EXCEPT !["group"].view = v]}
        BY <1>1, <2>1
    <2> QED BY <2>2, GroupViewed DEF Inv
<1>5. ViewsInv'
    BY <1>1, <1>4 DEF Inv, ViewsInv, RowsInv, LoadsInv
<1> QED BY <1>1, <1>3, <1>5, Quiet DEF Inv

\* The server stores a message.
LEMMA Stored ==
    ASSUME TypeInv, NEW m \in Message, log' = Append(log, m)
    PROVE  /\ Len(log) \in Nat /\ log' \in Seq(Message) /\ Len(log') = Len(log) + 1
           /\ \A i \in 1 .. Len(log) : log'[i] = log[i]
           /\ log'[Len(log) + 1] = m
           /\ Mine \subseteq 1 .. Len(log)
           /\ Mine' = IF m.by = "me" THEN Mine \cup {Len(log) + 1} ELSE Mine
<1>1. /\ log \in Seq(Message) /\ Len(log) \in Nat /\ log' \in Seq(Message) /\ Len(log') = Len(log) + 1
      /\ \A i \in 1 .. Len(log) : log'[i] = log[i]
      /\ log'[Len(log) + 1] = m
    BY AppendProperties DEF TypeInv
<1>2. DOMAIN log = 1 .. Len(log) /\ DOMAIN log' = 1 .. Len(log) + 1
    BY <1>1
<1>3. 1 .. Len(log) + 1 = 1 .. Len(log) \cup {Len(log) + 1}
    BY <1>1
<1>4. Mine \subseteq 1 .. Len(log)
    BY <1>2 DEF Mine
<1>5. Mine' = {i \in 1 .. Len(log) \cup {Len(log) + 1} : log'[i].by = "me"}
    BY <1>2, <1>3 DEF Mine
<1>6. Mine' = IF m.by = "me" THEN Mine \cup {Len(log) + 1} ELSE Mine
    BY <1>1, <1>2, <1>5 DEF Mine
<1> QED BY <1>1, <1>4, <1>6

\* What a peer writes is nobody's session here.
LEMMA PeerWritesStep ==
    ASSUME MessengerConstants, Inv, NEW p \in Peer, NEW c \in Conv, PeerWrites(p, c) PROVE Inv'
<1> DEFINE m == [conv |-> c, by |-> p, sid |-> 0, seq |-> 0, keys |-> TRUE,
                 strangers |-> {}, rotated |-> key, added |-> {}]
           f == Frame("message", None, 0, Len(log'))
<1>1. /\ log' = Append(log, m) /\ wire' = Append(wire, f)
      /\ UNCHANGED <<members, key, slot, row, loads, fetches, dir, pin, sess, active, send, op, seen>>
    BY DEF PeerWrites, views, trust, sessions
<1>2. m \in Message /\ m.by # "me" /\ m.sid = 0
    BY DEF Message, MessengerConstants, Inv, TypeInv
<1> HIDE DEF m
<1>3. /\ Len(log) \in Nat /\ log' \in Seq(Message) /\ Len(log') = Len(log) + 1
      /\ \A i \in 1 .. Len(log) : log'[i] = log[i]
      /\ log'[Len(log) + 1] = m
      /\ Mine \subseteq 1 .. Len(log) /\ Mine' = Mine
    BY <1>1, <1>2, Stored DEF Inv
<1>4. f \in Frames /\ f.kind = "message" /\ f.m \in 1 .. Len(log')
    <2>1. 0 \in Key /\ Len(log') \in Nat /\ Len(log') \in 1 .. Len(log')
        BY <1>3 DEF MessengerConstants, Key
    <2> QED BY <2>1 DEF Frames, Frame
<1> HIDE DEF f
<1>5. wire' \in Seq(Frames) /\ \A j \in 1 .. Len(wire') : Arriving(wire[j])'
    BY <1>1, <1>3, <1>4, Sends DEF Inv
<1>6. TypeInv'
    BY <1>1, <1>3, <1>5 DEF Inv, TypeInv
<1>7. ViewsInv'
    BY <1>1 DEF Inv, ViewsInv, ScreensInv, RowsInv, LoadsInv
<1>8. CoreInv'
    <2>1. Mine' = Mine /\ \A i \in Mine : log'[i] = log[i]
        BY <1>3
    <2>2. \A s : Carried(s)' <=> Carried(s)
        BY <2>1 DEF Carried
    <2>3. Readable'
        BY <2>1 DEF Inv, CoreInv, LogInv, Readable
    <2>4. \A i \in 1 .. Len(log') : log'[i].sid <= Len(sess')
        <3>1. Len(sess) \in Nat
            BY DEF Inv, TypeInv
        <3> QED BY <1>1, <1>2, <1>3, <3>1 DEF Inv, CoreInv, LogInv
    <2>5. LogInv'
        BY <1>1, <2>1, <2>3, <2>4 DEF Inv, CoreInv, LogInv, Apart, Wrapped
    <2>6. SendInv' /\ SessionsInv' /\ PinInv'
        BY <1>1, <2>2 DEF Inv, CoreInv, SendInv, SessionsInv, PinInv, Apart, Wrapped
    <2> QED BY <2>5, <2>6 DEF CoreInv
<1> QED BY <1>6, <1>7, <1>8 DEF Inv

----------------------------------------------------------------------------
(* A send. *)

\* A draft is idle or typed, and its label says which.
LEMMA Drafted == ASSUME TypeInv PROVE send.pc # "idle" <=> send \in Draft
BY DEF TypeInv, Idle, Draft

LEMMA SubmitStep == ASSUME MessengerConstants, Inv, Submit PROVE Inv'
<1> DEFINE c == OnScreen
           v == slot[Slot(c)].view
           strangers == Peer \ (IF c = Grp THEN Named ELSE {c})
<1>1. /\ send.pc = "idle" /\ c # None
      /\ send' = [pc |-> "gate", conv |-> c, view |-> v, sid |-> active[c], keys |-> FALSE, seq |-> 0,
                  safe |-> {}, id |-> 0, strangers |-> strangers,
                  rotated |-> seen.rotated, added |-> seen.added]
      /\ UNCHANGED <<members, key, log, wire, slot, row, loads, fetches, dir, pin, sess, active, op, seen>>
    BY DEF Submit, server, views, trust, sessions
<1>2. c \in Conv /\ Of(c, v) /\ DOMAIN v \cap strangers = {}
    <2>1. CASE slot["group"].conv # None
        <3>1. c = Grp /\ v = slot["group"].view
            BY <2>1 DEF OnScreen, Slot
        <3>2. v \in View
            BY <3>1, GroupView DEF Inv
        <3>3. DOMAIN v \subseteq Named
            BY <3>1 DEF Named
        <3> QED BY <3>1, <3>2, <3>3 DEF Conv, Of
    <2>2. CASE slot["group"].conv = None
        <3>1. c = slot["dm"].conv /\ c \in Dms /\ Of(c, slot["dm"].view)
            BY <1>1, <2>2 DEF OnScreen, Inv, ViewsInv, ScreensInv, DmScreen
        <3>2. c # Grp
            BY <3>1 DEF MessengerConstants
        <3>3. v = slot["dm"].view
            BY <3>2 DEF Slot
        <3>4. DOMAIN v \subseteq {c}
            BY <3>1, <3>2, <3>3 DEF Of
        <3> QED BY <3>1, <3>2, <3>3, <3>4 DEF Conv
    <2> QED BY <2>1, <2>2
<1>3. active[c] \in Nat /\ active[c] <= Len(sess) /\ seen.rotated \in [Peer -> Key] /\ seen.added \subseteq Peer
    BY <1>2 DEF Inv, TypeInv, Memory
<1>4. strangers \subseteq Peer /\ v \in View
    BY <1>2 DEF Of
<1> HIDE DEF c, v, strangers
<1>5. send' \in Draft
    BY <1>1, <1>2, <1>3, <1>4 DEF Draft, Wraps
<1>6. TypeInv'
    BY <1>1, <1>5 DEF Inv, TypeInv, Arriving
<1>7. ViewsInv'
    BY <1>1 DEF Inv, ViewsInv, ScreensInv, RowsInv, LoadsInv
<1>8. SendInv'
    BY <1>1, <1>2, <1>3 DEF SendInv
<1>9. SessionsInv' /\ LogInv' /\ PinInv'
    BY <1>1 DEF Inv, CoreInv, SessionsInv, LogInv, PinInv, Readable, Mine, Carried, Apart, Wrapped
<1> QED BY <1>6, <1>7, <1>8, <1>9 DEF Inv, CoreInv

\* What a gate lets through: recipients of the view, under accepted keys.
LEMMA Gated ==
    ASSUME MessengerConstants, Inv, NEW v \in View, Pinning(v)
    PROVE  /\ Safe(v) \in Wraps /\ \A x \in Safe(v) : x[1] \in DOMAIN v
           /\ Safe(v) \subseteq seen'.accepted /\ seen.accepted \subseteq seen'.accepted
           /\ pin' \in [Peer -> Key \cup {None}] /\ seen' \in Memory /\ PinInv'
<1> DEFINE new == {p \in DOMAIN v : v[p].att /\ pin[p] = None}
<1>1. DOMAIN v \subseteq Peer /\ \A p \in DOMAIN v : v[p].k \in Key
    BY ViewIs DEF Person
<1>2. /\ pin' = [p \in Peer |-> IF p \in new THEN v[p].k ELSE pin[p]]
      /\ seen' = [seen EXCEPT !.accepted = @ \cup {<<p, v[p].k>> : p \in new}]
    BY DEF Pinning
<1>3. seen \in Memory /\ pin \in [Peer -> Key \cup {None}]
    BY DEF Inv, TypeInv
<1>4. seen'.accepted = seen.accepted \cup {<<p, v[p].k>> : p \in new}
    BY <1>2, <1>3 DEF Memory
<1>5. seen' \in Memory
    <2>1. {<<p, v[p].k>> : p \in new} \subseteq Peer \X (Key \cup {None})
        BY <1>1
    <2> QED BY <1>2, <1>3, <2>1 DEF Memory
<1>6. pin' \in [Peer -> Key \cup {None}]
    BY <1>1, <1>2, <1>3
<1>7. PinInv'
    BY <1>2, <1>4 DEF Inv, CoreInv, PinInv
<1>8. Safe(v) \in Wraps /\ \A x \in Safe(v) : x[1] \in DOMAIN v
    BY <1>1 DEF Safe, Wraps
<1>9. Safe(v) \subseteq seen'.accepted
    <2> SUFFICES ASSUME NEW p \in DOMAIN v, v[p].att, pin[p] \in {None, v[p].k}
                 PROVE  <<p, v[p].k>> \in seen'.accepted
        BY DEF Safe, Unchanged
    <2>1. CASE pin[p] = None
        BY <1>4, <2>1
    <2>2. CASE pin[p] # None
        BY <1>1, <1>4, <2>2 DEF Inv, CoreInv, PinInv
    <2> QED BY <2>1, <2>2
<1> QED BY <1>4, <1>5, <1>6, <1>7, <1>8, <1>9

\* A session's position or life changes; who it is wrapped for does not.
LEMMA SessionMoves ==
    ASSUME TypeInv, NEW s \in 1 .. Len(sess), NEW x \in Keyed, x.wraps = sess[s].wraps,
           sess' = [sess EXCEPT ![s] = x]
    PROVE  /\ sess' \in Seq(Keyed) /\ Len(sess') = Len(sess)
           /\ \A r \in 1 .. Len(sess) : sess'[r] = IF r = s THEN x ELSE sess[r]
           /\ \A r \in 1 .. Len(sess) : Wrapped(r)' = Wrapped(r)
<1>1. sess \in Seq(Keyed) /\ Len(sess) \in Nat
    BY DEF TypeInv
<1>2. sess' \in Seq(Keyed) /\ Len(sess') = Len(sess)
    BY <1>1
<1>3. \A r \in 1 .. Len(sess) : sess'[r] = IF r = s THEN x ELSE sess[r]
    BY <1>1
<1>4. \A r \in 1 .. Len(sess) : Wrapped(r)' = Wrapped(r)
    BY <1>3 DEF Wrapped
<1> QED BY <1>2, <1>3, <1>4

\* Stored messages keep their sessions' wraps.
LEMMA LogStands ==
    ASSUME TypeInv, LogInv, log' = log, Len(sess') \in Nat, Len(sess) <= Len(sess'),
           \A r \in 1 .. Len(sess) : Wrapped(r)' = Wrapped(r)
    PROVE  LogInv' /\ \A s : Carried(s)' <=> Carried(s)
<1>1. Mine' = Mine /\ Mine \subseteq 1 .. Len(log) /\ Len(sess) \in Nat
      /\ \A i \in 1 .. Len(log) : log[i].sid \in Nat
    <2>1. DOMAIN log = 1 .. Len(log) /\ Len(sess) \in Nat
        BY DEF TypeInv
    <2>2. \A i \in 1 .. Len(log) : log[i] \in Message
        BY DEF TypeInv
    <2> QED BY <2>1, <2>2 DEF Mine, Message
<1>2. Readable' /\ \A s : Carried(s)' <=> Carried(s)
    BY <1>1 DEF LogInv, Readable, Carried
<1>3. \A i \in 1 .. Len(log') : log'[i].sid <= Len(sess')
    BY <1>1 DEF LogInv
<1>4. ASSUME NEW i \in Mine PROVE log'[i].sid # 0 /\ Apart(Wrapped(log[i].sid), log[i].strangers)'
    <2>1. log[i].sid \in 1 .. Len(sess)
        BY <1>1 DEF LogInv
    <2>2. Wrapped(log[i].sid)' = Wrapped(log[i].sid)
        BY <2>1
    <2> QED BY <2>1, <2>2 DEF LogInv, Apart
<1> QED BY <1>1, <1>2, <1>3, <1>4 DEF LogInv

LEMMA GateStep == ASSUME MessengerConstants, Inv, GateDirect \/ GateGroup PROVE Inv'
<1> DEFINE safe == Safe(send.view)
<1>0. PICK s : s = send.sid
    OBVIOUS
<1>1. /\ send.pc = "gate" /\ Pinning(send.view)
      /\ Proceed(safe) \/ (send' = Idle /\ UNCHANGED sess)
      /\ UNCHANGED <<members, key, log, wire, slot, row, loads, fetches, dir, active, op>>
    BY DEF GateDirect, GateGroup, server, views
<1>2. send \in Draft /\ Len(sess) \in Nat /\ s \in Nat /\ s <= Len(sess) /\ send.view \in View
    BY <1>0, <1>1, Drafted DEF Inv, TypeInv, CoreInv, SendInv, Draft
<1>3. /\ safe \in Wraps /\ \A x \in safe : x[1] \in DOMAIN send.view
      /\ safe \subseteq seen'.accepted /\ seen.accepted \subseteq seen'.accepted
      /\ pin' \in [Peer -> Key \cup {None}] /\ seen' \in Memory /\ PinInv'
    BY <1>1, <1>2, Gated
<1>4. Apart(safe, send.strangers)
    BY <1>1, <1>3 DEF Inv, CoreInv, SendInv, Apart
<1>5. ViewsInv'
    BY <1>1 DEF Inv, ViewsInv, ScreensInv, RowsInv, LoadsInv
<1>6. \A r \in 1 .. Len(sess) : sess[r] \in Keyed /\ Wrapped(r) \subseteq seen'.accepted
                                /\ (sess[r].alive => Carried(r))
    BY <1>1, <1>3 DEF Inv, TypeInv, CoreInv, SessionsInv
<1> HIDE DEF safe
<1>7. CASE UNCHANGED sess /\ send' \in {Idle, [send EXCEPT !.pc = "mint", !.safe = safe]}
    <2>1. send' \in {Idle} \cup Draft
        BY <1>2, <1>3, <1>7 DEF Draft
    <2>2. TypeInv'
        BY <1>1, <1>3, <1>7, <2>1 DEF Inv, TypeInv, Arriving
    <2>3. \A r \in 1 .. Len(sess) : Wrapped(r)' = Wrapped(r)
        BY <1>7 DEF Wrapped
    <2>4. LogInv' /\ \A r : Carried(r)' <=> Carried(r)
        BY <1>1, <1>2, <1>7, <2>3, LogStands DEF Inv, CoreInv
    <2>5. SessionsInv'
        BY <1>6, <1>7, <2>3, <2>4 DEF SessionsInv
    <2>6. SendInv'
        <3>1. CASE send' = Idle
            BY <3>1 DEF SendInv, Idle
        <3>2. CASE send' = [send EXCEPT !.pc = "mint", !.safe = safe]
            <4>1. /\ send'.pc = "mint" /\ send'.safe = safe /\ send'.sid = send.sid /\ send'.conv = send.conv
                  /\ send'.view = send.view /\ send'.strangers = send.strangers
                BY <1>2, <3>2 DEF Draft
            <4> QED BY <1>1, <1>3, <1>4, <1>7, <4>1 DEF Inv, CoreInv, SendInv
        <3> QED BY <1>7, <3>1, <3>2
    <2> QED BY <1>3, <1>5, <2>2, <2>4, <2>5, <2>6 DEF Inv, CoreInv
<1>8. CASE /\ Usable(s, safe)
           /\ send' = [send EXCEPT !.pc = "post", !.seq = sess[s].next]
           /\ sess' = [sess EXCEPT ![s].next = @ + 1]
    <2> DEFINE x == [sess[s] EXCEPT !.next = @ + 1]
    <2>1. /\ s \in 1 .. Len(sess) /\ sess[s].alive /\ sess[s].next < MaxSeq /\ Wrapped(s) = safe
          /\ sess[s] \in Keyed
        BY <1>2, <1>6, <1>8 DEF Usable
    <2>2. x \in Keyed /\ x.wraps = sess[s].wraps /\ x.alive = sess[s].alive
        <3>1. sess[s].next + 1 \in 0 .. MaxSeq
            BY <2>1 DEF Keyed, MessengerConstants
        <3> QED BY <2>1, <3>1 DEF Keyed
    <2>3. sess' = [sess EXCEPT ![s] = x]
        BY <1>8
    <2> HIDE DEF x
    <2>4. /\ sess' \in Seq(Keyed) /\ Len(sess') = Len(sess)
          /\ \A r \in 1 .. Len(sess) : sess'[r] = IF r = s THEN x ELSE sess[r]
          /\ \A r \in 1 .. Len(sess) : Wrapped(r)' = Wrapped(r)
        BY <2>1, <2>2, <2>3, SessionMoves DEF Inv
    <2>5. /\ send'.pc = "post" /\ send'.seq = sess[s].next /\ send'.sid = s /\ send'.conv = send.conv
          /\ send'.view = send.view /\ send'.strangers = send.strangers /\ send'.keys = send.keys
          /\ send' \in Draft
        <3>1. sess[s].next \in Nat
            BY <2>1 DEF Keyed
        <3> QED BY <1>0, <1>2, <1>8, <3>1 DEF Draft
    <2>6. TypeInv'
        BY <1>1, <1>3, <2>4, <2>5 DEF Inv, TypeInv, Arriving
    <2>7. LogInv' /\ \A r : Carried(r)' <=> Carried(r)
        BY <1>1, <1>2, <2>4, LogStands DEF Inv, CoreInv
    <2>8. SessionsInv'
        BY <1>6, <2>2, <2>4, <2>7 DEF SessionsInv
    <2>9. SendInv'
        <3>1. Carried(s)' /\ s # 0 /\ Wrapped(s)' = safe
            BY <1>6, <2>1, <2>4, <2>7
        <3>2. Apart(safe, send.strangers)
            BY <1>4
        <3>3. s <= Len(sess') /\ Of(send.conv, send.view)
            BY <1>1, <1>2, <2>4 DEF Inv, CoreInv, SendInv
        <3> QED BY <2>1, <2>5, <3>1, <3>2, <3>3 DEF SendInv
    <2> QED BY <1>3, <1>5, <2>6, <2>7, <2>8, <2>9 DEF Inv, CoreInv
<1> QED BY <1>0, <1>1, <1>7, <1>8 DEF Proceed

LEMMA MintStep == ASSUME MessengerConstants, Inv, Mint PROVE Inv'
<1> DEFINE x == [conv |-> send.conv, wraps |-> send.safe, next |-> 1, alive |-> TRUE]
<1>0. PICK n : n = Len(sess) + 1
    OBVIOUS
<1>1. /\ send.pc = "mint" /\ sess' = Append(sess, x)
      /\ active' = [active EXCEPT ![send.conv] = Len(sess')]
      /\ send' = [send EXCEPT !.pc = "post", !.sid = Len(sess'), !.keys = TRUE, !.seq = 0]
      /\ UNCHANGED <<members, key, log, wire, slot, row, loads, fetches, dir, pin, op, seen>>
    BY DEF Mint, server, views, trust
<1>2. send \in Draft /\ Len(sess) \in Nat /\ sess \in Seq(Keyed)
    BY <1>1, Drafted DEF Inv, TypeInv
<1>3. x \in Keyed /\ x.wraps = send.safe
    BY <1>2 DEF Keyed, Draft, MessengerConstants
<1> HIDE DEF x
<1>4. /\ sess' \in Seq(Keyed) /\ Len(sess') = n /\ n \in Nat /\ n # 0 /\ sess'[n] = x
      /\ \A r \in 1 .. Len(sess) : sess'[r] = sess[r]
    BY <1>0, <1>1, <1>2, <1>3, AppendProperties
<1>5. \A r \in 1 .. Len(sess) : Wrapped(r)' = Wrapped(r)
    BY <1>4 DEF Wrapped
<1>6. Wrapped(n)' = send.safe
    BY <1>3, <1>4 DEF Wrapped
<1>7. /\ send'.pc = "post" /\ send'.sid = n /\ send'.keys /\ send'.seq = 0 /\ send'.conv = send.conv
      /\ send'.view = send.view /\ send'.strangers = send.strangers /\ send' \in Draft
    BY <1>1, <1>2, <1>4 DEF Draft
<1>8. active' \in [Conv -> Nat] /\ \A c \in Conv : active'[c] <= Len(sess')
    <2>1. active \in [Conv -> Nat] /\ \A c \in Conv : active[c] <= Len(sess)
        BY DEF Inv, TypeInv
    <2>2. active' \in [Conv -> Nat] /\ \A c \in Conv : active'[c] = n \/ active'[c] = active[c]
        BY <1>1, <1>4, <2>1
    <2>3. Len(sess') = n /\ n \in Nat /\ Len(sess) <= n
        BY <1>0, <1>2, <1>4
    <2> QED BY <1>2, <2>1, <2>2, <2>3
<1>9. TypeInv'
    BY <1>1, <1>4, <1>7, <1>8 DEF Inv, TypeInv, Arriving
<1>10. ViewsInv'
    BY <1>1 DEF Inv, ViewsInv, ScreensInv, RowsInv, LoadsInv
<1>11. LogInv' /\ \A r : Carried(r)' <=> Carried(r)
    BY <1>0, <1>1, <1>2, <1>4, <1>5, LogStands DEF Inv, CoreInv
<1>12. SessionsInv'
    <2> SUFFICES ASSUME NEW r \in 1 .. n
                 PROVE  /\ Wrapped(r)' \subseteq seen'.accepted
                        /\ sess'[r].alive => Carried(r)' \/ (send'.pc = "post" /\ send'.sid = r /\ send'.keys)
        BY <1>4 DEF SessionsInv
    <2>1. CASE r = n
        BY <1>1, <1>6, <1>7, <2>1 DEF Inv, CoreInv, SendInv
    <2>2. CASE r # n
        <3>1. r \in 1 .. Len(sess)
            BY <1>0, <1>2, <2>2
        <3> QED BY <1>1, <1>4, <1>5, <1>11, <3>1 DEF Inv, CoreInv, SessionsInv
    <2> QED BY <2>1, <2>2
<1>13. SendInv'
    <2>1. Apart(send.safe, send.strangers) /\ Of(send.conv, send.view)
        BY <1>1 DEF Inv, CoreInv, SendInv
    <2>2. 0 < MaxSeq
        BY DEF MessengerConstants
    <2> QED BY <1>4, <1>6, <1>7, <2>1, <2>2 DEF SendInv
<1>14. PinInv'
    BY <1>1 DEF Inv, CoreInv, PinInv
<1> QED BY <1>9, <1>10, <1>11, <1>12, <1>13, <1>14 DEF Inv, CoreInv

LEMMA PostStoredStep == ASSUME MessengerConstants, Inv, PostStored PROVE Inv'
<1> DEFINE m == [conv |-> send.conv, by |-> "me", sid |-> send.sid, seq |-> send.seq,
                 keys |-> send.keys, strangers |-> send.strangers,
                 rotated |-> send.rotated, added |-> send.added]
           f == Frame("message", None, 0, Len(log'))
<1>0. PICK n, s : n = Len(log) + 1 /\ s = send.sid
    OBVIOUS
<1>1. /\ send.pc = "post" /\ log' = Append(log, m) /\ wire' = Append(wire, f)
      /\ send' = [send EXCEPT !.pc = "answer", !.id = Len(log')]
      /\ UNCHANGED <<members, key, slot, row, loads, fetches, dir, pin, sess, active, op, seen>>
    BY DEF PostStored, views, trust, sessions
<1>2. /\ send \in Draft /\ s \in Nat /\ s # 0 /\ s <= Len(sess) /\ Of(send.conv, send.view)
      /\ Apart(Wrapped(s), send.strangers) /\ send.seq < MaxSeq /\ send.seq \in Nat
      /\ send.keys \/ Carried(s)
    BY <1>0, <1>1, Drafted DEF Inv, CoreInv, SendInv, Draft
<1>3. /\ m \in Message /\ m.by = "me" /\ m.sid = s /\ m.keys = send.keys /\ m.strangers = send.strangers
    <2>1. send.seq \in 0 .. MaxSeq - 1
        BY <1>2 DEF MessengerConstants
    <2> QED BY <1>0, <1>2, <2>1 DEF Message, Draft
<1> HIDE DEF m
<1>4. /\ Len(log) \in Nat /\ log' \in Seq(Message) /\ Len(log') = n
      /\ \A i \in 1 .. Len(log) : log'[i] = log[i]
      /\ log'[n] = m
      /\ Mine \subseteq 1 .. Len(log) /\ Mine' = Mine \cup {n}
    BY <1>0, <1>1, <1>3, Stored DEF Inv
<1>5. f \in Frames /\ f.kind = "message" /\ f.m \in 1 .. Len(log')
    <2>1. 0 \in Key /\ Len(log') \in Nat /\ Len(log') \in 1 .. Len(log')
        BY <1>0, <1>4 DEF MessengerConstants, Key
    <2> QED BY <2>1 DEF Frames, Frame
<1> HIDE DEF f
<1>6. wire' \in Seq(Frames) /\ \A j \in 1 .. Len(wire') : Arriving(wire[j])'
    BY <1>0, <1>1, <1>4, <1>5, Sends DEF Inv
<1>7. /\ send'.pc = "answer" /\ send'.sid = s /\ send'.conv = send.conv /\ send'.seq = send.seq
      /\ send'.view = send.view /\ send'.strangers = send.strangers /\ send' \in Draft
    <2>1. Len(log') \in Nat
        BY <1>0, <1>4
    <2> QED BY <1>0, <1>1, <1>2, <2>1 DEF Draft
<1>8. TypeInv'
    BY <1>1, <1>4, <1>6, <1>7 DEF Inv, TypeInv
<1>9. ViewsInv'
    BY <1>1 DEF Inv, ViewsInv, ScreensInv, RowsInv, LoadsInv
<1>10. (\A r : Carried(r) => Carried(r)') /\ Carried(s)'
    <2>1. \A r : Carried(r) => Carried(r)'
        BY <1>4 DEF Carried
    <2>2. send.keys => Carried(s)'
        BY <1>3, <1>4 DEF Carried
    <2> QED BY <1>2, <2>1, <2>2
<1>11. \A r : Wrapped(r)' = Wrapped(r)
    BY <1>1 DEF Wrapped
<1>12. LogInv'
    <2>1. Readable'
        <3>1. ASSUME NEW i \in Mine
              PROVE  \E j \in Mine' : j <= i /\ log'[j].sid = log'[i].sid /\ log'[j].keys
            BY <1>4 DEF Inv, CoreInv, LogInv, Readable
        <3>2. \E j \in Mine' : j <= n /\ log'[j].sid = log'[n].sid /\ log'[j].keys
            <4>1. CASE send.keys
                <5>1. log'[n].keys
                    BY <1>3, <1>4, <4>1
                <5>2. n <= n
                    BY <1>0, <1>4
                <5> QED BY <1>4, <5>1, <5>2
            <4>2. CASE Carried(s)
                <5>1. PICK j \in Mine : log[j].sid = s /\ log[j].keys
                    BY <4>2 DEF Carried
                <5>2. j \in 1 .. Len(log) /\ j <= n /\ j \in Mine'
                    BY <1>0, <1>4
                <5> QED BY <1>3, <1>4, <5>1, <5>2
            <4> QED BY <1>2, <4>1, <4>2
        <3> QED BY <1>4, <3>1, <3>2 DEF Readable
    <2>2. ASSUME NEW i \in 1 .. n PROVE log'[i].sid <= Len(sess')
        BY <1>0, <1>1, <1>2, <1>3, <1>4 DEF Inv, CoreInv, LogInv
    <2>3. ASSUME NEW i \in Mine' PROVE log'[i].sid # 0 /\ Apart(Wrapped(log[i].sid), log[i].strangers)'
        BY <1>1, <1>2, <1>3, <1>4 DEF Inv, CoreInv, LogInv, Apart, Wrapped
    <2> QED BY <1>4, <2>1, <2>2, <2>3 DEF LogInv
<1>13. SessionsInv'
    <2>1. \A r \in 1 .. Len(sess) : sess[r].alive => Carried(r) \/ r = s
        BY <1>0 DEF Inv, CoreInv, SessionsInv
    <2> QED BY <1>1, <1>10, <1>11, <2>1 DEF Inv, CoreInv, SessionsInv
<1>14. SendInv'
    BY <1>1, <1>2, <1>7, <1>10, <1>11 DEF SendInv, Apart
<1>15. PinInv'
    BY <1>1 DEF Inv, CoreInv, PinInv
<1> QED BY <1>8, <1>9, <1>12, <1>13, <1>14, <1>15 DEF Inv, CoreInv

LEMMA PostFailsStep == ASSUME MessengerConstants, Inv, PostFails PROVE Inv'
<1> DEFINE x == [sess[send.sid] EXCEPT !.alive = @ /\ ~ send.keys]
<1>0. PICK s : s = send.sid
    OBVIOUS
<1>1. /\ send.pc \in {"post", "answer"} /\ send' = Idle
      /\ sess' = [sess EXCEPT ![s].alive = @ /\ ~ send.keys]
      /\ active' \in {active, [active EXCEPT ![send.conv] = 0]}
      /\ seen' = [seen EXCEPT !.failed = @ \cup {s}]
      /\ UNCHANGED <<members, key, log, wire, slot, row, loads, fetches, dir, pin, op>>
    BY <1>0 DEF PostFails, server, views, trust
<1>2. s \in 1 .. Len(sess) /\ Len(sess) \in Nat /\ sess[s] \in Keyed /\ send \in Draft
    BY <1>0, <1>1, Drafted DEF Inv, TypeInv, CoreInv, SendInv, Draft
<1>3. x \in Keyed /\ x.wraps = sess[s].wraps /\ (x.alive => sess[s].alive /\ ~ send.keys)
    <2>1. send.keys \in BOOLEAN /\ sess[s].alive \in BOOLEAN
        BY <1>2 DEF Draft, Keyed
    <2>2. (sess[s].alive /\ ~ send.keys) \in BOOLEAN
        OBVIOUS
    <2> QED BY <1>0, <1>2, <2>2 DEF Keyed
<1>4. sess' = [sess EXCEPT ![s] = x]
    BY <1>0, <1>1
<1> HIDE DEF x
<1>5. /\ sess' \in Seq(Keyed) /\ Len(sess') = Len(sess)
      /\ \A r \in 1 .. Len(sess) : sess'[r] = IF r = s THEN x ELSE sess[r]
      /\ \A r \in 1 .. Len(sess) : Wrapped(r)' = Wrapped(r)
    BY <1>2, <1>3, <1>4, SessionMoves DEF Inv
<1>6. seen' \in Memory /\ seen'.accepted = seen.accepted
    <2>1. seen \in Memory /\ s \in Nat
        BY <1>2 DEF Inv, TypeInv
    <2> QED BY <1>1, <2>1 DEF Memory
<1>7. active' \in [Conv -> Nat] /\ \A c \in Conv : active'[c] <= Len(sess')
    <2>1. active \in [Conv -> Nat] /\ \A c \in Conv : active[c] <= Len(sess)
        BY DEF Inv, TypeInv
    <2>2. active' \in [Conv -> Nat] /\ \A c \in Conv : active'[c] = 0 \/ active'[c] = active[c]
        BY <1>1, <2>1
    <2> QED BY <1>2, <1>5, <2>1, <2>2
<1>8. TypeInv'
    BY <1>1, <1>5, <1>6, <1>7 DEF Inv, TypeInv, Arriving
<1>9. ViewsInv'
    BY <1>1 DEF Inv, ViewsInv, ScreensInv, RowsInv, LoadsInv
<1>10. LogInv' /\ \A r : Carried(r)' <=> Carried(r)
    BY <1>1, <1>2, <1>5, LogStands DEF Inv, CoreInv
<1>11. SessionsInv'
    <2> SUFFICES ASSUME NEW r \in 1 .. Len(sess)
                 PROVE  Wrapped(r)' \subseteq seen'.accepted /\ (sess'[r].alive => Carried(r)')
        BY <1>5 DEF SessionsInv
    <2>1. Wrapped(r)' \subseteq seen'.accepted
        BY <1>5, <1>6 DEF Inv, CoreInv, SessionsInv
    <2>2. ASSUME sess'[r].alive PROVE Carried(r)'
        BY <1>0, <1>3, <1>5, <1>10, <2>2 DEF Inv, CoreInv, SessionsInv
    <2> QED BY <2>1, <2>2
<1>12. SendInv'
    BY <1>1 DEF SendInv, Idle
<1>13. PinInv'
    BY <1>1, <1>6 DEF Inv, CoreInv, PinInv
<1> QED BY <1>8, <1>9, <1>10, <1>11, <1>12, <1>13 DEF Inv, CoreInv

LEMMA DirectAnsweredStep == ASSUME MessengerConstants, Inv, DirectAnswered PROVE Inv'
<1> DEFINE x == [slot["dm"] EXCEPT !.shown = Show(@, send.id)]
<1>1. /\ send.pc = "answer" /\ send.conv # Grp /\ send' = Idle
      /\ slot' \in {slot, [slot EXCEPT !["dm"].shown = Show(@, send.id)]}
      /\ row' = [row EXCEPT ![send.conv] = send.view]
      /\ UNCHANGED <<members, key, log, wire, loads, fetches, dir, pin, sess, active, op, seen>>
    BY DEF DirectAnswered, Joins, Slot, server, trust, sessions
<1>2. send.id \in Nat /\ send.conv \in Conv /\ Of(send.conv, send.view)
    BY <1>1, Drafted DEF Inv, CoreInv, SendInv, Draft
<1>3. TypeInv'
    BY <1>1 DEF Inv, TypeInv, Arriving
<1>4. ScreensInv'
    <2>1. DmScreen(x)
        BY <1>2, ShowsScreen DEF Inv, ViewsInv, ScreensInv
    <2>2. [slot EXCEPT !["dm"].shown = Show(@, send.id)] = [slot EXCEPT !["dm"] = x]
        OBVIOUS
    <2> HIDE DEF x
    <2> QED BY <1>1, <2>1, <2>2 DEF Inv, ViewsInv, ScreensInv
<1>5. RowsInv'
    BY <1>1, <1>2 DEF Inv, ViewsInv, RowsInv
<1>6. ViewsInv'
    BY <1>1, <1>4, <1>5 DEF Inv, ViewsInv, LoadsInv
<1>7. CoreInv'
    BY <1>1 DEF Inv, CoreInv, SendInv, SessionsInv, LogInv, PinInv, Readable, Mine, Carried, Apart, Wrapped, Idle
<1> QED BY <1>3, <1>6, <1>7 DEF Inv

LEMMA GroupAnsweredStep == ASSUME MessengerConstants, Inv, GroupAnswered PROVE Inv'
<1>1. /\ send.pc = "answer" /\ send' = Idle
      /\ slot' \in {slot, [slot EXCEPT !["group"].shown = Show(@, send.id)]}
      /\ fetches' = fetches \cup {Served(Grp)}
      /\ UNCHANGED <<members, key, log, wire, row, loads, dir, pin, sess, active, op, seen>>
    BY DEF GroupAnswered, Joins, Slot, server, trust, sessions
<1>2. send.id \in Nat
    BY <1>1, Drafted DEF Inv, Draft
<1>3. TypeInv'
    BY <1>1 DEF Inv, TypeInv, Arriving
<1>4. ScreensInv' /\ LoadsInv'
    BY <1>1, <1>2, GroupShown, FetchStarted DEF Inv
<1>5. ViewsInv'
    BY <1>1, <1>4 DEF Inv, ViewsInv, RowsInv
<1>6. CoreInv'
    BY <1>1 DEF Inv, CoreInv, SendInv, SessionsInv, LogInv, PinInv, Readable, Mine, Carried, Apart, Wrapped, Idle
<1> QED BY <1>3, <1>5, <1>6 DEF Inv

\* The reader accepts the key a screen shows.
LEMMA AcceptStep == ASSUME MessengerConstants, Inv, NEW p \in Peer, Accept(p) PROVE Inv'
<1> DEFINE v == IF OnScreen = None THEN NoView ELSE slot[Slot(OnScreen)].view
<1>1. /\ p \in DOMAIN v
      /\ pin' = [pin EXCEPT ![p] = v[p].k]
      /\ seen' = [seen EXCEPT !.accepted = @ \cup {<<p, v[p].k>>}]
      /\ UNCHANGED <<members, key, log, wire, slot, row, loads, fetches, dir, sess, active, send, op, left>>
    BY DEF Accept, server, views, sessions
<1>2. v \in View
    <2>1. NoView \in View
        BY NoViewOf DEF Of
    <2> QED BY <2>1 DEF Slot, Inv, ViewsInv, ScreensInv, DmScreen, GroupScreen, Screen
<1>3. v[p].k \in Key
    BY <1>1, <1>2, ViewIs DEF Person
<1> HIDE DEF v
<1>4. seen' \in Memory /\ seen'.accepted = seen.accepted \cup {<<p, v[p].k>>}
    <2>1. seen \in Memory
        BY DEF Inv, TypeInv
    <2>2. <<p, v[p].k>> \in Peer \X (Key \cup {None})
        BY <1>3
    <2> QED BY <1>1, <2>1, <2>2 DEF Memory
<1>5. pin \in [Peer -> Key \cup {None}]
    BY DEF Inv, TypeInv
<1>6. pin' \in [Peer -> Key \cup {None}] /\ \A q \in Peer : pin'[q] = IF q = p THEN v[p].k ELSE pin[q]
    BY <1>1, <1>3, <1>5
<1>7. TypeInv'
    BY <1>1, <1>4, <1>6 DEF Inv, TypeInv, Arriving
<1>8. ViewsInv'
    BY <1>1 DEF Inv, ViewsInv, ScreensInv, RowsInv, LoadsInv
<1>9. PinInv'
    BY <1>4, <1>6 DEF Inv, CoreInv, PinInv
<1>10. SendInv' /\ SessionsInv' /\ LogInv'
    BY <1>1, <1>4 DEF Inv, CoreInv, SendInv, SessionsInv, LogInv, Readable, Mine, Carried, Apart, Wrapped
<1> QED BY <1>7, <1>8, <1>9, <1>10 DEF Inv, CoreInv

----------------------------------------------------------------------------
(* The theorems. *)

LEMMA InitInv == ASSUME MessengerConstants, Init PROVE Inv
<1>1. /\ members \subseteq Peer /\ key = [p \in Peer |-> 0] /\ log = <<>> /\ wire = <<>>
      /\ slot = [s \in {"dm", "group"} |->
                   IF s = "group" THEN Opened(Grp, Served(Grp), <<>>) ELSE Closed]
      /\ loads = {} /\ fetches = {} /\ sess = <<>> /\ active = [c \in Conv |-> 0]
      /\ dir = [cache |-> [p \in Peer |-> None], asked |-> [p \in Peer |-> None]]
      /\ send = Idle /\ op = Idle
      /\ seen = [accepted |-> {<<p, pin[p]>> : p \in Peer}, rotated |-> key, added |-> {}, failed |-> {}]
    BY DEF Init
<1>2. PICK pins \in {None, 0} : pin = [p \in Peer |-> pins]
    BY DEF Init
<1>3. PICK known \in SUBSET Dms :
        row = [c \in Conv |-> IF c = Grp \/ c \in known THEN Served(c) ELSE NoRow]
    BY DEF Init
<1>4. 0 \in Key
    BY DEF MessengerConstants, Key
<1>5. key \in [Peer -> Key] /\ pin \in [Peer -> Key \cup {None}] /\ dir \in Directory
    BY <1>1, <1>2, <1>4 DEF Directory
<1>6. seen \in Memory
    <2>1. {<<p, pin[p]>> : p \in Peer} \in SUBSET (Peer \X (Key \cup {None}))
        BY <1>5
    <2> QED BY <1>1, <1>5, <2>1 DEF Memory
<1>7. TypeInv
    <2>1. active \in [Conv -> Nat] /\ \A c \in Conv : active[c] <= Len(sess)
        BY <1>1
    <2> QED BY <1>1, <1>5, <1>6, <2>1 DEF TypeInv
<1>8. \A c \in Conv : Of(c, Served(c))
    BY <1>7, ServedOf
<1>9. ScreensInv
    <2>1. GroupScreen(Opened(Grp, Served(Grp), <<>>))
        BY <1>8, NothingShown, OpenedScreen DEF Conv
    <2> QED BY <1>1, <2>1, ClosedScreen DEF ScreensInv
<1>10. RowsInv /\ LoadsInv
    BY <1>1, <1>3, <1>8 DEF RowsInv, LoadsInv
<1>11. SendInv /\ SessionsInv
    BY <1>1 DEF SendInv, SessionsInv, Idle
<1>12. Mine = {}
    BY <1>1 DEF Mine
<1>13. LogInv
    BY <1>1, <1>12 DEF LogInv, Readable
<1>14. PinInv
    BY <1>1 DEF PinInv
<1> QED BY <1>7, <1>9, <1>10, <1>11, <1>13, <1>14 DEF Inv, ViewsInv, CoreInv

LEMMA StepInv == ASSUME MessengerConstants, Inv, [Next]_vars PROVE Inv'
<1>1. CASE \E c \in Conv : OpenConv(c)
    BY <1>1, OpenConvViews, Elsewhere DEF Inv, OpenConv
<1>2. CASE \E l \in loads : LoadStep(l)
    BY <1>2, LoadStepViews, Elsewhere
    DEF Inv, LoadStep, LoadUser, LoadChannel, LoadHistory, LoadAnswer, LoadFails
<1>3. CASE Back
    BY <1>3, BackViews, Elsewhere DEF Inv, Back
<1>4. CASE \E v \in fetches : FetchAnswers(v) \/ FetchFails(v)
    BY <1>4, FetchViews, Elsewhere DEF Inv, FetchAnswers, FetchFails
<1>5. CASE \E i \in Arrived : HearDirect(i) \/ HearGroup(i) \/ HearRotated(i) \/ HearAdded(i) \/ HearRemoved(i)
    BY <1>5, HearDirectStep, HearGroupStep, HearRotatedStep, HearMemberStep
<1>6. CASE SocketDrops
    BY <1>6, SocketDropsStep
<1>7. CASE Submit
    BY <1>7, SubmitStep
<1>8. CASE SendStep
    BY <1>8, GateStep, MintStep, PostStoredStep, PostFailsStep, DirectAnsweredStep, GroupAnsweredStep DEF SendStep
<1>9. CASE \E p \in Peer : DirectoryAnswers(p) \/ DirectoryFails(p)
    BY <1>9, DirectoryStep
<1>10. CASE \E p \in Peer : Accept(p)
    BY <1>10, AcceptStep
<1>11. CASE \E p \in Peer : AskRemove(p) \/ AskAdd(p) \/ PeerAdds(p) \/ PeerRemoves(p)
    BY <1>11, MembersStep
<1>12. CASE \E p \in Peer : PeerRotates(p) \/ \E c \in Conv : PeerWrites(p, c)
    BY <1>12, PeerRotatesStep, PeerWritesStep
<1>13. CASE OpAnswered \/ OpFails
    BY <1>13, OpStep
<1>14. CASE UNCHANGED vars
    <2>1. UNCHANGED <<members, key, log, wire, slot, row, loads, fetches, dir, pin, sess, active, send, op, seen>>
        BY <1>14 DEF vars, server, views, trust, sessions
    <2>2. TypeInv'
        BY <2>1 DEF Inv, TypeInv, Arriving
    <2>3. ViewsInv'
        BY <2>1 DEF Inv, ViewsInv, ScreensInv, RowsInv, LoadsInv
    <2> QED BY <2>1, <2>2, <2>3, Quiet DEF Inv
<1> QED BY <1>1, <1>2, <1>3, <1>4, <1>5, <1>6, <1>7, <1>8, <1>9, <1>10, <1>11, <1>12, <1>13, <1>14 DEF Next

LEMMA Sound == ASSUME MessengerConstants PROVE Spec => []Inv
<1>1. Init => Inv
    BY InitInv
<1>2. Inv /\ [Next]_vars => Inv'
    BY StepInv
<1> QED BY <1>1, <1>2, PTL DEF Spec

\* What holds of every send and every screen: whatever fails, is lost or crosses
\* it, a stored message is preceded by the keys of its session, goes to no key
\* but those the reader accepted, and is shown once.
THEOREM SendsHold == ASSUME MessengerConstants PROVE Spec => []SendsInv
<1>1. ASSUME Inv PROVE SendsInv
    <2>1. TypeOK
        <3>1. \A m \in ToSet(log) : m.conv \in Conv /\ m.sid \in 0 .. Len(sess) /\ m.seq < MaxSeq
            <4>1. \A i \in 1 .. Len(log) : log[i] \in Message /\ log[i].sid <= Len(sess)
                BY <1>1 DEF Inv, TypeInv, CoreInv, LogInv
            <4>2. Len(sess) \in Nat /\ log \in Seq(Message)
                BY <1>1 DEF Inv, TypeInv
            <4>3. \A m \in ToSet(log) : \E i \in 1 .. Len(log) : m = log[i]
                BY <4>2 DEF ToSet
            <4> SUFFICES ASSUME NEW i \in 1 .. Len(log)
                         PROVE  log[i].conv \in Conv /\ log[i].sid \in 0 .. Len(sess) /\ log[i].seq < MaxSeq
                BY <4>3
            <4> QED BY <4>1, <4>2 DEF Message, MessengerConstants
        <3>2. \A v \in View : IsView(v)
            BY ViewIs DEF IsView, Person
        <3>3. \A s \in {"dm", "group"} : /\ slot[s].conv \in (IF s = "group" THEN {Grp} ELSE Dms) \cup {None}
                                         /\ IsView(slot[s].view)
            BY <1>1, <3>2 DEF Inv, ViewsInv, ScreensInv, DmScreen, GroupScreen, Screen
        <3>4. \A c \in Conv : (row[c] = NoRow \/ IsView(row[c])) /\ active[c] \in 0 .. Len(sess)
            <4>1. \A c \in Conv : row[c] = NoRow \/ IsView(row[c])
                BY <1>1, <3>2 DEF Inv, ViewsInv, RowsInv, Of
            <4>2. \A c \in Conv : active[c] \in 0 .. Len(sess)
                BY <1>1 DEF Inv, TypeInv
            <4> QED BY <4>1, <4>2
        <3>5. (\A l \in loads : l.conv \in Conv /\ IsView(l.view)) /\ \A v \in fetches : IsView(v)
            BY <1>1, <3>2 DEF Inv, ViewsInv, LoadsInv, Loading, Load
        <3>6. \A p \in Peer : {dir.cache[p], dir.asked[p], pin[p]} \subseteq Key \cup {None}
            BY <1>1 DEF Inv, TypeInv, Directory
        <3>7. send.pc \in {"idle", "gate", "mint", "post", "answer"} /\ op.pc \in {"idle", "add", "remove"}
            BY <1>1 DEF Inv, TypeInv, Idle, Draft, Change
        <3> QED BY <1>1, <3>1, <3>3, <3>4, <3>5, <3>6, <3>7 DEF TypeOK, Inv, TypeInv
    <2>2. Readable
        BY <1>1 DEF Inv, CoreInv, LogInv
    <2>3. OnlyAcceptedKeys
        <3>1. \A i \in Mine : log[i].sid \in 1 .. Len(sess)
            <4>1. Mine \subseteq 1 .. Len(log) /\ \A i \in 1 .. Len(log) : log[i] \in Message
                BY <1>1 DEF Inv, TypeInv, Mine
            <4>2. Len(sess) \in Nat
                BY <1>1 DEF Inv, TypeInv
            <4> QED BY <1>1, <4>1, <4>2 DEF Inv, CoreInv, LogInv, Message
        <3> QED BY <1>1, <3>1 DEF OnlyAcceptedKeys, Inv, CoreInv, SessionsInv
    <2>4. ShownOnce
        BY <1>1 DEF ShownOnce, Inv, ViewsInv, ScreensInv, DmScreen, GroupScreen
    <2> QED BY <2>1, <2>2, <2>3, <2>4 DEF SendsInv
<1> QED BY <1>1, Sound, PTL

\* Forward secrecy: no message goes under a session wrapped for somebody no copy,
\* answer or frame still named as a member when it was submitted, though an older
\* send may have put that session back.
THEOREM StrangersShutOut == ASSUME MessengerConstants PROVE Spec => []ForwardSecret
<1>1. ASSUME Inv PROVE ForwardSecret
    BY <1>1 DEF ForwardSecret, WrappedPeers, Inv, CoreInv, LogInv, Apart
<1> QED BY <1>1, Sound, PTL

----------------------------------------------------------------------------
(***************************************************************************)
(* Whatever a history holds, the cached session keys are their sessions'.  *)
(*                                                                         *)
(* A key enters the cache from an envelope its author signed, or from a    *)
(* session minted here.  Between the two is a step in which a handler      *)
(* holds envelopes to unwrap: the inductive invariant says of those what   *)
(* it says of the caches, and that the ref never knows a key the state     *)
(* does not.                                                               *)
(***************************************************************************)
Wants == UNION {[D -> Sid] : D \in SUBSET (Chat \X Sid)}

Handler ==
    [stage : Stages, kind : Kind, conv : Chat \cup {Nil}, rows : SUBSET Row,
     good : SUBSET Row, clear : SUBSET Row, want : Wants]
Pane == [conv : Chat \cup {Nil}, rows : SUBSET Row, clear : SUBSET Row]

\* A handler's messages are as it verified them, what it is to unwrap is true.
Known(r) ==
    /\ r \in Handler /\ r.clear \subseteq r.rows
    /\ r.stage = "history" => r.clear = {}
    /\ \A m \in r.good : Verified(m)
    /\ Truthful(r.want)

CachesInv ==
    /\ IsCache(keys) /\ IsCache(ref) /\ TrueKeys
    /\ DOMAIN ref \subseteq DOMAIN keys
JobsInv == job \in [Job -> Handler] /\ \A j \in Job : Known(job[j])
PanesInv == screen \in [Kind -> Pane] /\ \A k \in Kind : screen[k].clear \subseteq screen[k].rows
RestInv == born \subseteq Fresh /\ dead \in BOOLEAN
ReadingInv == CachesInv /\ JobsInv /\ PanesInv /\ RestInv

----------------------------------------------------------------------------
(* One message, one cache. *)

\* The conversation a delivered message belongs to is one of this user's.
LEMMA RowConv ==
    ASSUME ReadingConstants, NEW r \in Row
    PROVE  ConvOf(r) \in Chat /\ KeyId(r) \in Chat \X Sid
BY DEF ReadingConstants, ConvOf, KeyId, Chat, Kind

\* A verified envelope, adoptable, carries the key of the session it names, in the
\* conversation that session was minted for.
LEMMA SignedKey ==
    ASSUME ReadingConstants, NEW r \in Row, Verified(r), r.wrap # Nil,
           r.kind = "group" \/ Me \in {r.from, r.to}
    PROVE  r.wrap = r.sid /\ Home(r.sid) = ConvOf(r)
<1>1. PICK s \in Sid : \E w, c \in {s, Nil} : r.sig = Statement(s, w, c)
    BY DEF Verified, ReadingConstants, Signed
<1>0. PICK w \in {s, Nil}, c \in {s, Nil} : r.sig = Statement(s, w, c)
    BY <1>1
<1>2. /\ Session[s].by = r.from /\ Session[s].to = r.to /\ s = r.sid /\ w = r.wrap
      /\ r.gid = IF Session[s].to \in Group THEN Session[s].to ELSE Nil
    BY <1>0 DEF Verified, Statement
<1>3. r.gid = IF r.kind = "group" THEN r.to ELSE Nil
    BY DEF Verified
<1>4. /\ r.from \in User \cup {Me} /\ r.from # r.to /\ r.kind \in {"dm", "group"}
      /\ r.to \in IF r.kind = "group" THEN Group ELSE User \cup {Me}
      /\ Me \notin User \cup Group /\ User \cap Group = {} /\ Nil \notin Group
    BY DEF ReadingConstants, Kind, Chat
<1> QED BY <1>0, <1>2, <1>3, <1>4 DEF Home, ConvOf

\* Keys put into a cache leave it a cache, true if both are, and drop nothing.
LEMMA AdoptCache ==
    ASSUME NEW f, NEW g, IsCache(f), IsCache(g), Truthful(f), Truthful(g)
    PROVE  /\ IsCache(Adopt(f, g)) /\ Truthful(Adopt(f, g))
           /\ DOMAIN g \subseteq DOMAIN Adopt(f, g)
BY DEF IsCache, Truthful, Adopt

LEMMA CacheIsWant == ASSUME NEW f PROVE IsCache(f) <=> f \in Wants
<1>1. ASSUME IsCache(f) PROVE f \in Wants
    BY <1>1 DEF IsCache, Wants
<1>2. ASSUME f \in Wants PROVE IsCache(f)
    <2>1. PICK D \in SUBSET (Chat \X Sid) : f \in [D -> Sid]
        BY <1>2 DEF Wants
    <2>2. DOMAIN f = D
        BY <2>1
    <2> QED BY <2>1, <2>2 DEF IsCache
<1> QED BY <1>1, <1>2

LEMMA EmptyCache == IsCache(<<>>) /\ Truthful(<<>>)
<1>1. DOMAIN <<>> = {}
    OBVIOUS
<1>2. <<>> \in [{} -> Sid]
    OBVIOUS
<1> QED BY <1>1, <1>2 DEF IsCache, Truthful

----------------------------------------------------------------------------
(* One handler. *)

LEMMA ToSound ==
    ASSUME JobsInv, NEW j \in Job, NEW r, To(j, r), Known(r)
    PROVE  JobsInv'
<1>1. job' \in [Job -> Handler]
    BY DEF JobsInv, To, Known
<1>2. ASSUME NEW i \in Job PROVE Known(job'[i])
    BY DEF JobsInv, To
<1> QED BY <1>1, <1>2 DEF JobsInv, Known

LEMMA RestingSound == Known(Resting)
<1>1. <<>> \in Wants /\ Truthful(<<>>)
    BY EmptyCache, CacheIsWant
<1> QED BY <1>1 DEF Known, Resting, Handler, Stages, Kind

\* What a handler is to unwrap is true when it comes from envelopes it verified.
LEMMA WantSound ==
    ASSUME ReadingConstants, JobsInv, NEW j \in Job,
           NEW first \in [{KeyId(m) : m \in Seeds(job[j])} -> Seeds(job[j])],
           \A i \in DOMAIN first : KeyId(first[i]) = i
    PROVE  LET want == [i \in DOMAIN first |-> first[i].wrap]
           IN  want \in Wants /\ Truthful(want)
<1> DEFINE want == [i \in DOMAIN first |-> first[i].wrap]
<1>1. ASSUME NEW i \in DOMAIN first
      PROVE  i \in Chat \X Sid /\ first[i].wrap \in Sid /\ first[i].wrap = i[2] /\ Home(i[2]) = i[1]
    <2>1. /\ first[i] \in Row /\ first[i].wrap # Nil /\ Verified(first[i])
          /\ first[i].kind = "group" \/ Me \in {first[i].from, first[i].to}
        BY <1>1 DEF Seeds, Adoptable, JobsInv, Known, Handler
    <2>2. KeyId(first[i]) = i
        OBVIOUS
    <2>3. first[i].wrap = first[i].sid /\ Home(first[i].sid) = ConvOf(first[i])
        BY <2>1, SignedKey
    <2>4. i \in Chat \X Sid
        BY <2>1, <2>2, RowConv
    <2> QED BY <2>1, <2>2, <2>3, <2>4 DEF KeyId, ReadingConstants
<1>2. DOMAIN want = DOMAIN first /\ DOMAIN want \subseteq Chat \X Sid
    BY <1>1
<1>3. want \in [DOMAIN want -> Sid]
    BY <1>1
<1>4. IsCache(want) /\ Truthful(want)
    BY <1>1, <1>2, <1>3 DEF IsCache, Truthful
<1> QED BY <1>4, CacheIsWant

\* Some of those keys are as true.
LEMMA SomeSound ==
    ASSUME NEW f, IsCache(f), Truthful(f), NEW got \in SUBSET DOMAIN f
    PROVE  LET g == [i \in got |-> f[i]] IN IsCache(g) /\ Truthful(g)
BY DEF IsCache, Truthful

\* So is the one key of a session, in its conversation.
LEMMA OneKey ==
    ASSUME NEW s \in Sid, Home(s) \in Chat
    PROVE  LET g == [i \in {<<Home(s), s>>} |-> s] IN IsCache(g) /\ Truthful(g)
BY DEF IsCache, Truthful

----------------------------------------------------------------------------
(* Every step. *)

LEMMA ReadingInitially == ASSUME ReadingConstants, ReadingInit PROVE ReadingInv
<1>1. CachesInv
    BY EmptyCache DEF ReadingInit, CachesInv, TrueKeys
<1>2. JobsInv
    <2>1. Resting \in Handler
        BY RestingSound DEF Known
    <2> QED BY <2>1, RestingSound DEF ReadingInit, JobsInv
<1>3. PanesInv
    BY DEF ReadingInit, PanesInv, Pane, NoScreen
<1> QED BY <1>1, <1>2, <1>3 DEF ReadingInv, ReadingInit, RestInv

\* The steps that leave the caches alone.
LEMMA QuietStep ==
    ASSUME ReadingConstants, ReadingInv, UNCHANGED <<keys, ref, born>>, dead' \in BOOLEAN,
           JobsInv', PanesInv'
    PROVE  ReadingInv'
BY DEF ReadingInv, CachesInv, RestInv, IsCache, TrueKeys, Truthful

\* A load replaces the state by the ref's copy and more; a press adds to the state.
LEMMA AdoptStep ==
    ASSUME ReadingConstants, ReadingInv, NEW f, IsCache(f), Truthful(f),
           keys' = Adopt(f, ref) \/ keys' = Adopt(f, keys), UNCHANGED ref
    PROVE  CachesInv'
<1>1. CASE keys' = Adopt(f, ref)
    BY <1>1, AdoptCache DEF ReadingInv, CachesInv, IsCache, TrueKeys, Truthful
<1>2. CASE keys' = Adopt(f, keys)
    <2>1. IsCache(Adopt(f, keys)) /\ Truthful(Adopt(f, keys)) /\ DOMAIN keys \subseteq DOMAIN Adopt(f, keys)
        BY AdoptCache DEF ReadingInv, CachesInv, TrueKeys
    <2> QED BY <1>2, <2>1 DEF ReadingInv, CachesInv, IsCache, TrueKeys, Truthful
<1> QED BY <1>1, <1>2

\* A handler of this invariant, at rest or not, is a sound record.
LEMMA JobSound ==
    ASSUME ReadingInv, NEW j \in Job
    PROVE  job[j] \in Handler /\ Known(job[j]) /\ Truthful(job[j].want) /\ IsCache(job[j].want)
<1>1. job[j] \in Handler /\ Known(job[j])
    BY DEF ReadingInv, JobsInv
<1>2. job[j].want \in Wants /\ Truthful(job[j].want)
    BY <1>1 DEF Known, Handler
<1> QED BY <1>1, <1>2, CacheIsWant

\* A screen stays one when messages of a handler replace or join what it shows.
LEMMA ScreenOnly ==
    ASSUME ReadingInv, NEW k \in Kind, NEW v, v \in Pane, v.clear \subseteq v.rows,
           screen' = [screen EXCEPT ![k] = v]
    PROVE  PanesInv'
BY DEF ReadingInv, PanesInv

LEMMA SameScreens == ASSUME ReadingInv, UNCHANGED screen PROVE PanesInv'
BY DEF ReadingInv, PanesInv

LEMMA SameJobs == ASSUME ReadingInv, UNCHANGED job PROVE JobsInv'
BY DEF ReadingInv, JobsInv

\* The steps of the tab itself.
LEMMA TabStep ==
    ASSUME ReadingConstants, ReadingInv, Sync \/ Close \/ \E s \in Fresh : MintHere(s)
    PROVE  ReadingInv'
<1>1. CASE Sync
    <2>1. CachesInv'
        BY <1>1 DEF Sync, ReadingInv, CachesInv, IsCache, TrueKeys, Truthful
    <2> QED BY <1>1, <2>1, SameScreens, SameJobs DEF Sync, ReadingInv, RestInv
<1>2. CASE Close
    <2>1. PanesInv'
        BY <1>2 DEF Close, NoScreen, PanesInv, Pane
    <2> QED BY <1>2, <2>1, SameJobs, QuietStep DEF Close, ReadingInv, RestInv
<1>3. ASSUME NEW s \in Fresh, MintHere(s) PROVE ReadingInv'
    <2>1. s \in Sid /\ Home(s) \in Chat
        BY <1>3 DEF ReadingConstants, Home, Chat
    <2> DEFINE f == [i \in {<<Home(s), s>>} |-> s]
    <2>2. IsCache(f) /\ Truthful(f)
        BY <2>1, OneKey
    <2>3. keys' = Adopt(f, keys) /\ UNCHANGED ref
        BY <1>3 DEF MintHere
    <2> HIDE DEF f
    <2>4. CachesInv'
        BY <2>2, <2>3, AdoptStep
    <2> QED BY <1>3, <2>4, SameScreens, SameJobs DEF MintHere, ReadingInv, RestInv
<1> QED BY <1>1, <1>2, <1>3

\* The steps of a load that touch nothing but its own handler.
LEMMA HistoryStep ==
    ASSUME ReadingConstants, ReadingInv, NEW j \in Job,
           History(j) \/ HistoryFails(j) \/ FromCache(j) \/ UnwrapFails(j) \/ PressRefused(j)
    PROVE  ReadingInv'
<1> USE DEF Kind
<1>0. PanesInv' /\ dead' \in BOOLEAN /\ UNCHANGED <<keys, ref, born>>
    BY SameScreens DEF History, HistoryFails, FromCache, UnwrapFails, PressRefused, ReadingInv, RestInv
<1>1. ASSUME NEW r, To(j, r), Known(r) PROVE ReadingInv'
    BY <1>0, <1>1, ToSound, QuietStep DEF ReadingInv
<1>2. job[j] \in Handler /\ Known(job[j])
    BY JobSound
<1>3. CASE HistoryFails(j) \/ PressRefused(j)
    BY <1>1, <1>3, RestingSound DEF HistoryFails, PressRefused
<1>4. CASE History(j)
    <2>1. PICK rows \in SUBSET Delivered(job[j].kind, job[j].conv) :
            \E good \in SUBSET {r \in rows : Verified(r)} :
                To(j, [job[j] EXCEPT !.stage = "cached", !.rows = rows, !.good = good])
        BY <1>4 DEF History
    <2>2. PICK good \in SUBSET {r \in rows : Verified(r)} :
            To(j, [job[j] EXCEPT !.stage = "cached", !.rows = rows, !.good = good])
        BY <2>1
    <2>3. rows \subseteq Row /\ good \subseteq Row /\ \A m \in good : Verified(m)
        BY DEF Delivered
    <2>4. [job[j] EXCEPT !.stage = "cached", !.rows = rows, !.good = good] \in Handler
        BY <1>2, <2>3 DEF Handler, Stages
    <2>5. Known([job[j] EXCEPT !.stage = "cached", !.rows = rows, !.good = good])
        BY <1>2, <1>4, <2>3, <2>4 DEF Known, History, Handler
    <2> QED BY <1>1, <2>2, <2>5
<1>5. CASE FromCache(j)
    BY <1>1, <1>2, <1>5 DEF FromCache, Known, Handler, Stages
<1>6. CASE UnwrapFails(j)
    BY <1>1, <1>2, <1>6 DEF UnwrapFails, Known, Handler, Stages
<1> QED BY <1>3, <1>4, <1>5, <1>6

\* The envelopes chosen are true, so what the handler is to unwrap is.
LEMMA CollectStep ==
    ASSUME ReadingConstants, ReadingInv, NEW j \in Job, Collect(j)
    PROVE  ReadingInv'
<1>1. PICK first \in [{KeyId(m) : m \in Seeds(job[j])} -> Seeds(job[j])] :
        /\ \A i \in DOMAIN first : KeyId(first[i]) = i
        /\ To(j, [job[j] EXCEPT !.stage = IF DOMAIN first = {} THEN "show" ELSE "unwrap",
                                !.want = [i \in DOMAIN first |-> first[i].wrap]])
    BY DEF Collect
<1> DEFINE want == [i \in DOMAIN first |-> first[i].wrap]
           stage == IF DOMAIN first = {} THEN "show" ELSE "unwrap"
<1>2. want \in Wants /\ Truthful(want)
    BY <1>1, WantSound DEF ReadingInv
<1>3. To(j, [job[j] EXCEPT !.stage = stage, !.want = want]) /\ stage \in Stages /\ stage # "history"
    BY <1>1 DEF Stages
<1>4. job[j] \in Handler /\ Known(job[j])
    BY JobSound
<1> HIDE DEF want, stage
<1>5. Known([job[j] EXCEPT !.stage = stage, !.want = want])
    BY <1>2, <1>3, <1>4 DEF Known, Handler
<1>6. JobsInv'
    BY <1>3, <1>5, ToSound DEF ReadingInv
<1> QED BY <1>6, QuietStep, SameScreens DEF Collect, ReadingInv, RestInv

\* The keys unwrapped are some of those the handler verified.
LEMMA UnwrapStep ==
    ASSUME ReadingConstants, ReadingInv, NEW j \in Job, Unwrap(j)
    PROVE  ReadingInv'
<1>1. PICK got \in SUBSET DOMAIN job[j].want :
        /\ keys' = Adopt([i \in got |-> job[j].want[i]], ref)
        /\ To(j, [job[j] EXCEPT !.stage = "show",
                                !.clear = @ \cup {r \in job[j].rows : Opens(keys', r)}])
    BY DEF Unwrap
<1> DEFINE f == [i \in got |-> job[j].want[i]]
           opened == {r \in job[j].rows : Opens(keys', r)}
<1>2. job[j] \in Handler /\ Known(job[j])
    BY JobSound
<1>3. IsCache(f) /\ Truthful(f)
    BY JobSound, SomeSound
<1>4. opened \subseteq job[j].rows
    OBVIOUS
<1>5. To(j, [job[j] EXCEPT !.stage = "show", !.clear = @ \cup opened])
    BY <1>1
<1>6. keys' = Adopt(f, ref) /\ UNCHANGED <<ref, screen, born, dead>>
    BY <1>1 DEF Unwrap
<1> HIDE DEF f, opened
<1>7. Known([job[j] EXCEPT !.stage = "show", !.clear = @ \cup opened])
    BY <1>2, <1>4 DEF Known, Handler, Stages
<1>8. JobsInv'
    BY <1>5, <1>7, ToSound DEF ReadingInv
<1>9. CachesInv'
    BY <1>3, <1>6, AdoptStep
<1> QED BY <1>6, <1>8, <1>9, SameScreens DEF ReadingInv, RestInv

\* A message verified by hand carries its session's key.
LEMMA PressStep ==
    ASSUME ReadingConstants, ReadingInv, NEW j \in Job, PressUnwraps(j)
    PROVE  ReadingInv'
<1> DEFINE k == job[j].kind
<1>1. PICK r \in {m \in job[j].rows : Verified(m) /\ m.wrap # Nil} :
        /\ Adoptable(r, job[j].rows)
        /\ keys' = Adopt([i \in {KeyId(r)} |-> r.wrap], keys)
        /\ To(j, [job[j] EXCEPT !.stage = "replace", !.rows = screen[k].rows,
                    !.clear = screen[k].clear \cup
                        {m \in screen[k].rows :
                            KeyId(m) = KeyId(r) /\ Opens([i \in {KeyId(r)} |-> r.wrap], m)}])
    BY DEF PressUnwraps
<1> DEFINE f == [i \in {<<Home(r.sid), r.sid>>} |-> r.sid]
           clear == screen[k].clear \cup
                        {m \in screen[k].rows :
                            KeyId(m) = KeyId(r) /\ Opens([i \in {KeyId(r)} |-> r.wrap], m)}
<1>2. job[j] \in Handler /\ Known(job[j])
    BY JobSound
<1>3. r \in Row /\ Verified(r) /\ r.wrap # Nil /\ (r.kind = "group" \/ Me \in {r.from, r.to})
    BY <1>1, <1>2 DEF Handler, Adoptable
<1>4. r.wrap = r.sid /\ Home(r.sid) = ConvOf(r) /\ ConvOf(r) \in Chat /\ r.sid \in Sid
    BY <1>3, SignedKey, RowConv DEF ReadingConstants
<1>5. IsCache(f) /\ Truthful(f)
    BY <1>4, OneKey
<1>6. keys' = Adopt(f, keys) /\ UNCHANGED <<ref, screen, born, dead>>
    BY <1>1, <1>4 DEF PressUnwraps, KeyId
<1>7. k \in Kind /\ screen[k] \in Pane /\ clear \subseteq screen[k].rows
    BY <1>2 DEF ReadingInv, PanesInv, Handler
<1>8. To(j, [job[j] EXCEPT !.stage = "replace", !.rows = screen[k].rows, !.clear = clear])
    BY <1>1
<1> HIDE DEF f, clear, k
<1>9. Known([job[j] EXCEPT !.stage = "replace", !.rows = screen[k].rows, !.clear = clear])
    BY <1>2, <1>7 DEF Known, Handler, Stages, Pane
<1>10. JobsInv'
    BY <1>8, <1>9, ToSound DEF ReadingInv
<1>11. CachesInv'
    BY <1>5, <1>6, AdoptStep
<1> QED BY <1>6, <1>10, <1>11, SameScreens DEF ReadingInv, RestInv

\* The steps that start a handler.
LEMMA BeginStep ==
    ASSUME ReadingConstants, ReadingInv, NEW j \in Job,
           \/ \E k \in Kind, c \in Chat : Open(j, k, c)
           \/ \E r \in Row : Hear(j, r)
           \/ \E k \in Kind, r \in Row : Press(j, k, r)
    PROVE  ReadingInv'
<1>0. Known(Resting) /\ Resting \in Handler
    BY RestingSound DEF Known
<1>1. ASSUME NEW k \in Kind, NEW c \in Chat, Open(j, k, c) PROVE ReadingInv'
    <2>1. Known([Resting EXCEPT !.stage = "history", !.kind = k, !.conv = c])
        BY <1>0, <1>1 DEF Known, Handler, Stages, Resting
    <2>2. JobsInv'
        BY <1>1, <2>1, ToSound DEF Open, ReadingInv
    <2>3. PanesInv'
        BY <1>1 DEF Open, PanesInv, Pane, NoScreen
    <2> QED BY <1>1, <2>2, <2>3, QuietStep DEF Open, ReadingInv, RestInv
<1>2. ASSUME NEW r \in Row, Hear(j, r) PROVE ReadingInv'
    <2> DEFINE clear == {m \in {r} : Opens(ref, m)}
    <2>1. To(j, [Resting EXCEPT !.stage = "frame", !.kind = r.kind, !.conv = ConvOf(r), !.rows = {r},
                                !.clear = clear])
        BY <1>2 DEF Hear
    <2>2. r.kind \in Kind /\ ConvOf(r) \in Chat /\ clear \subseteq {r}
        BY RowConv DEF ReadingConstants
    <2> HIDE DEF clear
    <2>3. Known([Resting EXCEPT !.stage = "frame", !.kind = r.kind, !.conv = ConvOf(r), !.rows = {r},
                                !.clear = clear])
        BY <1>0, <2>2 DEF Known, Handler, Stages, Resting
    <2>4. JobsInv'
        BY <2>1, <2>3, ToSound DEF ReadingInv
    <2> QED BY <1>2, <2>4, SameScreens, QuietStep DEF Hear, ReadingInv, RestInv
<1>3. ASSUME NEW k \in Kind, NEW r \in Row, Press(j, k, r) PROVE ReadingInv'
    <2>1. ASSUME NEW st \in {"mark", "press"}
          PROVE  Known([Resting EXCEPT !.stage = st, !.kind = k, !.rows = {r}])
        BY <1>0 DEF Known, Handler, Stages, Resting
    <2>2. JobsInv'
        BY <1>3, <2>1, ToSound DEF Press, ReadingInv
    <2> QED BY <1>3, <2>2, SameScreens, QuietStep DEF Press, ReadingInv, RestInv
<1> QED BY <1>1, <1>2, <1>3

\* The steps that end a handler with a screen.
LEMMA EndStep ==
    ASSUME ReadingConstants, ReadingInv, NEW j \in Job,
           ShowHistory(j) \/ FrameShown(j) \/ Mark(j) \/ Replace(j)
    PROVE  ReadingInv'
<1> DEFINE r == job[j]
           k == r.kind
           s == screen[k]
<1>0. JobsInv' /\ dead' \in BOOLEAN /\ UNCHANGED <<keys, ref, born>>
    BY ToSound, RestingSound DEF ShowHistory, FrameShown, Mark, Replace, ReadingInv, RestInv
<1>1. r \in Handler /\ r.clear \subseteq r.rows
    BY JobSound DEF Known
<1>2. k \in Kind /\ s \in Pane /\ s.clear \subseteq s.rows
    BY <1>1 DEF Handler, ReadingInv, PanesInv
<1>3. r.rows \subseteq Row /\ r.conv \in Chat \cup {Nil}
    BY <1>1 DEF Handler
<1>4. screen \in [Kind -> Pane] /\ \A x \in Kind : screen[x].clear \subseteq screen[x].rows
    BY DEF ReadingInv, PanesInv
<1>5. ASSUME ShowHistory(j) PROVE ReadingInv'
    <2> DEFINE v == [conv |-> r.conv, rows |-> r.rows, clear |-> r.clear]
    <2>1. screen' = [screen EXCEPT ![k] = v]
        BY <1>5 DEF ShowHistory
    <2>2. v \in Pane /\ v.clear \subseteq v.rows
        BY <1>1, <1>3 DEF Pane
    <2> HIDE DEF v
    <2>3. PanesInv'
        BY <1>2, <2>1, <2>2, ScreenOnly
    <2> QED BY <1>0, <2>3, QuietStep
<1>6. CASE FrameShown(j)
    <2>1. CASE UNCHANGED screen
        BY <1>0, <2>1, SameScreens, QuietStep
    <2>2. CASE screen' = [screen EXCEPT ![k].rows = @ \cup r.rows, ![k].clear = @ \cup r.clear]
        <3> DEFINE v == [s EXCEPT !.rows = @ \cup r.rows, !.clear = @ \cup r.clear]
        <3>1. screen' = [screen EXCEPT ![k] = v]
            BY <1>2, <1>4, <2>2
        <3>2. v \in Pane /\ v.clear \subseteq v.rows
            BY <1>1, <1>2, <1>3 DEF Pane
        <3> HIDE DEF v
        <3>3. PanesInv'
            BY <1>2, <3>1, <3>2, ScreenOnly
        <3> QED BY <1>0, <3>3, QuietStep
    <2> QED BY <1>6, <2>1, <2>2 DEF FrameShown
<1>7. CASE Mark(j)
    <2> DEFINE v == [s EXCEPT !.clear = @ \cup (r.rows \cap s.rows)]
    <2>1. screen' = [screen EXCEPT ![k] = v]
        BY <1>2, <1>4, <1>7 DEF Mark
    <2>2. v \in Pane /\ v.clear \subseteq v.rows
        BY <1>2, <1>3 DEF Pane
    <2> HIDE DEF v
    <2>3. PanesInv'
        BY <1>2, <2>1, <2>2, ScreenOnly
    <2> QED BY <1>0, <2>3, QuietStep
<1>8. CASE Replace(j)
    <2>1. CASE UNCHANGED screen
        BY <1>0, <2>1, SameScreens, QuietStep
    <2>2. CASE screen' = [screen EXCEPT ![k].rows = r.rows, ![k].clear = r.clear]
        <3> DEFINE v == [s EXCEPT !.rows = r.rows, !.clear = r.clear]
        <3>1. screen' = [screen EXCEPT ![k] = v]
            BY <1>2, <1>4, <2>2
        <3>2. v \in Pane /\ v.clear \subseteq v.rows
            BY <1>1, <1>2, <1>3 DEF Pane
        <3> HIDE DEF v
        <3>3. PanesInv'
            BY <1>2, <3>1, <3>2, ScreenOnly
        <3> QED BY <1>0, <3>3, QuietStep
    <2> QED BY <1>8, <2>1, <2>2 DEF Replace
<1> QED BY <1>5, <1>6, <1>7, <1>8

LEMMA NextInv == ASSUME ReadingConstants, ReadingInv, [ReadingNext]_readingVars PROVE ReadingInv'
<1>1. CASE UNCHANGED readingVars
    BY <1>1, SameScreens, SameJobs, QuietStep DEF readingVars, ReadingInv, RestInv
<1>2. ASSUME NEW j \in Job, Step(j) PROVE ReadingInv'
    BY <1>2, HistoryStep, CollectStep, UnwrapStep, PressStep, BeginStep, EndStep DEF Step
<1> QED BY <1>1, <1>2, TabStep DEF ReadingNext

\* Every reachable state satisfies it.
LEMMA ReadingInvariance == ASSUME ReadingConstants PROVE ReadingSpec => []ReadingInv
<1>1. ReadingInit => ReadingInv
    BY ReadingInitially
<1>2. ReadingInv /\ [ReadingNext]_readingVars => ReadingInv'
    BY NextInv
<1> QED BY <1>1, <1>2, PTL DEF ReadingSpec

----------------------------------------------------------------------------
(* The theorems. *)

\* The state has the shape the screens rely on: what is shown in clear is shown
\* (useMessageSessions' display list is the message list).
THEOREM ReadingTypes == ASSUME ReadingConstants PROVE ReadingSpec => []ReadingTypeOK
<1>1. ASSUME ReadingInv PROVE ReadingTypeOK
    <2>1. \A k \in Kind : screen[k].conv \in Chat \cup {Nil} /\ screen[k].clear \subseteq screen[k].rows
        BY <1>1 DEF ReadingInv, PanesInv, Pane
    <2>2. \A j \in Job : job[j].stage \in Stages /\ job[j].rows \subseteq Row
                      /\ job[j].clear \subseteq job[j].rows
        BY <1>1 DEF ReadingInv, JobsInv, Known, Handler
    <2> QED BY <1>1, <2>1, <2>2 DEF ReadingInv, CachesInv, RestInv, ReadingTypeOK
<1>2. ReadingInv => ReadingTypeOK
    BY <1>1
<1> QED BY <1>2, ReadingInvariance, PTL

\* Whatever messages the server delivers, a cached key is its session's own, for
\* the conversation the session was minted for (mayAdoptSession).
THEOREM KeysAreTrue == ASSUME ReadingConstants PROVE ReadingSpec => []TrueKeys
<1>1. ReadingInv => TrueKeys
    BY DEF ReadingInv, CachesInv
<1> QED BY <1>1, ReadingInvariance, PTL

\* However many loads replace the cache by their own copy, what a handler could
\* see of it stays (processMessages, step 4).
THEOREM SeenKeysAreKept == ASSUME ReadingConstants PROVE ReadingSpec => SeenKeysStay
<1> DEFINE Kept == \A i \in DOMAIN ref : i \in DOMAIN ref' /\ ref'[i] = ref[i]
<1>1. ASSUME ReadingInv, [ReadingNext]_readingVars PROVE [Kept]_readingVars
    <2>1. ref' = ref \/ ref' = keys
        BY <1>1 DEF ReadingNext, Step, readingVars, Sync, Close, MintHere, Open, History, HistoryFails, FromCache, Collect,
                    Unwrap, UnwrapFails, ShowHistory, Hear, FrameShown, Press, Mark, PressUnwraps,
                    PressRefused, Replace
    <2>2. \A i \in DOMAIN ref : i \in DOMAIN keys /\ keys[i] = ref[i]
        BY <1>1 DEF ReadingInv, CachesInv, TrueKeys, Truthful
    <2> QED BY <2>1, <2>2
<1>2. ReadingInv /\ [ReadingNext]_readingVars => [Kept]_readingVars
    BY <1>1
<1> QED BY <1>2, ReadingInvariance, PTL DEF ReadingSpec, SeenKeysStay
=============================================================================
