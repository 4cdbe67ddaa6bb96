----------------------------- MODULE ServerProofs -----------------------------
(***************************************************************************)
(* The parts of the server without a state in common, which MCServer runs  *)
(* side by side: no socket is forgotten, no group loses its shape, and a   *)
(* relayed vault is handed out once.                                       *)
(*                                                                         *)
(* HangupComplete is not inductive: it says that some hang-up is under way *)
(* at a worker, not that it will reach this socket.  Covered says which    *)
(* frame or which coroutine is going to: a loop that has yet to copy the   *)
(* registry, or one whose copy has the socket.                             *)
(*                                                                         *)
(* A commit to a group works on what its request read.  What survives that *)
(* is little: an UPDATE finds only the membership that was read, so a      *)
(* departure or a change of role invents none (Fits), and the additions    *)
(* under way count against the limit (Counted).  Alone, a request acts on  *)
(* what is still true (AloneInv).                                          *)
(***************************************************************************)
EXTENDS Realtime, Groups, Transfers, FiniteSetTheorems, SequenceTheorems, WellFoundedInduction, TLAPS

----------------------------------------------------------------------------
(* Sockets and hang-ups *)

\* What the record of a connection says beside its type: a token that is alive has
\* not lingered, and none is of a version yet to come.
AgesInv ==
    \A s \in Socket : sock[s] \in Live =>
        /\ sock[s].tv <= version
        /\ sock[s].linger <= sock[s].age
        /\ Dead(s) \/ sock[s].linger = 0

\* A coroutine with a hang-up has a loop of close_address before it, or is in one.
Owing(rec) == rec \in Running /\ (rec.kind = "hangup" \/ rec.pc = "close") => rec.passes > 0
JobsInv == \A j \in Job : Owing(job[j])

\* Coroutine j, which has a hang-up, is going to close s: it has yet to copy the
\* registry, or its copy has s.
Reaches(j, s) ==
    /\ job[j] \in Running /\ job[j].kind = "hangup"
    /\ \/ job[j].pc = "publish" /\ j \in Task
       \/ job[j].w = sock[s].w /\ job[j].pc \in {"check", "deliver"}
       \/ /\ job[j].w = sock[s].w /\ job[j].pc = "close"
          /\ job[j].passes > 1 \/ s \in Range(job[j].left)

Covered(s) ==
    \/ sock[s].late
    \/ sock[s].w \in missed
    \/ Contains(inbox[sock[s].w], "hangup")
    \/ \E j \in Job : Reaches(j, s)

HangupInv == \A s \in Socket : IsOpen(s) /\ Dead(s) => Covered(s)

RegistryInv == TypeOK /\ RegistryExact /\ AgesInv /\ JobsInv /\ HangupInv

----------------------------------------------------------------------------
(* Lists. *)

\* The least number principle: an induction without a predicate to instantiate.
LEMMA Least == ASSUME NEW T \in SUBSET Nat, T # {} PROVE \E x \in T : \A y \in T : x <= y
<1>1. PICK x \in T : \A y \in T : ~ (<<y, x>> \in OpToRel(<, Nat))
    BY WFMin, NatLessThanWellFounded
<1>2. \A y \in T : ~ (y < x)
    BY <1>1 DEF OpToRel
<1> QED BY <1>2

\* list.remove takes one position out; what follows closes up.
LEMMA RemovedAt ==
    ASSUME NEW S, NEW t \in Seq(S), NEW i \in 1 .. Len(t)
    PROVE  /\ RemoveAt(t, i) \in Seq(S) /\ Len(RemoveAt(t, i)) = Len(t) - 1
           /\ \A j \in 1 .. Len(t) - 1 : RemoveAt(t, i)[j] = IF j < i THEN t[j] ELSE t[j + 1]
<1> DEFINE a == SubSeq(t, 1, i - 1)
           b == SubSeq(t, i + 1, Len(t))
<1>0. Len(t) \in Nat /\ i \in Nat /\ i >= 1 /\ \A n \in 1 .. Len(t) : t[n] \in S
    OBVIOUS
<1>1. a \in Seq(S) /\ Len(a) = i - 1 /\ \A j \in 1 .. i - 1 : a[j] = t[j]
    OBVIOUS
<1>2. b \in Seq(S) /\ Len(b) = Len(t) - i /\ \A j \in 1 .. Len(t) - i : b[j] = t[i + j]
    OBVIOUS
<1>3. RemoveAt(t, i) = a \o b
    BY DEF RemoveAt
<1> HIDE DEF a, b
<1>4. /\ a \o b \in Seq(S) /\ Len(a \o b) = Len(a) + Len(b)
      /\ \A j \in 1 .. Len(a) + Len(b) : (a \o b)[j] = IF j <= Len(a) THEN a[j] ELSE b[j - Len(a)]
    BY <1>1, <1>2, ConcatProperties
<1>5. Len(a) + Len(b) = Len(t) - 1
    BY <1>0, <1>1, <1>2
<1>6. ASSUME NEW j \in 1 .. Len(t) - 1 PROVE (a \o b)[j] = IF j < i THEN t[j] ELSE t[j + 1]
    <2>1. CASE j < i
        BY <1>0, <1>1, <1>4, <1>5, <2>1
    <2>2. CASE ~ (j < i)
        <3> DEFINE m == j - (i - 1)
        <3>1. m \in 1 .. Len(t) - i /\ i + m = j + 1
            BY <1>0, <2>2
        <3>2. (a \o b)[j] = b[m]
            BY <1>0, <1>1, <1>4, <1>5, <2>2
        <3> HIDE DEF m
        <3>3. b[m] = t[i + m]
            BY <1>2, <3>1
        <3> QED BY <2>2, <3>1, <3>2, <3>3
    <2> QED BY <2>1, <2>2
<1> QED BY <1>3, <1>4, <1>5, <1>6

\* A list of distinct sockets without one of them.
LEMMA Taken ==
    ASSUME NEW S, NEW t \in Seq(S), IsInjective(t), NEW e \in Range(t)
    PROVE  /\ RemoveFirst(t, e) \in Seq(S) /\ IsInjective(RemoveFirst(t, e))
           /\ Range(RemoveFirst(t, e)) = Range(t) \ {e}
<1> DEFINE I == {i \in 1 .. Len(t) : t[i] = e}
<1>0. Len(t) \in Nat /\ DOMAIN t = 1 .. Len(t)
    OBVIOUS
<1>1. I \in SUBSET Nat /\ I # {}
    BY <1>0 DEF Range
<1>2. PICK i \in I : \A y \in I : i <= y
    BY <1>1, Least
<1>3. Min(I) \in I
    BY <1>2 DEF Min
<1>4. PICK n \in 1 .. Len(t) : n = Min(I) /\ t[n] = e
    BY <1>3
<1>5. RemoveFirst(t, e) = RemoveAt(t, n)
    BY <1>1, <1>4 DEF RemoveFirst, SelectInSeq
<1> DEFINE r == RemoveAt(t, n)
<1>6. /\ r \in Seq(S) /\ Len(r) = Len(t) - 1
      /\ \A j \in 1 .. Len(t) - 1 : r[j] = IF j < n THEN t[j] ELSE t[j + 1]
    BY RemovedAt
<1> HIDE DEF r
<1>7. DOMAIN r = 1 .. Len(t) - 1
    BY <1>6
<1>8. IsInjective(r)
    <2> SUFFICES ASSUME NEW a \in 1 .. Len(t) - 1, NEW b \in 1 .. Len(t) - 1, r[a] = r[b]
                 PROVE  a = b
        BY <1>7 DEF IsInjective
    <2>1. \A x, y \in 1 .. Len(t) : t[x] = t[y] => x = y
        BY <1>0 DEF IsInjective
    <2>2. PICK x \in 1 .. Len(t) : r[a] = t[x] /\ x = IF a < n THEN a ELSE a + 1
        BY <1>0, <1>6
    <2>3. PICK y \in 1 .. Len(t) : r[b] = t[y] /\ y = IF b < n THEN b ELSE b + 1
        BY <1>0, <1>6
    <2>4. x = y
        BY <2>1, <2>2, <2>3
    <2> QED BY <1>0, <2>2, <2>3, <2>4
<1>9. Range(r) = Range(t) \ {e}
    <2>1. ASSUME NEW j \in 1 .. Len(t) - 1 PROVE r[j] \in Range(t) /\ r[j] # e
        <3>1. PICK x \in 1 .. Len(t) : r[j] = t[x] /\ x # n
            <4>1. j \in 1 .. Len(t) /\ j + 1 \in 1 .. Len(t)
                BY <1>0
            <4>2. CASE j < n
                BY <1>6, <4>1, <4>2
            <4>3. CASE ~ (j < n)
                <5>1. j + 1 # n
                    BY <1>0, <4>3
                <5> QED BY <1>6, <4>1, <4>3, <5>1
            <4> QED BY <4>2, <4>3
        <3> QED BY <1>0, <1>4, <3>1 DEF IsInjective, Range
    <2>2. ASSUME NEW x \in 1 .. Len(t), t[x] # e PROVE t[x] \in Range(r)
        <3>1. x # n
            BY <1>4, <2>2
        <3>2. PICK j \in 1 .. Len(t) - 1 : r[j] = t[x]
            <4>1. CASE x < n
                BY <1>0, <1>6, <4>1
            <4>2. CASE ~ (x < n)
                <5>1. x - 1 \in 1 .. Len(t) - 1 /\ ~ (x - 1 < n) /\ (x - 1) + 1 = x
                    BY <1>0, <3>1, <4>2
                <5> QED BY <1>6, <5>1
            <4> QED BY <4>1, <4>2
        <3> QED BY <1>7, <3>2 DEF Range
    <2> QED BY <1>0, <1>7, <2>1, <2>2 DEF Range
<1> QED BY <1>5, <1>6, <1>8, <1>9 DEF r

\* A socket that is not in the list joins it.
LEMMA Joined ==
    ASSUME NEW S, NEW t \in Seq(S), IsInjective(t), NEW e \in S, e \notin Range(t)
    PROVE  /\ Append(t, e) \in Seq(S) /\ IsInjective(Append(t, e))
           /\ Range(Append(t, e)) = Range(t) \cup {e}
<1> DEFINE r == Append(t, e)
<1>1. /\ r \in Seq(S) /\ Len(r) = Len(t) + 1 /\ Len(t) \in Nat
      /\ \A i \in 1 .. Len(t) : r[i] = t[i]
      /\ r[Len(t) + 1] = e
    BY AppendProperties
<1> HIDE DEF r
<1>2. DOMAIN t = 1 .. Len(t) /\ DOMAIN r = 1 .. Len(t) + 1
    BY <1>1
<1>3. 1 .. Len(t) + 1 = 1 .. Len(t) \cup {Len(t) + 1}
    BY <1>1
<1>4. Range(r) = Range(t) \cup {e}
    BY <1>1, <1>2, <1>3 DEF Range
<1>5. IsInjective(r)
    <2>1. \A i \in 1 .. Len(t) : r[i] \in Range(t) /\ r[i] # e
        BY <1>1, <1>2 DEF Range
    <2> SUFFICES ASSUME NEW a \in DOMAIN r, NEW b \in DOMAIN r, r[a] = r[b] PROVE a = b
        BY DEF IsInjective
    <2>2. CASE a \in 1 .. Len(t) /\ b \in 1 .. Len(t)
        BY <1>1, <1>2, <2>2 DEF IsInjective
    <2>3. CASE a = Len(t) + 1 \/ b = Len(t) + 1
        BY <1>1, <1>2, <1>3, <2>1, <2>3
    <2> QED BY <1>2, <1>3, <2>2, <2>3
<1> QED BY <1>1, <1>4, <1>5 DEF r

----------------------------------------------------------------------------
(* Connections. *)

LEMMA LiveIs ==
    ASSUME TypeOK, NEW s \in Socket
    PROVE  sock[s].pc \in {"accepted", "validated", "open"} <=> sock[s] \in Live
<1>1. sock[s] \in {Fresh, Closed} \cup Live
    BY DEF TypeOK
<1> QED BY <1>1 DEF Fresh, Closed, Live

\* Only connections change, and none becomes one that a hang-up misses.
LEMMA SocketsMove ==
    ASSUME RegistryInv, UNCHANGED <<version, sub, inbox, job, faults, missed>>,
           sock' \in [Socket -> {Fresh, Closed} \cup Live], conns' \in [Worker -> Seq(Socket)],
           gen' \in [Worker -> Nat], focused' \subseteq Socket, RegistryExact', AgesInv',
           \A s \in Socket : IsOpen(s)' =>
               \/ IsOpen(s) /\ sock'[s].tv = sock[s].tv /\ sock'[s].late = sock[s].late /\ sock'[s].w = sock[s].w
               \/ Dead(s)' => sock'[s].late
    PROVE  RegistryInv'
<1>1. TypeOK'
    BY DEF RegistryInv, TypeOK
<1>2. JobsInv'
    BY DEF RegistryInv, JobsInv
<1>3. HangupInv'
    <2> SUFFICES ASSUME NEW s \in Socket, IsOpen(s)', Dead(s)' PROVE Covered(s)'
        BY DEF HangupInv
    <2>1. CASE sock'[s].late
        BY <2>1 DEF Covered
    <2>2. CASE IsOpen(s) /\ sock'[s].tv = sock[s].tv /\ sock'[s].late = sock[s].late /\ sock'[s].w = sock[s].w
        <3>1. Covered(s)
            BY <2>2 DEF RegistryInv, HangupInv, Dead
        <3> QED BY <2>2, <3>1 DEF Covered, Reaches
    <2> QED BY <2>1, <2>2
<1> QED BY <1>1, <1>2, <1>3 DEF RegistryInv

\* The registry stands while the open sockets do.
LEMMA RegistryStands ==
    ASSUME RegistryExact, conns' = conns,
           \A s \in Socket : (IsOpen(s)' <=> IsOpen(s)) /\ (IsOpen(s) => sock'[s].w = sock[s].w),
           focused' \subseteq Socket, \A s \in focused' : s \in focused \/ IsOpen(s)
    PROVE  RegistryExact'
<1>1. \A s \in focused' : IsOpen(s)'
    BY DEF RegistryExact
<1>2. ASSUME NEW w \in Worker
      PROVE  IsInjective(conns'[w]) /\ Range(conns'[w]) = {s \in Socket : IsOpen(s)' /\ sock'[s].w = w}
    BY DEF RegistryExact
<1> QED BY <1>1, <1>2 DEF RegistryExact

\* disconnect takes an open socket out of everything.
LEMMA Disconnected ==
    ASSUME TypeOK, RegistryExact, NEW s \in Socket, IsOpen(s), Disconnect(s)
    PROVE  /\ sock' = [sock EXCEPT ![s] = Closed] /\ sock' \in [Socket -> {Fresh, Closed} \cup Live]
           /\ conns' \in [Worker -> Seq(Socket)] /\ gen' \in [Worker -> Nat] /\ focused' \subseteq Socket
           /\ RegistryExact'
<1> DEFINE list == RemoveFirst(conns[sock[s].w], s)
<1>0. PICK v : v = sock[s].w
    OBVIOUS
<1>1. v \in Worker /\ s \in Range(conns[v]) /\ IsInjective(conns[v]) /\ conns[v] \in Seq(Socket)
    <2>1. sock[s] \in Live
        BY LiveIs DEF IsOpen
    <2> QED BY <1>0, <2>1 DEF Live, TypeOK, RegistryExact
<1>2. /\ sock' = [sock EXCEPT ![s] = Closed] /\ conns' = [conns EXCEPT ![v] = list]
      /\ gen' = [gen EXCEPT ![v] = IF list = <<>> THEN @ + 1 ELSE @]
      /\ focused' = focused \ {s}
    BY <1>0 DEF Disconnect
<1>3. list \in Seq(Socket) /\ IsInjective(list) /\ Range(list) = Range(conns[v]) \ {s}
    BY <1>0, <1>1, Taken
<1> HIDE DEF list
<1>4. /\ sock' \in [Socket -> {Fresh, Closed} \cup Live] /\ conns' \in [Worker -> Seq(Socket)]
      /\ gen' \in [Worker -> Nat] /\ focused' \subseteq Socket
    <2>1. sock' \in [Socket -> {Fresh, Closed} \cup Live]
        BY <1>2 DEF TypeOK
    <2>2. conns' \in [Worker -> Seq(Socket)]
        BY <1>2, <1>3 DEF TypeOK
    <2>3. gen' \in [Worker -> Nat]
        <3>1. gen \in [Worker -> Nat] /\ gen[v] + 1 \in Nat /\ gen[v] \in Nat
            BY <1>1 DEF TypeOK
        <3>2. PICK n \in Nat : n = IF list = <<>> THEN gen[v] + 1 ELSE gen[v]
            BY <3>1
        <3>3. gen' = [gen EXCEPT ![v] = n]
            BY <1>2, <3>2
        <3> QED BY <3>1, <3>3
    <2>4. focused' \subseteq Socket
        BY <1>2 DEF TypeOK
    <2> QED BY <2>1, <2>2, <2>3, <2>4
<1>5. \A x \in Socket : (IsOpen(x)' <=> IsOpen(x) /\ x # s) /\ (x # s => sock'[x] = sock[x])
    BY <1>2 DEF TypeOK, IsOpen, Closed
<1>6. ASSUME NEW w \in Worker
      PROVE  IsInjective(conns'[w]) /\ Range(conns'[w]) = {x \in Socket : IsOpen(x)' /\ sock'[x].w = w}
    <2>1. Range(conns[w]) = {x \in Socket : IsOpen(x) /\ sock[x].w = w} /\ IsInjective(conns[w])
        BY DEF RegistryExact
    <2>2. CASE w = v
        <3>1. conns'[w] = list
            BY <1>2, <2>2 DEF TypeOK
        <3> QED BY <1>3, <1>5, <2>1, <2>2, <3>1
    <2>3. CASE w # v
        <3>1. conns'[w] = conns[w]
            BY <1>2, <2>3 DEF TypeOK
        <3> QED BY <1>0, <1>5, <2>1, <2>3, <3>1
    <2> QED BY <2>2, <2>3
<1>7. \A x \in focused' : IsOpen(x)'
    BY <1>2, <1>5 DEF RegistryExact, TypeOK
<1> QED BY <1>2, <1>4, <1>6, <1>7 DEF RegistryExact

\* A socket that disconnects is no longer owed anything.
LEMMA GoneSocket ==
    ASSUME RegistryInv, NEW s \in Socket, IsOpen(s), Disconnect(s), version' = version
    PROVE  /\ AgesInv'
           /\ \A x \in Socket : IsOpen(x)' => IsOpen(x) /\ x # s /\ sock'[x] = sock[x]
<1>1. sock' = [sock EXCEPT ![s] = Closed]
    BY Disconnected DEF RegistryInv
<1>2. \A x \in Socket : x # s => sock'[x] = sock[x]
    BY <1>1 DEF RegistryInv, TypeOK
<1>3. sock'[s] = Closed /\ Closed \notin Live /\ Closed.pc # "open"
    BY <1>1 DEF RegistryInv, TypeOK, Closed, Live
<1>4. AgesInv'
    BY <1>2, <1>3 DEF RegistryInv, AgesInv, Dead
<1> QED BY <1>2, <1>3, <1>4 DEF IsOpen

LEMMA AcceptStep ==
    ASSUME RegistryInv, NEW s \in Socket, NEW w \in Worker, NEW tv \in 0 .. version, Accept(s, w, tv)
    PROVE  RegistryInv'
<1> DEFINE x == [pc |-> "accepted", w |-> w, tv |-> tv, late |-> FALSE, age |-> 0, linger |-> 0]
<1>1. /\ sock[s].pc = "new" /\ sock' = [sock EXCEPT ![s] = x]
      /\ UNCHANGED <<version, conns, gen, focused, sub, inbox, faults, missed, job>>
    BY DEF Accept, registry, fanout
<1>2. version \in Nat /\ tv \in Nat /\ tv <= version
    BY DEF RegistryInv, TypeOK
<1>3. x \in Live
    BY <1>2, RealtimeAssumption DEF Live
<1>4. x.pc = "accepted" /\ x.tv = tv /\ x.linger = 0 /\ x.age = 0
    OBVIOUS
<1> HIDE DEF x
<1>5. /\ sock' \in [Socket -> {Fresh, Closed} \cup Live] /\ sock'[s] = x
      /\ \A y \in Socket : y # s => sock'[y] = sock[y]
    BY <1>1, <1>3 DEF RegistryInv, TypeOK
<1>6. \A y \in Socket : (IsOpen(y)' <=> IsOpen(y)) /\ (IsOpen(y) => sock'[y] = sock[y])
    BY <1>1, <1>4, <1>5 DEF IsOpen
<1>7. RegistryExact'
    BY <1>1, <1>6, RegistryStands DEF RegistryInv, TypeOK
<1>8. AgesInv'
    BY <1>1, <1>2, <1>4, <1>5 DEF RegistryInv, AgesInv, Dead
<1> QED BY <1>1, <1>5, <1>6, <1>7, <1>8, SocketsMove DEF RegistryInv, TypeOK

LEMMA ValidateStep == ASSUME RegistryInv, NEW s \in Socket, Validate(s) PROVE RegistryInv'
<1>1. /\ sock[s].pc = "accepted"
      /\ sock' = [sock EXCEPT ![s] = IF Dead(s) THEN Closed ELSE [sock[s] EXCEPT !.pc = "validated"]]
      /\ UNCHANGED <<version, conns, gen, focused, sub, inbox, faults, missed, job>>
    BY DEF Validate, registry, fanout
<1>2. sock[s] \in Live
    BY <1>1, LiveIs DEF RegistryInv
<1> DEFINE x == [sock[s] EXCEPT !.pc = "validated"]
<1>3. x \in Live /\ x.pc = "validated" /\ x.tv = sock[s].tv /\ x.linger = sock[s].linger /\ x.age = sock[s].age
    BY <1>2 DEF Live
<1> HIDE DEF x
<1>4. Closed \notin Live /\ Closed.pc # "open"
    BY DEF Closed, Live
<1>5. /\ sock' \in [Socket -> {Fresh, Closed} \cup Live] /\ sock'[s] \in {Closed, x}
      /\ \A y \in Socket : y # s => sock'[y] = sock[y]
    BY <1>1, <1>3 DEF RegistryInv, TypeOK, x
<1>6. \A y \in Socket : (IsOpen(y)' <=> IsOpen(y)) /\ (IsOpen(y) => sock'[y] = sock[y])
    BY <1>1, <1>3, <1>4, <1>5 DEF IsOpen
<1>7. RegistryExact'
    BY <1>1, <1>6, RegistryStands DEF RegistryInv, TypeOK
<1>8. AgesInv'
    BY <1>1, <1>2, <1>3, <1>4, <1>5 DEF RegistryInv, AgesInv, Dead
<1> QED BY <1>1, <1>5, <1>6, <1>7, <1>8, SocketsMove DEF RegistryInv, TypeOK

LEMMA RegisterStep == ASSUME RegistryInv, NEW s \in Socket, Register(s) PROVE RegistryInv'
<1> DEFINE x == [sock[s] EXCEPT !.pc = "open", !.late = Dead(s)]
           list == Append(conns[sock[s].w], s)
<1>0. PICK v : v = sock[s].w
    OBVIOUS
<1>1. /\ sock[s].pc = "validated" /\ sock' = [sock EXCEPT ![s] = x]
      /\ conns' = [conns EXCEPT ![v] = list]
      /\ UNCHANGED <<version, gen, focused, sub, inbox, faults, missed, job>>
    BY <1>0 DEF Register, fanout
<1>2. sock[s] \in Live /\ v \in Worker /\ ~ IsOpen(s)
    <2>1. sock[s] \in Live
        BY <1>1, LiveIs DEF RegistryInv
    <2> QED BY <1>0, <1>1, <2>1 DEF Live, IsOpen
<1>3. /\ x \in Live /\ x.pc = "open" /\ x.w = v /\ x.tv = sock[s].tv /\ x.linger = sock[s].linger
      /\ x.age = sock[s].age
    <2>1. Dead(s) \in BOOLEAN
        BY DEF Dead
    <2> QED BY <1>0, <1>2, <2>1 DEF Live
<1>4. x.late = Dead(s)
    BY <1>2 DEF Live
<1>5. /\ conns[v] \in Seq(Socket) /\ IsInjective(conns[v]) /\ s \notin Range(conns[v])
      /\ \A w \in Worker : Range(conns[w]) = {y \in Socket : IsOpen(y) /\ sock[y].w = w}
    BY <1>2 DEF RegistryInv, TypeOK, RegistryExact
<1>6. list \in Seq(Socket) /\ IsInjective(list) /\ Range(list) = Range(conns[v]) \cup {s}
    BY <1>0, <1>5, Joined
<1> HIDE DEF x, list
<1>7. /\ sock' \in [Socket -> {Fresh, Closed} \cup Live] /\ sock'[s] = x
      /\ \A y \in Socket : y # s => sock'[y] = sock[y]
    BY <1>1, <1>3 DEF RegistryInv, TypeOK
<1>8. conns' \in [Worker -> Seq(Socket)] /\ conns'[v] = list /\ \A w \in Worker : w # v => conns'[w] = conns[w]
    BY <1>1, <1>2, <1>6 DEF RegistryInv, TypeOK
<1>9. \A y \in Socket : (IsOpen(y)' <=> IsOpen(y) \/ y = s) /\ (IsOpen(y) => sock'[y] = sock[y])
    BY <1>2, <1>3, <1>7 DEF IsOpen
<1>10. RegistryExact'
    <2>1. ASSUME NEW w \in Worker
          PROVE  IsInjective(conns'[w]) /\ Range(conns'[w]) = {y \in Socket : IsOpen(y)' /\ sock'[y].w = w}
        <3>1. CASE w = v
            BY <1>3, <1>5, <1>6, <1>7, <1>8, <1>9, <3>1
        <3>2. CASE w # v
            <4>1. IsInjective(conns'[w]) /\ conns'[w] = conns[w]
                BY <1>8, <3>2 DEF RegistryInv, RegistryExact
            <4> QED BY <1>3, <1>5, <1>7, <1>9, <3>2, <4>1
        <3> QED BY <3>1, <3>2
    <2>2. \A y \in focused' : IsOpen(y)'
        BY <1>1, <1>9 DEF RegistryInv, TypeOK, RegistryExact
    <2> QED BY <2>1, <2>2 DEF RegistryExact
<1>11. AgesInv'
    BY <1>1, <1>2, <1>3, <1>7 DEF RegistryInv, AgesInv, Dead
<1>12. Dead(s)' => sock'[s].late
    BY <1>1, <1>3, <1>4, <1>7 DEF Dead
<1> QED BY <1>1, <1>7, <1>8, <1>9, <1>10, <1>11, <1>12, SocketsMove DEF RegistryInv, TypeOK

LEMMA ClientFrameStep ==
    ASSUME RegistryInv, NEW s \in Socket, NEW front \in BOOLEAN, ClientFrame(s, front) PROVE RegistryInv'
<1>1. /\ IsOpen(s) /\ focused' \in {focused \cup {s}, focused \ {s}}
      /\ UNCHANGED <<version, sock, conns, gen, sub, inbox, faults, missed, job>>
    BY DEF ClientFrame, fanout
<1>2. focused' \subseteq Socket
    BY <1>1 DEF RegistryInv, TypeOK
<1>3. RegistryExact'
    BY <1>1, <1>2, RegistryStands DEF RegistryInv, IsOpen
<1>4. AgesInv'
    BY <1>1 DEF RegistryInv, AgesInv, Dead
<1> QED BY <1>1, <1>2, <1>3, <1>4, SocketsMove DEF RegistryInv, TypeOK, IsOpen

LEMMA LeaveStep == ASSUME RegistryInv, NEW s \in Socket, Leave(s) PROVE RegistryInv'
<1>1. /\ IsOpen(s) /\ Disconnect(s) /\ UNCHANGED <<version, sub, inbox, faults, missed, job>>
    BY DEF Leave, fanout
<1> QED BY <1>1, Disconnected, GoneSocket, SocketsMove DEF RegistryInv

LEMMA RevalidateStep == ASSUME RegistryInv, NEW s \in Socket, Revalidate(s) PROVE RegistryInv'
<1>1. IsOpen(s) /\ UNCHANGED <<version, sub, inbox, faults, missed, job>>
    BY DEF Revalidate, fanout
<1>2. CASE Dead(s)
    <2>1. Disconnect(s)
        BY <1>2 DEF Revalidate
    <2> QED BY <1>1, <2>1, Disconnected, GoneSocket, SocketsMove DEF RegistryInv
<1>3. CASE ~ Dead(s)
    <2> DEFINE x == [sock[s] EXCEPT !.age = 0]
    <2>1. sock' = [sock EXCEPT ![s] = x] /\ UNCHANGED <<conns, gen, focused>>
        BY <1>3 DEF Revalidate, registry
    <2>2. sock[s] \in Live
        BY <1>1, LiveIs DEF RegistryInv, IsOpen
    <2>3. /\ x \in Live /\ x.pc = sock[s].pc /\ x.tv = sock[s].tv /\ x.late = sock[s].late /\ x.w = sock[s].w
          /\ x.age = 0 /\ x.linger = sock[s].linger
        BY <2>2, RealtimeAssumption DEF Live
    <2> HIDE DEF x
    <2>4. /\ sock' \in [Socket -> {Fresh, Closed} \cup Live] /\ sock'[s] = x
          /\ \A y \in Socket : y # s => sock'[y] = sock[y]
        BY <2>1, <2>3 DEF RegistryInv, TypeOK
    <2>5. \A y \in Socket : /\ IsOpen(y)' <=> IsOpen(y)
                            /\ sock'[y].tv = sock[y].tv /\ sock'[y].late = sock[y].late /\ sock'[y].w = sock[y].w
        BY <2>3, <2>4 DEF IsOpen
    <2>6. RegistryExact'
        BY <2>1, <2>5, RegistryStands DEF RegistryInv, TypeOK
    <2>7. AgesInv'
        BY <1>1, <1>3, <2>2, <2>3, <2>4 DEF RegistryInv, AgesInv, Dead
    <2> QED BY <1>1, <2>1, <2>4, <2>5, <2>6, <2>7, SocketsMove DEF RegistryInv, TypeOK
<1> QED BY <1>2, <1>3

LEMMA TickStep == ASSUME RegistryInv, Tick PROVE RegistryInv'
<1> DEFINE x(s) == [sock[s] EXCEPT !.age = @ + 1, !.linger = IF Dead(s) THEN @ + 1 ELSE @]
<1>1. /\ \A s \in Socket : IsOpen(s) => sock[s].age < Period
      /\ sock' = [s \in Socket |-> IF IsOpen(s) THEN x(s) ELSE sock[s]]
      /\ UNCHANGED <<version, conns, gen, focused, sub, inbox, faults, missed, job>>
    BY DEF Tick, registry, fanout
<1>2. \A s \in Socket : sock'[s] = IF IsOpen(s) THEN x(s) ELSE sock[s]
    BY <1>1
<1>3. ASSUME NEW s \in Socket, IsOpen(s)
      PROVE  /\ sock[s] \in Live /\ x(s) \in Live /\ x(s).pc = "open" /\ x(s).tv = sock[s].tv
             /\ x(s).late = sock[s].late /\ x(s).w = sock[s].w /\ x(s).age = sock[s].age + 1
             /\ x(s).linger = IF Dead(s) THEN sock[s].linger + 1 ELSE sock[s].linger
    <2>1. sock[s] \in Live /\ sock[s].pc = "open"
        BY <1>3, LiveIs DEF RegistryInv, IsOpen
    <2>2. sock[s].age \in 0 .. Period /\ sock[s].linger \in Nat
        BY <2>1 DEF Live
    <2>3. sock[s].age + 1 \in 0 .. Period
        <3>1. sock[s].age < Period
            BY <1>1, <1>3
        <3>2. Period \in Nat
            BY RealtimeAssumption
        <3> QED BY <2>2, <3>1, <3>2
    <2>4. PICK n \in Nat : n = IF Dead(s) THEN sock[s].linger + 1 ELSE sock[s].linger
        BY <2>2
    <2>5. x(s) = [sock[s] EXCEPT !.age = sock[s].age + 1, !.linger = n]
        BY <2>4
    <2> HIDE DEF x
    <2> QED BY <2>1, <2>3, <2>4, <2>5 DEF Live
<1> HIDE DEF x
<1>4. sock' \in [Socket -> {Fresh, Closed} \cup Live]
    BY <1>1, <1>3 DEF RegistryInv, TypeOK
<1>5. \A s \in Socket : /\ IsOpen(s)' <=> IsOpen(s)
                        /\ sock'[s].tv = sock[s].tv /\ sock'[s].late = sock[s].late /\ sock'[s].w = sock[s].w
    BY <1>2, <1>3 DEF IsOpen
<1>6. RegistryExact'
    BY <1>1, <1>5, RegistryStands DEF RegistryInv, TypeOK
<1>7. AgesInv'
    <2> SUFFICES ASSUME NEW s \in Socket, sock'[s] \in Live
                 PROVE  /\ sock'[s].tv <= version' /\ sock'[s].linger <= sock'[s].age
                        /\ Dead(s)' \/ sock'[s].linger = 0
        BY DEF AgesInv
    <2>1. CASE IsOpen(s)
        <3>1. sock[s].linger \in Nat /\ sock[s].age \in Nat
            BY <1>3, <2>1 DEF Live
        <3> QED BY <1>1, <1>2, <1>3, <2>1, <3>1 DEF RegistryInv, AgesInv, Dead
    <2>2. CASE ~ IsOpen(s)
        BY <1>1, <1>2, <2>2 DEF RegistryInv, AgesInv, Dead
    <2> QED BY <2>1, <2>2
<1> QED BY <1>1, <1>4, <1>5, <1>6, <1>7, SocketsMove DEF RegistryInv, TypeOK

----------------------------------------------------------------------------
(* Coroutines. *)

LEMMA RunningIs ==
    ASSUME TypeOK, NEW j \in Job
    PROVE  job[j].pc \in {"publish", "check", "deliver", "close"} <=> job[j] \in Running
<1>1. job[j] \in {Idle, Done} \cup Running
    BY DEF TypeOK
<1> QED BY <1>1 DEF Idle, Done, Running

LEMMA HereIs ==
    ASSUME RegistryInv, NEW s \in Socket, IsOpen(s) PROVE sock[s].w \in Worker /\ s \in Range(conns[sock[s].w])
<1>1. sock[s] \in Live
    BY LiveIs DEF RegistryInv, IsOpen
<1>2. sock[s].w \in Worker
    BY <1>1 DEF Live
<1> QED BY <1>2 DEF RegistryInv, RegistryExact

LEMMA Delivers ==
    ASSUME TypeOK, NEW rec \in Running, NEW extra \in Nat
    PROVE  /\ Delivering(rec, extra) \in Running /\ Delivering(rec, extra).pc = "deliver"
           /\ Delivering(rec, extra).kind = rec.kind /\ Delivering(rec, extra).w = rec.w
           /\ Delivering(rec, extra).passes = rec.passes + extra
<1>1. rec.w \in Worker /\ rec.passes \in Nat
    BY DEF Running
<1>2. gen[rec.w] \in Nat /\ Range(conns[rec.w]) \subseteq Socket
    <2>1. conns[rec.w] \in Seq(Socket) /\ gen[rec.w] \in Nat
        BY <1>1 DEF TypeOK
    <2> QED BY <2>1 DEF Range
<1>3. rec.passes + extra \in Nat
    BY <1>1
<1> QED BY <1>2, <1>3 DEF Delivering, Running

LEMMA Closes ==
    ASSUME TypeOK, NEW rec \in Running
    PROVE  /\ Closing(rec) \in Running /\ Closing(rec).pc = "close" /\ Closing(rec).kind = rec.kind
           /\ Closing(rec).w = rec.w /\ Closing(rec).left = conns[rec.w] /\ Closing(rec).passes = rec.passes
<1>1. conns[rec.w] \in Seq(Socket)
    BY DEF Running, TypeOK
<1> QED BY <1>1 DEF Closing, Running

LEMMA Ends == \A j : Returned(j) \in {Idle, Done} /\ Returned(j) \notin Running
BY DEF Returned, Idle, Done, Running

\* send_personal_message is over.
LEMMA Sends ==
    ASSUME TypeOK, NEW j, NEW rec \in Running
    PROVE  /\ Sent(j, rec) \in {Idle, Done} \cup Running /\ Owing(Sent(j, rec))
           /\ rec.passes > 0 => Sent(j, rec) = Closing(rec)
BY Closes, Ends DEF Sent, Owing

\* No connection changes, and no socket loses what was going to close it.
LEMMA JobsMove ==
    ASSUME RegistryInv, UNCHANGED <<version, sock, conns, gen, focused>>,
           sub' \in [Worker -> {"up", "silent", "down"}],
           inbox' \in [Worker -> Seq({"message", "hangup"})],
           job' \in [Job -> {Idle, Done} \cup Running], faults' \in 0 .. MaxFaults,
           missed' \subseteq Worker, JobsInv', missed \subseteq missed',
           \A s \in Socket : IsOpen(s) =>
               /\ Contains(inbox[sock[s].w], "hangup") => Covered(s)'
               /\ \A j \in Job : Reaches(j, s) => Covered(s)'
    PROVE  RegistryInv'
<1>1. TypeOK'
    BY DEF RegistryInv, TypeOK
<1>2. RegistryExact' /\ AgesInv'
    BY DEF RegistryInv, RegistryExact, AgesInv, IsOpen, Dead
<1>3. HangupInv'
    <2> SUFFICES ASSUME NEW s \in Socket, IsOpen(s), Covered(s) PROVE Covered(s)'
        BY DEF RegistryInv, HangupInv, IsOpen, Dead
    <2>1. CASE sock[s].late \/ sock[s].w \in missed
        BY <2>1 DEF Covered
    <2>2. CASE Contains(inbox[sock[s].w], "hangup") \/ \E j \in Job : Reaches(j, s)
        BY <2>2
    <2> QED BY <2>1, <2>2 DEF Covered
<1> QED BY <1>1, <1>2, <1>3 DEF RegistryInv

\* One coroutine moves.
LEMMA JobMoves ==
    ASSUME RegistryInv, NEW j \in Job, NEW x \in {Idle, Done} \cup Running, Owing(x), job' = [job EXCEPT ![j] = x]
    PROVE  /\ job' \in [Job -> {Idle, Done} \cup Running] /\ JobsInv' /\ job'[j] = x
           /\ \A k \in Job : k # j => job'[k] = job[k]
<1>1. /\ job' \in [Job -> {Idle, Done} \cup Running] /\ job'[j] = x
      /\ \A k \in Job : k # j => job'[k] = job[k]
    BY DEF RegistryInv, TypeOK
<1>2. JobsInv'
    BY <1>1 DEF RegistryInv, JobsInv, Owing
<1> QED BY <1>1, <1>2

\* The rest of the socket's coverage stands.
LEMMA OtherJob ==
    ASSUME NEW s \in Socket, UNCHANGED sock, NEW j \in Job, NEW k \in Job, k # j, job'[k] = job[k], Reaches(k, s)
    PROVE  Covered(s)'
BY DEF Covered, Reaches

LEMMA Received ==
    ASSUME NEW box \in Seq({"message", "hangup"}), NEW kind \in {"message", "hangup"}
    PROVE  /\ Append(box, kind) \in Seq({"message", "hangup"})
           /\ Contains(box, "hangup") \/ kind = "hangup" => Contains(Append(box, kind), "hangup")
<1>1. /\ Append(box, kind) \in Seq({"message", "hangup"}) /\ Len(box) \in Nat
      /\ Len(Append(box, kind)) = Len(box) + 1
      /\ \A i \in 1 .. Len(box) : Append(box, kind)[i] = box[i]
      /\ Append(box, kind)[Len(box) + 1] = kind
    BY AppendProperties
<1>2. 1 .. Len(box) \subseteq 1 .. Len(box) + 1 /\ Len(box) + 1 \in 1 .. Len(box) + 1
    BY <1>1
<1> QED BY <1>1, <1>2 DEF Contains

LEMMA PublishStep == ASSUME RegistryInv, NEW t \in Task, Publish(t) PROVE RegistryInv'
<1> DEFINE x == [job[t] EXCEPT !.pc = "check"]
           heard == {w \in Worker : sub[w] = "up"}
<1>0. PICK rec : rec = job[t]
    OBVIOUS
<1>1. /\ rec.pc = "publish" /\ job' = [job EXCEPT ![t] = x]
      /\ inbox' = [w \in Worker |-> IF w \in heard THEN Append(inbox[w], rec.kind) ELSE inbox[w]]
      /\ missed' = missed \cup Misses(rec, Worker \ heard)
      /\ UNCHANGED <<version, sock, conns, gen, focused, sub, faults>>
    BY <1>0 DEF Publish, registry
<1>2. t \in Job /\ rec \in Running /\ rec.w \in Worker /\ rec.kind \in {"message", "hangup"}
    <2>1. t \in Job /\ rec \in Running
        BY <1>0, <1>1, RunningIs DEF RegistryInv, Job
    <2> QED BY <2>1 DEF Running
<1>3. x \in Running /\ x.pc = "check" /\ x.w = rec.w /\ x.kind = rec.kind /\ x.passes = rec.passes
    BY <1>0, <1>2 DEF Running
<1>4. Owing(x)
    BY <1>0, <1>2, <1>3 DEF RegistryInv, JobsInv, Owing
<1> HIDE DEF x
<1>5. /\ job' \in [Job -> {Idle, Done} \cup Running] /\ JobsInv' /\ job'[t] = x
      /\ \A k \in Job : k # t => job'[k] = job[k]
    BY <1>1, <1>2, <1>3, <1>4, JobMoves
<1>6. inbox' \in [Worker -> Seq({"message", "hangup"})]
    BY <1>1, <1>2, Received DEF RegistryInv, TypeOK
<1>7. missed' \subseteq Worker /\ missed \subseteq missed'
    BY <1>1 DEF RegistryInv, TypeOK, Misses
<1>8. ASSUME NEW s \in Socket, IsOpen(s), Contains(inbox[sock[s].w], "hangup") PROVE Covered(s)'
    <2>1. sock[s].w \in Worker
        BY <1>8, HereIs
    <2>2. Contains(inbox'[sock[s].w], "hangup")
        BY <1>1, <1>2, <1>8, <2>1, Received DEF RegistryInv, TypeOK
    <2> QED BY <1>1, <2>2 DEF Covered
<1>9. ASSUME NEW s \in Socket, IsOpen(s), NEW j \in Job, Reaches(j, s) PROVE Covered(s)'
    <2>1. CASE j # t
        BY <1>1, <1>2, <1>5, <1>9, <2>1, OtherJob
    <2>2. CASE j = t /\ sock[s].w = rec.w
        <3>1. Reaches(t, s)'
            BY <1>0, <1>1, <1>3, <1>5, <1>9, <2>2 DEF Reaches
        <3> QED BY <1>2, <3>1 DEF Covered
    <2>3. CASE j = t /\ sock[s].w # rec.w
        <3>1. rec.kind = "hangup" /\ sock[s].w \in Worker
            BY <1>0, <1>9, <2>3, HereIs DEF Reaches
        <3>2. CASE sock[s].w \in heard
            <4>1. Contains(inbox'[sock[s].w], "hangup")
                BY <1>1, <1>2, <3>1, <3>2, Received DEF RegistryInv, TypeOK
            <4> QED BY <1>1, <4>1 DEF Covered
        <3>3. CASE sock[s].w \notin heard
            BY <1>1, <2>3, <3>1, <3>3 DEF Covered, Misses
        <3> QED BY <3>2, <3>3
    <2> QED BY <2>1, <2>2, <2>3
<1> QED BY <1>1, <1>5, <1>6, <1>7, <1>8, <1>9, JobsMove DEF RegistryInv, TypeOK

\* A coroutine moves and takes its hang-up along; no frame is lost.
LEMMA Moves ==
    ASSUME RegistryInv, NEW j \in Job, job[j] \in Running, NEW x \in {Idle, Done} \cup Running, Owing(x),
           job' = [job EXCEPT ![j] = x], UNCHANGED <<version, sock, conns, gen, focused, sub, inbox>>,
           faults' \in 0 .. MaxFaults, missed' \subseteq Worker, missed \subseteq missed',
           \A s \in Socket : IsOpen(s) /\ Reaches(j, s) => Covered(s)'
    PROVE  RegistryInv'
<1>1. /\ job' \in [Job -> {Idle, Done} \cup Running] /\ JobsInv' /\ job'[j] = x
      /\ \A k \in Job : k # j => job'[k] = job[k]
    BY JobMoves
<1>2. ASSUME NEW s \in Socket, IsOpen(s), NEW k \in Job, Reaches(k, s) PROVE Covered(s)'
    <2>1. CASE k = j
        BY <1>2, <2>1
    <2>2. CASE k # j
        BY <1>1, <1>2, <2>2, OtherJob
    <2> QED BY <2>1, <2>2
<1>3. \A s \in Socket : Contains(inbox[sock[s].w], "hangup") => Covered(s)'
    BY DEF Covered
<1> QED BY <1>1, <1>2, <1>3, JobsMove DEF RegistryInv, TypeOK

\* The copy of the registry that a loop of close_address starts with has every
\* open socket of the worker.
LEMMA ClosingReaches ==
    ASSUME RegistryInv, UNCHANGED <<version, sock, conns>>, NEW j \in Job, NEW rec \in Running,
           rec.kind = "hangup", job'[j] = Closing(rec), NEW s \in Socket, IsOpen(s), sock[s].w = rec.w
    PROVE  Reaches(j, s)'
<1>1. s \in Range(conns[rec.w])
    BY HereIs
<1>2. /\ Closing(rec) \in Running /\ Closing(rec).pc = "close" /\ Closing(rec).kind = "hangup"
      /\ Closing(rec).w = rec.w /\ Closing(rec).left = conns[rec.w]
    BY Closes DEF RegistryInv
<1> QED BY <1>1, <1>2 DEF Reaches

LEMMA PublishFailsStep == ASSUME RegistryInv, NEW t \in Task, PublishFails(t) PROVE RegistryInv'
<1> DEFINE x == Delivering(job[t], job[t].passes)
<1>0. PICK rec : rec = job[t]
    OBVIOUS
<1>1. /\ rec.pc = "publish" /\ faults < MaxFaults /\ faults' = faults + 1
      /\ missed' = missed \cup Misses(rec, Worker) /\ job' = [job EXCEPT ![t] = x]
      /\ UNCHANGED <<version, sock, conns, gen, focused, sub, inbox>>
    BY <1>0 DEF PublishFails, registry
<1>2. t \in Job /\ rec \in Running /\ rec.passes \in Nat
    <2>1. t \in Job /\ rec \in Running
        BY <1>0, <1>1, RunningIs DEF RegistryInv, Job
    <2> QED BY <2>1 DEF Running
<1>3. /\ x \in Running /\ x.pc = "deliver" /\ x.w = rec.w /\ x.kind = rec.kind
      /\ x.passes = rec.passes + rec.passes
    BY <1>0, <1>2, Delivers DEF RegistryInv
<1>4. Owing(x)
    BY <1>0, <1>2, <1>3 DEF RegistryInv, JobsInv, Owing
<1> HIDE DEF x
<1>5. faults' \in 0 .. MaxFaults
    <2>1. faults \in 0 .. MaxFaults /\ MaxFaults \in Nat
        BY RealtimeAssumption DEF RegistryInv, TypeOK
    <2> QED BY <1>1, <2>1
<1>6. missed' \subseteq Worker /\ missed \subseteq missed'
    BY <1>1 DEF RegistryInv, TypeOK, Misses
<1>7. job'[t] = x
    BY <1>1, <1>2 DEF RegistryInv, TypeOK
<1>8. ASSUME NEW s \in Socket, IsOpen(s), Reaches(t, s) PROVE Covered(s)'
    <2>1. rec.kind = "hangup" /\ sock[s].w \in Worker
        BY <1>0, <1>8, HereIs DEF Reaches
    <2>2. CASE sock[s].w = rec.w
        BY <1>1, <1>2, <1>3, <1>7, <2>1, <2>2 DEF Covered, Reaches
    <2>3. CASE sock[s].w # rec.w
        BY <1>1, <2>1, <2>3 DEF Covered, Misses
    <2> QED BY <2>2, <2>3
<1> QED BY <1>0, <1>1, <1>2, <1>3, <1>4, <1>5, <1>6, <1>8, Moves

LEMMA CheckListeningStep == ASSUME RegistryInv, NEW t \in Task, CheckListening(t) PROVE RegistryInv'
<1>0. PICK rec : rec = job[t]
    OBVIOUS
<1>1. /\ rec.pc = "check" /\ UNCHANGED <<version, sock, conns, gen, focused, sub, inbox, faults, missed>>
      /\ job' = [job EXCEPT ![t] = IF sub[rec.w] # "down" THEN Sent(t, rec) ELSE Delivering(rec, rec.passes)]
    BY <1>0 DEF CheckListening, registry, fanout
<1>2. t \in Job /\ rec \in Running /\ rec.passes \in Nat /\ Owing(rec)
    <2>1. t \in Job /\ rec \in Running
        BY <1>0, <1>1, RunningIs DEF RegistryInv, Job
    <2> QED BY <1>0, <2>1 DEF Running, RegistryInv, JobsInv
<1>3. ASSUME NEW s \in Socket, IsOpen(s), Reaches(t, s)
      PROVE  sock[s].w = rec.w /\ rec.kind = "hangup" /\ rec.passes > 0
    BY <1>0, <1>1, <1>2, <1>3 DEF Reaches, Owing
<1>4. CASE sub[rec.w] # "down"
    <2>1. Sent(t, rec) \in {Idle, Done} \cup Running /\ Owing(Sent(t, rec))
          /\ (rec.passes > 0 => Sent(t, rec) = Closing(rec))
        BY <1>2, Sends DEF RegistryInv
    <2>2. job' = [job EXCEPT ![t] = Sent(t, rec)]
        BY <1>1, <1>4
    <2>3. job'[t] = Sent(t, rec)
        BY <1>2, <2>2 DEF RegistryInv, TypeOK
    <2>4. ASSUME NEW s \in Socket, IsOpen(s), Reaches(t, s) PROVE Covered(s)'
        <3>1. job'[t] = Closing(rec)
            BY <1>3, <2>1, <2>3, <2>4
        <3>2. Reaches(t, s)'
            BY <1>1, <1>2, <1>3, <2>4, <3>1, ClosingReaches
        <3> QED BY <1>2, <3>2 DEF Covered
    <2>5. faults' \in 0 .. MaxFaults /\ missed' \subseteq Worker /\ missed \subseteq missed'
        BY <1>1 DEF RegistryInv, TypeOK
    <2> QED BY <1>0, <1>1, <1>2, <2>1, <2>2, <2>4, <2>5, Moves
<1>5. CASE sub[rec.w] = "down"
    <2> DEFINE x == Delivering(rec, rec.passes)
    <2>1. /\ x \in Running /\ x.pc = "deliver" /\ x.w = rec.w /\ x.kind = rec.kind
          /\ x.passes = rec.passes + rec.passes
        BY <1>2, Delivers DEF RegistryInv
    <2>2. job' = [job EXCEPT ![t] = x]
        BY <1>1, <1>5
    <2> HIDE DEF x
    <2>3. Owing(x)
        BY <1>2, <2>1 DEF Owing
    <2>4. job'[t] = x
        BY <1>2, <2>2 DEF RegistryInv, TypeOK
    <2>5. ASSUME NEW s \in Socket, IsOpen(s), Reaches(t, s) PROVE Covered(s)'
        BY <1>1, <1>2, <1>3, <2>1, <2>4, <2>5 DEF Covered, Reaches
    <2>6. faults' \in 0 .. MaxFaults /\ missed' \subseteq Worker /\ missed \subseteq missed'
        BY <1>1 DEF RegistryInv, TypeOK
    <2> QED BY <1>0, <1>1, <1>2, <2>1, <2>2, <2>3, <2>5, <2>6, Moves
<1> QED BY <1>4, <1>5

LEMMA DeliverStep == ASSUME RegistryInv, NEW j \in Job, Deliver(j) PROVE RegistryInv'
<1>0. PICK rec : rec = job[j]
    OBVIOUS
<1>1. /\ rec.pc = "deliver" /\ UNCHANGED <<version, sock, conns, gen, focused, sub, inbox, faults, missed>>
      /\ job' = [job EXCEPT ![j] =
            IF MoreToDeliver(rec)
            THEN [rec EXCEPT !.idx = @ + 1, !.owed = @ \ {conns[rec.w][rec.idx + 1]}]
            ELSE Sent(j, rec)]
    BY <1>0 DEF Deliver, registry, fanout
<1>2. rec \in Running /\ rec.passes \in Nat /\ Owing(rec)
    <2>1. rec \in Running
        BY <1>0, <1>1, RunningIs DEF RegistryInv
    <2> QED BY <1>0, <2>1 DEF Running, RegistryInv, JobsInv
<1>3. ASSUME NEW s \in Socket, IsOpen(s), Reaches(j, s)
      PROVE  sock[s].w = rec.w /\ rec.kind = "hangup" /\ rec.passes > 0
    BY <1>0, <1>1, <1>2, <1>3 DEF Reaches, Owing
<1>4. faults' \in 0 .. MaxFaults /\ missed' \subseteq Worker /\ missed \subseteq missed'
    BY <1>1 DEF RegistryInv, TypeOK
<1>5. CASE MoreToDeliver(rec)
    <2> DEFINE x == [rec EXCEPT !.idx = @ + 1, !.owed = @ \ {conns[rec.w][rec.idx + 1]}]
    <2>1. job' = [job EXCEPT ![j] = x]
        BY <1>1, <1>5
    <2>2. /\ x \in Running /\ x.pc = "deliver" /\ x.w = rec.w /\ x.kind = rec.kind /\ x.passes = rec.passes
        <3>1. rec.idx \in Nat /\ rec.owed \subseteq Socket
            BY <1>2 DEF Running
        <3>2. PICK n \in Nat : n = rec.idx + 1
            BY <3>1
        <3>3. PICK o \in SUBSET Socket : o = rec.owed \ {conns[rec.w][rec.idx + 1]}
            BY <3>1
        <3>4. x = [rec EXCEPT !.idx = n, !.owed = o]
            BY <3>2, <3>3
        <3> QED BY <1>1, <1>2, <3>4 DEF Running
    <2> HIDE DEF x
    <2>3. Owing(x)
        BY <1>2, <2>2 DEF Owing
    <2>4. job'[j] = x
        BY <2>1 DEF RegistryInv, TypeOK
    <2>5. ASSUME NEW s \in Socket, IsOpen(s), Reaches(j, s) PROVE Covered(s)'
        BY <1>1, <1>3, <2>2, <2>4, <2>5 DEF Covered, Reaches
    <2> QED BY <1>0, <1>1, <1>2, <1>4, <2>1, <2>2, <2>3, <2>5, Moves
<1>6. CASE ~ MoreToDeliver(rec)
    <2>1. Sent(j, rec) \in {Idle, Done} \cup Running /\ Owing(Sent(j, rec))
          /\ (rec.passes > 0 => Sent(j, rec) = Closing(rec))
        BY <1>2, Sends DEF RegistryInv
    <2>2. job' = [job EXCEPT ![j] = Sent(j, rec)]
        BY <1>1, <1>6
    <2>3. job'[j] = Sent(j, rec)
        BY <2>2 DEF RegistryInv, TypeOK
    <2>4. ASSUME NEW s \in Socket, IsOpen(s), Reaches(j, s) PROVE Covered(s)'
        <3>1. Reaches(j, s)'
            BY <1>1, <1>2, <1>3, <2>1, <2>3, <2>4, ClosingReaches
        <3> QED BY <3>1 DEF Covered
    <2> QED BY <1>0, <1>1, <1>2, <1>4, <2>1, <2>2, <2>4, Moves
<1> QED BY <1>5, <1>6

LEMMA CloseEndsStep == ASSUME RegistryInv, NEW j \in Job, CloseEnds(j) PROVE RegistryInv'
<1> DEFINE y == [job[j] EXCEPT !.passes = @ - 1]
<1>0. PICK rec : rec = y
    OBVIOUS
<1>1. /\ job[j].pc = "close" /\ job[j].left = <<>> /\ job' = [job EXCEPT ![j] = Sent(j, rec)]
      /\ UNCHANGED <<version, sock, conns, gen, focused, sub, inbox, faults, missed>>
    BY <1>0 DEF CloseEnds, registry, fanout
<1>2. job[j] \in Running /\ job[j].passes \in Nat /\ job[j].passes > 0
    <2>1. job[j] \in Running
        BY <1>1, RunningIs DEF RegistryInv
    <2> QED BY <1>1, <2>1 DEF Running, RegistryInv, JobsInv, Owing
<1>3. rec \in Running /\ rec.w = job[j].w /\ rec.kind = job[j].kind /\ rec.passes = job[j].passes - 1
    <2>1. job[j].passes - 1 \in Nat
        BY <1>2
    <2> QED BY <1>0, <1>2, <2>1 DEF Running
<1>4. Sent(j, rec) \in {Idle, Done} \cup Running /\ Owing(Sent(j, rec))
      /\ (rec.passes > 0 => Sent(j, rec) = Closing(rec))
    BY <1>3, Sends DEF RegistryInv
<1>5. job'[j] = Sent(j, rec)
    BY <1>1 DEF RegistryInv, TypeOK
<1>6. ASSUME NEW s \in Socket, IsOpen(s), Reaches(j, s) PROVE Covered(s)'
    <2>1. Range(job[j].left) = {}
        BY <1>1 DEF Range
    <2>2. sock[s].w = rec.w /\ rec.kind = "hangup" /\ job[j].passes > 1
        BY <1>1, <1>3, <1>6, <2>1 DEF Reaches
    <2>3. job'[j] = Closing(rec)
        BY <1>2, <1>3, <1>4, <1>5, <2>2
    <2>4. Reaches(j, s)'
        BY <1>1, <1>3, <1>6, <2>2, <2>3, ClosingReaches
    <2> QED BY <2>4 DEF Covered
<1>7. faults' \in 0 .. MaxFaults /\ missed' \subseteq Worker /\ missed \subseteq missed'
    BY <1>1 DEF RegistryInv, TypeOK
<1> QED BY <1>1, <1>2, <1>4, <1>6, <1>7, Moves

\* The listener takes the frame that is first.
LEMMA ListenStep == ASSUME RegistryInv, NEW w \in Worker, Listen(w) PROVE RegistryInv'
<1> DEFINE kind == Head(inbox[w])
           extra == IF kind = "hangup" THEN 1 ELSE 0
           rec == [pc |-> "deliver", w |-> w, kind |-> kind, idx |-> 0, gen |-> 0,
                   owed |-> {}, left |-> <<>>, passes |-> 0]
           x == Delivering(rec, extra)
<1>1. /\ job[w].pc = "idle" /\ inbox[w] # <<>> /\ inbox' = [inbox EXCEPT ![w] = Tail(@)]
      /\ job' = [job EXCEPT ![w] = x]
      /\ UNCHANGED <<version, sock, conns, gen, focused, sub, faults, missed>>
    BY DEF Listen, registry
<1>2. w \in Job /\ job[w] \notin Running
    BY <1>1, RunningIs DEF RegistryInv, Job
<1>3. /\ inbox[w] \in Seq({"message", "hangup"}) /\ kind \in {"message", "hangup"}
      /\ Tail(inbox[w]) \in Seq({"message", "hangup"})
      /\ Contains(inbox[w], "hangup") => kind = "hangup" \/ Contains(Tail(inbox[w]), "hangup")
    <2>1. inbox[w] \in Seq({"message", "hangup"})
        BY DEF RegistryInv, TypeOK
    <2>2. /\ kind \in {"message", "hangup"} /\ Tail(inbox[w]) \in Seq({"message", "hangup"})
          /\ Len(Tail(inbox[w])) = Len(inbox[w]) - 1 /\ kind = inbox[w][1]
          /\ \A i \in 1 .. Len(Tail(inbox[w])) : Tail(inbox[w])[i] = inbox[w][i + 1]
        BY <1>1, <2>1, HeadTailProperties
    <2>3. ASSUME NEW i \in 1 .. Len(inbox[w]), inbox[w][i] = "hangup", i # 1
          PROVE  Contains(Tail(inbox[w]), "hangup")
        <3>1. i - 1 \in 1 .. Len(Tail(inbox[w])) /\ (i - 1) + 1 = i
            BY <2>1, <2>2, <2>3
        <3> QED BY <2>2, <2>3, <3>1 DEF Contains
    <2> QED BY <2>1, <2>2, <2>3 DEF Contains
<1> HIDE DEF kind
<1>4. rec \in Running
    BY <1>3 DEF Running
<1>5. /\ x \in Running /\ x.pc = "deliver" /\ x.w = w /\ x.kind = kind /\ x.passes = extra
    BY <1>4, Delivers DEF RegistryInv
<1> HIDE DEF x
<1>6. Owing(x)
    BY <1>5 DEF Owing
<1>7. /\ job' \in [Job -> {Idle, Done} \cup Running] /\ JobsInv' /\ job'[w] = x
      /\ \A k \in Job : k # w => job'[k] = job[k]
    BY <1>1, <1>2, <1>5, <1>6, JobMoves
<1>8. inbox' \in [Worker -> Seq({"message", "hangup"})] /\ inbox'[w] = Tail(inbox[w])
      /\ \A v \in Worker : v # w => inbox'[v] = inbox[v]
    BY <1>1, <1>3 DEF RegistryInv, TypeOK
<1>9. ASSUME NEW s \in Socket, IsOpen(s), Contains(inbox[sock[s].w], "hangup") PROVE Covered(s)'
    <2>1. sock[s].w \in Worker
        BY <1>9, HereIs
    <2>2. CASE sock[s].w = w /\ kind = "hangup"
        BY <1>1, <1>2, <1>5, <1>7, <2>2 DEF Covered, Reaches
    <2>3. CASE sock[s].w # w \/ kind # "hangup"
        <3>1. Contains(inbox'[sock[s].w], "hangup")
            BY <1>3, <1>8, <1>9, <2>1, <2>3
        <3> QED BY <1>1, <3>1 DEF Covered
    <2> QED BY <2>2, <2>3
<1>10. ASSUME NEW s \in Socket, IsOpen(s), NEW j \in Job, Reaches(j, s) PROVE Covered(s)'
    <2>1. j # w
        BY <1>2, <1>10 DEF Reaches
    <2> QED BY <1>1, <1>2, <1>7, <1>10, <2>1, OtherJob
<1> QED BY <1>1, <1>7, <1>8, <1>9, <1>10, JobsMove DEF RegistryInv, TypeOK

\* One socket of the copy is closed, or it left by itself.
LEMMA CloseOneStep == ASSUME RegistryInv, NEW j \in Job, CloseOne(j) PROVE RegistryInv'
<1> DEFINE x == [job[j] EXCEPT !.left = Tail(@)]
<1>0. PICK rec, c : rec = job[j] /\ c = Head(rec.left)
    OBVIOUS
<1>1. /\ rec.pc = "close" /\ rec.left # <<>> /\ job' = [job EXCEPT ![j] = x]
      /\ IF IsOpen(c) THEN Disconnect(c) ELSE UNCHANGED <<sock, conns, gen, focused>>
      /\ UNCHANGED <<version, sub, inbox, faults, missed>>
    BY <1>0 DEF CloseOne, registry, fanout
<1>2. rec \in Running /\ rec.left \in Seq(Socket)
    <2>1. rec \in Running
        BY <1>0, <1>1, RunningIs DEF RegistryInv
    <2> QED BY <2>1 DEF Running
<1>3. /\ c \in Socket /\ Tail(rec.left) \in Seq(Socket)
      /\ Range(rec.left) \subseteq {c} \cup Range(Tail(rec.left))
    <2>1. /\ c \in Socket /\ Tail(rec.left) \in Seq(Socket) /\ c = rec.left[1]
          /\ Len(Tail(rec.left)) = Len(rec.left) - 1 /\ Len(rec.left) \in Nat
          /\ \A i \in 1 .. Len(Tail(rec.left)) : Tail(rec.left)[i] = rec.left[i + 1]
        BY <1>0, <1>1, <1>2, HeadTailProperties
    <2>2. DOMAIN rec.left = 1 .. Len(rec.left) /\ DOMAIN Tail(rec.left) = 1 .. Len(Tail(rec.left))
        BY <1>2, <2>1
    <2>3. ASSUME NEW i \in 1 .. Len(rec.left), i # 1 PROVE rec.left[i] \in Range(Tail(rec.left))
        <3>1. i - 1 \in 1 .. Len(Tail(rec.left)) /\ (i - 1) + 1 = i
            BY <2>1, <2>3
        <3> QED BY <2>1, <2>2, <3>1 DEF Range
    <2> QED BY <2>1, <2>2, <2>3 DEF Range
<1>4. /\ x \in Running /\ x.pc = "close" /\ x.w = rec.w /\ x.kind = rec.kind /\ x.passes = rec.passes
      /\ x.left = Tail(rec.left)
    BY <1>0, <1>1, <1>2, <1>3 DEF Running
<1>5. Owing(x)
    BY <1>0, <1>1, <1>2, <1>4 DEF RegistryInv, JobsInv, Owing
<1> HIDE DEF x
<1>6. /\ job' \in [Job -> {Idle, Done} \cup Running] /\ JobsInv' /\ job'[j] = x
      /\ \A k \in Job : k # j => job'[k] = job[k]
    BY <1>1, <1>4, <1>5, JobMoves
<1>7. /\ sock' \in [Socket -> {Fresh, Closed} \cup Live] /\ conns' \in [Worker -> Seq(Socket)]
      /\ gen' \in [Worker -> Nat] /\ focused' \subseteq Socket /\ RegistryExact' /\ AgesInv'
      /\ \A s \in Socket : IsOpen(s)' => IsOpen(s) /\ s # c /\ sock'[s] = sock[s]
    <2>1. CASE IsOpen(c)
        BY <1>1, <1>3, <2>1, Disconnected, GoneSocket DEF RegistryInv
    <2>2. CASE ~ IsOpen(c)
        BY <1>1, <2>2 DEF RegistryInv, TypeOK, RegistryExact, AgesInv, IsOpen, Dead
    <2> QED BY <2>1, <2>2
<1>8. TypeOK'
    BY <1>1, <1>6, <1>7 DEF RegistryInv, TypeOK
<1>9. HangupInv'
    <2> SUFFICES ASSUME NEW s \in Socket, IsOpen(s)', Dead(s)' PROVE Covered(s)'
        BY DEF HangupInv
    <2>1. s # c /\ sock'[s] = sock[s] /\ Covered(s)
        BY <1>1, <1>7 DEF RegistryInv, HangupInv, Dead
    <2>2. CASE ~ Reaches(j, s)
        <3>1. \A k \in Job : Reaches(k, s) => Reaches(k, s)'
            BY <1>6, <2>1, <2>2 DEF Reaches
        <3> QED BY <1>1, <2>1, <3>1 DEF Covered
    <2>3. CASE Reaches(j, s)
        <3>1. Reaches(j, s)'
            BY <1>0, <1>1, <1>3, <1>4, <1>6, <2>1, <2>3 DEF Reaches
        <3> QED BY <3>1 DEF Covered
    <2> QED BY <2>2, <2>3
<1> QED BY <1>6, <1>7, <1>8, <1>9 DEF RegistryInv

----------------------------------------------------------------------------
(* Logouts and failures. *)

\* A logout kills tokens, and its own task is what will hang up on them.
LEMMA PostStep ==
    ASSUME RegistryInv, NEW t \in Task, NEW w \in Worker, NEW kind \in Kinds, Post(t, w, kind) PROVE RegistryInv'
<1> DEFINE x == [pc |-> "publish", w |-> w, kind |-> kind, idx |-> 0, gen |-> 0, owed |-> {}, left |-> <<>>,
                 passes |-> IF kind = "hangup" THEN 1 ELSE 0]
<1>1. /\ job[t].pc = "idle" /\ version' = IF kind = "hangup" THEN version + 1 ELSE version
      /\ job' = [job EXCEPT ![t] = x]
      /\ UNCHANGED <<sock, conns, gen, focused, sub, inbox, faults, missed>>
    BY DEF Post, registry, fanout
<1>2. t \in Job /\ job[t] \notin Running
    BY <1>1, RunningIs DEF RegistryInv, Job
<1>3. kind \in {"message", "hangup"}
    BY RealtimeAssumption
<1>4. x \in Running /\ x.pc = "publish" /\ x.kind = kind /\ (kind = "hangup" => x.passes = 1)
    BY <1>3 DEF Running
<1> HIDE DEF x
<1>5. Owing(x)
    BY <1>4 DEF Owing
<1>6. /\ job' \in [Job -> {Idle, Done} \cup Running] /\ JobsInv' /\ job'[t] = x
      /\ \A k \in Job : k # t => job'[k] = job[k]
    BY <1>1, <1>2, <1>4, <1>5, JobMoves
<1>7. version \in Nat /\ version' \in Nat /\ version <= version' /\ (kind # "hangup" => version' = version)
    BY <1>1 DEF RegistryInv, TypeOK
<1>8. TypeOK'
    BY <1>1, <1>6, <1>7 DEF RegistryInv, TypeOK
<1>9. RegistryExact'
    BY <1>1 DEF RegistryInv, RegistryExact, IsOpen
<1>10. AgesInv'
    <2> SUFFICES ASSUME NEW s \in Socket, sock[s] \in Live
                 PROVE  sock[s].tv <= version' /\ (sock[s].tv # version' \/ sock[s].linger = 0)
        BY <1>1 DEF RegistryInv, AgesInv, Dead
    <2>1. sock[s].tv \in Nat /\ sock[s].tv <= version /\ (sock[s].tv # version \/ sock[s].linger = 0)
        BY DEF RegistryInv, AgesInv, Dead, Live
    <2> QED BY <1>1, <1>7, <2>1
<1>11. HangupInv'
    <2> SUFFICES ASSUME NEW s \in Socket, IsOpen(s)', Dead(s)' PROVE Covered(s)'
        BY DEF HangupInv
    <2>1. CASE kind = "hangup"
        <3>1. Reaches(t, s)'
            BY <1>4, <1>6, <2>1 DEF Reaches
        <3> QED BY <1>2, <3>1 DEF Covered
    <2>2. CASE kind # "hangup"
        <3>1. Covered(s)
            BY <1>1, <1>7, <2>2 DEF RegistryInv, HangupInv, IsOpen, Dead
        <3>2. \A k \in Job : Reaches(k, s) => Reaches(k, s)'
            BY <1>1, <1>2, <1>6 DEF Reaches
        <3> QED BY <1>1, <3>1, <3>2 DEF Covered
    <2> QED BY <2>1, <2>2
<1> QED BY <1>6, <1>8, <1>9, <1>10, <1>11 DEF RegistryInv

\* A subscription goes silent, is lost or comes back.
LEMMA SubscriptionStep ==
    ASSUME RegistryInv, NEW w \in Worker, GoSilent(w) \/ Lose(w) \/ Resubscribe(w) PROVE RegistryInv'
<1>1. UNCHANGED <<version, sock, conns, gen, focused, job>>
    BY DEF GoSilent, Lose, Resubscribe, registry
<1>2. /\ sub' \in [Worker -> {"up", "silent", "down"}]
      /\ inbox' \in [Worker -> Seq({"message", "hangup"})]
      /\ \A v \in Worker : v # w => inbox'[v] = inbox[v]
    <2>1. /\ sub \in [Worker -> {"up", "silent", "down"}]
          /\ inbox \in [Worker -> Seq({"message", "hangup"})]
        BY DEF RegistryInv, TypeOK
    <2>2. PICK c \in {"up", "silent", "down"} : sub' = [sub EXCEPT ![w] = c]
        BY DEF GoSilent, Lose, Resubscribe
    <2>3. inbox' = inbox \/ inbox' = [inbox EXCEPT ![w] = <<>>]
        BY DEF GoSilent, Lose, Resubscribe
    <2>4. <<>> \in Seq({"message", "hangup"})
        OBVIOUS
    <2>5. sub' \in [Worker -> {"up", "silent", "down"}]
        BY <2>1, <2>2
    <2>6. inbox' \in [Worker -> Seq({"message", "hangup"})]
        BY <2>1, <2>3, <2>4
    <2>7. \A v \in Worker : v # w => inbox'[v] = inbox[v]
        BY <2>1, <2>3
    <2> QED BY <2>5, <2>6, <2>7
<1>3. faults' \in 0 .. MaxFaults
    <2>1. faults \in 0 .. MaxFaults /\ MaxFaults \in Nat
        BY RealtimeAssumption DEF RegistryInv, TypeOK
    <2>2. faults' = faults \/ (faults < MaxFaults /\ faults' = faults + 1)
        BY DEF GoSilent, Lose, Resubscribe
    <2> QED BY <2>1, <2>2
<1>4. /\ missed' \subseteq Worker /\ missed \subseteq missed'
      /\ Contains(inbox[w], "hangup") => Contains(inbox'[w], "hangup") \/ w \in missed'
    BY DEF GoSilent, Lose, Resubscribe, RegistryInv, TypeOK
<1>5. JobsInv'
    BY <1>1 DEF RegistryInv, JobsInv
<1>6. ASSUME NEW s \in Socket, IsOpen(s), Contains(inbox[sock[s].w], "hangup") PROVE Covered(s)'
    <2>1. sock[s].w \in Worker
        BY <1>6, HereIs
    <2> QED BY <1>1, <1>2, <1>4, <1>6, <2>1 DEF Covered
<1>7. ASSUME NEW s \in Socket, NEW j \in Job, Reaches(j, s) PROVE Covered(s)'
    BY <1>1, <1>7 DEF Covered, Reaches
<1> QED BY <1>1, <1>2, <1>3, <1>4, <1>5, <1>6, <1>7, JobsMove DEF RegistryInv, TypeOK

\* A worker dies with its sockets; a hang-up it had not published is missed by the others.
LEMMA CrashStep == ASSUME RegistryInv, NEW w \in Worker, Crash(w) PROVE RegistryInv'
<1>1. /\ faults < MaxFaults /\ faults' = faults + 1
      /\ sock' = [s \in Socket |->
                    IF sock[s].pc \in {"accepted", "validated", "open"} /\ sock[s].w = w
                    THEN Closed ELSE sock[s]]
      /\ conns' = [conns EXCEPT ![w] = <<>>] /\ gen' = [gen EXCEPT ![w] = 0]
      /\ focused' = {s \in focused : sock[s].w # w}
      /\ sub' = [sub EXCEPT ![w] = "up"] /\ inbox' = [inbox EXCEPT ![w] = <<>>]
      /\ job' = [j \in Job |-> IF job[j].pc \notin {"idle", "done"} /\ job[j].w = w
                               THEN Returned(j) ELSE job[j]]
      /\ missed' = missed \cup UNION {Misses(job[t], Worker) :
                      t \in {x \in Task : job[x].pc = "publish" /\ job[x].w = w}}
      /\ version' = version
    BY DEF Crash
<1>2. \A s \in Socket : /\ IsOpen(s)' <=> IsOpen(s) /\ sock[s].w # w
                        /\ sock'[s] = sock[s] \/ sock'[s] = Closed
                        /\ IsOpen(s)' => sock'[s] = sock[s]
    BY <1>1 DEF IsOpen, Closed
<1>3. \A j \in Job : job'[j] = job[j] \/ (job'[j] = Returned(j) /\ job[j].w = w)
    BY <1>1
<1>4. TypeOK'
    <2>1. sock' \in [Socket -> {Fresh, Closed} \cup Live]
        BY <1>1 DEF RegistryInv, TypeOK
    <2>2. job' \in [Job -> {Idle, Done} \cup Running]
        BY <1>1, Ends DEF RegistryInv, TypeOK
    <2>3. faults' \in 0 .. MaxFaults
        <3>1. faults \in 0 .. MaxFaults /\ MaxFaults \in Nat
            BY RealtimeAssumption DEF RegistryInv, TypeOK
        <3> QED BY <1>1, <3>1
    <2>4. missed' \subseteq Worker
        BY <1>1 DEF RegistryInv, TypeOK, Misses
    <2>5. /\ conns' \in [Worker -> Seq(Socket)] /\ gen' \in [Worker -> Nat] /\ focused' \subseteq Socket
          /\ sub' \in [Worker -> {"up", "silent", "down"}]
          /\ inbox' \in [Worker -> Seq({"message", "hangup"})] /\ version' \in Nat
        BY <1>1 DEF RegistryInv, TypeOK
    <2> QED BY <2>1, <2>2, <2>3, <2>4, <2>5 DEF TypeOK
<1>5. RegistryExact'
    <2>1. ASSUME NEW v \in Worker
          PROVE  IsInjective(conns'[v]) /\ Range(conns'[v]) = {s \in Socket : IsOpen(s)' /\ sock'[s].w = v}
        <3>1. CASE v = w
            <4>1. conns'[v] = <<>>
                BY <1>1, <3>1 DEF RegistryInv, TypeOK
            <4>2. IsInjective(<<>>) /\ Range(<<>>) = {}
                BY DEF IsInjective, Range
            <4> QED BY <1>2, <3>1, <4>1, <4>2
        <3>2. CASE v # w
            <4>1. conns'[v] = conns[v]
                BY <1>1, <3>2 DEF RegistryInv, TypeOK
            <4>2. IsInjective(conns[v]) /\ Range(conns[v]) = {s \in Socket : IsOpen(s) /\ sock[s].w = v}
                BY DEF RegistryInv, RegistryExact
            <4> QED BY <1>2, <3>2, <4>1, <4>2
        <3> QED BY <3>1, <3>2
    <2>2. \A s \in focused' : IsOpen(s)'
        BY <1>1, <1>2 DEF RegistryInv, TypeOK, RegistryExact
    <2> QED BY <2>1, <2>2 DEF RegistryExact
<1>6. AgesInv'
    <2>1. Closed \notin Live
        BY DEF Closed, Live
    <2> QED BY <1>1, <1>2, <2>1 DEF RegistryInv, AgesInv, Dead
<1>7. JobsInv'
    BY <1>3, Ends DEF RegistryInv, JobsInv, Owing
<1>8. HangupInv'
    <2> SUFFICES ASSUME NEW s \in Socket, IsOpen(s)', Dead(s)' PROVE Covered(s)'
        BY DEF HangupInv
    <2>1. IsOpen(s) /\ Covered(s) /\ sock'[s] = sock[s] /\ sock[s].w # w
        BY <1>1, <1>2 DEF RegistryInv, HangupInv, Dead
    <2>2. sock[s].w \in Worker
        BY <2>1, HereIs
    <2>3. CASE sock[s].late \/ sock[s].w \in missed
        BY <1>1, <2>1, <2>3 DEF Covered
    <2>4. CASE Contains(inbox[sock[s].w], "hangup")
        <3>1. inbox'[sock[s].w] = inbox[sock[s].w]
            BY <1>1, <2>1, <2>2 DEF RegistryInv, TypeOK
        <3> QED BY <2>1, <2>4, <3>1 DEF Covered
    <2>5. ASSUME NEW j \in Job, Reaches(j, s) PROVE Covered(s)'
        <3>1. CASE job'[j] = job[j]
            BY <2>1, <2>5, <3>1 DEF Covered, Reaches
        <3>2. CASE job'[j] # job[j]
            <4>1. job[j].w = w /\ j \in Task /\ job[j].pc = "publish" /\ job[j].kind = "hangup"
                BY <1>3, <2>1, <2>5, <3>2 DEF Reaches
            <4>2. sock[s].w \in Misses(job[j], Worker)
                BY <2>1, <2>2, <4>1 DEF Misses
            <4>3. sock[s].w \in missed'
                BY <1>1, <4>1, <4>2
            <4> QED BY <2>1, <4>3 DEF Covered
        <3> QED BY <3>1, <3>2
    <2> QED BY <2>1, <2>3, <2>4, <2>5 DEF Covered
<1> QED BY <1>4, <1>5, <1>6, <1>7, <1>8 DEF RegistryInv

----------------------------------------------------------------------------
(* The theorems. *)

LEMMA InitInv == Init => RegistryInv
<1> SUFFICES ASSUME Init PROVE RegistryInv
    OBVIOUS
<1>1. TypeOK
    BY RealtimeAssumption DEF Init, TypeOK
<1>2. \A s \in Socket : sock[s] = Fresh /\ Fresh \notin Live /\ ~ IsOpen(s)
    BY DEF Init, Fresh, Live, IsOpen
<1>3. RegistryExact
    <2>1. IsInjective(<<>>) /\ Range(<<>>) = {}
        BY DEF IsInjective, Range
    <2> QED BY <1>2, <2>1 DEF Init, RegistryExact
<1>4. AgesInv /\ HangupInv
    BY <1>2 DEF AgesInv, HangupInv
<1>5. JobsInv
    <2>1. \A j \in Job : job[j] = Idle /\ Idle \notin Running
        BY DEF Init, Idle, Running
    <2> QED BY <2>1 DEF JobsInv, Owing
<1> QED BY <1>1, <1>3, <1>4, <1>5 DEF RegistryInv

LEMMA StepInv == RegistryInv /\ [Next]_vars => RegistryInv'
<1> SUFFICES ASSUME RegistryInv, [Next]_vars PROVE RegistryInv'
    OBVIOUS
<1>1. CASE \E s \in Socket : \/ \E w \in Worker, tv \in 0 .. version : Accept(s, w, tv)
                             \/ Validate(s) \/ Register(s) \/ \E front \in BOOLEAN : ClientFrame(s, front)
                             \/ Leave(s) \/ Revalidate(s)
    BY <1>1, AcceptStep, ValidateStep, RegisterStep, ClientFrameStep, LeaveStep, RevalidateStep
<1>2. CASE Tick
    BY <1>2, TickStep
<1>3. CASE \E t \in Task : \/ \E w \in Worker, kind \in Kinds : Post(t, w, kind)
                           \/ Publish(t) \/ PublishFails(t) \/ CheckListening(t)
    BY <1>3, PostStep, PublishStep, PublishFailsStep, CheckListeningStep
<1>4. CASE \E j \in Job : Deliver(j) \/ CloseOne(j) \/ CloseEnds(j)
    BY <1>4, DeliverStep, CloseOneStep, CloseEndsStep
<1>5. CASE \E w \in Worker : Listen(w) \/ GoSilent(w) \/ Lose(w) \/ Resubscribe(w) \/ Crash(w)
    BY <1>5, ListenStep, SubscriptionStep, CrashStep
<1>6. CASE UNCHANGED vars
    BY <1>6 DEF vars, RegistryInv, TypeOK, RegistryExact, AgesInv, JobsInv, HangupInv, Covered, Reaches, IsOpen, Dead
<1> QED BY <1>1, <1>2, <1>3, <1>4, <1>5, <1>6 DEF Next

LEMMA Sound == Spec => []RegistryInv
BY InitInv, StepInv, PTL DEF Spec

\* The registry of every worker is exactly its open sockets, each once, whatever
\* crosses a connect or a disconnect; and no socket outlives its token by more than
\* WS_REVALIDATE_SECONDS, however it escaped the hang-up.
THEOREM SocketsHold == Spec => []SocketsInv
<1>1. RegistryInv => SocketsInv
    <2> SUFFICES ASSUME RegistryInv PROVE LingerBounded
        BY DEF RegistryInv, SocketsInv
    <2>1. ASSUME NEW s \in Socket, IsOpen(s) PROVE sock[s].linger <= Period
        <3>1. sock[s] \in Live
            BY <2>1, LiveIs DEF RegistryInv, IsOpen
        <3>2. sock[s].linger \in Nat /\ sock[s].age \in 0 .. Period /\ sock[s].linger <= sock[s].age
            BY <3>1 DEF RegistryInv, AgesInv, Live
        <3> QED BY <3>2, RealtimeAssumption
    <2> QED BY <2>1 DEF LingerBounded
<1> QED BY <1>1, Sound, PTL

\* close_address hangs up on every socket of the address: one that is open with a
\* dead token was registered too late, or has the hang-up still coming, or is on a
\* worker that lost the frame.
THEOREM HangupsReach == Spec => []HangupComplete
<1>1. RegistryInv => HangupComplete
    <2> SUFFICES ASSUME RegistryInv, NEW s \in Socket, IsOpen(s), Dead(s)
                 PROVE  sock[s].late \/ HangupUnderWay(sock[s].w) \/ sock[s].w \in missed
        BY DEF HangupComplete
    <2>1. Covered(s)
        BY DEF RegistryInv, HangupInv
    <2>2. ASSUME NEW j \in Job, Reaches(j, s) PROVE HangupUnderWay(sock[s].w)
        BY <2>2 DEF Reaches, HangupUnderWay
    <2> QED BY <2>1, <2>2 DEF Covered, HangupUnderWay
<1> QED BY <1>1, Sound, PTL

----------------------------------------------------------------------------
(* Groups *)

Seat == [id : Nat, role : Roles]
Channel == [alive : BOOLEAN, heir : Addr \cup {NoAddr}, seat : [Addr -> Seat]]
Ops == {"idle", "create", "add", "remove", "role", "delete"}

\* A seat has a role exactly when it is taken.
Seated(c) == c \in Channel /\ \A a \in Addr : Role(c, a) = "none" <=> c.seat[a].id = 0
Distinct(c) == \A a, b \in Addr : a # b /\ c.seat[a].id = c.seat[b].id => c.seat[a].id = 0

\* Every membership of x is one of c.
Fits(c, x) == \A a \in Addr : x.seat[a].id \in {0, c.seat[a].id}

\* What a request holds.
Asked(q) ==
    /\ q.op \in Ops
    /\ q.op = "idle" => q = NoRequest
    /\ q.op = "create" => q.who \subseteq Addr /\ q.by \in q.who /\ Cardinality(q.who) <= MaxMembers
    /\ q.op \in {"add", "remove", "role", "delete"} => q.who \in Addr
    /\ q.op \in {"remove", "role", "delete"} => Seated(q.seen)
    /\ q.op \in {"remove", "role"} => q.who \in In(q.seen)
    /\ q.op = "role" => q.role \in {"admin", "member"}

Adding == {r \in Req : req[r].op = "add"}

ShapeInv ==
    /\ active \subseteq Addr /\ Seated(chan) /\ Distinct(chan)
    /\ next \in Nat /\ \A a \in Addr : chan.seat[a].id # 0 => chan.seat[a].id < next
    /\ next = 0 => ~ chan.alive
    /\ DOMAIN req = Req /\ \A r \in Req : Asked(req[r])
    /\ met \in BOOLEAN /\ deeds \in 0 .. MaxDeeds

\* Members and additions under way.
Counted ==
    /\ next = 0 => Adding = {}
    /\ Cardinality(In(chan)) + Cardinality(Adding) < MaxMembers + Cardinality(Req)

\* One owner, named by the column, and nobody who is deleted; or no channel.
Sole(c) ==
    IF c.alive THEN c.heir \in Addr /\ (\A a \in Addr : Role(c, a) = "owner" <=> a = c.heir)
               ELSE c.heir = NoAddr /\ In(c) = {}

\* What a request decided on still stands.
Current(q) ==
    /\ q.op = "create" => q.who \subseteq active
    /\ q.op = "add" => q.who \in active
    /\ q.op \in {"remove", "role", "delete"} => q.seen = chan
    /\ q.op = "role" => Role(chan, q.who) # "owner"

AloneInv ==
    ~ met =>
        /\ Sole(chan) /\ In(chan) \subseteq active
        /\ \A r, x \in Req : req[r].op # "idle" /\ req[x].op # "idle" => r = x
        /\ \A r \in Req : Current(req[r])

SeatsInv == ShapeInv /\ Counted /\ AloneInv

----------------------------------------------------------------------------
(* Channels. *)

LEMMA InById ==
    ASSUME NEW c, Seated(c) PROVE \A a \in Addr : a \in In(c) <=> c.seat[a].id # 0
<1>1. ASSUME NEW a \in Addr PROVE a \in In(c) <=> c.seat[a].id # 0
    <2>1. c.seat[a] \in Seat /\ (c.seat[a].role = "none" <=> c.seat[a].id = 0)
        BY DEF Seated, Channel, Role
    <2>2. c.seat[a] = NoSeat <=> c.seat[a].id = 0
        BY <2>1 DEF Seat, NoSeat
    <2> QED BY <2>2 DEF In
<1> QED BY <1>1

LEMMA InFinite == ASSUME GroupsConstants, NEW c PROVE IsFiniteSet(In(c))
BY FS_Subset DEF GroupsConstants, In

LEMMA GoneSeated == Seated(Gone) /\ In(Gone) = {} /\ \A c : Fits(c, Gone)
BY DEF Seated, Channel, Gone, Role, NoSeat, Seat, Roles, In, Fits

\* What fits a channel has no member it has not.
LEMMA FitsIn ==
    ASSUME NEW c, NEW x, Seated(c), Seated(x), Fits(c, x)
    PROVE  /\ In(x) \subseteq In(c) /\ (Distinct(c) => Distinct(x))
           /\ \A n \in Nat : (\A a \in Addr : c.seat[a].id # 0 => c.seat[a].id < n)
                              => \A a \in Addr : x.seat[a].id # 0 => x.seat[a].id < n
BY InById DEF Fits, Distinct, In

\* The successor's row is the one that was read.
LEMMA HandedFits ==
    ASSUME NEW c, NEW s, Seated(c), Seated(s), NEW w \in In(s), Writable(c, s, w, "owner")
    PROVE  /\ Seated(Handed(c, s, w)) /\ Fits(c, Handed(c, s, w))
           /\ Handed(c, s, w).alive = c.alive
<1> DEFINE x == Handed(c, s, w)
<1>1. w \in Addr /\ s.seat[w].id # 0 /\ c \in Channel
    BY InById DEF In, Seated
<1>2. x.alive = c.alive /\ x.heir \in Addr \cup {NoAddr} /\ x.seat \in [Addr -> Seat] /\ x \in Channel
    BY <1>1 DEF Handed, Channel, Seat, Roles
<1>3. \A a \in Addr : x.seat[a].id = c.seat[a].id /\ (a # w => x.seat[a].role = c.seat[a].role)
    BY <1>1 DEF Handed, Channel, Seat
<1>4. (x.seat[w].role = "owner" /\ c.seat[w].id # 0) \/ x.seat[w].role = c.seat[w].role
    BY <1>1 DEF Handed, Channel, Seat, Writable
<1> QED BY <1>1, <1>2, <1>3, <1>4 DEF Seated, Role, Fits

LEMMA LeftFits ==
    ASSUME NEW c, Seated(c), NEW a \in Addr
    PROVE  /\ Seated(Left(c, a)) /\ Fits(c, Left(c, a)) /\ In(Left(c, a)) = In(c) \ {a}
           /\ Left(c, a).alive = c.alive /\ Left(c, a).heir = c.heir
           /\ \A b \in Addr : b # a => Role(Left(c, a), b) = Role(c, b)
<1> DEFINE x == Left(c, a)
<1>1. /\ x \in Channel /\ x.alive = c.alive /\ x.heir = c.heir
      /\ x.seat[a] = NoSeat /\ \A b \in Addr : b # a => x.seat[b] = c.seat[b]
    BY DEF Left, Seated, Channel, Seat, NoSeat, Roles
<1>2. Seated(x) /\ Fits(c, x)
    BY <1>1 DEF Seated, Role, NoSeat, Fits
<1>3. In(x) = In(c) \ {a}
    BY <1>1 DEF In
<1> QED BY <1>1, <1>2, <1>3 DEF Role

LEMMA SucceededFits ==
    ASSUME NEW c, NEW s, Seated(c), Seated(s), NEW a \in Addr, NEW x \in Succeeded(c, s, a)
    PROVE  Seated(x) /\ Fits(c, x) /\ (x.alive => c.alive)
<1>1. CASE In(s) \subseteq {a}
    <2>1. x = Gone
        BY <1>1 DEF Succeeded
    <2>2. ~ Gone.alive
        BY DEF Gone
    <2> QED BY <2>1, <2>2, GoneSeated
<1>2. CASE ~ In(s) \subseteq {a}
    <2>1. PICK w \in Successors(s, a) : Writable(c, s, w, "owner") /\ x = Handed(c, s, w)
        BY <1>2 DEF Succeeded
    <2>2. w \in In(s)
        BY DEF Successors
    <2> QED BY <2>1, <2>2, HandedFits
<1> QED BY <1>1, <1>2

LEMMA DepartedFits ==
    ASSUME NEW c, NEW s, Seated(c), Seated(s), NEW a \in Addr, NEW x \in Departed(c, s, a)
    PROVE  Seated(x) /\ Fits(c, x) /\ (x.alive => c.alive)
<1>1. PICK y : /\ x = Left(y, a)
               /\ y = c \/ y \in Succeeded(c, s, a)
    BY DEF Departed
<1>2. Seated(y) /\ (\A b \in Addr : y.seat[b].id \in {0, c.seat[b].id}) /\ (y.alive => c.alive)
    BY <1>1, SucceededFits DEF Fits
<1> QED BY <1>1, <1>2, LeftFits DEF Fits

LEMMA AdoptedFits ==
    ASSUME NEW c, NEW s, Seated(c), Seated(s), NEW a \in Addr, NEW x \in Adopted(c, s, a)
    PROVE  Seated(x) /\ Fits(c, x) /\ (x.alive => c.alive)
<1>1. CASE c.heir # a
    BY <1>1 DEF Adopted, Fits
<1>2. CASE c.heir = a
    BY <1>2, SucceededFits DEF Adopted
<1> QED BY <1>1, <1>2

----------------------------------------------------------------------------
(* The shape of the state. *)

\* What a commit may make of the channel when it adds nobody.
Settles(r) ==
    /\ r \in Req /\ Answered(r) /\ next' = next /\ active' \subseteq active
    /\ Seated(chan') /\ Fits(chan, chan') /\ (chan'.alive => chan.alive)

LEMMA RemoveSettles == ASSUME ShapeInv, NEW r \in Req, CommitRemove(r) PROVE Settles(r)
<1>1. Seated(req[r].seen) /\ req[r].who \in Addr
    BY DEF CommitRemove, ShapeInv, Asked
<1> QED BY <1>1, DepartedFits DEF CommitRemove, ShapeInv, Settles

LEMMA RoleSettles ==
    ASSUME ShapeInv, NEW r \in Req, CommitRole(r)
    PROVE  /\ Settles(r) /\ In(chan') = In(chan) /\ chan'.heir = chan.heir /\ chan'.alive = chan.alive
           /\ \A a \in Addr : Role(chan', a) # Role(chan, a) => a = req[r].who /\ Role(chan', a) = req[r].role
<1> DEFINE q == req[r]
           w == q.who
<1>1. Seated(q.seen) /\ w \in In(q.seen) /\ w \in Addr /\ q.role \in {"admin", "member"}
    BY DEF CommitRole, ShapeInv, Asked
<1>2. CASE Role(q.seen, w) = q.role
    BY <1>2 DEF CommitRole, Settles, Fits, ShapeInv
<1>3. CASE Role(q.seen, w) # q.role
    <2>1. chan' = [chan EXCEPT !.seat[w].role = q.role] /\ chan.seat[w].id # 0
        BY <1>1, <1>3, InById DEF CommitRole, Writable
    <2>2. /\ chan' \in Channel /\ chan'.heir = chan.heir /\ chan'.alive = chan.alive
          /\ \A a \in Addr : chan'.seat[a].id = chan.seat[a].id
          /\ \A a \in Addr : chan'.seat[a].role = IF a = w THEN q.role ELSE chan.seat[a].role
        <3>1. chan \in Channel /\ q.role \in Roles
            BY <1>1 DEF ShapeInv, Seated, Roles
        <3>2. /\ chan'.alive = chan.alive /\ chan'.heir = chan.heir
              /\ chan'.seat = [chan.seat EXCEPT ![w] = [chan.seat[w] EXCEPT !.role = q.role]]
              /\ chan' \in Channel
            BY <1>1, <2>1, <3>1 DEF Channel, Seat
        <3>3. \A a \in Addr : chan'.seat[a] = IF a = w THEN [chan.seat[w] EXCEPT !.role = q.role]
                                                       ELSE chan.seat[a]
            BY <1>1, <3>1, <3>2 DEF Channel
        <3> QED BY <1>1, <3>1, <3>2, <3>3 DEF Channel, Seat
    <2>3. Seated(chan') /\ Fits(chan, chan')
        BY <1>1, <2>1, <2>2 DEF ShapeInv, Seated, Role, Fits
    <2>4. In(chan') = In(chan)
        <3>1. \A a \in Addr : a \in In(chan') <=> a \in In(chan)
            BY <2>2, <2>3, InById DEF ShapeInv
        <3> QED BY <3>1 DEF In
    <2> QED BY <2>2, <2>3, <2>4 DEF CommitRole, Settles, Role
<1> QED BY <1>2, <1>3

LEMMA DeleteSettles == ASSUME ShapeInv, NEW r \in Req, CommitDelete(r) PROVE Settles(r)
<1> DEFINE q == req[r]
<1>1. Seated(q.seen) /\ q.who \in Addr /\ Seated(chan)
    BY DEF CommitDelete, ShapeInv, Asked
<1>2. PICK c : /\ c = chan \/ c \in Departed(chan, q.seen, q.who)
               /\ chan' \in Adopted(c, q.seen, q.who)
    BY DEF CommitDelete
<1>3. Seated(c) /\ Fits(chan, c) /\ (c.alive => chan.alive)
    BY <1>1, <1>2, DepartedFits DEF Fits
<1>4. Seated(chan') /\ Fits(c, chan') /\ (chan'.alive => c.alive)
    BY <1>1, <1>2, <1>3, AdoptedFits
<1>5. Fits(chan, chan')
    BY <1>3, <1>4 DEF Fits
<1> QED BY <1>3, <1>4, <1>5 DEF CommitDelete, Settles

LEMMA AbortSettles == ASSUME ShapeInv, NEW r \in Req, Abort(r) PROVE Settles(r)
BY DEF Abort, ShapeInv, Settles, Fits

LEMMA SettlesShape == ASSUME ShapeInv, NEW r \in Req, Settles(r) PROVE ShapeInv'
<1>1. /\ Distinct(chan') /\ \A a \in Addr : chan'.seat[a].id # 0 => chan'.seat[a].id < next
    BY FitsIn DEF ShapeInv, Settles
<1>2. DOMAIN req' = Req /\ \A x \in Req : Asked(req'[x])
    BY DEF ShapeInv, Settles, Answered, Asked, NoRequest, Ops
<1> QED BY <1>1, <1>2 DEF ShapeInv, Settles, Answered

\* Every request there is.
LEMMA AskShape ==
    ASSUME GroupsConstants, ShapeInv, NEW r \in Req, NEW q, Asked(q), Reads(r, q) PROVE ShapeInv'
<1>1. DOMAIN req' = Req /\ \A x \in Req : Asked(req'[x])
    BY DEF ShapeInv, Reads
<1>2. met' \in BOOLEAN /\ deeds' \in 0 .. MaxDeeds
    BY DEF ShapeInv, Reads, GroupsConstants
<1> QED BY <1>1, <1>2 DEF ShapeInv, Reads

LEMMA CreateShape ==
    ASSUME GroupsConstants, ShapeInv, NEW r \in Req, CommitCreate(r)
    PROVE  /\ ShapeInv' /\ In(chan') = req[r].who /\ chan'.alive /\ chan'.heir = req[r].by
           /\ \A a \in Addr : Role(chan', a) = "owner" <=> a = req[r].by
<1> DEFINE q == req[r]
           n == Cardinality(q.who)
<1>1. q.who \subseteq Addr /\ q.by \in q.who /\ n \in Nat
    <2>1. q.who \subseteq Addr /\ q.by \in q.who
        BY DEF CommitCreate, ShapeInv, Asked
    <2> QED BY <2>1, FS_Subset, FS_CardinalityType DEF GroupsConstants
<1>2. PICK id \in [q.who -> 1 .. n] :
        /\ \A a, b \in q.who : a # b => id[a] # id[b]
        /\ chan' = [alive |-> TRUE, heir |-> q.by,
                    seat |-> [a \in Addr |-> IF a \notin q.who THEN NoSeat
                        ELSE [id |-> id[a], role |-> IF a = q.by THEN "owner" ELSE "member"]]]
    BY DEF CommitCreate
<1>3. \A a \in Addr : chan'.seat[a] = IF a \notin q.who THEN NoSeat
                        ELSE [id |-> id[a], role |-> IF a = q.by THEN "owner" ELSE "member"]
    BY <1>2
<1>4. chan' \in Channel
    BY <1>1, <1>2 DEF Channel, Seat, Roles, NoSeat
<1>5. \A a \in Addr : chan'.seat[a].id = (IF a \in q.who THEN id[a] ELSE 0)
                      /\ (chan'.seat[a].role = "none" <=> a \notin q.who)
    <2>1. ASSUME NEW a \in Addr, a \in q.who
          PROVE  chan'.seat[a].id = id[a] /\ chan'.seat[a].role # "none"
        BY <1>2, <1>3, <1>4, <2>1 DEF Channel, Seat
    <2>2. ASSUME NEW a \in Addr, a \notin q.who
          PROVE  chan'.seat[a].id = 0 /\ chan'.seat[a].role = "none"
        BY <1>2, <1>3, <1>4, <2>2 DEF Channel, Seat, NoSeat
    <2> QED BY <2>1, <2>2
<1>6. Seated(chan') /\ Distinct(chan') /\ \A a \in Addr : chan'.seat[a].id # 0 => chan'.seat[a].id < n + 1
    BY <1>1, <1>2, <1>4, <1>5 DEF Seated, Role, Distinct
<1>7. DOMAIN req' = Req /\ \A x \in Req : Asked(req'[x])
    BY DEF ShapeInv, CommitCreate, Answered, Asked, NoRequest, Ops
<1>8. ShapeInv'
    BY <1>1, <1>6, <1>7 DEF ShapeInv, CommitCreate, Answered
<1>9. In(chan') = q.who
    <2>1. \A a \in Addr : a \in In(chan') <=> a \in q.who
        BY <1>2, <1>5, <1>6, InById
    <2> QED BY <1>1, <2>1 DEF In
<1>10. \A a \in Addr : Role(chan', a) = "owner" <=> a = q.by
    <2>1. ASSUME NEW a \in Addr, a \in q.who
          PROVE  Role(chan', a) = "owner" <=> a = q.by
        BY <1>2, <1>3, <1>4, <2>1 DEF Channel, Seat, Role
    <2> QED BY <1>1, <1>5, <2>1 DEF Role
<1> QED BY <1>2, <1>8, <1>9, <1>10

\* A new member takes a seat of its own.
LEMMA AddShape ==
    ASSUME ShapeInv, NEW r \in Req, next # 0, CommitAdd(r)
    PROVE  /\ ShapeInv' /\ In(chan') = In(chan) \cup {req[r].who} /\ chan'.heir = chan.heir
           /\ chan'.alive = chan.alive
           /\ \A a \in Addr : Role(chan', a) = IF a = req[r].who THEN "member" ELSE Role(chan, a)
<1> DEFINE w == req[r].who
<1>1. w \in Addr /\ w \notin In(chan) /\ next \in Nat \ {0}
    BY DEF CommitAdd, ShapeInv, Asked
<1>2. /\ chan' \in Channel /\ chan'.alive = chan.alive /\ chan'.heir = chan.heir
      /\ \A a \in Addr : chan'.seat[a] = IF a = w THEN [id |-> next, role |-> "member"] ELSE chan.seat[a]
    BY <1>1 DEF CommitAdd, ShapeInv, Seated, Channel, Seat, Roles
<1>3. Seated(chan') /\ \A a \in Addr : Role(chan', a) = IF a = w THEN "member" ELSE Role(chan, a)
    BY <1>1, <1>2 DEF ShapeInv, Seated, Role
<1>4. Distinct(chan') /\ \A a \in Addr : chan'.seat[a].id # 0 => chan'.seat[a].id < next + 1
    BY <1>1, <1>2 DEF ShapeInv, Distinct, Seated, Channel, Seat
<1>5. In(chan') = In(chan) \cup {w}
    <2>1. \A a \in Addr : a \in In(chan') <=> a \in In(chan) \/ a = w
        BY <1>1, <1>2, <1>3, InById DEF ShapeInv
    <2> QED BY <1>1, <2>1 DEF In
<1>6. DOMAIN req' = Req /\ \A x \in Req : Asked(req'[x])
    BY DEF ShapeInv, CommitAdd, Answered, Asked, NoRequest, Ops
<1>7. ShapeInv'
    BY <1>1, <1>3, <1>4, <1>6 DEF ShapeInv, CommitAdd, Answered
<1> QED BY <1>2, <1>3, <1>5, <1>7

----------------------------------------------------------------------------
(* Members and additions under way. *)

LEMMA FewerCounted ==
    ASSUME GroupsConstants, Counted, NEW m, NEW x, m \subseteq In(chan), x \subseteq Adding
    PROVE  Cardinality(m) + Cardinality(x) < MaxMembers + Cardinality(Req)
<1>1. IsFiniteSet(In(chan)) /\ IsFiniteSet(Adding) /\ IsFiniteSet(Req)
    BY InFinite, FS_Subset DEF Adding, GroupsConstants
<1>2. /\ Cardinality(m) <= Cardinality(In(chan)) /\ Cardinality(x) <= Cardinality(Adding)
      /\ Cardinality(m) \in Nat /\ Cardinality(x) \in Nat
      /\ Cardinality(In(chan)) \in Nat /\ Cardinality(Adding) \in Nat /\ Cardinality(Req) \in Nat
    BY <1>1, FS_Subset, FS_CardinalityType
<1> QED BY <1>2 DEF Counted, GroupsConstants

LEMMA SettlesCounted ==
    ASSUME GroupsConstants, ShapeInv, Counted, NEW r \in Req, Settles(r) PROVE Counted'
<1>1. In(chan') \subseteq In(chan)
    BY FitsIn DEF ShapeInv, Settles
<1>2. Adding' \subseteq Adding
    BY DEF Adding, Settles, Answered, ShapeInv, NoRequest
<1>3. Cardinality(In(chan')) + Cardinality(Adding') < MaxMembers + Cardinality(Req)
    BY <1>1, <1>2, FewerCounted
<1> QED BY <1>2, <1>3 DEF Counted, Settles

LEMMA AskCounted ==
    ASSUME GroupsConstants, ShapeInv, Counted, NEW r \in Req, NEW q, Reads(r, q),
           q.op = "add" => next # 0 /\ Room(chan)
    PROVE  Counted'
<1>1. Adding' \subseteq Req /\ (q.op # "add" => Adding' \subseteq Adding)
    BY DEF Adding, Reads, ShapeInv, NoRequest
<1>2. CASE q.op # "add"
    <2>1. Cardinality(In(chan)) + Cardinality(Adding') < MaxMembers + Cardinality(Req)
        BY <1>1, <1>2, FewerCounted
    <2> QED BY <1>1, <1>2, <2>1 DEF Counted, Reads
<1>3. CASE q.op = "add"
    <2>1. /\ Cardinality(Adding') \in Nat /\ Cardinality(Req) \in Nat
          /\ Cardinality(Adding') <= Cardinality(Req) /\ Cardinality(In(chan)) \in Nat
        BY <1>1, InFinite, FS_Subset, FS_CardinalityType DEF GroupsConstants
    <2> QED BY <1>3, <2>1 DEF Counted, Reads, Room, GroupsConstants
<1> QED BY <1>2, <1>3

LEMMA CreateCounted ==
    ASSUME GroupsConstants, ShapeInv, Counted, NEW r \in Req, CommitCreate(r) PROVE Counted'
<1>1. In(chan') = req[r].who /\ Cardinality(req[r].who) <= MaxMembers /\ req[r].who \subseteq Addr
    BY CreateShape DEF ShapeInv, Asked, CommitCreate
<1>2. Adding' = {}
    BY DEF Counted, CommitCreate, Answered, Adding, ShapeInv, NoRequest
<1>3. Cardinality(Adding') = 0 /\ Cardinality(Req) \in Nat \ {0} /\ Cardinality(req[r].who) \in Nat
    BY <1>1, <1>2, FS_EmptySet, FS_CardinalityType, FS_Subset DEF GroupsConstants
<1> QED BY <1>1, <1>2, <1>3 DEF Counted, GroupsConstants

LEMMA AddCounted ==
    ASSUME GroupsConstants, ShapeInv, Counted, NEW r \in Req, next # 0, CommitAdd(r) PROVE Counted'
<1>1. In(chan') = In(chan) \cup {req[r].who} /\ next' # 0
    BY AddShape DEF CommitAdd, ShapeInv
<1>2. r \in Adding /\ Adding' = Adding \ {r}
    BY DEF Adding, CommitAdd, Answered, ShapeInv, NoRequest
<1>3. IsFiniteSet(In(chan)) /\ IsFiniteSet(Adding) /\ IsFiniteSet(Req)
    BY InFinite, FS_Subset DEF Adding, GroupsConstants
<1>4. /\ Cardinality(In(chan')) <= Cardinality(In(chan)) + 1
      /\ Cardinality(Adding') = Cardinality(Adding) - 1
      /\ Cardinality(In(chan)) \in Nat /\ Cardinality(Adding) \in Nat /\ Cardinality(Req) \in Nat
      /\ Cardinality(In(chan')) \in Nat
    <2>1. /\ IsFiniteSet(In(chan')) /\ IsFiniteSet(Adding \ {r})
          /\ Cardinality(In(chan')) <= Cardinality(In(chan)) + 1
        <3>1. /\ IsFiniteSet(In(chan) \cup {req[r].who})
              /\ Cardinality(In(chan) \cup {req[r].who})
                    = IF req[r].who \in In(chan) THEN Cardinality(In(chan)) ELSE Cardinality(In(chan)) + 1
            BY <1>3, FS_AddElement
        <3>2. IsFiniteSet(Adding \ {r})
            BY <1>3, FS_RemoveElement
        <3>3. Cardinality(In(chan)) \in Nat
            BY <1>3, FS_CardinalityType
        <3> QED BY <1>1, <3>1, <3>2, <3>3
    <2>2. Cardinality(Adding') = Cardinality(Adding) - 1
        BY <1>2, <1>3, FS_RemoveElement
    <2> QED BY <1>3, <2>1, <2>2, FS_CardinalityType
<1> QED BY <1>1, <1>4 DEF Counted, GroupsConstants

----------------------------------------------------------------------------
(* One owner, while requests do not overlap. *)

\* A request that worked alone leaves nobody else at work.
LEMMA QuietAlone ==
    ASSUME ShapeInv, AloneInv, NEW r \in Req, req[r].op # "idle", Answered(r),
           ~ met => Sole(chan') /\ In(chan') \subseteq active'
    PROVE  AloneInv'
<1>1. DOMAIN req' = Req /\ \A x \in Req : req'[x] = IF x = r THEN NoRequest ELSE req[x]
    BY DEF ShapeInv, Answered
<1>2. ~ met => \A x \in Req : req'[x].op = "idle"
    BY <1>1 DEF AloneInv, NoRequest
<1>3. met' = met
    BY DEF Answered
<1> QED BY <1>2, <1>3 DEF AloneInv, Current

LEMMA AskAlone ==
    ASSUME ShapeInv, AloneInv, NEW r \in Req, NEW q, Reads(r, q), Current(q) PROVE AloneInv'
<1> SUFFICES ASSUME ~ met' PROVE AloneInv'
    BY DEF AloneInv
<1>1. ~ met /\ \A x \in Req : req[x] = NoRequest
    BY DEF Reads
<1>2. \A x \in Req : req'[x] = IF x = r THEN q ELSE NoRequest
    BY <1>1 DEF ShapeInv, Reads
<1>3. \A x \in Req : Current(req'[x])
    BY <1>2 DEF Current, NoRequest
<1>4. \A x, y \in Req : req'[x].op # "idle" /\ req'[y].op # "idle" => x = y
    BY <1>2 DEF NoRequest
<1> QED BY <1>1, <1>3, <1>4 DEF AloneInv, Reads, Sole, Current

\* A departure that read what is there.
LEMMA DepartAlone ==
    ASSUME GroupsConstants, NEW c, Seated(c), Sole(c), NEW a \in In(c), NEW x \in Departed(c, c, a)
    PROVE  Sole(x) /\ In(x) = In(c) \ {a} /\ x.heir # a
<1>1. c.alive /\ c.heir \in Addr /\ a \in Addr
    BY DEF Sole, In
<1>2. CASE Role(c, a) # "owner"
    <2>1. x = Left(c, a) /\ c.heir # a
        BY <1>1, <1>2 DEF Departed, Sole
    <2>2. /\ In(x) = In(c) \ {a} /\ x.alive = c.alive /\ x.heir = c.heir
          /\ \A b \in Addr : b # a => Role(x, b) = Role(c, b)
        BY <1>1, <2>1, LeftFits
    <2>3. Role(x, a) = "none"
        BY <1>1, <2>1 DEF Left, Seated, Channel, Role, NoSeat
    <2> QED BY <1>1, <1>2, <2>1, <2>2, <2>3 DEF Sole
<1>3. CASE Role(c, a) = "owner" /\ In(c) \subseteq {a}
    <2>1. x = Left(Gone, a)
        BY <1>3 DEF Departed, Succeeded
    <2>2. In(x) = {} /\ ~ x.alive /\ x.heir = NoAddr
        <3>1. In(x) = {} /\ x.alive = Gone.alive /\ x.heir = Gone.heir
            BY <1>1, <2>1, LeftFits, GoneSeated
        <3>2. ~ Gone.alive /\ Gone.heir = NoAddr
            BY DEF Gone
        <3> QED BY <3>1, <3>2
    <2> QED BY <1>1, <1>3, <2>2 DEF Sole, GroupsConstants
<1>4. CASE Role(c, a) = "owner" /\ ~ In(c) \subseteq {a}
    <2>1. PICK w \in Successors(c, a) : Writable(c, c, w, "owner") /\ x = Left(Handed(c, c, w), a)
        BY <1>4 DEF Departed, Succeeded
    <2>2. w \in In(c) /\ w # a /\ w \in Addr /\ c.heir = a
        BY <1>1, <1>4, <2>1 DEF Successors, In, Sole
    <2> DEFINE y == Handed(c, c, w)
    <2>3. /\ Seated(y) /\ y.alive /\ y.heir = w
          /\ \A b \in Addr : y.seat[b].id = c.seat[b].id
                            /\ Role(y, b) = IF b = w THEN "owner" ELSE Role(c, b)
        <3>1. Seated(y) /\ y.alive
            BY <1>1, <2>1, <2>2, HandedFits
        <3> QED BY <1>1, <2>2, <3>1 DEF Handed, Seated, Channel, Seat, Role, Sole
    <2>4. In(y) = In(c)
        <3>1. \A b \in Addr : b \in In(y) <=> b \in In(c)
            BY <2>3, InById
        <3> QED BY <3>1 DEF In
    <2>5. /\ In(x) = In(y) \ {a} /\ x.alive /\ x.heir = w
          /\ \A b \in Addr : b # a => Role(x, b) = Role(y, b)
        BY <1>1, <2>1, <2>3, LeftFits
    <2>6. Role(x, a) = "none"
        BY <1>1, <2>1, <2>3 DEF Left, Seated, Channel, Role, NoSeat
    <2> QED BY <1>1, <2>2, <2>3, <2>4, <2>5, <2>6 DEF Sole
<1> QED BY <1>2, <1>3, <1>4

LEMMA RemoveAlone ==
    ASSUME GroupsConstants, ShapeInv, AloneInv, NEW r \in Req, CommitRemove(r) PROVE AloneInv'
<1>1. ASSUME ~ met PROVE Sole(chan') /\ In(chan') \subseteq active'
    <2>1. Sole(chan) /\ In(chan) \subseteq active /\ req[r].seen = chan
        BY <1>1 DEF AloneInv, Current, CommitRemove
    <2>2. req[r].who \in In(chan) /\ Seated(chan)
        BY <2>1 DEF ShapeInv, Asked, CommitRemove
    <2> QED BY <2>1, <2>2, DepartAlone DEF CommitRemove
<1> QED BY <1>1, QuietAlone DEF CommitRemove

LEMMA RoleAlone ==
    ASSUME GroupsConstants, ShapeInv, AloneInv, NEW r \in Req, CommitRole(r) PROVE AloneInv'
<1>1. ASSUME ~ met PROVE Sole(chan') /\ In(chan') \subseteq active'
    <2>1. Sole(chan) /\ In(chan) \subseteq active /\ Role(chan, req[r].who) # "owner"
        BY <1>1 DEF AloneInv, Current, CommitRole
    <2>2. req[r].role # "owner"
        BY DEF ShapeInv, Asked, CommitRole
    <2>3. /\ In(chan') = In(chan) /\ chan'.heir = chan.heir /\ chan'.alive = chan.alive
          /\ \A a \in Addr : Role(chan', a) = "owner" <=> Role(chan, a) = "owner"
        BY <2>1, <2>2, RoleSettles
    <2> QED BY <2>1, <2>3 DEF Sole, CommitRole
<1> QED BY <1>1, QuietAlone DEF CommitRole

LEMMA DeleteAlone ==
    ASSUME GroupsConstants, ShapeInv, AloneInv, NEW r \in Req, CommitDelete(r) PROVE AloneInv'
<1> DEFINE w == req[r].who
<1>1. ASSUME ~ met PROVE Sole(chan') /\ In(chan') \subseteq active'
    <2>1. /\ Sole(chan) /\ In(chan) \subseteq active /\ req[r].seen = chan
          /\ w \in Addr /\ Seated(chan) /\ active' = active \ {w}
        BY <1>1 DEF AloneInv, Current, CommitDelete, ShapeInv, Asked
    <2>2. PICK c \in IF w \in In(chan) THEN Departed(chan, chan, w) ELSE {chan} :
            chan' \in Adopted(c, chan, w)
        BY <2>1 DEF CommitDelete
    <2>3. Sole(c) /\ In(c) = In(chan) \ {w} /\ c.heir # w
        <3>1. CASE w \in In(chan)
            BY <2>1, <2>2, <3>1, DepartAlone
        <3>2. CASE w \notin In(chan)
            <4>1. Role(chan, w) = "none"
                BY <2>1, <3>2 DEF In, Role, NoSeat
            <4> QED BY <2>1, <2>2, <3>2, <4>1 DEF Sole, GroupsConstants
        <3> QED BY <3>1, <3>2
    <2>4. chan' = c
        BY <2>2, <2>3 DEF Adopted
    <2> QED BY <2>1, <2>3, <2>4
<1> QED BY <1>1, QuietAlone DEF CommitDelete

LEMMA AddAlone ==
    ASSUME GroupsConstants, ShapeInv, AloneInv, NEW r \in Req, next # 0, CommitAdd(r) PROVE AloneInv'
<1>1. ASSUME ~ met PROVE Sole(chan') /\ In(chan') \subseteq active'
    <2>1. Sole(chan) /\ In(chan) \subseteq active /\ req[r].who \in active /\ chan.alive
        BY <1>1 DEF AloneInv, Current, CommitAdd
    <2>2. Role(chan, req[r].who) = "none"
        BY DEF CommitAdd, ShapeInv, Asked, In, Role, NoSeat
    <2>3. /\ In(chan') = In(chan) \cup {req[r].who} /\ chan'.heir = chan.heir /\ chan'.alive
          /\ \A a \in Addr : Role(chan', a) = IF a = req[r].who THEN "member" ELSE Role(chan, a)
        BY <2>1, AddShape
    <2> QED BY <2>1, <2>2, <2>3 DEF Sole, CommitAdd
<1> QED BY <1>1, QuietAlone DEF CommitAdd

LEMMA CreateAlone ==
    ASSUME GroupsConstants, ShapeInv, AloneInv, NEW r \in Req, CommitCreate(r) PROVE AloneInv'
<1>1. ASSUME ~ met PROVE Sole(chan') /\ In(chan') \subseteq active'
    <2>1. req[r].who \subseteq active /\ req[r].by \in Addr
        BY <1>1 DEF AloneInv, Current, CommitCreate, ShapeInv, Asked
    <2> QED BY <2>1, CreateShape DEF Sole, CommitCreate
<1> QED BY <1>1, QuietAlone DEF CommitCreate

----------------------------------------------------------------------------
LEMMA Initially == ASSUME GroupsConstants, GroupsInit PROVE SeatsInv
<1>1. ShapeInv
    <2>1. Seated(chan) /\ \A a \in Addr : chan.seat[a].id = 0
        <3>1. chan = Gone
            BY DEF GroupsInit
        <3>2. \A a \in Addr : Gone.seat[a].id = 0
            BY DEF Gone, NoSeat
        <3> QED BY <3>1, <3>2, GoneSeated
    <2>2. ~ chan.alive
        BY DEF GroupsInit, Gone
    <2>3. \A r \in Req : Asked(req[r])
        <3>1. NoRequest.op = "idle" /\ \A r \in Req : req[r] = NoRequest
            BY DEF GroupsInit, NoRequest
        <3> QED BY <3>1 DEF Asked, Ops
    <2>4. active \subseteq Addr /\ Distinct(chan) /\ next = 0 /\ DOMAIN req = Req
        BY <2>1 DEF GroupsInit, Distinct
    <2>5. met \in BOOLEAN
        BY DEF GroupsInit
    <2>6. deeds \in 0 .. MaxDeeds
        BY DEF GroupsInit, GroupsConstants
    <2> QED BY <2>1, <2>2, <2>3, <2>4, <2>5, <2>6 DEF ShapeInv
<1>2. In(chan) = {} /\ Adding = {}
    BY GoneSeated DEF GroupsInit, Adding, NoRequest
<1>3. Counted
    <2>1. Cardinality(Req) \in Nat /\ Cardinality({}) = 0
        BY FS_EmptySet, FS_CardinalityType DEF GroupsConstants
    <2> QED BY <1>2, <2>1 DEF Counted, GroupsConstants
<1>4. AloneInv
    BY <1>2 DEF GroupsInit, AloneInv, Sole, Gone, Current, NoRequest
<1> QED BY <1>1, <1>3, <1>4 DEF SeatsInv

\* A request starts: what it asks is well formed, current, and finds room if it adds.
LEMMA Asks ==
    ASSUME GroupsConstants, SeatsInv, NEW r \in Req, NEW q, Reads(r, q), Asked(q), Current(q),
           q.op = "add" => next # 0 /\ Room(chan)
    PROVE  SeatsInv'
BY AskShape, AskCounted, AskAlone DEF SeatsInv

LEMMA Steps == ASSUME GroupsConstants, SeatsInv, [GroupsNext]_groupVars PROVE SeatsInv'
<1>1. ASSUME NEW r \in Req, NEW a \in Addr, NEW who \in SUBSET Addr, AskCreate(r, a, who) PROVE SeatsInv'
    <2> DEFINE q == [op |-> "create", by |-> a, who |-> who]
    <2>1. Reads(r, q) /\ Asked(q) /\ Current(q) /\ q.op # "add"
        BY <1>1 DEF AskCreate, Asked, Ops, NoRequest, Current
    <2> QED BY <2>1, Asks
<1>2. ASSUME NEW r \in Req, NEW a \in Addr, NEW t \in Addr, AskAdd(r, a, t) PROVE SeatsInv'
    <2> DEFINE q == [op |-> "add", who |-> t]
    <2>1. Reads(r, q) /\ Asked(q) /\ Current(q) /\ Room(chan)
        BY <1>2 DEF AskAdd, Asked, Ops, NoRequest, Current
    <2>2. next # 0
        <3>1. chan.seat[a].id # 0
            BY <1>2 DEF AskAdd, SeatsInv, ShapeInv, Seated
        <3> QED BY <3>1 DEF SeatsInv, ShapeInv, Seated, Channel, Seat
    <2> QED BY <2>1, <2>2, Asks
<1>3. ASSUME NEW r \in Req, NEW a \in Addr, NEW t \in Addr, AskRemove(r, a, t) PROVE SeatsInv'
    <2> DEFINE q == [op |-> "remove", who |-> t, seen |-> chan]
    <2>1. Reads(r, q) /\ Asked(q) /\ Current(q) /\ q.op # "add"
        BY <1>3 DEF AskRemove, Asked, Ops, NoRequest, Current, SeatsInv, ShapeInv
    <2> QED BY <2>1, Asks
<1>4. ASSUME NEW r \in Req, NEW a \in Addr, NEW t \in Addr, NEW role \in {"admin", "member"},
             AskRole(r, a, t, role)
      PROVE  SeatsInv'
    <2> DEFINE q == [op |-> "role", who |-> t, seen |-> chan, role |-> role]
    <2>1. Reads(r, q) /\ Asked(q) /\ Current(q) /\ q.op # "add"
        BY <1>4 DEF AskRole, Asked, Ops, NoRequest, Current, SeatsInv, ShapeInv
    <2> QED BY <2>1, Asks
<1>5. ASSUME NEW r \in Req, NEW a \in Addr, AskDelete(r, a) PROVE SeatsInv'
    <2> DEFINE q == [op |-> "delete", who |-> a, seen |-> chan]
    <2>1. Reads(r, q) /\ Asked(q) /\ Current(q) /\ q.op # "add"
        BY <1>5 DEF AskDelete, Asked, Ops, NoRequest, Current, SeatsInv, ShapeInv
    <2> QED BY <2>1, Asks
<1>6. ASSUME NEW r \in Req, CommitCreate(r) PROVE SeatsInv'
    BY <1>6, CreateShape, CreateCounted, CreateAlone DEF SeatsInv
<1>7. ASSUME NEW r \in Req, CommitAdd(r) PROVE SeatsInv'
    <2>1. next # 0
        BY <1>7 DEF CommitAdd, SeatsInv, ShapeInv
    <2> QED BY <1>7, <2>1, AddShape, AddCounted, AddAlone DEF SeatsInv
<1>8. ASSUME NEW r \in Req, CommitRemove(r) PROVE SeatsInv'
    BY <1>8, RemoveSettles, SettlesShape, SettlesCounted, RemoveAlone DEF SeatsInv
<1>9. ASSUME NEW r \in Req, CommitRole(r) PROVE SeatsInv'
    BY <1>9, RoleSettles, SettlesShape, SettlesCounted, RoleAlone DEF SeatsInv
<1>10. ASSUME NEW r \in Req, CommitDelete(r) PROVE SeatsInv'
    BY <1>10, DeleteSettles, SettlesShape, SettlesCounted, DeleteAlone DEF SeatsInv
<1>11. ASSUME NEW r \in Req, Abort(r) PROVE SeatsInv'
    <2>1. AloneInv'
        <3>1. req[r].op # "idle"
            BY <1>11 DEF Abort, SeatsInv, ShapeInv, Asked
        <3> QED BY <1>11, <3>1, QuietAlone DEF Abort, SeatsInv, AloneInv
    <2> QED BY <1>11, <2>1, AbortSettles, SettlesShape, SettlesCounted DEF SeatsInv
<1>12. ASSUME UNCHANGED groupVars PROVE SeatsInv'
    <2>1. ShapeInv'
        BY <1>12 DEF groupVars, SeatsInv, ShapeInv
    <2>2. Counted'
        BY <1>12 DEF groupVars, SeatsInv, Counted, Adding, In
    <2>3. AloneInv'
        BY <1>12 DEF groupVars, SeatsInv, AloneInv, Current, Sole
    <2> QED BY <2>1, <2>2, <2>3 DEF SeatsInv
<1> QED BY <1>1, <1>2, <1>3, <1>4, <1>5, <1>6, <1>7, <1>8, <1>9, <1>10, <1>11, <1>12 DEF GroupsNext

LEMMA Invariant == ASSUME GroupsConstants PROVE GroupsSpec => []SeatsInv
BY Initially, Steps, PTL DEF GroupsSpec

LEMMA InvTyped == ASSUME SeatsInv PROVE GroupsTypeOK
<1>1. ASSUME NEW a \in Addr
      PROVE  Role(chan, a) \in Roles /\ (Role(chan, a) = "none") = (chan.seat[a].id = 0)
    <2>1. chan.seat[a] \in Seat /\ (Role(chan, a) = "none" <=> chan.seat[a].id = 0)
        BY DEF SeatsInv, ShapeInv, Seated, Channel
    <2>2. Role(chan, a) \in Roles
        BY <2>1 DEF Seat, Role
    <2>3. (Role(chan, a) = "none") = (chan.seat[a].id = 0)
        BY <2>1, Zenon
    <2> QED BY <2>2, <2>3
<1>2. \A a, b \in In(chan) : a # b => chan.seat[a].id # chan.seat[b].id
    BY InById DEF SeatsInv, ShapeInv, Distinct, In
<1> QED BY <1>1, <1>2 DEF SeatsInv, ShapeInv, GroupsTypeOK, Seated, Channel

LEMMA InvBounded == ASSUME GroupsConstants, SeatsInv PROVE MembersBounded
<1>1. {} \subseteq Adding /\ Cardinality({}) = 0 /\ Cardinality(In(chan)) \in Nat
    BY InFinite, FS_EmptySet, FS_CardinalityType
<1>2. Cardinality(In(chan)) + Cardinality({}) < MaxMembers + Cardinality(Req)
    BY <1>1, FewerCounted DEF SeatsInv
<1> QED BY <1>1, <1>2 DEF MembersBounded

LEMMA InvOwned == ASSUME SeatsInv PROVE OwnedUnlessOverlap
BY DEF SeatsInv, AloneInv, Sole, OwnedUnlessOverlap

\* A group's memberships are well formed, it passes its limit by less than one for each
\* request at work, and as long as requests do not overlap it has the one owner its
\* column names and no deleted member.
THEOREM GroupsKeepTheirShape == ASSUME GroupsConstants PROVE GroupsSpec => []GroupsInv
<1>1. SeatsInv => GroupsInv
    BY InvTyped, InvBounded, InvOwned DEF GroupsInv
<1> QED BY <1>1, Invariant, PTL

\* Nobody comes back to a group but by an addition.
THEOREM RemovedStayOut == ASSUME GroupsConstants PROVE GroupsSpec => NobodyReturns
<1> DEFINE Back == \A a \in Addr : a \in In(chan)' \ In(chan) =>
            \/ \E r \in Req : req[r].op = "add" /\ req[r].who = a /\ req'[r] = NoRequest
            \/ ~ chan.alive
<1>1. ASSUME SeatsInv, [GroupsNext]_groupVars PROVE [Back]_groupVars
    <2>1. ASSUME NEW r \in Req, Settles(r) PROVE Back
        <3>1. In(chan') \subseteq In(chan)
            BY <1>1, <2>1, FitsIn DEF SeatsInv, ShapeInv, Settles
        <3> QED BY <3>1
    <2>2. ASSUME NEW r \in Req, CommitAdd(r) PROVE Back
        <3>1. next # 0 /\ req[r].op = "add" /\ req'[r] = NoRequest
            BY <1>1, <2>2 DEF CommitAdd, Answered, SeatsInv, ShapeInv
        <3>2. In(chan') = In(chan) \cup {req[r].who}
            BY <1>1, <2>2, <3>1, AddShape DEF SeatsInv
        <3> QED BY <3>1, <3>2
    <2>3. ASSUME NEW r \in Req, CommitCreate(r) PROVE Back
        BY <1>1, <2>3 DEF CommitCreate, SeatsInv, ShapeInv
    <2>4. ASSUME NEW r \in Req, NEW q, Reads(r, q) PROVE Back
        BY <2>4 DEF Reads, In
    <2>5. ASSUME NEW r \in Req,
                 CommitRemove(r) \/ CommitRole(r) \/ CommitDelete(r) \/ Abort(r)
          PROVE  Back
        BY <1>1, <2>1, <2>5, RemoveSettles, RoleSettles, DeleteSettles, AbortSettles DEF SeatsInv
    <2> QED BY <1>1, <2>2, <2>3, <2>4, <2>5
            DEF GroupsNext, AskCreate, AskAdd, AskRemove, AskRole, AskDelete
<1>2. GroupsSpec => [][Back]_groupVars
    BY <1>1, Invariant, PTL DEF GroupsSpec
<1> QED BY <1>2 DEF NobodyReturns

----------------------------------------------------------------------------
(***************************************************************************)
(* A parked vault is handed out once, and is there until its time is up.   *)
(*                                                                         *)
(* A code is made once, so its row goes from absent to present to absent   *)
(* and never back.  A claim between its read and its DELETE therefore has  *)
(* either the row it read before it, or none; that is the invariant the    *)
(* two results rest on.                                                    *)
(***************************************************************************)
Modal == [stage : {"choose", "upload", "shown"}, code : Code \cup {NoCode}]
Page == [stage : {"idle", "asked", "read", "delete", "clear", "answer", "denied", "stored"},
         code : Code \cup {NoCode}, until : Nat, mine : BOOLEAN]

RelayTypeOK ==
    /\ now \in Nat /\ row \in [Code -> Nat] /\ used \subseteq Code
    /\ sender \in [Sender -> Modal] /\ claim \in [Claim -> Page]
    /\ got \in [Claim -> SUBSET Code]

\* A row that is there was made; one that was handed out is not there.
RowsInv ==
    /\ \A c \in Code : row[c] # 0 => c \in used
    /\ \A d \in Claim : \A c \in got[d] : c \in used /\ row[c] = 0

\* The request of a page is about a code; past its read, about a row that was
\* there then and has not been replaced; refused by its clock, about a late one.
ClaimInv(p) ==
    /\ p.stage \notin {"idle", "stored"} => p.code \in Code
    /\ p.stage \in {"read", "delete", "clear"} => p.code \in used /\ row[p.code] \in {0, p.until}
    /\ p.stage \in {"delete", "clear"} /\ ~ p.mine => p.until <= now
    /\ p.stage = "clear" => ~ p.mine

RelayInv == RelayTypeOK /\ RowsInv /\ (\A d \in Claim : ClaimInv(claim[d])) /\ ClaimedOnce

----------------------------------------------------------------------------
LEMMA RelayInit == ASSUME TransfersConstants PROVE TransfersInit => RelayInv
BY DEF TransfersConstants, TransfersInit, RelayInv, RelayTypeOK, Modal, Page, RowsInv, ClaimInv, ClaimedOnce, Waiting

LEMMA TickInv == RelayInv /\ TimePasses => RelayInv'
BY DEF RelayInv, TimePasses, RelayTypeOK, Modal, Page, RowsInv, ClaimInv, ClaimedOnce

LEMMA ModalInv ==
    ASSUME RelayInv, NEW s \in Sender, StartRelay(s) \/ UploadFails(s) PROVE RelayInv'
BY DEF RelayInv, StartRelay, UploadFails, RelayTypeOK, Modal, Page, RowsInv, ClaimInv, ClaimedOnce

\* An upload makes a row under a code no row or claim has had.
LEMMA UploadInv == ASSUME TransfersConstants, RelayInv, NEW s \in Sender, Upload(s) PROVE RelayInv'
<1>1. PICK c \in Code \ used, heard \in BOOLEAN :
        /\ used' = used \cup {c}
        /\ row' = [Purged(now) EXCEPT ![c] = now + Ttl]
        /\ sender' = [sender EXCEPT ![s] = IF heard THEN [stage |-> "shown", code |-> c]
                                           ELSE [stage |-> "choose", code |-> NoCode]]
    BY DEF Upload
<1>2. UNCHANGED <<now, claim, got>>
    BY DEF Upload
<1>3. /\ row' \in [Code -> Nat] /\ \A b \in Code : b # c => row'[b] \in {0, row[b]}
    BY <1>1 DEF RelayInv, RelayTypeOK, Purged, TransfersConstants
<1>4. RelayTypeOK'
    <2>1. sender' \in [Sender -> Modal]
        BY <1>1 DEF RelayInv, RelayTypeOK, Modal
    <2> QED BY <1>1, <1>2, <1>3, <2>1 DEF RelayInv, RelayTypeOK
<1>5. RowsInv'
    BY <1>1, <1>2, <1>3 DEF RelayInv, RelayTypeOK, RowsInv
<1>6. ASSUME NEW d \in Claim PROVE ClaimInv(claim[d])'
    BY <1>1, <1>2, <1>3 DEF RelayInv, ClaimInv
<1> QED BY <1>2, <1>4, <1>5, <1>6 DEF RelayInv, ClaimedOnce

\* The steps of a page that leave the rows and the vaults handed out alone.
LEMMA PageInv ==
    ASSUME RelayInv, NEW d \in Claim,
           (\E c \in Code : Submit(d, c)) \/ Read(d) \/ Clock(d) \/ Answer(d)
    PROVE  RelayInv'
<1>1. UNCHANGED <<now, row, used, sender, got>>
    BY DEF Submit, Read, Clock, Answer
<1>2. \E p \in Page : claim' = [claim EXCEPT ![d] = p] /\ ClaimInv(p)
    <2>0. claim[d] \in Page /\ ClaimInv(claim[d])
        BY DEF RelayInv, RelayTypeOK
    <2>1. CASE \E c \in Code : Submit(d, c)
        <3>1. PICK c \in Code : claim' = [claim EXCEPT ![d] = [Waiting EXCEPT !.stage = "asked", !.code = c]]
            BY <2>1 DEF Submit
        <3> DEFINE p == [Waiting EXCEPT !.stage = "asked", !.code = c]
        <3>2. p \in Page /\ p.stage = "asked" /\ p.code = c
            BY DEF Waiting, Page
        <3>3. ClaimInv(p)
            BY <3>2 DEF ClaimInv
        <3> QED BY <3>1, <3>2, <3>3
    <2>2. CASE Read(d)
        <3> DEFINE p == [claim[d] EXCEPT !.stage = IF row[claim[d].code] = 0 THEN "denied" ELSE "read",
                                         !.until = row[claim[d].code]]
        <3>1. claim' = [claim EXCEPT ![d] = p]
            BY <2>2, <2>0 DEF Read, Page
        <3>2. claim[d].code \in Code /\ row[claim[d].code] \in Nat
            BY <2>0, <2>2 DEF Read, ClaimInv, RelayInv, RelayTypeOK
        <3>3. p \in Page /\ ClaimInv(p)
            BY <2>0, <3>2 DEF Page, ClaimInv, RelayInv, RowsInv
        <3> QED BY <3>1, <3>3
    <2>3. CASE Clock(d)
        <3> DEFINE p == [claim[d] EXCEPT !.stage = "delete", !.mine = claim[d].until > now]
        <3>1. claim' = [claim EXCEPT ![d] = p]
            BY <2>3, <2>0 DEF Clock, Page
        <3>2. (claim[d].until > now) \in BOOLEAN
            BY <2>0 DEF Page, RelayInv, RelayTypeOK
        <3>3. p \in Page
            BY <2>0, <3>2 DEF Page
        <3>4. /\ p.stage = "delete" /\ p.code = claim[d].code /\ p.until = claim[d].until
              /\ p.mine = (claim[d].until > now)
            BY <2>0 DEF Page
        <3>5. ClaimInv(p)
            BY <2>0, <2>3, <3>4 DEF Clock, ClaimInv, Page, RelayInv, RelayTypeOK
        <3> QED BY <3>1, <3>3, <3>5
    <2>4. CASE Answer(d)
        <3>1. PICK end \in {"idle", "stored"} : claim' = [claim EXCEPT ![d] = [Waiting EXCEPT !.stage = end]]
            BY <2>4 DEF Answer
        <3> DEFINE p == [Waiting EXCEPT !.stage = end]
        <3>2. p \in Page /\ p.stage \in {"idle", "stored"}
            BY DEF Waiting, Page
        <3>3. ClaimInv(p)
            BY <3>2 DEF ClaimInv
        <3> QED BY <3>1, <3>2, <3>3
    <2> QED BY <2>1, <2>2, <2>3, <2>4
<1>3. RelayTypeOK'
    BY <1>1, <1>2 DEF RelayInv, RelayTypeOK
<1>4. ASSUME NEW e \in Claim PROVE ClaimInv(claim[e])'
    BY <1>1, <1>2 DEF RelayInv, RelayTypeOK, ClaimInv
<1> QED BY <1>1, <1>3, <1>4 DEF RelayInv, RowsInv, ClaimedOnce

\* The DELETE: the row of the page's code goes, and what was there is handed out
\* to this page alone.
LEMMA DeleteInv == ASSUME RelayInv, NEW d \in Claim, Delete(d) PROVE RelayInv'
<1> DEFINE c == claim[d].code
<1>1. c \in Code /\ UNCHANGED <<now, used, sender>>
    BY DEF RelayInv, ClaimInv, Delete
<1>2. /\ row' \in [Code -> Nat]
      /\ \A b \in Code : row'[b] = IF b = c /\ claim[d].mine THEN 0 ELSE row[b]
    BY <1>1 DEF Delete, RelayInv, RelayTypeOK
<1>3. /\ got' \in [Claim -> SUBSET Code]
      /\ \A e \in Claim : got'[e] = IF e = d /\ Takes(d) THEN got[e] \cup {c} ELSE got[e]
    BY <1>1 DEF Delete, RelayInv, RelayTypeOK
<1>4. /\ claim' \in [Claim -> Page]
      /\ \A e \in Claim \ {d} : claim'[e] = claim[e]
      /\ claim'[d] = [claim[d] EXCEPT !.stage = IF Takes(d) THEN "answer"
                                       ELSE IF claim[d].mine THEN "denied" ELSE "clear"]
    BY DEF Delete, RelayInv, RelayTypeOK, Page
<1>5. RowsInv'
    BY <1>1, <1>2, <1>3 DEF RelayInv, RelayTypeOK, RowsInv, Takes
<1>6. ASSUME NEW e \in Claim PROVE ClaimInv(claim[e])'
    <2>1. CASE e = d
        BY <1>1, <1>2, <1>4, <2>1 DEF Delete, RelayInv, RelayTypeOK, Page, ClaimInv
    <2>2. CASE e # d
        BY <1>1, <1>2, <1>4, <2>2 DEF RelayInv, RelayTypeOK, Page, ClaimInv
    <2> QED BY <2>1, <2>2
<1>7. ClaimedOnce'
    BY <1>1, <1>3 DEF RelayInv, RelayTypeOK, RowsInv, ClaimedOnce, Takes
<1> QED BY <1>1, <1>2, <1>3, <1>4, <1>5, <1>6, <1>7 DEF RelayInv, RelayTypeOK

LEMMA ClearInv == ASSUME RelayInv, NEW d \in Claim, Clear(d) PROVE RelayInv'
<1>1. claim[d].code \in Code /\ UNCHANGED <<now, used, sender, got>>
    BY DEF RelayInv, ClaimInv, Clear
<1>2. /\ row' \in [Code -> Nat] /\ \A b \in Code : row'[b] \in {0, row[b]}
    BY <1>1 DEF Clear, RelayInv, RelayTypeOK
<1>3. /\ claim' \in [Claim -> Page]
      /\ \A e \in Claim \ {d} : claim'[e] = claim[e]
      /\ claim'[d] = [claim[d] EXCEPT !.stage = "denied"]
    BY DEF Clear, RelayInv, RelayTypeOK, Page
<1>4. RowsInv'
    BY <1>1, <1>2 DEF RelayInv, RelayTypeOK, RowsInv
<1>5. ASSUME NEW e \in Claim PROVE ClaimInv(claim[e])'
    BY <1>1, <1>2, <1>3 DEF RelayInv, RelayTypeOK, Page, ClaimInv
<1> QED BY <1>1, <1>2, <1>3, <1>4, <1>5 DEF RelayInv, RelayTypeOK, ClaimedOnce

LEMMA RelayInvariant == ASSUME TransfersConstants PROVE TransfersSpec => []RelayInv
<1>1. ASSUME RelayInv, TransfersNext PROVE RelayInv'
    BY <1>1, TickInv, ModalInv, UploadInv, PageInv, DeleteInv, ClearInv DEF TransfersNext
<1>2. RelayInv /\ UNCHANGED transferVars => RelayInv'
    BY DEF transferVars, RelayInv, RelayTypeOK, RowsInv, ClaimInv, ClaimedOnce
<1>3. RelayInv /\ [TransfersNext]_transferVars => RelayInv'
    BY <1>1, <1>2
<1> QED BY RelayInit, <1>3, PTL DEF TransfersSpec

----------------------------------------------------------------------------
\* "Claim a transfer exactly once" (claim_transfer): however many pages race for a
\* code, with whatever clocks, one at most is given its vault.
THEOREM VaultsClaimedOnce == ASSUME TransfersConstants PROVE TransfersSpec => []ClaimedOnce
<1>1. RelayInv => ClaimedOnce
    BY DEF RelayInv
<1> QED BY <1>1, RelayInvariant, PTL

\* A vault that still has time leaves only by being handed out: no purge of an
\* upload, and no claim that read it late, deletes it (create_transfer,
\* claim_transfer).
THEOREM VaultsWait == ASSUME TransfersConstants PROVE TransfersSpec => WaitsItsTime
<1> DEFINE Waits == \A c \in Code : Parked(c, now) /\ row'[c] = 0 => \E d \in Claim : c \in got'[d] \ got[d]
<1>1. ASSUME RelayInv, [TransfersNext]_transferVars, NEW c \in Code, Parked(c, now), row'[c] = 0
      PROVE  \E d \in Claim : c \in got'[d] \ got[d]
    <2>1. row[c] \in Nat /\ row[c] > now /\ now \in Nat /\ row'[c] # row[c]
        BY <1>1 DEF RelayInv, RelayTypeOK, Parked
    <2>2. CASE \E s \in Sender : Upload(s)
        <3>1. PICK b \in Code \ used : row' = [Purged(now) EXCEPT ![b] = now + Ttl]
            BY <2>2 DEF Upload
        <3>2. c # b
            BY <1>1, <2>1, <3>1 DEF RelayInv, RowsInv
        <3> QED BY <1>1, <2>1, <3>1, <3>2 DEF Purged
    <2>3. CASE \E d \in Claim : Delete(d)
        <3>1. PICK d \in Claim : Delete(d)
            BY <2>3
        <3>2. c = claim[d].code /\ claim[d].mine
            BY <2>1, <3>1, <1>1 DEF Delete, RelayInv, RelayTypeOK
        <3>3. Takes(d) /\ c \notin got[d]
            BY <1>1, <2>1, <3>2 DEF Takes, RelayInv, RowsInv
        <3> QED BY <1>1, <3>1, <3>2, <3>3 DEF Delete, RelayInv, RelayTypeOK
    <2>4. CASE \E d \in Claim : Clear(d)
        <3>1. PICK d \in Claim : Clear(d)
            BY <2>4
        <3>2. c = claim[d].code
            BY <2>1, <3>1, <1>1 DEF Clear, RelayInv, RelayTypeOK
        <3>3. row[c] \in {0, claim[d].until} /\ claim[d].until <= now
            BY <1>1, <3>1, <3>2 DEF Clear, RelayInv, ClaimInv
        <3> QED BY <2>1, <3>3
    <2>5. CASE UNCHANGED row
        BY <2>1, <2>5
    <2> QED BY <1>1, <2>2, <2>3, <2>4, <2>5
            DEF TransfersNext, transferVars, TimePasses, StartRelay, UploadFails, Submit, Read, Clock, Answer
<1>2. RelayInv /\ [TransfersNext]_transferVars => [Waits]_transferVars
    BY <1>1
<1> QED BY <1>2, RelayInvariant, PTL DEF TransfersSpec, WaitsItsTime
=============================================================================
