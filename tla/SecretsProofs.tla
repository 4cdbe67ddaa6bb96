---------------------------- MODULE SecretsProofs ----------------------------
(***************************************************************************)
(* The lists hide nothing, a wrap stays its own row's, a finished loop has *)
(* moved all it could open.                                                *)
(*                                                                         *)
(* Both a walk and a loop ask for what comes after so many rows, of a list *)
(* that changes between two pages.  The invariant says which rows that     *)
(* number stands for: of a walk, the rows before each one it still has to  *)
(* list (WalksInv); of a loop, the rows it did not begin with before each  *)
(* one it still has to move (LoopsInv).                                    *)
(***************************************************************************)
EXTENDS Secrets, FiniteSetTheorems, FunctionTheorems, SequenceTheorems, WellFoundedInduction, TLAPS

Wrap == [kid : Kid, of : Nat, has : {"content", "encKey"}]
\* What a list shows of a row: a wrap of that row's file key.
Snap == {s \in [id : Id, wrap : Wrap] : s.wrap.of = s.id}

\* A row keeps its fields; once made, its wrap is of its own key.
RowsInv ==
    /\ row = [n \in Id |-> row[n]]
    /\ \A n \in Id :
        /\ row[n] = [who |-> row[n].who, wrap |-> row[n].wrap, shape |-> row[n].shape,
                     chunks |-> row[n].chunks, grant |-> row[n].grant]
        /\ row[n].who \in {"none", "own", "shared", "signer", "gone"}
        /\ row[n].wrap \in Wrap
        /\ row[n].who # "none" => row[n].wrap.of = n /\ row[n].grant \in {0, n}

KeysInv ==
    /\ keys = [cur |-> keys.cur, held |-> keys.held]
    /\ keys.cur \in Kid /\ keys.held \subseteq Kid /\ keys.cur \in keys.held

\* The screen: lists of snapshots, and a verdict of whoever was picked last.
PageInv ==
    /\ view = [own |-> view.own, shared |-> view.shared, news |-> view.news]
    /\ view.own \in Seq(Snap) /\ view.shared \in Seq(Snap) /\ view.news \in BOOLEAN
    /\ shown = [n \in Id |-> shown[n]]
    /\ \A n \in Id : shown[n].as \in {"hidden", "text", "descriptor", "files"}
    /\ modal = [open |-> modal.open, to |-> modal.to, pending |-> modal.pending, verdict |-> modal.verdict]
    /\ modal.to \in Recipient \cup {NoOne} /\ modal.pending \subseteq Recipient \cap {modal.to}
    /\ VerdictOfPicked
    /\ deeds \in 0..MaxDeeds /\ saved \subseteq Id

\* What each kind of operation carries from step to step.
Walking(r) ==
    /\ r.kind \in {"own", "shared"} /\ r.stage \in {"page", "titles"}
    /\ r.got \in Seq(Snap) /\ r.start \subseteq Id
Opening(r) == r.kind = "open" /\ r.stage \in {"key", "content", "download"} /\ r.id \in Id
Giving(r) ==
    /\ r.kind = "share" /\ r.stage = "key" /\ r.id \in Id
    /\ \E w \in r.start : w \in Wrap /\ r.start = {w} /\ w.of = r.id
Creating(r) ==
    /\ r.kind = "create" /\ r.key \in Kid
    /\ r.stage = "post" \/ (r.stage = "upload" /\ r.id \in Id)
Moving(r) ==
    /\ r.kind = "rewrap" /\ r.stage \in {"stale", "open", "put"} /\ r.key \in 1..keys.cur
    /\ r.got \in Seq(Snap) /\ r.start \subseteq Id
    /\ r.stage = "put" => \A i \in DOMAIN r.got : r.got[i].wrap.kid = r.key
Resting(r) == r.kind = "idle" /\ r.stage \in {"none", "done"}

Known(r) ==
    /\ r = [kind |-> r.kind, stage |-> r.stage, id |-> r.id, at |-> r.at,
            key |-> r.key, got |-> r.got, start |-> r.start, cut |-> r.cut]
    /\ r.at \in Nat
    /\ Resting(r) \/ Walking(r) \/ Opening(r) \/ Giving(r) \/ Creating(r) \/ Moving(r)

OpsInv == op = [o \in Op |-> op[o]] /\ \A o \in Op : Known(op[o])

\* Each loop moves to a key of its own.
OwnKeys == \A o, p \in Op : op[o].kind = "rewrap" /\ op[p].kind = "rewrap" /\ op[o].key = op[p].key => o = p

\* What a walk ought to find and has not, its next pages still hold.
Ahead(rows, n) == {m \in rows : m > n}
WalkHolds(r) ==
    /\ r.start \cap Unused = {}
    /\ \A n \in r.start \cap Live :
        /\ row[n].who = r.kind
        /\ n \in IdsOf(r.got) \/ (r.stage = "page" /\ r.at <= Cardinality(Ahead(Listed(r.kind), n)))
WalkInv(r) == Walking(r) /\ ~r.cut => WalkHolds(r)
WalksInv == \A o \in Op : WalkInv(op[o])

\* The rows before n that a loop did not begin with, which its offset counts.
Others(r, n) == {m \in Stale : Sooner(m, n) /\ m \notin r.start}
Unread(page) == {i \in DOMAIN page : ~Opens(page[i].wrap)}
ReadIds(page) == {page[i].id : i \in DOMAIN page \ Unread(page)}

LoopHolds(r) ==
    /\ r.start \cap Unused = {}
    /\ \A n \in r.start \cap Live : Opens(row[n].wrap)
    /\ r.stage = "stale" => \A n \in r.start \cap Stale : r.at <= Cardinality(Others(r, n))
    /\ r.stage = "open" =>
        /\ \A i \in DOMAIN r.got : r.got[i].id \in r.start => Opens(r.got[i].wrap)
        /\ \A n \in r.start \cap Stale :
              \/ n \in IdsOf(r.got)
              \/ /\ ~LastPage(r.got)
                 /\ r.at + Cardinality(Unread(r.got)) <= Cardinality(Others(r, n) \ ReadIds(r.got))
    /\ r.stage = "put" => \A n \in r.start \cap Stale :
              n \in IdsOf(r.got) \/ r.at <= Cardinality(Others(r, n) \ IdsOf(r.got))
LoopInv(r) == Moving(r) /\ ~r.cut /\ r.key = keys.cur => LoopHolds(r)
LoopsInv == \A o \in Op : LoopInv(op[o])

Inv == RowsInv /\ KeysInv /\ PageInv /\ OpsInv /\ OwnKeys /\ WalksInv /\ LoopsInv

----------------------------------------------------------------------------
(* Lines: a finite set in an order, told by who comes before each element *)

InLine(S, A) ==
    /\ IsFiniteSet(S) /\ A \in [S -> SUBSET S]
    /\ \A n \in S : n \notin A[n]
    /\ \A m, n \in S : m \in A[n] => A[m] \subseteq A[n]
    /\ \A m, n \in S : m = n \/ m \in A[n] \/ n \in A[m]
Rank(A, n) == Cardinality(A[n])

LEMMA RankIs ==
    ASSUME NEW S, NEW A, InLine(S, A)
    PROVE  /\ Cardinality(S) \in Nat
           /\ \A n \in S : Rank(A, n) \in 0 .. Cardinality(S) - 1
           /\ \A m, n \in S : m \in A[n] <=> Rank(A, m) < Rank(A, n)
           /\ \A m, n \in S : Rank(A, m) = Rank(A, n) => m = n
           /\ \A k \in 0 .. Cardinality(S) - 1 : \E n \in S : Rank(A, n) = k
<1>1. Cardinality(S) \in Nat
    BY FS_CardinalityType DEF InLine
<1>2. \A n \in S : IsFiniteSet(A[n]) /\ Rank(A, n) \in Nat
    BY FS_Subset, FS_CardinalityType DEF InLine, Rank
<1>3. ASSUME NEW n \in S PROVE Rank(A, n) < Cardinality(S)
    <2>1. A[n] \in SUBSET S /\ A[n] # S
        BY DEF InLine
    <2>2. IsFiniteSet(S)
        BY DEF InLine
    <2>3. Cardinality(A[n]) <= Cardinality(S) /\ Cardinality(A[n]) # Cardinality(S)
        BY <2>1, <2>2, FS_Subset
    <2> QED BY <1>1, <1>2, <2>3 DEF Rank
<1>4. ASSUME NEW m \in S, NEW n \in S, m \in A[n] PROVE Rank(A, m) < Rank(A, n)
    <2>1. A[m] \in SUBSET A[n] /\ A[m] # A[n]
        BY <1>4 DEF InLine
    <2>2. Cardinality(A[m]) <= Cardinality(A[n]) /\ Cardinality(A[m]) # Cardinality(A[n])
        BY <1>2, <2>1, FS_Subset
    <2> QED BY <1>2, <2>2 DEF Rank
<1>5. \A m, n \in S : Rank(A, m) = Rank(A, n) => m = n
    BY <1>2, <1>4 DEF InLine
<1>6. \A m, n \in S : m \in A[n] <=> Rank(A, m) < Rank(A, n)
    <2>1. ASSUME NEW m \in S, NEW n \in S, Rank(A, m) < Rank(A, n) PROVE m \in A[n]
        <3>1. m # n
            BY <1>2, <2>1
        <3>2. n \notin A[m]
            BY <1>2, <1>4, <2>1
        <3> QED BY <3>1, <3>2 DEF InLine
    <2> QED BY <1>4, <2>1
<1>7. \A k \in 0 .. Cardinality(S) - 1 : \E n \in S : Rank(A, n) = k
    <2> DEFINE T == 0 .. Cardinality(S) - 1
               f == [n \in S |-> Rank(A, n)]
    <2>1. f \in [S -> T]
        BY <1>1, <1>2, <1>3
    <2>2. f \in Injection(S, T)
        <3>1. \A m, n \in S : f[m] = f[n] => m = n
            BY <1>5
        <3> QED BY <2>1, <3>1, Fun_IsInj
    <2>3. IsFiniteSet(T) /\ Cardinality(T) = Cardinality(S)
        BY <1>1, FS_Interval
    <2>4. f \in Surjection(S, T)
        BY <2>2, <2>3, FS_Injection
    <2>5. \A k \in T : \E n \in S : f[n] = k
        <3> HIDE DEF f, T
        <3> QED BY <2>4, Fun_SurjectionProperties
    <2> QED BY <2>5
<1> QED BY <1>1, <1>2, <1>3, <1>5, <1>6, <1>7

\* The first k of a line are k.
LEMMA FirstAre ==
    ASSUME NEW S, NEW A, InLine(S, A), NEW k \in 0 .. Cardinality(S)
    PROVE  LET T == {n \in S : Rank(A, n) < k} IN IsFiniteSet(T) /\ Cardinality(T) = k
<1> DEFINE T == {n \in S : Rank(A, n) < k}
           f == [n \in T |-> Rank(A, n)]
           K == 0 .. k - 1
<1>0. /\ Cardinality(S) \in Nat
      /\ \A n \in S : Rank(A, n) \in 0 .. Cardinality(S) - 1
      /\ \A m, n \in S : Rank(A, m) = Rank(A, n) => m = n
      /\ \A j \in 0 .. Cardinality(S) - 1 : \E n \in S : Rank(A, n) = j
    BY RankIs
<1>1. f \in [T -> K]
    BY <1>0
<1>2. f \in Injection(T, K)
    <2>1. \A m, n \in T : f[m] = f[n] => m = n
        BY <1>0
    <2> QED BY <1>1, <2>1, Fun_IsInj
<1>3. f \in Surjection(T, K)
    <2>1. ASSUME NEW j \in K PROVE \E n \in T : f[n] = j
        <3>1. PICK n \in S : Rank(A, n) = j
            BY <1>0
        <3> QED BY <3>1
    <2> QED BY <1>1, <2>1, Fun_IsSurj
<1>4. IsFiniteSet(K) /\ Cardinality(K) = k
    <2>1. k \in Nat /\ k - 1 \in Int
        BY <1>0
    <2>2. Cardinality(K) = IF 0 > k - 1 THEN 0 ELSE k - 1 - 0 + 1
        BY <2>1, FS_Interval
    <2> QED BY <2>1, <2>2, FS_Interval
<1>5. IsFiniteSet(T) /\ (Cardinality(T) = Cardinality(K) <=> f \in Surjection(T, K))
    BY <1>2, <1>4, FS_Injection
<1> QED BY <1>3, <1>4, <1>5

\* What a page of a line holds: the rows from place at, size of them or fewer.
PageIs(page, S, A, at, size) ==
    /\ page \in Seq(Snap) /\ Len(page) <= size
    /\ \A i \in 1 .. Len(page) :
          page[i].id \in S /\ page[i] = Snapshot(page[i].id) /\ Rank(A, page[i].id) = at + i - 1
    /\ \A n \in S : at <= Rank(A, n) /\ Rank(A, n) < at + size => n \in IdsOf(page)
    /\ Len(page) < size => Cardinality(S) <= at + Len(page)

\* The places of a page that the line reaches.
Reached(S, at, size) == {j \in 1 .. size : at + j <= Cardinality(S)}

LEMMA PageOfLine ==
    ASSUME NEW S, NEW A, InLine(S, A), NEW at \in Nat, NEW size \in Nat,
           \A n \in S : Snapshot(n) \in Snap,
           NEW pick,
           \A i \in Reached(S, at, size) : pick[i] \in S /\ Rank(A, pick[i]) = at + i - 1
    PROVE  PageIs([i \in Reached(S, at, size) |-> Snapshot(pick[i])], S, A, at, size)
<1> DEFINE c == Cardinality(S)
           D == Reached(S, at, size)
           page == [i \in D |-> Snapshot(pick[i])]
<1>0. /\ c \in Nat
      /\ \A n \in S : Rank(A, n) \in 0 .. c - 1
      /\ \A m, n \in S : Rank(A, m) = Rank(A, n) => m = n
    BY RankIs
<1> DEFINE l == IF c <= at THEN 0 ELSE IF c - at <= size THEN c - at ELSE size
<1>d. D = {j \in 1 .. size : at + j <= c}
    BY DEF Reached
<1> HIDE DEF c, D
<1>1. l \in Nat /\ D = 1 .. l /\ l <= size /\ (l < size => c <= at + l)
    BY <1>0, <1>d
<1>2. \A i \in D : pick[i] \in S /\ Rank(A, pick[i]) = at + i - 1
    BY DEF D
<1>3. \A i \in D : page[i] = Snapshot(pick[i]) /\ page[i].id = pick[i]
    BY DEF Snapshot
<1> HIDE DEF l
<1>4. page \in Seq(Snap) /\ Len(page) = l
    <2>1. \A i \in 1 .. l : page[i] \in Snap
        BY <1>1, <1>2, <1>3
    <2>2. page = [i \in 1 .. l |-> page[i]]
        BY <1>1
    <2> HIDE DEF page
    <2>3. page \in [1 .. l -> Snap]
        BY <2>1, <2>2
    <2> QED BY <1>1, <2>3
<1>5. ASSUME NEW n \in S, at <= Rank(A, n), Rank(A, n) < at + size PROVE n \in IdsOf(page)
    <2> DEFINE i == Rank(A, n) - at + 1
    <2>1. i \in D /\ at + i - 1 = Rank(A, n)
        BY <1>0, <1>d, <1>5
    <2>2. pick[i] = n
        BY <1>0, <1>2, <2>1
    <2>3. page[i].id = n /\ i \in DOMAIN page
        BY <1>3, <2>1, <2>2
    <2> QED BY <2>3 DEF IdsOf
<1>6. \A i \in 1 .. l : /\ page[i].id \in S /\ page[i] = Snapshot(page[i].id)
                        /\ Rank(A, page[i].id) = at + i - 1
    BY <1>1, <1>2, <1>3
<1>7. PageIs(page, S, A, at, size)
    <2> HIDE DEF page
    <2> QED BY <1>1, <1>4, <1>5, <1>6 DEF PageIs, c
<1> QED BY <1>7 DEF D

----------------------------------------------------------------------------
(* The server's pages *)

NewerOf(kind) == [n \in Listed(kind) |-> Ahead(Listed(kind), n)]
SoonerThan == [n \in Stale |-> {m \in Stale : Sooner(m, n)}]

LEMMA Consts ==
    /\ MaxRow \in Nat /\ 5 <= MaxRow /\ MaxKey \in Nat /\ 2 <= MaxKey /\ PageSize \in Nat /\ PageSize # 0
    /\ \A n \in Id : n \in Nat /\ n # 0
    /\ IsFiniteSet(Id)
<1>1. MaxRow \in Nat /\ 5 <= MaxRow /\ MaxKey \in Nat /\ 2 <= MaxKey /\ PageSize \in Nat /\ PageSize # 0
    BY SecretsConstants
<1>2. \A n \in Id : n \in Nat /\ n # 0
    BY <1>1 DEF Id
<1>3. IsFiniteSet(Id)
    BY <1>1, FS_Interval DEF Id
<1> QED BY <1>1, <1>2, <1>3

LEMMA SnapIs ==
    ASSUME RowsInv, NEW n \in Id, row[n].who # "none"
    PROVE  Snapshot(n) \in Snap /\ Snapshot(n).id = n /\ Snapshot(n).wrap = row[n].wrap
BY DEF RowsInv, Snapshot, Snap

LEMMA ListPage ==
    ASSUME RowsInv, NEW kind \in {"own", "shared"}, NEW at \in Nat, NEW size \in Nat
    PROVE  /\ InLine(Listed(kind), NewerOf(kind))
           /\ PageIs(Slice(Listed(kind), Newer, at, size), Listed(kind), NewerOf(kind), at, size)
<1> DEFINE S == Listed(kind)
           A == NewerOf(kind)
<1>1. \A n \in S : n \in Id /\ n \in Nat /\ row[n].who = kind
    BY Consts DEF Listed
<1>2. \A n \in S : A[n] = {m \in S : m > n}
    BY DEF NewerOf, Ahead
<1>3. InLine(S, A)
    <2>1. IsFiniteSet(S)
        BY Consts, FS_Subset DEF Listed
    <2>2. A \in [S -> SUBSET S]
        BY DEF NewerOf, Ahead
    <2>3. \A n \in S : n \notin A[n]
        BY <1>1, <1>2
    <2>4. \A m, n \in S : m \in A[n] => A[m] \subseteq A[n]
        BY <1>1, <1>2
    <2>5. \A m, n \in S : m = n \/ m \in A[n] \/ n \in A[m]
        BY <1>1, <1>2
    <2> QED BY <2>1, <2>2, <2>3, <2>4, <2>5 DEF InLine
<1>4. \A n \in S : Snapshot(n) \in Snap
    BY <1>1, SnapIs
<1> DEFINE D == Reached(S, at, size)
           pick == [i \in D |-> CHOOSE n \in S : Cardinality({m \in S : m > n}) = at + i - 1]
<1>5. Slice(S, Newer, at, size) = [i \in D |-> Snapshot(pick[i])]
    BY DEF Slice, Newer, Reached
<1>6. ASSUME NEW i \in D PROVE pick[i] \in S /\ Rank(A, pick[i]) = at + i - 1
    <2>1. Cardinality(S) \in Nat /\ \A k \in 0 .. Cardinality(S) - 1 : \E n \in S : Rank(A, n) = k
        BY <1>3, RankIs
    <2>2. at + i - 1 \in 0 .. Cardinality(S) - 1
        BY <2>1 DEF Reached
    <2>3. PICK n \in S : Rank(A, n) = at + i - 1
        BY <2>1, <2>2
    <2>4. pick[i] \in S /\ Cardinality({m \in S : m > pick[i]}) = at + i - 1
        BY <1>2, <2>3 DEF Rank
    <2> QED BY <1>2, <2>4 DEF Rank
<1> HIDE DEF pick, S, A
<1> QED BY <1>3, <1>4, <1>5, <1>6, PageOfLine DEF S, A

LEMMA StaleLine ==
    ASSUME RowsInv, NEW at \in Nat
    PROVE  /\ InLine(Stale, SoonerThan)
           /\ PageIs(StalePage(at), Stale, SoonerThan, at, PageSize)
<1> DEFINE S == Stale
           A == SoonerThan
<1>1. \A n \in S : n \in Id /\ n \in Nat /\ row[n].who # "none"
    BY Consts DEF Stale, Live
<1>2. \A n \in S : A[n] = {m \in S : Sooner(m, n)}
    BY DEF SoonerThan
<1>3. InLine(S, A)
    <2>1. IsFiniteSet(S)
        BY Consts, FS_Subset DEF Stale, Live
    <2>2. A \in [S -> SUBSET S]
        BY DEF SoonerThan
    <2>3. \A n \in S : n \notin A[n]
        BY <1>1, <1>2 DEF Sooner
    <2>4. \A m, n \in S : m \in A[n] => A[m] \subseteq A[n]
        <3>1. ASSUME NEW l \in S, NEW m \in S, NEW n \in S, Sooner(l, m), Sooner(m, n) PROVE Sooner(l, n)
            BY <1>1, <3>1 DEF Sooner
        <3> QED BY <1>2, <3>1
    <2>5. \A m, n \in S : m = n \/ m \in A[n] \/ n \in A[m]
        BY <1>1, <1>2 DEF Sooner
    <2> QED BY <2>1, <2>2, <2>3, <2>4, <2>5 DEF InLine
<1>4. \A n \in S : Snapshot(n) \in Snap
    BY <1>1, SnapIs
<1> DEFINE D == Reached(S, at, PageSize)
           pick == [i \in D |-> CHOOSE n \in S : Cardinality({m \in S : Sooner(m, n)}) = at + i - 1]
<1>5. StalePage(at) = [i \in D |-> Snapshot(pick[i])]
    BY DEF StalePage, Slice, Reached
<1>6. ASSUME NEW i \in D PROVE pick[i] \in S /\ Rank(A, pick[i]) = at + i - 1
    <2>1. Cardinality(S) \in Nat /\ \A k \in 0 .. Cardinality(S) - 1 : \E n \in S : Rank(A, n) = k
        BY <1>3, RankIs
    <2>2. at + i - 1 \in 0 .. Cardinality(S) - 1
        BY <2>1, Consts DEF Reached
    <2>3. PICK n \in S : Rank(A, n) = at + i - 1
        BY <2>1, <2>2
    <2>4. pick[i] \in S /\ Cardinality({m \in S : Sooner(m, pick[i])}) = at + i - 1
        BY <1>2, <2>3 DEF Rank
    <2> QED BY <1>2, <2>4 DEF Rank
<1> HIDE DEF pick, S, A
<1> QED BY <1>3, <1>4, <1>5, <1>6, PageOfLine, Consts DEF S, A

----------------------------------------------------------------------------
(* The numbers of a set in order, and what is made of a page with them *)

UpTo(S, i) == {j \in S : j <= i}

LEMMA InOrderIs ==
    ASSUME NEW l \in Nat, NEW S \in SUBSET (1 .. l)
    PROVE  /\ IsFiniteSet(S) /\ Cardinality(S) \in Nat
           /\ \A k \in 1 .. Cardinality(S) : InOrder(S)[k] \in S
           /\ \A i \in S : /\ Cardinality(UpTo(S, i)) \in 1 .. Cardinality(S)
                           /\ InOrder(S)[Cardinality(UpTo(S, i))] = i
           /\ \A i, j \in S : Cardinality(UpTo(S, i)) = Cardinality(UpTo(S, j)) => i = j
<1> DEFINE A == [n \in S |-> {m \in S : m < n}]
           To(i) == UpTo(S, i)
<1>0. \A n \in S : n \in Nat
    OBVIOUS
<1>1. IsFiniteSet(S) /\ Cardinality(S) \in Nat
    <2>1. IsFiniteSet(1 .. l)
        BY FS_Interval
    <2> QED BY <2>1, FS_Subset, FS_CardinalityType
<1>2. InLine(S, A)
    <2>0. A \in [S -> SUBSET S] /\ \A n \in S : A[n] = {m \in S : m < n}
        OBVIOUS
    <2> HIDE DEF A
    <2>1. \A n \in S : n \notin A[n]
        BY <1>0, <2>0
    <2>2. ASSUME NEW m \in S, NEW n \in S, m \in A[n] PROVE A[m] \subseteq A[n]
        <3>1. \A j \in S : j < m => j < n
            BY <1>0, <2>0, <2>2
        <3> QED BY <2>0, <3>1
    <2>3. \A m, n \in S : m = n \/ m \in A[n] \/ n \in A[m]
        BY <1>0, <2>0
    <2> QED BY <1>1, <2>0, <2>1, <2>2, <2>3 DEF InLine
<1>3. /\ Cardinality(S) \in Nat
      /\ \A n \in S : Rank(A, n) \in 0 .. Cardinality(S) - 1
      /\ \A m, n \in S : m \in A[n] <=> Rank(A, m) < Rank(A, n)
      /\ \A m, n \in S : Rank(A, m) = Rank(A, n) => m = n
      /\ \A k \in 0 .. Cardinality(S) - 1 : \E n \in S : Rank(A, n) = k
    <2> HIDE DEF A
    <2> QED BY <1>2, RankIs
<1>4. ASSUME NEW i \in S PROVE Cardinality(To(i)) = Rank(A, i) + 1
    <2>0. \A j \in S : j <= i <=> j < i \/ j = i
        BY <1>0
    <2>1. To(i) = A[i] \cup {i} /\ i \notin A[i]
        <3>1. ~ (i < i)
            BY <1>0
        <3> QED BY <2>0, <3>1 DEF UpTo
    <2>2. IsFiniteSet(A[i])
        BY <1>1, FS_Subset
    <2> HIDE DEF A, To
    <2> QED BY <2>1, <2>2, FS_AddElement DEF Rank
<1>5. \A i, j \in S : Cardinality(To(i)) = Cardinality(To(j)) => i = j
    <2> HIDE DEF A, To
    <2> QED BY <1>3, <1>4
<1>6. \A k \in 1 .. Cardinality(S) : InOrder(S)[k] = CHOOSE i \in S : Cardinality(To(i)) = k
    BY DEF InOrder, UpTo
<1> HIDE DEF A, To
<1>7. ASSUME NEW k \in 1 .. Cardinality(S) PROVE InOrder(S)[k] \in S /\ Cardinality(To(InOrder(S)[k])) = k
    <2>1. k - 1 \in 0 .. Cardinality(S) - 1
        BY <1>1
    <2>2. PICK n \in S : Rank(A, n) = k - 1
        BY <1>3, <2>1
    <2>3. Cardinality(To(n)) = k
        BY <1>1, <1>4, <2>2
    <2> QED BY <1>6, <2>3
<1>8. ASSUME NEW i \in S PROVE /\ Cardinality(To(i)) \in 1 .. Cardinality(S)
                               /\ InOrder(S)[Cardinality(To(i))] = i
    <2>1. Cardinality(To(i)) \in 1 .. Cardinality(S)
        BY <1>1, <1>3, <1>4
    <2> QED BY <1>5, <1>7, <2>1
<1> QED BY <1>1, <1>5, <1>7, <1>8 DEF To

\* A list without a row is a list.
LEMMA WithoutIs ==
    ASSUME NEW list \in Seq(Snap), NEW n
    PROVE  Without(list, n) \in Seq(Snap)
<1> DEFINE S == {i \in DOMAIN list : list[i].id # n}
           f == InOrder(S)
<1>1. Len(list) \in Nat /\ S \in SUBSET (1 .. Len(list)) /\ \A i \in S : list[i] \in Snap
    OBVIOUS
<1>2. Cardinality(S) \in Nat /\ \A k \in 1 .. Cardinality(S) : f[k] \in S
    <2> HIDE DEF S
    <2> QED BY <1>1, InOrderIs
<1>3. DOMAIN f = 1 .. Cardinality(S)
    BY DEF InOrder
<1>4. Without(list, n) = [k \in 1 .. Cardinality(S) |-> list[f[k]]]
    BY <1>3 DEF Without
<1> HIDE DEF S, f
<1>5. \A k \in 1 .. Cardinality(S) : list[f[k]] \in Snap
    BY <1>1, <1>2
<1>6. [k \in 1 .. Cardinality(S) |-> list[f[k]]] \in [1 .. Cardinality(S) -> Snap]
    BY <1>5
<1> QED BY <1>2, <1>4, <1>6

\* The answer that reaches a row is the one to its own wrap.
LEMMA OpenedIs ==
    ASSUME NEW page \in Seq(Snap), NEW i \in DOMAIN page
    PROVE  Opened(page, i) = Answer(page[i].wrap)
<1> DEFINE has == page[i].wrap.has
           S == Batched(page, has)
           To(j) == UpTo(S, j)
<1>1. Len(page) \in Nat /\ S \in SUBSET (1 .. Len(page)) /\ i \in S
    BY DEF Batched
<1>2. \A j \in S : Place(page, j) = Cardinality(To(j))
    BY DEF Batched, Place, UpTo
<1> DEFINE p == Cardinality(To(i))
<1> HIDE DEF S, has
<1>3. p \in 1 .. Cardinality(S) /\ \A j \in S : Cardinality(To(j)) = p => j = i
    BY <1>1, InOrderIs
<1> HIDE DEF To, p
<1>4. Place(page, i) = p
    BY <1>1, <1>2 DEF p
<1>5. (CHOOSE j \in S : Place(page, j) = p) = i
    BY <1>1, <1>2, <1>3, <1>4
<1>6. Batch(page, has)[p] = Answer(page[CHOOSE j \in S : Place(page, j) = p].wrap)
    BY <1>3 DEF Batch, S
<1>7. Opened(page, i) = Batch(page, has)[p]
    BY <1>4 DEF Opened, has
<1> QED BY <1>5, <1>6, <1>7

LEMMA ReadableIs ==
    ASSUME NEW page \in Seq(Snap)
    PROVE  /\ Readable(page) = DOMAIN page \ Unread(page)
           /\ DOMAIN page \ Readable(page) = Unread(page)
           /\ \A i \in Readable(page) : Opened(page, i) = page[i].id
<1>1. ASSUME NEW i \in DOMAIN page
      PROVE  /\ Opened(page, i) # 0 <=> Opens(page[i].wrap)
             /\ Opens(page[i].wrap) => Opened(page, i) = page[i].id
    <2>1. page[i] \in Snap
        OBVIOUS
    <2>2. page[i].wrap.of = page[i].id /\ page[i].id # 0
        BY <2>1, Consts DEF Snap
    <2> QED BY <2>2, OpenedIs DEF Answer
<1> QED BY <1>1 DEF Readable, Unread

\* A batch resealed: the rows that could be opened, each with its own key.
LEMMA ResealedIs ==
    ASSUME NEW page \in Seq(Snap), NEW k \in Kid
    PROVE  /\ Resealed(page, k) \in Seq(Snap)
           /\ IdsOf(Resealed(page, k)) = ReadIds(page)
           /\ \A j \in DOMAIN Resealed(page, k) : Resealed(page, k)[j].wrap.kid = k
<1> DEFINE R == Readable(page)
           c == Cardinality(R)
           f == InOrder(R)
           item(i) == [id |-> page[i].id, wrap |-> Seal(k, Opened(page, i), page[i].wrap.has)]
           list == [p \in 1 .. c |-> item(f[p])]
<1>1. Resealed(page, k) = list
    BY DEF Resealed
<1>2. Len(page) \in Nat /\ R \in SUBSET (1 .. Len(page)) /\ \A i \in R : page[i] \in Snap
    BY DEF Readable
<1>3. ASSUME NEW i \in R PROVE item(i) \in Snap /\ item(i).id = page[i].id /\ item(i).wrap.kid = k
    <2>1. Opened(page, i) = page[i].id
        BY ReadableIs
    <2>2. page[i].id \in Id /\ page[i].id \in Nat /\ page[i].wrap.has \in {"content", "encKey"}
        BY <1>2, Consts DEF Snap, Wrap
    <2> QED BY <2>1, <2>2 DEF Snap, Wrap, Seal
<1> HIDE DEF item
<1>4. /\ c \in Nat /\ \A p \in 1 .. c : f[p] \in R
      /\ \A i \in R : \E p \in 1 .. c : f[p] = i
    <2> HIDE DEF R
    <2> QED BY <1>2, InOrderIs
<1> HIDE DEF f, c, R
<1>5. DOMAIN list = 1 .. c /\ \A p \in 1 .. c : list[p] = item(f[p])
    OBVIOUS
<1>6. list \in Seq(Snap)
    <2>1. \A p \in 1 .. c : item(f[p]) \in Snap
        BY <1>3, <1>4
    <2>2. list \in [1 .. c -> Snap]
        BY <2>1
    <2> QED BY <1>4, <2>2
<1> HIDE DEF list
<1>7. IdsOf(list) = {page[i].id : i \in R}
    <2>1. IdsOf(list) \subseteq {page[i].id : i \in R}
        BY <1>3, <1>4, <1>5 DEF IdsOf
    <2>2. {page[i].id : i \in R} \subseteq IdsOf(list)
        BY <1>3, <1>4, <1>5 DEF IdsOf
    <2> QED BY <2>1, <2>2
<1>8. R = DOMAIN page \ Unread(page)
    BY ReadableIs DEF R
<1> QED BY <1>1, <1>3, <1>4, <1>5, <1>6, <1>7, <1>8 DEF ReadIds

----------------------------------------------------------------------------
(* What a step leaves of a walk and of a loop *)

\* A row in use may go, and may be sealed to the key served.
Fades == \A n \in Id : row[n].who # "none" => row'[n].who \in {row[n].who, "gone"}
Resealing == \A n \in Id : row[n].who # "none" => row'[n].wrap = row[n].wrap \/ row'[n].wrap.kid = keys.cur
\* Neither happens to n.
Stays(n) == row'[n].who = row[n].who /\ row'[n].wrap = row[n].wrap
RowsStay == \A n \in Id : row[n].who # "none" => Stays(n)

\* The fields of an operation, but for whether it was cut.
Resumes(o) ==
    /\ op'[o].kind = op[o].kind /\ op'[o].stage = op[o].stage /\ op'[o].id = op[o].id
    /\ op'[o].at = op[o].at /\ op'[o].key = op[o].key /\ op'[o].got = op[o].got
    /\ op'[o].start = op[o].start

LEMMA CountGrows ==
    ASSUME NEW S \in SUBSET Id, NEW T \in SUBSET S
    PROVE  /\ Cardinality(S) \in Nat /\ Cardinality(T) \in Nat
           /\ Cardinality(T) <= Cardinality(S)
BY Consts, FS_Subset, FS_CardinalityType

LEMMA UnreadIs ==
    ASSUME NEW page \in Seq(Snap)
    PROVE  IsFiniteSet(Unread(page)) /\ Cardinality(Unread(page)) \in Nat
<1>1. Len(page) \in Nat /\ Unread(page) \in SUBSET (1 .. Len(page))
    BY DEF Unread
<1>2. IsFiniteSet(1 .. Len(page))
    BY <1>1, FS_Interval
<1> HIDE DEF Unread
<1> QED BY <1>1, <1>2, FS_Subset, FS_CardinalityType

\* A walk goes on after a step that takes no row of its list.
LEMMA WalkKept ==
    ASSUME NEW o \in Op, Known(op[o]), WalkHolds(op[o]), Resumes(o), Fades, Walking(op[o]),
           \A n \in Id : row[n].who = op[o].kind => row'[n].who = op[o].kind
    PROVE  WalkHolds(op[o])'
<1> DEFINE r == op[o]
           S == Listed(r.kind)
           T == {n \in Id : row'[n].who = r.kind}
<1>1. r.kind \in {"own", "shared"} /\ r.start \subseteq Id /\ r.at \in Nat
    BY DEF Known, Walking
<1>2. \A n \in r.start : row[n].who # "none" /\ row'[n].who # "none"
    BY <1>1 DEF Fades, WalkHolds, Unused
<1>3. \A n \in Id : n \in r.start /\ row'[n].who \in {"own", "shared", "signer"} =>
          n \in Live /\ row'[n].who = row[n].who
    BY <1>2 DEF Fades, Live
<1>4. S \subseteq T /\ T \subseteq Id
    BY DEF Listed
<1>5. ASSUME NEW n \in Id PROVE Cardinality(Ahead(S, n)) <= Cardinality(Ahead(T, n))
                                /\ Cardinality(Ahead(S, n)) \in Nat /\ Cardinality(Ahead(T, n)) \in Nat
    <2>1. Ahead(T, n) \in SUBSET Id /\ Ahead(S, n) \in SUBSET Ahead(T, n)
        BY <1>4 DEF Ahead
    <2> QED BY <2>1, CountGrows
<1>6. ASSUME NEW n \in Id, n \in r.start, row'[n].who \in {"own", "shared", "signer"}
      PROVE  /\ row'[n].who = r.kind
             /\ n \in IdsOf(r.got) \/ (r.stage = "page" /\ r.at <= Cardinality(Ahead(T, n)))
    <2>1. n \in r.start \cap Live /\ row'[n].who = row[n].who
        BY <1>3, <1>6
    <2>2. n \in IdsOf(r.got) \/ (r.stage = "page" /\ r.at <= Cardinality(Ahead(S, n)))
        BY <2>1 DEF WalkHolds
    <2>3. row[n].who = r.kind
        BY <2>1 DEF WalkHolds
    <2> QED BY <1>1, <1>5, <2>1, <2>2, <2>3
<1>7. Listed(op[o].kind)' = T
    BY DEF Listed, Resumes
<1>8. /\ op'[o].kind = r.kind /\ op'[o].start = r.start /\ op'[o].got = r.got
      /\ op'[o].stage = r.stage /\ op'[o].at = r.at
    BY DEF Resumes
<1>9. op'[o].start \cap Unused' = {}
    BY <1>1, <1>2, <1>8 DEF Unused
<1> HIDE DEF T, S
<1> QED BY <1>6, <1>7, <1>8, <1>9 DEF WalkHolds, Live, IdsOf, Ahead

\* A loop goes on after a step that leaves the stale rows it did not begin with.
LEMMA LoopKept ==
    ASSUME NEW o \in Op, Known(op[o]), LoopHolds(op[o]), Resumes(o), Fades, Resealing, Moving(op[o]),
           KeysInv, keys' = keys, \A n \in Stale \ op[o].start : Stays(n)
    PROVE  LoopHolds(op[o])'
<1> DEFINE r == op[o]
<1>1. r.start \subseteq Id /\ r.at \in Nat /\ r.got \in Seq(Snap)
    BY DEF Known, Moving
<1>2. /\ op'[o].start = r.start /\ op'[o].got = r.got /\ op'[o].stage = r.stage /\ op'[o].at = r.at
    BY DEF Resumes
<1>3. op'[o].start \cap Unused' = {}
    BY <1>1, <1>2 DEF Unused, LoopHolds, Fades
<1>4. ASSUME NEW n \in r.start, n \in Live' PROVE n \in Live /\ row'[n].who = row[n].who
    BY <1>1, <1>4 DEF Unused, LoopHolds, Fades, Live
<1>5. ASSUME NEW n \in r.start, n \in Live' PROVE Opens(row[n].wrap)'
    <2>1. n \in Live /\ Opens(row[n].wrap)
        BY <1>4, <1>5 DEF LoopHolds
    <2>2. row'[n].wrap = row[n].wrap \/ row'[n].wrap.kid = keys.cur
        BY <2>1 DEF Resealing, Live
    <2> QED BY <2>1, <2>2 DEF Opens, KeysInv
<1>6. ASSUME NEW n \in r.start, n \in Stale' PROVE n \in Stale /\ row'[n].who = row[n].who
    <2>1. n \in Live' /\ row'[n].wrap.kid # keys.cur
        BY <1>6 DEF Stale
    <2>2. n \in Live /\ row'[n].who = row[n].who
        BY <1>4, <2>1
    <2>3. row'[n].wrap = row[n].wrap
        BY <2>1, <2>2 DEF Resealing, Live
    <2> QED BY <2>1, <2>2, <2>3 DEF Stale
<1>7. ASSUME NEW n \in r.start, n \in Stale', NEW X
      PROVE  /\ Cardinality(Others(r, n) \ X) \in Nat /\ Cardinality(Others(op[o], n)' \ X) \in Nat
             /\ Cardinality(Others(r, n) \ X) <= Cardinality(Others(op[o], n)' \ X)
    <2>1. Others(op[o], n)' = {m \in Stale' : Sooner(m, n)' /\ m \notin r.start}
        BY <1>2 DEF Others
    <2>2. Others(op[o], n)' \ X \in SUBSET Id
        BY <2>1 DEF Stale, Live
    <2>3. \A m \in Stale \ r.start : m \in Stale' /\ row'[m].who = row[m].who
        BY DEF Stays, Stale, Live
    <2>4. \A m \in Stale \ r.start : Sooner(m, n) => Sooner(m, n)'
        BY <1>6, <1>7, <2>3 DEF Sooner
    <2>5. Others(r, n) \ X \in SUBSET (Others(op[o], n)' \ X)
        BY <2>1, <2>3, <2>4 DEF Others
    <2> QED BY <2>2, <2>5, CountGrows
<1>8. \A w : Opens(w)' <=> Opens(w)
    BY DEF Opens
<1>9. /\ Unread(op[o].got)' = Unread(r.got) /\ ReadIds(op[o].got)' = ReadIds(r.got)
      /\ \A i \in DOMAIN r.got : Opens(op[o].got[i].wrap)' <=> Opens(r.got[i].wrap)
    BY <1>2 DEF Unread, ReadIds, Opens
<1>10. r.stage = "stale" => \A n \in r.start \cap Stale' : r.at <= Cardinality(Others(op[o], n)')
    <2> SUFFICES ASSUME r.stage = "stale", NEW n \in r.start \cap Stale'
                 PROVE  r.at <= Cardinality(Others(op[o], n)')
        OBVIOUS
    <2>1. n \in Stale /\ r.at <= Cardinality(Others(r, n))
        BY <1>6 DEF LoopHolds
    <2>2. Others(r, n) \ {} = Others(r, n) /\ Others(op[o], n)' \ {} = Others(op[o], n)'
        OBVIOUS
    <2>3. Cardinality(Others(r, n)) <= Cardinality(Others(op[o], n)')
          /\ Cardinality(Others(r, n)) \in Nat /\ Cardinality(Others(op[o], n)') \in Nat
        BY <1>7, <2>2
    <2> QED BY <1>1, <2>1, <2>3
<1>11. r.stage = "open" => \A n \in r.start \cap Stale' :
          \/ n \in IdsOf(r.got)
          \/ /\ ~LastPage(r.got)
             /\ r.at + Cardinality(Unread(r.got)) <= Cardinality(Others(op[o], n)' \ ReadIds(r.got))
    <2> SUFFICES ASSUME r.stage = "open", NEW n \in r.start \cap Stale', n \notin IdsOf(r.got)
                 PROVE  /\ ~LastPage(r.got)
                        /\ r.at + Cardinality(Unread(r.got)) <= Cardinality(Others(op[o], n)' \ ReadIds(r.got))
        OBVIOUS
    <2>1. ~LastPage(r.got) /\ r.at + Cardinality(Unread(r.got)) <= Cardinality(Others(r, n) \ ReadIds(r.got))
        BY <1>6 DEF LoopHolds
    <2>2. Cardinality(Unread(r.got)) \in Nat
        BY <1>1, UnreadIs
    <2> DEFINE X == ReadIds(r.got)
    <2>3. /\ Cardinality(Others(r, n) \ X) \in Nat /\ Cardinality(Others(op[o], n)' \ X) \in Nat
          /\ Cardinality(Others(r, n) \ X) <= Cardinality(Others(op[o], n)' \ X)
        BY <1>7
    <2> HIDE DEF r
    <2> QED BY <1>1, <2>1, <2>2, <2>3
<1>12. r.stage = "put" => \A n \in r.start \cap Stale' :
          n \in IdsOf(r.got) \/ r.at <= Cardinality(Others(op[o], n)' \ IdsOf(r.got))
    <2> SUFFICES ASSUME r.stage = "put", NEW n \in r.start \cap Stale', n \notin IdsOf(r.got)
                 PROVE  r.at <= Cardinality(Others(op[o], n)' \ IdsOf(r.got))
        OBVIOUS
    <2>1. r.at <= Cardinality(Others(r, n) \ IdsOf(r.got))
        BY <1>6 DEF LoopHolds
    <2> DEFINE X == IdsOf(r.got)
    <2>3. /\ Cardinality(Others(r, n) \ X) \in Nat /\ Cardinality(Others(op[o], n)' \ X) \in Nat
          /\ Cardinality(Others(r, n) \ X) <= Cardinality(Others(op[o], n)' \ X)
        BY <1>7
    <2> HIDE DEF r
    <2> QED BY <1>1, <2>1, <2>3
<1>13. r.stage = "open" => \A i \in DOMAIN r.got : r.got[i].id \in r.start => Opens(op[o].got[i].wrap)'
    BY <1>9 DEF LoopHolds
<1> QED BY <1>2, <1>3, <1>5, <1>9, <1>10, <1>11, <1>12, <1>13 DEF LoopHolds, LastPage, IdsOf

LEMMA StayMeans ==
    ASSUME RowsStay, RowsInv
    PROVE  /\ Fades /\ Resealing
           /\ \A n \in Stale : Stays(n)
           /\ \A kind \in {"own", "shared"} : \A n \in Id : row[n].who = kind => row'[n].who = kind
           /\ \A n \in Live : n \in Live' /\ Stays(n)
           /\ \A n \in Id : n \in Unused' => n \in Unused
BY DEF RowsStay, Fades, Resealing, Stays, Stale, Live, Unused, RowsInv

\* An operation nobody touches goes on when the rows in use stay.
LEMMA Untouched ==
    ASSUME Inv, RowsStay, keys' = keys, NEW p \in Op, op'[p] = op[p]
    PROVE  Known(op[p])' /\ WalkInv(op[p])' /\ LoopInv(op[p])'
<1>0. Known(op[p]) /\ WalkInv(op[p]) /\ LoopInv(op[p]) /\ RowsInv /\ KeysInv
    BY DEF Inv, OpsInv, WalksInv, LoopsInv
<1>1. Resumes(p) /\ Fades /\ Resealing
    BY <1>0, StayMeans DEF Resumes
<1>2. Known(op[p])'
    BY <1>0 DEF Known, Resting, Walking, Opening, Giving, Creating, Moving
<1>3. WalkInv(op[p])'
    <2> SUFFICES ASSUME Walking(op[p])', ~op'[p].cut PROVE WalkHolds(op[p])'
        BY DEF WalkInv
    <2>1. Walking(op[p]) /\ ~op[p].cut
        BY DEF Walking
    <2>2. \A n \in Id : row[n].who = op[p].kind => row'[n].who = op[p].kind
        BY <1>0, <2>1, StayMeans DEF Walking
    <2> QED BY <1>0, <1>1, <2>1, <2>2, WalkKept DEF WalkInv
<1>4. LoopInv(op[p])'
    <2> SUFFICES ASSUME Moving(op[p])', ~op'[p].cut, op'[p].key = keys'.cur PROVE LoopHolds(op[p])'
        BY DEF LoopInv
    <2>1. Moving(op[p]) /\ ~op[p].cut /\ op[p].key = keys.cur
        BY DEF Moving
    <2>2. \A n \in Stale \ op[p].start : Stays(n)
        BY <1>0, StayMeans
    <2> QED BY <1>0, <1>1, <2>1, <2>2, LoopKept DEF LoopInv
<1> QED BY <1>2, <1>3, <1>4

\* One operation takes a step, the rows in use stay.
LEMMA OneMoves ==
    ASSUME Inv, RowsStay, keys' = keys, NEW o \in Op, NEW r, op' = [op EXCEPT ![o] = r],
           Known(op[o])', WalkInv(op[o])', LoopInv(op[o])',
           r.kind = "rewrap" => op[o].kind = "rewrap" /\ r.key = op[o].key
    PROVE  OpsInv' /\ OwnKeys' /\ WalksInv' /\ LoopsInv'
<1>0. op = [p \in Op |-> op[p]]
    BY DEF Inv, OpsInv
<1>1. op' = [p \in Op |-> op'[p]] /\ op'[o] = r /\ \A p \in Op : p # o => op'[p] = op[p]
    BY <1>0
<1>2. \A p \in Op : Known(op[p])' /\ WalkInv(op[p])' /\ LoopInv(op[p])'
    <2> TAKE p \in Op
    <2>1. CASE p = o
        BY <2>1
    <2>2. CASE p # o
        BY <1>1, <2>2, Untouched
    <2> QED BY <2>1, <2>2
<1>3. OwnKeys'
    <2>1. \A p \in Op : op'[p].kind = "rewrap" => op[p].kind = "rewrap" /\ op'[p].key = op[p].key
        BY <1>1
    <2> QED BY <2>1 DEF Inv, OwnKeys
<1>4. OpsInv' /\ WalksInv' /\ LoopsInv'
    BY <1>1, <1>2 DEF OpsInv, WalksInv, LoopsInv
<1> QED BY <1>3, <1>4

\* An operation that is neither a walk nor a loop has nothing more to keep.
LEMMA OneSettles ==
    ASSUME Inv, RowsStay, keys' = keys, NEW o \in Op, NEW r, op' = [op EXCEPT ![o] = r],
           Known(op[o])', r.kind \notin {"own", "shared", "rewrap"}
    PROVE  OpsInv' /\ OwnKeys' /\ WalksInv' /\ LoopsInv'
<1>1. op'[o] = r
    BY DEF Inv, OpsInv
<1>2. WalkInv(op[o])' /\ LoopInv(op[o])'
    BY <1>1 DEF WalkInv, LoopInv, Walking, Moving
<1> QED BY <1>2, OneMoves

\* Ending an operation does nothing to the others.
LEMMA OneEnds ==
    ASSUME Inv, RowsStay, keys' = keys, NEW o \in Op, NEW r, r \in {Idle, Finished},
           op' = [op EXCEPT ![o] = r]
    PROVE  OpsInv' /\ OwnKeys' /\ WalksInv' /\ LoopsInv'
<1>1. op'[o] = r
    BY DEF Inv, OpsInv
<1>2. r.kind = "idle" /\ Known(op[o])'
    BY <1>1 DEF Idle, Finished, Known, Resting
<1> QED BY <1>2, OneSettles

\* A walk that starts when the rows it is to find are in use.
LEMMA WalkStarts ==
    ASSUME Inv, RowsStay, keys' = keys, NEW o \in Op, NEW kind \in {"own", "shared"}, NEW n,
           op' = [op EXCEPT ![o] = Walk(kind, n)]
    PROVE  OpsInv' /\ OwnKeys' /\ WalksInv' /\ LoopsInv'
<1> DEFINE S == {m \in Live : row[m].who = kind}
<1>0. PICK r : r = Walk(kind, n)
    OBVIOUS
<1>1. op'[o] = r /\ op' = [op EXCEPT ![o] = r]
    BY <1>0 DEF Inv, OpsInv
<1>b. S \subseteq Id
    BY DEF Live
<1>2. /\ r.kind = kind /\ r.stage = "page" /\ r.at = 0 /\ r.got = <<>> /\ r.start = S /\ ~r.cut
      /\ r = [kind |-> r.kind, stage |-> r.stage, id |-> r.id, at |-> r.at, key |-> r.key,
              got |-> r.got, start |-> r.start, cut |-> r.cut]
    BY <1>0 DEF Walk, Idle
<1> HIDE DEF S
<1>3. Known(op[o])' /\ ~Moving(op[o])'
    <2>1. Walking(op[o])'
        <3>1. <<>> \in Seq(Snap)
            OBVIOUS
        <3> QED BY <1>1, <1>2, <1>b, <3>1 DEF Walking
    <2>2. ~Moving(op[o])'
        BY <1>1, <1>2 DEF Moving
    <2> QED BY <1>1, <1>2, <2>1, <2>2 DEF Known
<1>4. WalkHolds(op[o])'
    <2>1. \A m \in S : m \in Live' /\ row'[m].who = kind
        BY StayMeans DEF Inv, Stays, S
    <2>2. S \cap Unused' = {}
        BY <2>1 DEF Live, Unused
    <2>3. \A m \in Id : Cardinality(Ahead(Listed(op[o].kind), m)') >= 0
        <3>1. \A m \in Id : Ahead(Listed(op[o].kind), m)' \in SUBSET Id
            BY DEF Ahead, Listed
        <3> QED BY <3>1, CountGrows
    <2> QED BY <1>1, <1>2, <1>b, <2>1, <2>2, <2>3 DEF WalkHolds, IdsOf
<1>5. WalkInv(op[o])' /\ LoopInv(op[o])'
    BY <1>3, <1>4 DEF WalkInv, LoopInv
<1> QED BY <1>1, <1>2, <1>3, <1>5, OneMoves

----------------------------------------------------------------------------
(* Listing keeps the invariant *)

\* When the rows are left alone, so is what is known of them.
LEMMA SameRows ==
    ASSUME RowsInv, row' = row
    PROVE  RowsStay /\ RowsInv'
BY DEF RowsInv, RowsStay, Stays

LEMMA SameKeys ==
    ASSUME KeysInv, keys' = keys
    PROVE  KeysInv'
BY DEF KeysInv

LEMMA SamePage ==
    ASSUME PageInv, view' = view, shown' = shown, modal' = modal, deeds' \in 0..MaxDeeds,
           saved' \subseteq Id
    PROVE  PageInv'
BY DEF PageInv, VerdictOfPicked

LEMMA Deed ==
    ASSUME PageInv, NEW deed, Spend(deed)
    PROVE  deeds' \in 0..MaxDeeds
BY SecretsConstants DEF PageInv, Spend

LEMMA IdsJoin ==
    ASSUME NEW a \in Seq(Snap), NEW b \in Seq(Snap)
    PROVE  a \o b \in Seq(Snap) /\ IdsOf(a \o b) = IdsOf(a) \cup IdsOf(b)
<1>1. a \o b \in Seq(Snap) /\ Len(a \o b) = Len(a) + Len(b) /\ Len(a) \in Nat /\ Len(b) \in Nat
    OBVIOUS
<1>2. \A i \in 1 .. Len(a) : i \in DOMAIN (a \o b) /\ (a \o b)[i] = a[i]
    OBVIOUS
<1>3. \A i \in 1 .. Len(b) : Len(a) + i \in DOMAIN (a \o b) /\ (a \o b)[Len(a) + i] = b[i]
    OBVIOUS
<1>4. \A i \in DOMAIN (a \o b) : i \in 1 .. Len(a) \/ (i - Len(a) \in 1 .. Len(b) /\ i = Len(a) + (i - Len(a)))
    BY <1>1
<1>5. IdsOf(a) \subseteq IdsOf(a \o b)
    BY <1>2 DEF IdsOf
<1>6. IdsOf(b) \subseteq IdsOf(a \o b)
    <2>1. ASSUME NEW i \in 1 .. Len(b) PROVE b[i].id \in IdsOf(a \o b)
        <3>1. Len(a) + i \in DOMAIN (a \o b) /\ (a \o b)[Len(a) + i] = b[i]
            BY <1>3
        <3> QED BY <3>1 DEF IdsOf
    <2>2. DOMAIN b = 1 .. Len(b)
        OBVIOUS
    <2> HIDE DEF IdsOf
    <2> QED BY <2>1, <2>2 DEF IdsOf
<1>7. ASSUME NEW i \in DOMAIN (a \o b) PROVE (a \o b)[i].id \in IdsOf(a) \cup IdsOf(b)
    <2>1. CASE i \in 1 .. Len(a)
        BY <1>2, <2>1 DEF IdsOf
    <2>2. CASE i - Len(a) \in 1 .. Len(b) /\ i = Len(a) + (i - Len(a))
        BY <1>3, <2>2 DEF IdsOf
    <2> QED BY <1>4, <2>1, <2>2
<1> HIDE DEF IdsOf
<1>8. IdsOf(a \o b) \subseteq IdsOf(a) \cup IdsOf(b)
    BY <1>7 DEF IdsOf
<1> QED BY <1>1, <1>5, <1>6, <1>8

LEMMA FetchPageKeeps ==
    ASSUME Inv, NEW o \in Op, FetchPage(o)
    PROVE  Inv'
<1>0. RowsInv /\ KeysInv /\ PageInv /\ op = [p \in Op |-> op[p]] /\ Known(op[o]) /\ WalkInv(op[o])
    BY DEF Inv, OpsInv, WalksInv
<1>1. Walking(op[o]) /\ op[o].kind \in {"own", "shared"} /\ op[o].at \in Nat /\ op[o].stage = "page"
      /\ op[o].got \in Seq(Snap) /\ op[o].start \subseteq Id
    BY <1>0 DEF FetchPage, Known, Walking, Resting, Opening, Giving, Creating, Moving
<1> DEFINE S == Listed(op[o].kind)
           A == NewerOf(op[o].kind)
           page == PageOf(op[o].kind, op[o].at)
<1>2. InLine(S, A) /\ PageIs(page, S, A, op[o].at, PageSize)
    BY <1>0, <1>1, ListPage, Consts DEF PageOf
<1>3. PICK r : r = op'[o]
    OBVIOUS
<1> HIDE DEF page
<1>4. /\ r.kind = op[o].kind /\ r.stage = (IF LastPage(page) THEN "titles" ELSE "page")
      /\ r.at = op[o].at + PageSize /\ r.got = op[o].got \o page /\ r.start = op[o].start
      /\ r.cut = op[o].cut
      /\ r = [kind |-> r.kind, stage |-> r.stage, id |-> r.id, at |-> r.at,
              key |-> r.key, got |-> r.got, start |-> r.start, cut |-> r.cut]
    BY <1>0, <1>1, <1>3 DEF FetchPage, Known, page
<1>5. op' = [op EXCEPT ![o] = r]
    BY <1>0, <1>3 DEF FetchPage
<1>6. page \in Seq(Snap)
    BY <1>2 DEF PageIs
<1>7. op[o].got \o page \in Seq(Snap) /\ IdsOf(r.got) = IdsOf(op[o].got) \cup IdsOf(page)
    BY <1>1, <1>4, <1>6, IdsJoin
<1>8. Known(op[o])' /\ ~Moving(op[o])'
    BY <1>1, <1>3, <1>4, <1>7, Consts DEF Known, Walking, Moving
<1>9. row' = row /\ keys' = keys
    BY DEF FetchPage
<1>10. ASSUME ~r.cut PROVE WalkHolds(op[o])'
    <2>1. WalkHolds(op[o])
        BY <1>0, <1>1, <1>4, <1>10 DEF WalkInv
    <2>2. op[o].start \cap Unused' = {} /\ Live' = Live
        BY <1>9, <2>1 DEF WalkHolds, Unused, Live
    <2>3. ASSUME NEW n \in op[o].start \cap Live
          PROVE  /\ row[n].who = op[o].kind
                 /\ n \in IdsOf(r.got) \/ (r.stage = "page" /\ r.at <= Cardinality(Ahead(S, n)))
        <3>1. n \in S /\ row[n].who = op[o].kind
            BY <1>1, <2>1 DEF WalkHolds, Listed
        <3>2. CASE n \in IdsOf(op[o].got)
            BY <1>7, <3>1, <3>2
        <3>3. CASE n \notin IdsOf(op[o].got)
            <4>1. op[o].at <= Rank(A, n) /\ Rank(A, n) = Cardinality(Ahead(S, n))
                BY <2>1, <3>1, <3>3 DEF WalkHolds, Rank, NewerOf
            <4>2. Rank(A, n) \in 0 .. Cardinality(S) - 1 /\ Cardinality(S) \in Nat
                BY <1>2, <3>1, RankIs
            <4>3. \/ n \in IdsOf(page)
                  \/ op[o].at + PageSize <= Rank(A, n)
                BY <1>1, <1>2, <3>1, <4>1, <4>2, Consts DEF PageIs
            <4>4. op[o].at + PageSize <= Rank(A, n) => ~LastPage(page)
                <5>1. Len(page) \in Nat
                    BY <1>6
                <5>2. Len(page) < PageSize => Cardinality(S) <= op[o].at + Len(page)
                    BY <1>2 DEF PageIs
                <5> QED BY <1>1, <4>2, <5>1, <5>2, Consts DEF LastPage
            <4> QED BY <1>4, <1>7, <3>1, <4>1, <4>3, <4>4
        <3> QED BY <3>2, <3>3
    <2>4. Listed(op[o].kind)' = S
        BY <1>3, <1>4, <1>9 DEF Listed
    <2> HIDE DEF S
    <2> QED BY <1>3, <1>4, <1>9, <2>2, <2>3, <2>4 DEF WalkHolds, IdsOf, Ahead
<1>11. WalkInv(op[o])' /\ LoopInv(op[o])'
    BY <1>3, <1>8, <1>10 DEF WalkInv, LoopInv
<1>12. RowsStay /\ RowsInv' /\ KeysInv' /\ PageInv'
    <2>1. deeds' \in 0..MaxDeeds /\ saved' \subseteq Id /\ view' = view /\ shown' = shown /\ modal' = modal
        BY <1>0 DEF FetchPage, PageInv
    <2> QED BY <1>0, <1>9, <2>1, SameRows, SameKeys, SamePage
<1>13. r.kind # "rewrap"
    BY <1>1, <1>4
<1> QED BY <1>5, <1>8, <1>9, <1>11, <1>12, <1>13, OneMoves DEF Inv

LEMMA ShowListKeeps ==
    ASSUME Inv, NEW o \in Op, ShowList(o)
    PROVE  Inv'
<1>0. RowsInv /\ KeysInv /\ PageInv /\ Known(op[o])
    BY DEF Inv, OpsInv
<1>1. op[o].kind \in {"own", "shared"} /\ op[o].got \in Seq(Snap)
    BY <1>0 DEF ShowList, Known, Walking, Resting, Opening, Giving, Creating, Moving
<1>2. PageInv'
    BY <1>0, <1>1 DEF ShowList, PageInv, VerdictOfPicked
<1>3. row' = row /\ keys' = keys /\ op' = [op EXCEPT ![o] = Idle]
    BY DEF ShowList
<1> QED BY <1>0, <1>2, <1>3, SameRows, SameKeys, OneEnds DEF Inv

LEMMA WalkFailsKeeps ==
    ASSUME Inv, NEW o \in Op, WalkFails(o)
    PROVE  Inv'
<1>0. RowsInv /\ KeysInv /\ PageInv
    BY DEF Inv
<1>1. row' = row /\ keys' = keys /\ op' = [op EXCEPT ![o] = Idle]
    BY DEF WalkFails
<1>2. PageInv'
    <2>1. deeds' \in 0..MaxDeeds
        BY <1>0, Deed DEF WalkFails
    <2>2. saved' \subseteq Id /\ view' = view /\ shown' = shown /\ modal' = modal
        BY <1>0 DEF WalkFails, PageInv
    <2> QED BY <1>0, <2>1, <2>2, SamePage
<1> QED BY <1>0, <1>1, <1>2, SameRows, SameKeys, OneEnds DEF Inv

LEMMA ReloadKeeps ==
    ASSUME Inv, NEW o \in Op, Reload(o)
    PROVE  Inv'
<1>0. RowsInv /\ KeysInv /\ PageInv
    BY DEF Inv
<1>1. PICK kind \in {"own", "shared"} : op' = [op EXCEPT ![o] = Walk(kind, 0)]
    BY DEF Reload
<1>2. row' = row /\ keys' = keys
    BY DEF Reload
<1>3. PageInv'
    <2>1. deeds' \in 0..MaxDeeds
        BY <1>0, Deed DEF Reload
    <2>2. saved' \subseteq Id /\ view' = view /\ shown' = shown /\ modal' = modal
        BY <1>0 DEF Reload, PageInv
    <2> QED BY <1>0, <2>1, <2>2, SamePage
<1> QED BY <1>0, <1>1, <1>2, <1>3, SameRows, SameKeys, WalkStarts DEF Inv

LEMMA RefreshKeeps ==
    ASSUME Inv, NEW o \in Op, Refresh(o)
    PROVE  Inv'
<1>0. RowsInv /\ KeysInv /\ PageInv
    BY DEF Inv
<1>1. row' = row /\ keys' = keys /\ op' = [op EXCEPT ![o] = Walk("shared", 0)]
    BY DEF Refresh
<1>2. PageInv'
    BY <1>0 DEF Refresh, PageInv, VerdictOfPicked
<1> QED BY <1>0, <1>1, <1>2, SameRows, SameKeys, WalkStarts DEF Inv

----------------------------------------------------------------------------
(* So does opening *)

LEMMA StartOpenKeeps ==
    ASSUME Inv, NEW o \in Op, StartOpen(o)
    PROVE  Inv'
<1>0. RowsInv /\ KeysInv /\ PageInv /\ op = [p \in Op |-> op[p]]
    BY DEF Inv, OpsInv
<1>a. PICK kind \in {"own", "shared"} : \E i \in DOMAIN view[kind] :
          op' = [op EXCEPT ![o] = [Idle EXCEPT !.kind = "open", !.stage = "key", !.id = view[kind][i].id,
                                               !.start = {view[kind][i].wrap}]]
    BY Zenon DEF StartOpen
<1>1. PICK i \in DOMAIN view[kind] :
          op' = [op EXCEPT ![o] = [Idle EXCEPT !.kind = "open", !.stage = "key", !.id = view[kind][i].id,
                                               !.start = {view[kind][i].wrap}]]
    BY Zenon, <1>a
<1>2. view[kind][i].id \in Id
    <2>1. view[kind] \in Seq(Snap)
        BY <1>0 DEF PageInv
    <2>2. view[kind][i] \in Snap
        BY <2>1
    <2> QED BY <2>2 DEF Snap
<1>3. PICK r : r = [Idle EXCEPT !.kind = "open", !.stage = "key", !.id = view[kind][i].id,
                                !.start = {view[kind][i].wrap}]
    OBVIOUS
<1>4. op' = [op EXCEPT ![o] = r] /\ op'[o] = r
    BY <1>0, <1>1, <1>3
<1>5. r.kind = "open" /\ Known(op[o])'
    <2>1. /\ r.kind = "open" /\ r.stage = "key" /\ r.id = view[kind][i].id /\ r.at = 0
          /\ r = [kind |-> r.kind, stage |-> r.stage, id |-> r.id, at |-> r.at,
                  key |-> r.key, got |-> r.got, start |-> r.start, cut |-> r.cut]
        BY <1>3 DEF Idle
    <2> QED BY <1>2, <1>4, <2>1 DEF Known, Opening
<1>6. row' = row /\ keys' = keys /\ PageInv'
    <2>1. deeds' \in 0..MaxDeeds
        BY <1>0, Deed DEF StartOpen
    <2>2. saved' \subseteq Id /\ view' = view /\ shown' = shown /\ modal' = modal
        BY <1>0 DEF StartOpen, PageInv
    <2> QED BY <1>0, <2>1, <2>2, SamePage DEF StartOpen
<1> QED BY <1>0, <1>4, <1>5, <1>6, SameRows, SameKeys, OneSettles DEF Inv

\* An operation that goes on to another stage, or collects more.
LEMMA OpenGoesOn ==
    ASSUME Inv, row' = row, keys' = keys, NEW o \in Op, Opening(op[o]),
           NEW stage \in {"content", "download"}, NEW got,
           op' = [op EXCEPT ![o].stage = stage, ![o].got = got]
    PROVE  OpsInv' /\ OwnKeys' /\ WalksInv' /\ LoopsInv'
<1>0. RowsInv /\ op = [p \in Op |-> op[p]] /\ Known(op[o])
    BY DEF Inv, OpsInv
<1>1. PICK r : r = op'[o]
    OBVIOUS
<1>2. op' = [op EXCEPT ![o] = r]
    BY <1>0, <1>1
<1>3. /\ r.kind = "open" /\ r.stage = stage /\ r.id = op[o].id /\ r.at = op[o].at
      /\ r = [kind |-> r.kind, stage |-> r.stage, id |-> r.id, at |-> r.at,
              key |-> r.key, got |-> r.got, start |-> r.start, cut |-> r.cut]
    BY <1>0, <1>1 DEF Known, Opening
<1>4. Known(op[o])'
    <2>1. op[o].id \in Id /\ op[o].at \in Nat
        BY <1>0 DEF Known, Opening
    <2> QED BY <1>1, <1>3, <2>1 DEF Known, Opening
<1> QED BY <1>0, <1>2, <1>3, <1>4, SameRows, OneSettles

LEMMA OpenKeyKeeps ==
    ASSUME Inv, NEW o \in Op, OpenKey(o)
    PROVE  Inv'
<1>0. RowsInv /\ KeysInv /\ PageInv /\ Known(op[o]) /\ op = [p \in Op |-> op[p]]
    BY DEF Inv, OpsInv
<1>1. row' = row /\ keys' = keys /\ PageInv' /\ RowsStay /\ RowsInv' /\ KeysInv'
    <2>1. deeds' \in 0..MaxDeeds /\ saved' \subseteq Id /\ view' = view /\ shown' = shown /\ modal' = modal
        BY <1>0 DEF OpenKey, PageInv
    <2> QED BY <1>0, <2>1, SamePage, SameRows, SameKeys DEF OpenKey
<1>2. CASE Opens(WrapOf(o))
    <2>1. op' = [op EXCEPT ![o] = [op[o] EXCEPT !.stage = "content"]] /\ Opening(op[o])
        BY <1>0, <1>2 DEF OpenKey, Known, Walking, Resting, Opening, Giving, Creating, Moving
    <2>2. op' = [op EXCEPT ![o].stage = "content", ![o].got = op[o].got]
        <3>1. PICK r : r = op[o]
            OBVIOUS
        <3>2. [r EXCEPT !.stage = "content"] = [[r EXCEPT !.stage = "content"] EXCEPT !.got = r.got]
            BY <1>0, <3>1 DEF Known
        <3> QED BY <1>0, <2>1, <3>1, <3>2
    <2> QED BY <1>1, <2>1, <2>2, OpenGoesOn DEF Inv
<1>3. CASE ~Opens(WrapOf(o))
    <2>1. op' = [op EXCEPT ![o] = Idle]
        BY <1>3 DEF OpenKey
    <2> QED BY <1>1, <2>1, OneEnds DEF Inv
<1> QED BY <1>2, <1>3

\* What a row shows, or no longer shows.
LEMMA Showing ==
    ASSUME PageInv, NEW n \in Id, NEW c, c.as \in {"hidden", "text", "descriptor", "files"},
           shown' = shown \/ shown' = [shown EXCEPT ![n] = c],
           view' = view, modal' = modal, deeds' \in 0..MaxDeeds, saved' = saved
    PROVE  PageInv'
BY DEF PageInv, VerdictOfPicked

LEMMA OpenContentKeeps ==
    ASSUME Inv, NEW o \in Op, OpenContent(o)
    PROVE  Inv'
<1>0. RowsInv /\ KeysInv /\ PageInv /\ Known(op[o]) /\ op = [p \in Op |-> op[p]]
    BY DEF Inv, OpsInv
<1>1. Opening(op[o]) /\ op[o].id \in Id
    BY <1>0 DEF OpenContent, Known, Walking, Resting, Opening, Giving, Creating, Moving
<1>2. row' = row /\ keys' = keys /\ RowsStay /\ RowsInv' /\ KeysInv'
      /\ view' = view /\ modal' = modal /\ deeds' \in 0..MaxDeeds /\ saved' = saved
    BY <1>0, SameRows, SameKeys DEF OpenContent, PageInv
<1>3. CASE op' = [op EXCEPT ![o].stage = "download"] /\ UNCHANGED shown
    <2>1. PICK c : c = Hidden
        OBVIOUS
    <2>2. PageInv'
        BY <1>0, <1>1, <1>2, <1>3, <2>1, Showing DEF Hidden
    <2>3. op' = [op EXCEPT ![o].stage = "download", ![o].got = op[o].got]
        <3>1. PICK r : r = op[o]
            OBVIOUS
        <3>2. [r EXCEPT !.stage = "download"] = [[r EXCEPT !.stage = "download"] EXCEPT !.got = r.got]
            BY <1>0, <3>1 DEF Known
        <3> QED BY <1>0, <1>3, <3>1, <3>2
    <2> QED BY <1>1, <1>2, <2>2, <2>3, OpenGoesOn DEF Inv
<1>4. CASE ~(op[o].id \in Live /\ HasDownload(row[op[o].id].shape))
    <2>1. op' = [op EXCEPT ![o] = Idle]
        BY <1>4 DEF OpenContent
    <2>2. PICK c : c = [as |-> IF row[op[o].id].shape = <<>> THEN "text" ELSE "descriptor", files |-> <<>>]
        OBVIOUS
    <2>3. c.as \in {"hidden", "text", "descriptor", "files"}
        BY <2>2
    <2>4. shown' = shown \/ shown' = [shown EXCEPT ![op[o].id] = c]
        BY <1>4, <2>2 DEF OpenContent
    <2> QED BY <1>0, <1>1, <1>2, <2>1, <2>3, <2>4, Showing, OneEnds DEF Inv
<1> QED BY <1>3, <1>4 DEF OpenContent

LEMMA DownloadKeeps ==
    ASSUME Inv, NEW o \in Op, Download(o)
    PROVE  Inv'
<1>0. RowsInv /\ KeysInv /\ PageInv /\ Known(op[o]) /\ op = [p \in Op |-> op[p]]
    BY DEF Inv, OpsInv
<1>1. Opening(op[o]) /\ op[o].id \in Id /\ op[o].stage = "download"
    BY <1>0 DEF Download, Known, Walking, Resting, Opening, Giving, Creating, Moving
<1>2. row' = row /\ keys' = keys /\ RowsStay /\ RowsInv' /\ KeysInv'
      /\ view' = view /\ modal' = modal /\ deeds' \in 0..MaxDeeds /\ saved' = saved
    BY <1>0, SameRows, SameKeys DEF Download, PageInv
<1> DEFINE got == Append(op[o].got, Downloaded(op[o].id, Len(op[o].got) + 1))
<1>3. \/ op' = [op EXCEPT ![o] = Idle] /\ shown' = [shown EXCEPT ![op[o].id] = [as |-> "descriptor", files |-> <<>>]]
      \/ op' = [op EXCEPT ![o] = Idle] /\ shown' = [shown EXCEPT ![op[o].id] = [as |-> "files", files |-> got]]
      \/ op' = [op EXCEPT ![o].got = got] /\ shown' = shown
    BY DEF Download
<1>4. ASSUME NEW c, c.as \in {"descriptor", "files"}, op' = [op EXCEPT ![o] = Idle],
             shown' = [shown EXCEPT ![op[o].id] = c]
      PROVE  Inv'
    <2>1. PageInv'
        <3>1. c.as \in {"hidden", "text", "descriptor", "files"} /\ (shown' = shown \/ shown' = [shown EXCEPT ![op[o].id] = c])
            BY <1>4
        <3> QED BY <1>0, <1>1, <1>2, <3>1, Showing
    <2> QED BY <1>2, <1>4, <2>1, OneEnds DEF Inv
<1>5. CASE op' = [op EXCEPT ![o].got = got] /\ shown' = shown
    <2>1. PageInv'
        <3>1. saved' \subseteq Id
            BY <1>0, <1>2 DEF PageInv
        <3> QED BY <1>0, <1>2, <1>5, <3>1, SamePage
    <2> HIDE DEF got
    <2>2. op' = [op EXCEPT ![o].stage = "download", ![o].got = got]
        <3>1. PICK r : r = op[o]
            OBVIOUS
        <3>2. [r EXCEPT !.got = got] = [[r EXCEPT !.stage = "download"] EXCEPT !.got = got]
            BY <1>0, <1>1, <3>1 DEF Known
        <3> QED BY <1>0, <1>5, <3>1, <3>2
    <2> QED BY <1>1, <1>2, <2>1, <2>2, OpenGoesOn DEF Inv
<1> HIDE DEF got
<1>6. PICK c, d : c = [as |-> "descriptor", files |-> <<>>] /\ d = [as |-> "files", files |-> got]
    OBVIOUS
<1>7. c.as = "descriptor" /\ d.as = "files"
    BY <1>6
<1> QED BY <1>3, <1>4, <1>5, <1>6, <1>7

LEMMA AllUntouched ==
    ASSUME Inv, RowsStay, keys' = keys, op' = op
    PROVE  OpsInv' /\ OwnKeys' /\ WalksInv' /\ LoopsInv'
<1>1. \A p \in Op : Known(op[p])' /\ WalkInv(op[p])' /\ LoopInv(op[p])'
    BY Untouched
<1> QED BY <1>1 DEF Inv, OpsInv, OwnKeys, WalksInv, LoopsInv

LEMMA LockKeeps ==
    ASSUME Inv, NEW n \in Id, Lock(n)
    PROVE  Inv'
<1>0. RowsInv /\ KeysInv /\ PageInv
    BY DEF Inv
<1>1. row' = row /\ keys' = keys /\ op' = op
    BY DEF Lock
<1>2. PageInv'
    <2>1. deeds' \in 0..MaxDeeds
        BY <1>0, Deed DEF Lock
    <2>2. PICK c : c = Hidden
        OBVIOUS
    <2>3. c.as = "hidden"
        BY <2>2 DEF Hidden
    <2>4. shown' = [shown EXCEPT ![n] = c] /\ view' = view /\ modal' = modal /\ saved' = saved
        BY <2>2 DEF Lock
    <2>5. c.as \in {"hidden", "text", "descriptor", "files"} /\ (shown' = shown \/ shown' = [shown EXCEPT ![n] = c])
        BY <2>3, <2>4
    <2>6. view' = view /\ modal' = modal /\ saved' = saved
        BY <2>4
    <2> QED BY <1>0, <2>1, <2>5, <2>6, Showing
<1> QED BY <1>0, <1>1, <1>2, SameRows, SameKeys, AllUntouched DEF Inv

----------------------------------------------------------------------------
(* So do creating, sharing and what arrives *)

\* The least number principle.
LEMMA Least == ASSUME NEW T \in SUBSET Nat, T # {} PROVE \E x \in T : \A y \in T : x <= y
<1>1. PICK x \in T : \A y \in T : ~ (<<y, x>> \in OpToRel(<, Nat))
    BY WFMin, NatLessThanWellFounded
<1>2. \A y \in T : ~ (y < x)
    BY <1>1 DEF OpToRel
<1> QED BY <1>2

LEMMA NextIn ==
    ASSUME Unused # {}
    PROVE  Next1 \in Id /\ row[Next1].who = "none"
<1>1. Unused \in SUBSET Nat
    BY Consts DEF Unused
<1>2. \E x \in Unused : \A y \in Unused : x <= y
    BY <1>1, Least
<1>3. Next1 \in Unused
    BY <1>2 DEF Next1
<1> QED BY <1>3 DEF Unused

\* A row is made of one never used.
LEMMA RowMade ==
    ASSUME RowsInv, Unused # {}, NEW r, row' = [row EXCEPT ![Next1] = r],
           r = [who |-> r.who, wrap |-> r.wrap, shape |-> r.shape, chunks |-> r.chunks, grant |-> r.grant],
           r.who \in {"own", "shared", "signer"}, r.wrap \in Wrap, r.wrap.of = Next1, r.grant = 0
    PROVE  RowsStay /\ RowsInv'
BY NextIn DEF RowsInv, RowsStay, Stays

LEMMA RowKnown ==
    ASSUME NEW who \in {"own", "shared", "signer"}, NEW k \in Kid, NEW n \in Id, NEW shape, NEW r,
           r = Row(who, k, n, shape)
    PROVE  /\ r = [who |-> who, wrap |-> r.wrap, shape |-> shape, chunks |-> r.chunks, grant |-> 0]
           /\ r.wrap = Seal(k, n, "content") /\ r.wrap \in Wrap /\ r.wrap.of = n
BY Consts DEF Row, NoRow, Seal, Wrap

LEMMA StartCreateKeeps ==
    ASSUME Inv, NEW o \in Op, StartCreate(o)
    PROVE  Inv'
<1>0. RowsInv /\ KeysInv /\ PageInv /\ op = [p \in Op |-> op[p]]
    BY DEF Inv, OpsInv
<1>1. PICK k \in keys.held, shape \in Shapes :
          op' = [op EXCEPT ![o] = [Idle EXCEPT !.kind = "create", !.stage = "post", !.key = k, !.got = shape]]
    BY Zenon DEF StartCreate
<1>2. PICK r : r = [Idle EXCEPT !.kind = "create", !.stage = "post", !.key = k, !.got = shape]
    OBVIOUS
<1>3. op' = [op EXCEPT ![o] = r] /\ op'[o] = r
    BY <1>0, <1>1, <1>2
<1>4. /\ r.kind = "create" /\ r.stage = "post" /\ r.at = 0 /\ r.key = k
      /\ r = [kind |-> r.kind, stage |-> r.stage, id |-> r.id, at |-> r.at,
              key |-> r.key, got |-> r.got, start |-> r.start, cut |-> r.cut]
    BY <1>2 DEF Idle
<1>5. Known(op[o])'
    <2>1. k \in Kid
        BY <1>0 DEF KeysInv
    <2> QED BY <1>3, <1>4, <2>1 DEF Known, Creating
<1>6. row' = row /\ keys' = keys /\ PageInv'
    <2>1. deeds' \in 0..MaxDeeds
        BY <1>0, Deed DEF StartCreate
    <2>2. saved' \subseteq Id /\ view' = view /\ shown' = shown /\ modal' = modal
        BY <1>0 DEF StartCreate, PageInv
    <2> QED BY <1>0, <2>1, <2>2, SamePage DEF StartCreate
<1> QED BY <1>0, <1>3, <1>4, <1>5, <1>6, SameRows, SameKeys, OneSettles DEF Inv

LEMMA MadeIs ==
    ASSUME RowsInv, NEW o \in Op, op[o].key \in Kid, Unused # {}, row' = Made(o)
    PROVE  RowsStay /\ RowsInv' /\ Next1 \in Id
<1>1. PICK n : n = Next1
    OBVIOUS
<1>2. n \in Id
    BY <1>1, NextIn
<1>3. PICK q : q = Row("own", op[o].key, n, op[o].got)
    OBVIOUS
<1>4. /\ q = [who |-> "own", wrap |-> q.wrap, shape |-> op[o].got, chunks |-> q.chunks, grant |-> 0]
      /\ q.wrap \in Wrap /\ q.wrap.of = n
    BY <1>2, <1>3, RowKnown
<1>5. PICK r : r = [q EXCEPT !.chunks = <<>>]
    OBVIOUS
<1>6. /\ r = [who |-> r.who, wrap |-> r.wrap, shape |-> r.shape, chunks |-> r.chunks, grant |-> r.grant]
      /\ r.who = "own" /\ r.wrap = q.wrap /\ r.grant = 0
    BY <1>4, <1>5
<1>7. row' = [row EXCEPT ![Next1] = r]
    BY <1>1, <1>3, <1>5 DEF Made
<1> QED BY <1>1, <1>2, <1>4, <1>6, <1>7, RowMade

\* The rows stay but for chunks of one, which no walk or loop looks at.
LEMMA ChunkKept ==
    ASSUME RowsInv, NEW n \in Id, NEW c, row' = [row EXCEPT ![n].chunks = c]
    PROVE  RowsStay /\ RowsInv'
BY DEF RowsInv, RowsStay, Stays

LEMMA UploadGoesOn ==
    ASSUME Inv, RowsStay, keys' = keys, NEW o \in Op, NEW r, op' = [op EXCEPT ![o] = r],
           r.kind = "create", r.stage = "upload", r.id \in Id, r.at \in Nat, r.key \in Kid,
           r = [kind |-> r.kind, stage |-> r.stage, id |-> r.id, at |-> r.at,
                key |-> r.key, got |-> r.got, start |-> r.start, cut |-> r.cut]
    PROVE  OpsInv' /\ OwnKeys' /\ WalksInv' /\ LoopsInv'
<1>1. op'[o] = r
    BY DEF Inv, OpsInv
<1>2. Known(op[o])'
    BY <1>1 DEF Known, Creating
<1> QED BY <1>2, OneSettles

LEMMA PostCreateKeeps ==
    ASSUME Inv, NEW o \in Op, PostCreate(o)
    PROVE  Inv'
<1>0. RowsInv /\ KeysInv /\ PageInv /\ op = [p \in Op |-> op[p]] /\ Known(op[o])
    BY DEF Inv, OpsInv
<1>1. Creating(op[o]) /\ op[o].key \in Kid /\ op[o].at \in Nat
    BY <1>0 DEF PostCreate, Known, Walking, Resting, Opening, Giving, Creating, Moving
<1>2. /\ keys' = keys /\ KeysInv' /\ view' = view /\ shown' = shown /\ modal' = modal
      /\ deeds' \in 0..MaxDeeds /\ saved \subseteq Id
    BY <1>0, SameKeys DEF PostCreate, PageInv
<1>3. CASE Unused = {}
    <2>1. op' = [op EXCEPT ![o] = Idle] /\ row' = row /\ saved' = saved
        BY <1>3 DEF PostCreate
    <2>2. PageInv'
        BY <1>0, <1>2, <2>1, SamePage
    <2> QED BY <1>0, <1>2, <2>1, <2>2, SameRows, OneEnds DEF Inv
<1>4. CASE Unused # {}
    <2>1. row' = Made(o)
        BY <1>4 DEF PostCreate
    <2>2. RowsStay /\ RowsInv' /\ Next1 \in Id
        BY <1>0, <1>1, <1>4, <2>1, MadeIs
    <2>3. CASE Stored(o, Next1)
        <3>1. PageInv'
            BY <1>0, <1>2, <2>2, <2>3, SamePage DEF Stored
        <3> QED BY <1>2, <2>2, <2>3, <3>1, WalkStarts DEF Inv, Stored
    <2>4. CASE op' = [op EXCEPT ![o].stage = "upload", ![o].id = Next1] /\ saved' = saved
        <3>1. PageInv'
            BY <1>0, <1>2, <2>4, SamePage
        <3>2. PICK r : r = op'[o]
            OBVIOUS
        <3>3. op' = [op EXCEPT ![o] = r]
            BY <1>0, <2>4, <3>2
        <3>4. /\ r.kind = "create" /\ r.stage = "upload" /\ r.id \in Id /\ r.at \in Nat /\ r.key \in Kid
              /\ r = [kind |-> r.kind, stage |-> r.stage, id |-> r.id, at |-> r.at,
                      key |-> r.key, got |-> r.got, start |-> r.start, cut |-> r.cut]
            BY <1>0, <1>1, <2>2, <2>4, <3>2 DEF Known, Creating
        <3> QED BY <1>2, <2>2, <3>1, <3>3, <3>4, UploadGoesOn DEF Inv
    <2> QED BY <1>4, <2>3, <2>4 DEF PostCreate
<1> QED BY <1>3, <1>4

LEMMA UploadKeeps ==
    ASSUME Inv, NEW o \in Op, Upload(o)
    PROVE  Inv'
<1>0. RowsInv /\ KeysInv /\ PageInv /\ op = [p \in Op |-> op[p]] /\ Known(op[o])
    BY DEF Inv, OpsInv
<1>1. Creating(op[o]) /\ op[o].id \in Id /\ op[o].stage = "upload" /\ op[o].at \in Nat
    BY <1>0 DEF Upload, Known, Walking, Resting, Opening, Giving, Creating, Moving
<1>2. /\ keys' = keys /\ KeysInv' /\ view' = view /\ shown' = shown /\ modal' = modal
      /\ deeds' \in 0..MaxDeeds /\ saved \subseteq Id
    BY <1>0, SameKeys DEF Upload, PageInv
<1>3. CASE op[o].id \notin Live
    <2>1. op' = [op EXCEPT ![o] = Idle] /\ row' = row /\ saved' = saved
        BY <1>3 DEF Upload
    <2>2. PageInv'
        BY <1>0, <1>2, <2>1, SamePage
    <2> QED BY <1>0, <1>2, <2>1, <2>2, SameRows, OneEnds DEF Inv
<1>4. CASE op[o].id \in Live
    <2>1. PICK c : row' = [row EXCEPT ![op[o].id].chunks = c]
        BY <1>4 DEF Upload
    <2>2. RowsStay /\ RowsInv'
        BY <1>0, <1>1, <2>1, ChunkKept
    <2>3. CASE Stored(o, op[o].id)
        <3>1. PageInv'
            BY <1>0, <1>1, <1>2, <2>3, SamePage DEF Stored
        <3> QED BY <1>2, <2>2, <2>3, <3>1, WalkStarts DEF Inv, Stored
    <2>4. CASE op' = [op EXCEPT ![o].at = @ + 1] /\ saved' = saved
        <3>1. PageInv'
            BY <1>0, <1>2, <2>4, SamePage
        <3>2. PICK r : r = op'[o]
            OBVIOUS
        <3>3. op' = [op EXCEPT ![o] = r]
            BY <1>0, <2>4, <3>2
        <3>4. /\ r.kind = "create" /\ r.stage = "upload" /\ r.id \in Id /\ r.at \in Nat /\ r.key \in Kid
              /\ r = [kind |-> r.kind, stage |-> r.stage, id |-> r.id, at |-> r.at,
                      key |-> r.key, got |-> r.got, start |-> r.start, cut |-> r.cut]
            BY <1>0, <1>1, <2>4, <3>2 DEF Known, Creating
        <3> QED BY <1>2, <2>2, <3>1, <3>3, <3>4, UploadGoesOn DEF Inv
    <2> QED BY <1>4, <2>3, <2>4 DEF Upload
<1> QED BY <1>3, <1>4

LEMMA CreateFailsKeeps ==
    ASSUME Inv, NEW o \in Op, CreateFails(o)
    PROVE  Inv'
<1>0. RowsInv /\ KeysInv /\ PageInv /\ Known(op[o])
    BY DEF Inv, OpsInv
<1>1. op[o].key \in Kid
    BY <1>0 DEF CreateFails, Known, Walking, Resting, Opening, Giving, Creating, Moving
<1>2. row' = row \/ (row' = Made(o) /\ Unused # {})
    BY DEF CreateFails
<1>3. RowsStay /\ RowsInv'
    BY <1>0, <1>1, <1>2, SameRows, MadeIs
<1>4. PageInv'
    <2>1. deeds' \in 0..MaxDeeds
        BY <1>0, Deed DEF CreateFails
    <2>2. saved' \subseteq Id /\ view' = view /\ shown' = shown /\ modal' = modal
        BY <1>0 DEF CreateFails, PageInv
    <2> QED BY <1>0, <2>1, <2>2, SamePage
<1>5. keys' = keys /\ op' = [op EXCEPT ![o] = Idle]
    BY DEF CreateFails
<1> QED BY <1>0, <1>3, <1>4, <1>5, SameKeys, OneEnds DEF Inv

LEMMA ArriveKeeps ==
    ASSUME Inv, NEW who \in {"own", "shared", "signer"}, Arrive(who)
    PROVE  Inv'
<1>0. RowsInv /\ KeysInv /\ PageInv
    BY DEF Inv
<1>1. PICK k \in {1, keys.cur}, has \in {"content", "encKey"} :
          row' = [row EXCEPT ![Next1] = [Row(who, k, Next1, <<>>) EXCEPT !.wrap.has = has]]
    BY Zenon DEF Arrive
<1>2. PICK n : n = Next1
    OBVIOUS
<1>3. n \in Id /\ Unused # {}
    BY <1>2, NextIn DEF Arrive
<1>4. k \in Kid /\ n \in Nat
    BY <1>0, <1>3, Consts DEF KeysInv, Kid
<1>5. PICK q : q = Row(who, k, n, <<>>)
    OBVIOUS
<1>6. /\ q = [who |-> who, wrap |-> q.wrap, shape |-> <<>>, chunks |-> q.chunks, grant |-> 0]
      /\ q.wrap = Seal(k, n, "content")
    BY <1>3, <1>4, <1>5, RowKnown
<1>7. PICK r : r = [q EXCEPT !.wrap.has = has]
    OBVIOUS
<1>8. /\ r = [who |-> r.who, wrap |-> r.wrap, shape |-> r.shape, chunks |-> r.chunks, grant |-> r.grant]
      /\ r.who = who /\ r.wrap = [q.wrap EXCEPT !.has = has] /\ r.grant = 0
    BY <1>6, <1>7
<1>9. r.wrap \in Wrap /\ r.wrap.of = n
    BY <1>4, <1>6, <1>8 DEF Wrap, Seal
<1>10. row' = [row EXCEPT ![Next1] = r]
    BY <1>1, <1>2, <1>5, <1>7
<1>11. RowsStay /\ RowsInv'
    BY <1>0, <1>2, <1>3, <1>8, <1>9, <1>10, RowMade
<1>12. PageInv'
    <2>1. deeds' \in 0..MaxDeeds
        BY <1>0, Deed DEF Arrive
    <2> QED BY <1>0, <2>1 DEF Arrive, PageInv, VerdictOfPicked
<1>13. keys' = keys /\ op' = op
    BY DEF Arrive
<1> QED BY <1>0, <1>11, <1>12, <1>13, SameKeys, AllUntouched DEF Inv

LEMMA StartShareKeeps ==
    ASSUME Inv, NEW o \in Op, StartShare(o)
    PROVE  Inv'
<1>0. RowsInv /\ KeysInv /\ PageInv /\ op = [p \in Op |-> op[p]]
    BY DEF Inv, OpsInv
<1>1. PICK i \in DOMAIN view.own :
          op' = [op EXCEPT ![o] = [Idle EXCEPT !.kind = "share", !.stage = "key", !.id = view.own[i].id,
                                               !.start = {view.own[i].wrap}]]
    BY Zenon DEF StartShare
<1>2. PICK s : s = view.own[i]
    OBVIOUS
<1>3. s \in Snap
    BY <1>0, <1>2 DEF PageInv
<1>4. PICK r : r = [Idle EXCEPT !.kind = "share", !.stage = "key", !.id = s.id, !.start = {s.wrap}]
    OBVIOUS
<1>5. op' = [op EXCEPT ![o] = r] /\ op'[o] = r
    BY <1>0, <1>1, <1>2, <1>4
<1>6. /\ r.kind = "share" /\ r.stage = "key" /\ r.id = s.id /\ r.at = 0 /\ r.start = {s.wrap}
      /\ r = [kind |-> r.kind, stage |-> r.stage, id |-> r.id, at |-> r.at,
              key |-> r.key, got |-> r.got, start |-> r.start, cut |-> r.cut]
    BY <1>4 DEF Idle
<1>7. Known(op[o])'
    <2>1. s.id \in Id /\ s.wrap \in Wrap /\ s.wrap.of = s.id
        BY <1>3 DEF Snap
    <2> QED BY <1>5, <1>6, <2>1 DEF Known, Giving
<1>8. row' = row /\ keys' = keys /\ PageInv'
    <2>1. deeds' \in 0..MaxDeeds /\ saved' \subseteq Id /\ view' = view /\ shown' = shown /\ modal' = modal
        BY <1>0 DEF StartShare, PageInv
    <2> QED BY <1>0, <2>1, SamePage DEF StartShare
<1> QED BY <1>0, <1>5, <1>6, <1>7, <1>8, SameRows, SameKeys, OneSettles DEF Inv

\* Closing the dialog, whatever it showed.
LEMMA DialogClosed ==
    ASSUME PageInv, modal' = Blank, view' = view, shown' = shown, deeds' \in 0..MaxDeeds, saved' = saved
    PROVE  PageInv'
<1>1. PICK m : m = Blank
    OBVIOUS
<1>2. /\ m.to = NoOne /\ m.pending = {}
      /\ m = [open |-> m.open, to |-> m.to, pending |-> m.pending, verdict |-> m.verdict]
    BY <1>1 DEF Blank, NoModal
<1> QED BY <1>1, <1>2 DEF PageInv, VerdictOfPicked

LEMMA ShareKeeps ==
    ASSUME Inv, NEW o \in Op, Share(o)
    PROVE  Inv'
<1>0. RowsInv /\ KeysInv /\ PageInv /\ Known(op[o])
    BY DEF Inv, OpsInv
<1>1. Giving(op[o]) /\ op[o].id \in Id
    BY <1>0 DEF Share, Known, Walking, Resting, Opening, Giving, Creating, Moving
<1>2. WrapOf(o).of = op[o].id
    BY <1>1 DEF Giving, WrapOf
<1>3. keys' = keys /\ op' = [op EXCEPT ![o] = Idle] /\ modal' = Blank
      /\ view' = view /\ shown' = shown /\ deeds' \in 0..MaxDeeds /\ saved' = saved
    BY <1>0 DEF Share, PageInv
<1>4. row' = row \/ row' = [row EXCEPT ![op[o].id].grant = op[o].id]
    BY <1>2 DEF Share
<1>5. RowsStay /\ RowsInv'
    <2>1. CASE row' = row
        BY <1>0, <2>1, SameRows
    <2>2. CASE row' = [row EXCEPT ![op[o].id].grant = op[o].id]
        BY <1>0, <1>1, <2>2 DEF RowsInv, RowsStay, Stays
    <2> QED BY <1>4, <2>1, <2>2
<1>6. PageInv'
    BY <1>0, <1>3, DialogClosed
<1> QED BY <1>0, <1>3, <1>5, <1>6, SameKeys, OneEnds DEF Inv

\* The dialog itself: nothing else moves.
LEMMA DialogMoves ==
    ASSUME Inv, row' = row, keys' = keys, op' = op, view' = view, shown' = shown, saved' = saved,
           deeds' \in 0..MaxDeeds, NEW m, modal' = m,
           m = [open |-> m.open, to |-> m.to, pending |-> m.pending, verdict |-> m.verdict],
           m.to \in Recipient \cup {NoOne}, m.pending \subseteq Recipient \cap {m.to},
           m.to # NoOne /\ m.pending = {} => m.verdict = m.to
    PROVE  Inv'
<1>0. RowsInv /\ KeysInv /\ PageInv
    BY DEF Inv
<1>1. PageInv'
    BY <1>0 DEF PageInv, VerdictOfPicked
<1> QED BY <1>0, <1>1, SameRows, SameKeys, AllUntouched DEF Inv

LEMMA OpenModalKeeps ==
    ASSUME Inv, OpenModal
    PROVE  Inv'
<1>1. PICK m : m = [Blank EXCEPT !.open = TRUE]
    OBVIOUS
<1>2. /\ m.to = NoOne /\ m.pending = {} /\ modal' = m
      /\ m = [open |-> m.open, to |-> m.to, pending |-> m.pending, verdict |-> m.verdict]
    BY <1>1 DEF OpenModal, Blank, NoModal
<1>3. deeds' \in 0..MaxDeeds
    BY Deed DEF OpenModal, Inv
<1> QED BY <1>2, <1>3, DialogMoves DEF OpenModal

LEMMA CloseModalKeeps ==
    ASSUME Inv, CloseModal
    PROVE  Inv'
<1>0. RowsInv /\ KeysInv /\ PageInv
    BY DEF Inv
<1>1. PageInv'
    <2>1. deeds' \in 0..MaxDeeds
        BY <1>0 DEF CloseModal, PageInv
    <2> QED BY <1>0, <2>1, DialogClosed DEF CloseModal
<1> QED BY <1>0, <1>1, SameRows, SameKeys, AllUntouched DEF Inv, CloseModal

LEMMA PickKeeps ==
    ASSUME Inv, NEW r \in Recipient, Pick(r)
    PROVE  Inv'
<1>0. /\ modal = [open |-> modal.open, to |-> modal.to, pending |-> modal.pending, verdict |-> modal.verdict]
      /\ deeds \in 0..MaxDeeds
    BY DEF Inv, PageInv
<1>1. PICK m : m = [modal EXCEPT !.to = r, !.pending = {r}]
    OBVIOUS
<1>2. /\ m.to = r /\ m.pending = {r} /\ modal' = m
      /\ m = [open |-> m.open, to |-> m.to, pending |-> m.pending, verdict |-> m.verdict]
    BY <1>0, <1>1 DEF Pick
<1> QED BY <1>0, <1>2, DialogMoves DEF Pick

LEMMA VerdictKeeps ==
    ASSUME Inv, NEW r \in Recipient, Verdict(r)
    PROVE  Inv'
<1>0. /\ modal = [open |-> modal.open, to |-> modal.to, pending |-> modal.pending, verdict |-> modal.verdict]
      /\ modal.to \in Recipient \cup {NoOne} /\ modal.pending \subseteq Recipient \cap {modal.to}
      /\ deeds \in 0..MaxDeeds
    BY DEF Inv, PageInv
<1>1. PICK m : m = [modal EXCEPT !.pending = modal.pending \ {r}, !.verdict = r]
    OBVIOUS
<1>2. /\ m.to = modal.to /\ m.pending = modal.pending \ {r} /\ m.verdict = r /\ modal' = m
      /\ m = [open |-> m.open, to |-> m.to, pending |-> m.pending, verdict |-> m.verdict]
    BY <1>0, <1>1 DEF Verdict
<1>3. r = modal.to
    BY <1>0 DEF Verdict
<1> QED BY <1>0, <1>2, <1>3, DialogMoves DEF Verdict

----------------------------------------------------------------------------
(* Removing, sharing again, new keys *)

\* What a step takes from under a walk or a loop, it cuts.
LEMMA CutKeeps ==
    ASSUME Inv, keys'.cur = keys.cur, Fades, Resealing, NEW c, op' = [o \in Op |-> [op[o] EXCEPT !.cut = c[o]]],
           \A o \in Op : ~c[o] =>
              /\ ~op[o].cut
              /\ op[o].kind \in {"own", "shared"} =>
                    \A m \in Id : row[m].who = op[o].kind => row'[m].who = op[o].kind
              /\ op[o].kind = "rewrap" => keys' = keys /\ \A m \in Stale \ op[o].start : Stays(m)
    PROVE  OpsInv' /\ OwnKeys' /\ WalksInv' /\ LoopsInv'
<1>0. KeysInv /\ \A o \in Op : Known(op[o]) /\ WalkInv(op[o]) /\ LoopInv(op[o])
    BY DEF Inv, OpsInv, WalksInv, LoopsInv
<1>1. ASSUME NEW o \in Op
      PROVE  /\ op'[o] = [kind |-> op[o].kind, stage |-> op[o].stage, id |-> op[o].id, at |-> op[o].at,
                          key |-> op[o].key, got |-> op[o].got, start |-> op[o].start, cut |-> c[o]]
    <2>1. PICK q : q = op[o]
        OBVIOUS
    <2>2. q = [kind |-> q.kind, stage |-> q.stage, id |-> q.id, at |-> q.at,
               key |-> q.key, got |-> q.got, start |-> q.start, cut |-> q.cut]
        BY <1>0, <2>1 DEF Known
    <2>3. PICK r : r = [q EXCEPT !.cut = c[o]]
        OBVIOUS
    <2>4. r = [kind |-> q.kind, stage |-> q.stage, id |-> q.id, at |-> q.at,
               key |-> q.key, got |-> q.got, start |-> q.start, cut |-> c[o]]
        BY <2>2, <2>3
    <2> QED BY <2>1, <2>3, <2>4
<1>2. ASSUME NEW o \in Op PROVE Resumes(o) /\ op'[o].cut = c[o] /\ Known(op[o])'
    <2>1. Resumes(o) /\ op'[o].cut = c[o]
        BY <1>1 DEF Resumes
    <2>2. op'[o] = [kind |-> op'[o].kind, stage |-> op'[o].stage, id |-> op'[o].id, at |-> op'[o].at,
                    key |-> op'[o].key, got |-> op'[o].got, start |-> op'[o].start, cut |-> op'[o].cut]
        BY <1>1
    <2>3. \/ Resting(op[o])' \/ Walking(op[o])' \/ Opening(op[o])' \/ Giving(op[o])'
          \/ Creating(op[o])' \/ Moving(op[o])'
        <3>1. Resting(op[o]) \/ Walking(op[o]) \/ Opening(op[o]) => Resting(op[o])' \/ Walking(op[o])' \/ Opening(op[o])'
            BY <2>1 DEF Resumes, Resting, Walking, Opening
        <3>2. Giving(op[o]) \/ Creating(op[o]) => Giving(op[o])' \/ Creating(op[o])'
            BY <2>1 DEF Resumes, Giving, Creating
        <3>3. Moving(op[o]) => Moving(op[o])'
            BY <2>1 DEF Resumes, Moving
        <3> QED BY <1>0, <3>1, <3>2, <3>3 DEF Known
    <2>4. op'[o].at \in Nat
        BY <1>0, <2>1 DEF Known, Resumes
    <2> QED BY <2>1, <2>2, <2>3, <2>4 DEF Known
<1>3. OpsInv'
    BY <1>2 DEF OpsInv
<1>4. OwnKeys'
    BY <1>2 DEF Inv, OwnKeys, Resumes
<1>5. ASSUME NEW o \in Op, Walking(op[o])', ~op'[o].cut PROVE WalkHolds(op[o])'
    <2>1. Walking(op[o]) /\ ~c[o] /\ ~op[o].cut
        BY <1>2, <1>5 DEF Walking, Resumes
    <2>2. \A m \in Id : row[m].who = op[o].kind => row'[m].who = op[o].kind
        BY <2>1 DEF Walking
    <2>3. WalkHolds(op[o])
        BY <1>0, <2>1 DEF WalkInv
    <2> QED BY <1>0, <1>2, <2>1, <2>2, <2>3, WalkKept
<1>6. ASSUME NEW o \in Op, Moving(op[o])', ~op'[o].cut, op'[o].key = keys'.cur PROVE LoopHolds(op[o])'
    <2>1. Moving(op[o]) /\ ~c[o] /\ ~op[o].cut /\ op[o].key = keys.cur
        BY <1>2, <1>6 DEF Moving, Resumes
    <2>2. keys' = keys /\ \A m \in Stale \ op[o].start : Stays(m)
        BY <2>1 DEF Moving
    <2>3. LoopHolds(op[o])
        BY <1>0, <2>1 DEF LoopInv
    <2> QED BY <1>0, <1>2, <2>1, <2>2, <2>3, LoopKept
<1> QED BY <1>3, <1>4, <1>5, <1>6 DEF WalksInv, WalkInv, LoopsInv, LoopInv

LEMMA TakeAwayKeeps ==
    ASSUME Inv, NEW n \in Id, TakeAway(n)
    PROVE  Inv'
<1>0. RowsInv /\ KeysInv /\ PageInv /\ op = [p \in Op |-> op[p]]
    BY DEF Inv, OpsInv
<1>1. row' = [row EXCEPT ![n].who = "gone", ![n].chunks = <<>>, ![n].grant = 0] /\ keys' = keys
    BY DEF TakeAway
<1>2. n \in Live /\ row[n].who # "none"
    BY DEF TakeAway, Live
<1>3. /\ \A m \in Id : m # n => row'[m] = row[m]
      /\ row'[n].who = "gone" /\ row'[n].wrap = row[n].wrap
      /\ RowsInv'
    <2>1. PICK q, r : q = row[n] /\ r = row'[n]
        OBVIOUS
    <2>2. q = [who |-> q.who, wrap |-> q.wrap, shape |-> q.shape, chunks |-> q.chunks, grant |-> q.grant]
        BY <1>0, <2>1 DEF RowsInv
    <2>3. r = [[[q EXCEPT !.who = "gone"] EXCEPT !.chunks = <<>>] EXCEPT !.grant = 0]
        BY <1>0, <1>1, <2>1 DEF RowsInv
    <2>4. /\ r.who = "gone" /\ r.wrap = q.wrap /\ r.grant = 0
          /\ r = [who |-> r.who, wrap |-> r.wrap, shape |-> r.shape, chunks |-> r.chunks, grant |-> r.grant]
        BY <2>2, <2>3
    <2>5. row' = [m \in Id |-> row'[m]] /\ \A m \in Id : m # n => row'[m] = row[m]
        BY <1>0, <1>1 DEF RowsInv
    <2>6. q.wrap \in Wrap /\ q.wrap.of = n
        BY <1>0, <1>2, <2>1 DEF RowsInv
    <2> QED BY <1>0, <2>1, <2>4, <2>5, <2>6 DEF RowsInv
<1>4. Fades /\ Resealing
    BY <1>3 DEF Fades, Resealing
<1>5. PageInv'
    <2>1. deeds' \in 0..MaxDeeds
        BY <1>0, Deed DEF TakeAway
    <2>2. shown' = shown /\ modal' = modal /\ saved' = saved
          /\ (view' = view \/ view' = [view EXCEPT !.own = Without(@, n), !.shared = Without(@, n)])
        BY DEF TakeAway
    <2>3. Without(view.own, n) \in Seq(Snap) /\ Without(view.shared, n) \in Seq(Snap)
        BY <1>0, WithoutIs DEF PageInv
    <2>4. CASE view' = view
        BY <1>0, <2>1, <2>2, <2>4 DEF PageInv, VerdictOfPicked
    <2>5. CASE view' = [view EXCEPT !.own = Without(@, n), !.shared = Without(@, n)]
        <3>1. view' = [own |-> Without(view.own, n), shared |-> Without(view.shared, n), news |-> view.news]
            BY <1>0, <2>5 DEF PageInv
        <3> HIDE <2>5
        <3> QED BY <1>0, <2>1, <2>2, <2>3, <3>1 DEF PageInv, VerdictOfPicked
    <2> QED BY <2>2, <2>4, <2>5
<1>6. PICK c : c = [o \in Op |-> op[o].cut \/ op[o].kind = row[n].who \/ Skews(o, n)]
    OBVIOUS
<1>7. op' = [o \in Op |-> [op[o] EXCEPT !.cut = c[o]]]
    BY <1>6 DEF TakeAway, Cut
<1>8. ASSUME NEW o \in Op, ~c[o]
      PROVE  /\ ~op[o].cut
             /\ op[o].kind \in {"own", "shared"} =>
                    \A m \in Id : row[m].who = op[o].kind => row'[m].who = op[o].kind
             /\ op[o].kind = "rewrap" => keys' = keys /\ \A m \in Stale \ op[o].start : Stays(m)
    <2>1. ~op[o].cut /\ op[o].kind # row[n].who /\ ~Skews(o, n)
        BY <1>6, <1>8
    <2>2. \A m \in Id : row[m].who = op[o].kind => row'[m].who = op[o].kind
        BY <1>3, <2>1
    <2>3. op[o].kind = "rewrap" => \A m \in Stale \ op[o].start : Stays(m)
        BY <1>3, <2>1 DEF Skews, Stays, Stale, Live
    <2> QED BY <1>1, <2>1, <2>2, <2>3
<1>9. OpsInv' /\ OwnKeys' /\ WalksInv' /\ LoopsInv'
    BY <1>1, <1>4, <1>7, <1>8, CutKeeps
<1> QED BY <1>0, <1>1, <1>3, <1>5, <1>9, SameKeys DEF Inv

LEMMA ReshareKeeps ==
    ASSUME Inv, NEW n \in Id, Reshare(n)
    PROVE  Inv'
<1>0. RowsInv /\ KeysInv /\ PageInv
    BY DEF Inv
<1>1. row' = [row EXCEPT ![n].wrap = Seal(keys.cur, n, "content")] /\ keys' = keys
    BY DEF Reshare
<1>2. PICK w : w = Seal(keys.cur, n, "content")
    OBVIOUS
<1>3. w \in Wrap /\ w.of = n /\ w.kid = keys.cur
    BY <1>0, <1>2, Consts DEF Seal, Wrap, KeysInv
<1>4. /\ \A m \in Id : m # n => row'[m] = row[m]
      /\ row'[n].who = row[n].who /\ row'[n].wrap = w
      /\ RowsInv'
    BY <1>0, <1>1, <1>2, <1>3 DEF RowsInv
<1>5. Fades /\ Resealing
    BY <1>3, <1>4 DEF Fades, Resealing
<1>6. PageInv'
    <2>1. deeds' \in 0..MaxDeeds
        BY <1>0, Deed DEF Reshare
    <2>2. saved' \subseteq Id /\ view' = view /\ shown' = shown /\ modal' = modal
        BY <1>0 DEF Reshare, PageInv
    <2> QED BY <1>0, <2>1, <2>2, SamePage
<1>7. PICK c : c = [o \in Op |-> op[o].cut \/ Skews(o, n)]
    OBVIOUS
<1>8. op' = [o \in Op |-> [op[o] EXCEPT !.cut = c[o]]]
    BY <1>7 DEF Reshare
<1>9. ASSUME NEW o \in Op, ~c[o]
      PROVE  /\ ~op[o].cut
             /\ op[o].kind \in {"own", "shared"} =>
                    \A m \in Id : row[m].who = op[o].kind => row'[m].who = op[o].kind
             /\ op[o].kind = "rewrap" => keys' = keys /\ \A m \in Stale \ op[o].start : Stays(m)
    <2>1. ~op[o].cut /\ ~Skews(o, n)
        BY <1>7, <1>9
    <2>2. op[o].kind = "rewrap" => \A m \in Stale \ op[o].start : Stays(m)
        BY <1>4, <2>1 DEF Skews, Stays, Stale, Live
    <2> QED BY <1>1, <1>4, <2>1, <2>2
<1>10. OpsInv' /\ OwnKeys' /\ WalksInv' /\ LoopsInv'
    BY <1>1, <1>5, <1>8, <1>9, CutKeeps
<1> QED BY <1>0, <1>1, <1>4, <1>6, <1>10, SameKeys DEF Inv

LEMMA DestroyKeeps ==
    ASSUME Inv, NEW k, Destroy(k)
    PROVE  Inv'
<1>0. RowsInv /\ KeysInv /\ PageInv
    BY DEF Inv
<1>1. row' = row /\ RowsInv' /\ RowsStay
    BY <1>0, SameRows DEF Destroy
<1>2. KeysInv' /\ keys'.cur = keys.cur
    BY <1>0 DEF Destroy, KeysInv
<1>3. PageInv'
    <2>1. deeds' \in 0..MaxDeeds
        BY <1>0, Deed DEF Destroy
    <2>2. saved' \subseteq Id /\ view' = view /\ shown' = shown /\ modal' = modal
        BY <1>0 DEF Destroy, PageInv
    <2> QED BY <1>0, <2>1, <2>2, SamePage
<1>4. PICK c : c = [o \in Op |-> op[o].cut \/ op[o].kind = "rewrap"]
    OBVIOUS
<1>5. op' = [o \in Op |-> [op[o] EXCEPT !.cut = c[o]]]
    BY <1>4 DEF Destroy
<1>6. \A o \in Op : ~c[o] =>
              /\ ~op[o].cut
              /\ op[o].kind \in {"own", "shared"} =>
                    \A m \in Id : row[m].who = op[o].kind => row'[m].who = op[o].kind
              /\ op[o].kind = "rewrap" => keys' = keys /\ \A m \in Stale \ op[o].start : Stays(m)
    BY <1>1, <1>4
<1>7. OpsInv' /\ OwnKeys' /\ WalksInv' /\ LoopsInv'
    <2>1. Fades /\ Resealing
        BY <1>0, <1>1, StayMeans
    <2> QED BY <1>2, <1>5, <1>6, <2>1, CutKeeps
<1> QED BY <1>1, <1>2, <1>3, <1>7 DEF Inv

LEMMA RotateKeeps ==
    ASSUME Inv, NEW o \in Op, Rotate(o)
    PROVE  Inv'
<1>0. RowsInv /\ KeysInv /\ PageInv /\ op = [p \in Op |-> op[p]]
    BY DEF Inv, OpsInv
<1>1. row' = row /\ RowsInv' /\ RowsStay /\ Fades
    BY <1>0, SameRows, StayMeans DEF Rotate
<1>2. keys' = [cur |-> keys.cur + 1, held |-> keys.held \cup {keys.cur + 1}] /\ keys.cur < MaxKey
    BY DEF Rotate
<1>3. keys.cur \in Nat /\ keys'.cur = keys.cur + 1 /\ keys.held \subseteq keys'.held /\ KeysInv'
    <2>1. keys.cur \in 0 .. MaxKey /\ keys.cur + 1 \in 0 .. MaxKey
        BY <1>0, <1>2, Consts DEF KeysInv, Kid
    <2> QED BY <1>0, <1>2, <2>1 DEF KeysInv, Kid
<1>4. PageInv'
    <2>1. deeds' \in 0..MaxDeeds
        BY <1>0, Deed DEF Rotate
    <2>2. saved' \subseteq Id /\ view' = view /\ shown' = shown /\ modal' = modal
        BY <1>0 DEF Rotate, PageInv
    <2> QED BY <1>0, <2>1, <2>2, SamePage
<1> DEFINE T == {n \in Live : Opens(row[n].wrap)}
<1>8. T \subseteq Live /\ T \subseteq Id /\ \A n \in T : Opens(row[n].wrap)
    BY DEF Live
<1> HIDE DEF T
<1>5. PICK r : r = [Idle EXCEPT !.kind = "rewrap", !.stage = "stale", !.key = keys.cur + 1, !.start = T]
    OBVIOUS
<1>6. op' = [op EXCEPT ![o] = r] /\ op'[o] = r /\ op' = [p \in Op |-> op'[p]]
      /\ \A p \in Op : p # o => op'[p] = op[p]
    <2>1. op' = [op EXCEPT ![o] = r]
        BY <1>5 DEF Rotate, T
    <2> QED BY <1>0, <2>1
<1>7. /\ r.kind = "rewrap" /\ r.stage = "stale" /\ r.at = 0 /\ r.key = keys.cur + 1
      /\ r.got = <<>> /\ r.start = T
      /\ r = [kind |-> r.kind, stage |-> r.stage, id |-> r.id, at |-> r.at,
              key |-> r.key, got |-> r.got, start |-> r.start, cut |-> r.cut]
    BY <1>5 DEF Idle
<1>9. Known(op[o])'
    <2>1. <<>> \in Seq(Snap) /\ keys.cur + 1 \in 1 .. keys'.cur
        BY <1>3
    <2>2. Moving(op[o])'
        BY <1>6, <1>7, <1>8, <2>1 DEF Moving
    <2> QED BY <1>6, <1>7, <2>2 DEF Known
<1>10. LoopHolds(op[o])'
    <2>1. Live' = Live /\ T \cap Unused' = {}
        BY <1>1, <1>8 DEF Live, Unused
    <2>2. \A n \in T \cap Live' : Opens(row[n].wrap)'
        BY <1>1, <1>3, <1>8 DEF Opens
    <2>3. ASSUME NEW n \in T PROVE 0 <= Cardinality(Others(op[o], n)')
        <3>1. Others(op[o], n)' \in SUBSET Id
            BY DEF Others, Stale, Live
        <3>2. Cardinality(Others(op[o], n)') \in Nat
            BY <3>1, CountGrows
        <3> QED BY <3>2
    <2> QED BY <1>6, <1>7, <2>1, <2>2, <2>3 DEF LoopHolds
<1>11. ~Walking(op[o])'
    BY <1>6, <1>7 DEF Walking
<1>12. ASSUME NEW p \in Op, p # o PROVE Known(op[p])' /\ WalkInv(op[p])' /\ ~(Moving(op[p])' /\ op'[p].key = keys'.cur)
    <2>1. Known(op[p]) /\ WalkInv(op[p]) /\ op'[p] = op[p]
        BY <1>6, <1>12 DEF Inv, OpsInv, WalksInv
    <2>2. Known(op[p])'
        <3>1. Moving(op[p]) => Moving(op[p])'
            BY <1>3, <2>1 DEF Moving
        <3> QED BY <2>1, <3>1 DEF Known, Resting, Walking, Opening, Giving, Creating
    <2>3. ~(Moving(op[p])' /\ op'[p].key = keys'.cur)
        <3>1. op[p].kind = "rewrap" => op[p].key \in 1 .. keys.cur
            BY <2>1 DEF Known, Resting, Walking, Opening, Giving, Creating, Moving
        <3> QED BY <1>3, <2>1, <3>1 DEF Moving
    <2>4. WalkInv(op[p])'
        <3> SUFFICES ASSUME Walking(op[p])', ~op'[p].cut PROVE WalkHolds(op[p])'
            BY DEF WalkInv
        <3>1. Walking(op[p]) /\ WalkHolds(op[p])
            BY <2>1 DEF Walking, WalkInv
        <3>2. Resumes(p) /\ \A n \in Id : row[n].who = op[p].kind => row'[n].who = op[p].kind
            BY <1>1, <2>1 DEF Resumes
        <3> QED BY <1>1, <2>1, <3>1, <3>2, WalkKept
    <2> QED BY <2>2, <2>3, <2>4
<1>13. OwnKeys'
    <2>1. ASSUME NEW p \in Op, p # o, op'[p].kind = "rewrap" PROVE op'[p].key # r.key
        <3>1. Known(op[p]) /\ op'[p] = op[p]
            BY <1>6, <2>1 DEF Inv, OpsInv
        <3>2. op[p].key \in 1 .. keys.cur
            BY <2>1, <3>1 DEF Known, Resting, Walking, Opening, Giving, Creating, Moving
        <3> QED BY <1>3, <1>7, <3>1, <3>2
    <2> QED BY <1>6, <2>1 DEF Inv, OwnKeys
<1>14. OpsInv'
    BY <1>6, <1>9, <1>12 DEF OpsInv
<1>15. WalksInv' /\ LoopsInv'
    BY <1>10, <1>11, <1>12 DEF WalksInv, WalkInv, LoopsInv, LoopInv
<1> QED BY <1>1, <1>3, <1>4, <1>13, <1>14, <1>15 DEF Inv

----------------------------------------------------------------------------
(* The loop *)

LEMMA LoopStage ==
    ASSUME NEW o \in Op, Known(op[o]), op[o].kind = "rewrap" \/ op[o].stage \in {"stale", "open", "put"}
    PROVE  Moving(op[o]) /\ op[o].at \in Nat
BY DEF Known, Walking, Resting, Opening, Giving, Creating, Moving

\* As many as a list has places, when no two name the same.
LEMMA Distinct ==
    ASSUME NEW D, IsFiniteSet(D), NEW f, \A i, j \in D : f[i] = f[j] => i = j
    PROVE  LET Y == {f[i] : i \in D} IN IsFiniteSet(Y) /\ Cardinality(Y) = Cardinality(D)
<1> DEFINE Y == {f[i] : i \in D}
           g == [i \in D |-> f[i]]
<1>1. g \in [D -> Y]
    OBVIOUS
<1>2. g \in Injection(D, Y)
    <2>1. \A i, j \in D : g[i] = g[j] => i = j
        OBVIOUS
    <2> QED BY <1>1, <2>1, Fun_IsInj
<1>3. g \in Surjection(D, Y)
    <2>1. \A y \in Y : \E i \in D : g[i] = y
        OBVIOUS
    <2> QED BY <1>1, <2>1, Fun_IsSurj
<1> HIDE DEF Y, g
<1>4. IsFiniteSet(Y) /\ Cardinality(Y) = Cardinality(D)
    BY <1>2, <1>3, FS_Surjection
<1> QED BY <1>4 DEF Y

\* The page past the rows counted so far: if a row to move is not on it, the
\* page is full, and what it could not open is as many rows again before it.
LEMMA PageCounts ==
    ASSUME RowsInv, NEW r, r.start \subseteq Id, NEW at \in Nat,
           \A n \in r.start \cap Live : Opens(row[n].wrap),
           \A n \in r.start \cap Stale : at <= Cardinality(Others(r, n)),
           NEW page, page = StalePage(at)
    PROVE  /\ page \in Seq(Snap)
           /\ \A i \in DOMAIN page : page[i].id \in r.start => Opens(page[i].wrap)
           /\ \A n \in r.start \cap Stale :
                 \/ n \in IdsOf(page)
                 \/ /\ page # <<>> /\ ~LastPage(page)
                    /\ at + Cardinality(Unread(page)) <= Cardinality(Others(r, n) \ ReadIds(page))
<1> DEFINE A == SoonerThan
<1>0. InLine(Stale, A) /\ PageIs(page, Stale, A, at, PageSize)
    BY StaleLine
<1>1. /\ Cardinality(Stale) \in Nat
      /\ \A n \in Stale : Rank(A, n) \in 0 .. Cardinality(Stale) - 1
      /\ \A m, n \in Stale : m \in A[n] <=> Rank(A, m) < Rank(A, n)
      /\ \A n \in Stale : A[n] = {m \in Stale : Sooner(m, n)}
    <2>1. \A n \in Stale : A[n] = {m \in Stale : Sooner(m, n)}
        BY DEF SoonerThan
    <2> HIDE DEF A
    <2> QED BY <1>0, <2>1, RankIs
<1> HIDE DEF A
<1>2. page \in Seq(Snap) /\ Len(page) \in Nat /\ Len(page) <= PageSize /\ DOMAIN page = 1 .. Len(page)
    BY <1>0 DEF PageIs
<1>3. ASSUME NEW i \in DOMAIN page
      PROVE  /\ page[i].id \in Stale /\ page[i].wrap = row[page[i].id].wrap
             /\ Rank(A, page[i].id) = at + i - 1
    BY <1>0, <1>2 DEF PageIs, Snapshot
<1>4. \A i \in DOMAIN page : page[i].id \in r.start => Opens(page[i].wrap)
    BY <1>3 DEF Stale
<1>5. ASSUME NEW n \in r.start \cap Stale, n \notin IdsOf(page)
      PROVE  /\ page # <<>> /\ ~LastPage(page)
             /\ at + Cardinality(Unread(page)) <= Cardinality(Others(r, n) \ ReadIds(page))
    <2>1. \A m \in r.start \cap Stale : at <= Rank(A, m)
        <3> TAKE m \in r.start \cap Stale
        <3>1. A[m] \in SUBSET Id /\ Others(r, m) \in SUBSET A[m]
            BY <1>1 DEF Others, Stale, Live
        <3>2. Cardinality(Others(r, m)) <= Cardinality(A[m]) /\ Cardinality(Others(r, m)) \in Nat
              /\ Cardinality(A[m]) \in Nat
            BY <3>1, CountGrows
        <3> QED BY <3>2 DEF Rank
    <2>2. Rank(A, n) \in Nat /\ Rank(A, n) < Cardinality(Stale)
        BY <1>1
    <2>3. at + PageSize <= Rank(A, n)
        BY <1>0, <2>1, <2>2, <1>5, Consts DEF PageIs
    <2>4. Len(page) = PageSize /\ page # <<>> /\ ~LastPage(page)
        <3>1. ~(Len(page) < PageSize)
            BY <1>0, <1>1, <1>2, <2>2, <2>3, Consts DEF PageIs
        <3> QED BY <1>2, <3>1, Consts DEF LastPage
    <2> DEFINE X == {m \in Stale : Rank(A, m) < at}
               U == Unread(page)
               Y == {page[i].id : i \in U}
               Z == Others(r, n) \ ReadIds(page)
    <2>5. IsFiniteSet(X) /\ Cardinality(X) = at
        <3>1. at \in 0 .. Cardinality(Stale)
            BY <1>1, <2>2, <2>3, Consts
        <3> QED BY <1>0, <3>1, FirstAre
    <2>6. IsFiniteSet(Y) /\ Cardinality(Y) = Cardinality(U) /\ Cardinality(U) \in Nat
        <3>1. IsFiniteSet(U) /\ Cardinality(U) \in Nat
            BY <1>2, UnreadIs
        <3> DEFINE f == [i \in U |-> page[i].id]
        <3>2. \A i, j \in U : f[i] = f[j] => i = j
            <4>1. \A i, j \in DOMAIN page : page[i].id = page[j].id => i = j
                BY <1>2, <1>3
            <4> QED BY <4>1 DEF Unread
        <3>3. Y = {f[i] : i \in U}
            OBVIOUS
        <3> HIDE DEF U, f, Y
        <3>4. LET F == {f[i] : i \in U} IN IsFiniteSet(F) /\ Cardinality(F) = Cardinality(U)
            BY <3>1, <3>2, Distinct
        <3> QED BY <3>1, <3>3, <3>4
    <2>7. X \subseteq Z
        <3>1. ASSUME NEW m \in X PROVE m \in Z
            <4>1. m \in Stale /\ Rank(A, m) < at /\ Rank(A, m) \in Nat
                BY <1>1
            <4>2. m \notin r.start
                BY <2>1, <4>1
            <4>3. Sooner(m, n)
                BY <1>1, <2>1, <2>2, <4>1
            <4>4. m \notin ReadIds(page)
                <5>1. \A i \in DOMAIN page : page[i].id # m
                    BY <1>2, <1>3, <4>1
                <5> QED BY <5>1 DEF ReadIds
            <4> QED BY <4>1, <4>2, <4>3, <4>4 DEF Others
        <3> QED BY <3>1
    <2>8. Y \subseteq Z
        <3>1. ASSUME NEW i \in U PROVE page[i].id \in Z
            <4>1. i \in DOMAIN page /\ ~Opens(page[i].wrap) /\ i \in 1 .. PageSize
                BY <1>2, <2>4 DEF Unread
            <4>2. page[i].id \in Stale /\ Rank(A, page[i].id) = at + i - 1
                BY <1>3, <4>1
            <4>3. page[i].id \notin r.start
                BY <1>4, <4>1
            <4>4. Sooner(page[i].id, n)
                <5>1. Rank(A, page[i].id) < Rank(A, n)
                    BY <2>2, <2>3, <4>1, <4>2, Consts
                <5> QED BY <1>1, <4>2, <5>1
            <4>5. page[i].id \notin ReadIds(page)
                <5>1. \A j \in DOMAIN page : page[j].id = page[i].id => j = i
                    BY <1>2, <1>3, <4>1
                <5> QED BY <5>1 DEF ReadIds
            <4> QED BY <4>2, <4>3, <4>4, <4>5 DEF Others
        <3> QED BY <3>1
    <2>9. X \cap Y = {}
        <3>1. ASSUME NEW i \in U PROVE page[i].id \notin X
            <4>1. i \in DOMAIN page /\ i \in 1 .. Len(page)
                BY <1>2 DEF Unread
            <4> QED BY <1>2, <1>3, <4>1
        <3> QED BY <3>1
    <2>10. Z \in SUBSET Id
        BY DEF Others, Stale, Live
    <2> HIDE DEF X, Y, Z, U
    <2>11. IsFiniteSet(X \cup Y) /\ Cardinality(X \cup Y) = at + Cardinality(U)
        <3>1. Cardinality(X \cup Y) = Cardinality(X) + Cardinality(Y) - Cardinality(X \cap Y)
            BY <2>5, <2>6, FS_Union
        <3>2. Cardinality(X \cap Y) = 0
            BY <2>9, FS_EmptySet
        <3>3. IsFiniteSet(X \cup Y)
            BY <2>5, <2>6, FS_Union
        <3> QED BY <2>5, <2>6, <3>1, <3>2, <3>3
    <2>12. Cardinality(X \cup Y) <= Cardinality(Z)
        <3>1. X \cup Y \in SUBSET Z
            BY <2>7, <2>8
        <3> QED BY <2>10, <3>1, CountGrows
    <2> QED BY <2>4, <2>11, <2>12 DEF U, Z
<1> QED BY <1>2, <1>4, <1>5

\* What a loop has to keep, when neither rows nor keys change.
LEMMA SameLoop ==
    ASSUME row' = row, keys' = keys, NEW o, NEW r, op'[o] = r
    PROVE  LoopHolds(op[o])' <=> LoopHolds(r)
<1>1. Live' = Live /\ Stale' = Stale /\ Unused' = Unused /\ \A w : Opens(w)' <=> Opens(w)
    BY DEF Live, Stale, Unused, Opens
<1>2. \A n : Others(op[o], n)' = Others(r, n)
    BY <1>1 DEF Others, Sooner
<1>3. Unread(op[o].got)' = Unread(r.got)
    BY <1>1 DEF Unread
<1>4. ReadIds(op[o].got)' = ReadIds(r.got) /\ IdsOf(op[o].got)' = IdsOf(r.got)
    BY <1>3 DEF ReadIds, IdsOf
<1>5. LastPage(op[o].got)' <=> LastPage(r.got)
    BY DEF LastPage
<1> QED BY <1>1, <1>2, <1>3, <1>4, <1>5 DEF LoopHolds

\* A loop that goes on, over rows and keys left alone.
LEMMA LoopGoesOn ==
    ASSUME Inv, row' = row, keys' = keys, NEW o \in Op, Moving(op[o]), NEW r, op' = [op EXCEPT ![o] = r],
           r.kind = "rewrap", r.stage \in {"stale", "open", "put"}, r.key = op[o].key, r.at \in Nat,
           r.got \in Seq(Snap), r.start = op[o].start, r.cut = op[o].cut,
           r.stage = "put" => \A i \in DOMAIN r.got : r.got[i].wrap.kid = r.key,
           r = [kind |-> r.kind, stage |-> r.stage, id |-> r.id, at |-> r.at,
                key |-> r.key, got |-> r.got, start |-> r.start, cut |-> r.cut],
           LoopHolds(op[o]) => LoopHolds(r)
    PROVE  OpsInv' /\ OwnKeys' /\ WalksInv' /\ LoopsInv'
<1>1. op'[o] = r /\ LoopInv(op[o]) /\ RowsInv
    BY DEF Inv, OpsInv, LoopsInv
<1>2. Known(op[o])' /\ Moving(op[o])'
    <2>1. Moving(op[o])'
        BY <1>1 DEF Moving
    <2> QED BY <1>1, <2>1 DEF Known
<1>3. WalkInv(op[o])'
    BY <1>1 DEF WalkInv, Walking
<1>4. LoopInv(op[o])'
    <2>1. LoopHolds(op[o])' <=> LoopHolds(r)
        BY <1>1, SameLoop
    <2> QED BY <1>1, <2>1 DEF LoopInv
<1> QED BY <1>1, <1>2, <1>3, <1>4, SameRows, OneMoves DEF Moving

LEMMA FetchStaleKeeps ==
    ASSUME Inv, NEW o \in Op, FetchStale(o)
    PROVE  Inv'
<1>0. RowsInv /\ KeysInv /\ PageInv /\ op = [p \in Op |-> op[p]] /\ Known(op[o])
    BY DEF Inv, OpsInv
<1>1. Moving(op[o]) /\ op[o].at \in Nat /\ op[o].stage = "stale" /\ op[o].start \subseteq Id
    BY <1>0, LoopStage DEF FetchStale, Moving
<1>2. row' = row /\ keys' = keys /\ RowsInv' /\ RowsStay /\ KeysInv'
    BY <1>0, SameRows, SameKeys DEF FetchStale
<1>3. PageInv'
    <2>1. deeds' \in 0..MaxDeeds /\ saved' \subseteq Id /\ view' = view /\ shown' = shown /\ modal' = modal
        BY <1>0 DEF FetchStale, PageInv
    <2> QED BY <1>0, <2>1, SamePage
<1>4. PICK page : page = StalePage(op[o].at)
    OBVIOUS
<1>5. CASE page = <<>>
    <2>1. op' = [op EXCEPT ![o] = Finished]
        BY <1>4, <1>5 DEF FetchStale
    <2> QED BY <1>2, <1>3, <2>1, OneEnds DEF Inv
<1>6. CASE page # <<>>
    <2>1. PICK q : q = op[o]
        OBVIOUS
    <2>2. PICK r : r = [q EXCEPT !.stage = "open", !.got = page]
        OBVIOUS
    <2>3. op' = [op EXCEPT ![o] = r]
        BY <1>4, <1>6, <2>1, <2>2 DEF FetchStale
    <2>4. q = [kind |-> q.kind, stage |-> q.stage, id |-> q.id, at |-> q.at,
               key |-> q.key, got |-> q.got, start |-> q.start, cut |-> q.cut]
        BY <1>0, <2>1 DEF Known
    <2>5. /\ r.kind = q.kind /\ r.stage = "open" /\ r.at = q.at /\ r.key = q.key /\ r.got = page
          /\ r.start = q.start /\ r.cut = q.cut
          /\ r = [kind |-> r.kind, stage |-> r.stage, id |-> r.id, at |-> r.at,
                  key |-> r.key, got |-> r.got, start |-> r.start, cut |-> r.cut]
        BY <2>2, <2>4
    <2>6. page \in Seq(Snap)
        BY <1>0, <1>1, <1>4, StaleLine DEF PageIs
    <2>7. ASSUME LoopHolds(op[o]) PROVE LoopHolds(r)
        <3>1. /\ q.start \subseteq Id /\ q.at \in Nat
              /\ \A n \in q.start \cap Live : Opens(row[n].wrap)
              /\ \A n \in q.start \cap Stale : q.at <= Cardinality(Others(q, n))
            BY <1>1, <2>1, <2>7 DEF LoopHolds
        <3>2. page = StalePage(q.at)
            BY <1>4, <2>1
        <3>3. /\ \A i \in DOMAIN page : page[i].id \in q.start => Opens(page[i].wrap)
              /\ \A n \in q.start \cap Stale :
                    \/ n \in IdsOf(page)
                    \/ /\ page # <<>> /\ ~LastPage(page)
                       /\ q.at + Cardinality(Unread(page)) <= Cardinality(Others(q, n) \ ReadIds(page))
            BY <1>0, <3>1, <3>2, PageCounts
        <3>4. \A n : Others(r, n) = Others(q, n)
            BY <2>5 DEF Others
        <3>5. r.start \cap Unused = {}
            BY <2>1, <2>5, <2>7 DEF LoopHolds
        <3> QED BY <2>5, <3>1, <3>3, <3>4, <3>5 DEF LoopHolds
    <2>8. OpsInv' /\ OwnKeys' /\ WalksInv' /\ LoopsInv'
        <3>1. r.kind = "rewrap"
            BY <1>1, <2>1, <2>5 DEF Moving
        <3> QED BY <1>1, <1>2, <2>1, <2>3, <2>5, <2>6, <2>7, <3>1, LoopGoesOn
    <2> QED BY <1>2, <1>3, <2>8 DEF Inv
<1> QED BY <1>5, <1>6

LEMMA OpenPageKeeps ==
    ASSUME Inv, NEW o \in Op, OpenPage(o)
    PROVE  Inv'
<1>0. RowsInv /\ KeysInv /\ PageInv /\ op = [p \in Op |-> op[p]] /\ Known(op[o])
    BY DEF Inv, OpsInv
<1>1. /\ Moving(op[o]) /\ op[o].at \in Nat /\ op[o].stage = "open" /\ op[o].start \subseteq Id
      /\ op[o].got \in Seq(Snap) /\ op[o].key \in 1 .. keys.cur
    BY <1>0, LoopStage DEF OpenPage, Moving
<1>2. row' = row /\ keys' = keys /\ RowsInv' /\ RowsStay /\ KeysInv'
    BY <1>0, SameRows, SameKeys DEF OpenPage
<1>3. PageInv'
    <2>1. deeds' \in 0..MaxDeeds /\ saved' \subseteq Id /\ view' = view /\ shown' = shown /\ modal' = modal
        BY <1>0 DEF OpenPage, PageInv
    <2> QED BY <1>0, <2>1, SamePage
<1>4. PICK q : q = op[o]
    OBVIOUS
<1>5. PICK page : page = q.got
    OBVIOUS
<1>6. page \in Seq(Snap) /\ q.key \in Kid
    <2>1. keys.cur \in 0 .. MaxKey
        BY <1>0 DEF KeysInv, Kid
    <2> QED BY <1>1, <1>4, <1>5, <2>1, Consts DEF Kid
<1>7. PICK list : list = Resealed(page, q.key)
    OBVIOUS
<1>8. list \in Seq(Snap) /\ IdsOf(list) = ReadIds(page) /\ \A j \in DOMAIN list : list[j].wrap.kid = q.key
    BY <1>6, <1>7, ResealedIs
<1>9. DOMAIN page \ Readable(page) = Unread(page) /\ Readable(page) = DOMAIN page \ Unread(page)
    BY <1>6, ReadableIs
<1>10. Cardinality(Unread(page)) \in Nat
    BY <1>6, UnreadIs
<1>11. CASE Readable(page) = {} /\ LastPage(page)
    <2>1. op' = [op EXCEPT ![o] = Finished]
        BY <1>4, <1>5, <1>11 DEF OpenPage
    <2> QED BY <1>2, <1>3, <2>1, OneEnds DEF Inv
<1>12. CASE ~(Readable(page) = {} /\ LastPage(page))
    <2>1. PICK st : st = IF Readable(page) = {} THEN "stale" ELSE "put"
        OBVIOUS
    <2>2. PICK r : r = [q EXCEPT !.stage = st, !.got = list, !.at = q.at + Cardinality(Unread(page))]
        OBVIOUS
    <2>3. op' = [op EXCEPT ![o] = r]
        BY <1>4, <1>5, <1>7, <1>9, <1>12, <2>1, <2>2 DEF OpenPage
    <2>4. q = [kind |-> q.kind, stage |-> q.stage, id |-> q.id, at |-> q.at,
               key |-> q.key, got |-> q.got, start |-> q.start, cut |-> q.cut]
        BY <1>0, <1>4 DEF Known
    <2>5. /\ r.kind = q.kind /\ r.stage = st /\ r.at = q.at + Cardinality(Unread(page)) /\ r.key = q.key
          /\ r.got = list /\ r.start = q.start /\ r.cut = q.cut
          /\ r = [kind |-> r.kind, stage |-> r.stage, id |-> r.id, at |-> r.at,
                  key |-> r.key, got |-> r.got, start |-> r.start, cut |-> r.cut]
        BY <2>2, <2>4
    <2>6. ASSUME LoopHolds(op[o]) PROVE LoopHolds(r)
        <3>1. /\ q.start \cap Unused = {} /\ \A n \in q.start \cap Live : Opens(row[n].wrap)
              /\ \A i \in DOMAIN page : page[i].id \in q.start => Opens(page[i].wrap)
              /\ \A n \in q.start \cap Stale :
                    \/ n \in IdsOf(page)
                    \/ /\ ~LastPage(page)
                       /\ q.at + Cardinality(Unread(page)) <= Cardinality(Others(q, n) \ ReadIds(page))
            BY <1>1, <1>4, <1>5, <2>6 DEF LoopHolds
        <3>2. \A n \in q.start : n \in IdsOf(page) => n \in ReadIds(page)
            BY <3>1 DEF IdsOf, ReadIds, Unread
        <3>3. \A n : Others(r, n) = Others(q, n)
            BY <2>5 DEF Others
        <3>4. CASE Readable(page) = {}
            <4>1. ReadIds(page) = {}
                BY <1>9, <3>4 DEF ReadIds
            <4>2. \A n \in q.start \cap Stale : r.at <= Cardinality(Others(q, n))
                <5> TAKE n \in q.start \cap Stale
                <5>1. q.at + Cardinality(Unread(page)) <= Cardinality(Others(q, n) \ ReadIds(page))
                    BY <3>1, <3>2, <4>1
                <5>2. Others(q, n) \ ReadIds(page) = Others(q, n)
                    BY <4>1
                <5> QED BY <2>5, <5>1, <5>2
            <4> QED BY <2>1, <2>5, <3>1, <3>3, <3>4, <4>2 DEF LoopHolds
        <3>5. CASE Readable(page) # {}
            <4>1. \A n \in q.start \cap Stale : n \in IdsOf(list) \/ r.at <= Cardinality(Others(q, n) \ IdsOf(list))
                BY <1>8, <2>5, <3>1, <3>2
            <4> QED BY <2>1, <2>5, <3>1, <3>3, <3>5, <4>1 DEF LoopHolds
        <3> QED BY <3>4, <3>5
    <2>7. OpsInv' /\ OwnKeys' /\ WalksInv' /\ LoopsInv'
        <3>1. r.kind = "rewrap" /\ r.stage \in {"stale", "open", "put"} /\ r.at \in Nat
            BY <1>1, <1>4, <1>10, <2>1, <2>5 DEF Moving
        <3> QED BY <1>1, <1>2, <1>4, <1>8, <2>3, <2>5, <2>6, <3>1, LoopGoesOn
    <2> QED BY <1>2, <1>3, <2>7 DEF Inv
<1> QED BY <1>11, <1>12

\* The rows of a batch accepted: each keeps its own key, sealed to the key served.
LEMMA RewrapsIs ==
    ASSUME Inv, NEW o \in Op, Moving(op[o]), op[o].stage = "put", Takes(o), row' = Rewraps(o)
    PROVE  /\ RowsInv' /\ Fades /\ Resealing
           /\ \A n \in Id : /\ row'[n].who = row[n].who
                            /\ n \notin IdsOf(op[o].got) => row'[n] = row[n]
                            /\ n \in IdsOf(op[o].got) => row'[n].wrap.kid = keys.cur
<1>0. RowsInv /\ KeysInv
    BY DEF Inv
<1>1. PICK list : list = op[o].got
    OBVIOUS
<1>2. /\ list \in Seq(Snap) /\ IdsOf(list) \subseteq Live
      /\ \A i \in DOMAIN list : list[i].wrap.kid = keys.cur
    BY <1>1 DEF Moving, Takes
<1>3. ASSUME NEW n \in Id
      PROVE  /\ n \notin IdsOf(list) => row'[n] = row[n]
             /\ n \in IdsOf(list) =>
                  /\ row'[n] = [who |-> row[n].who, wrap |-> row'[n].wrap, shape |-> row[n].shape,
                                chunks |-> row[n].chunks, grant |-> row[n].grant]
                  /\ row'[n].who = row[n].who /\ row'[n].grant = row[n].grant
                  /\ row'[n].shape = row[n].shape /\ row'[n].chunks = row[n].chunks
                  /\ row'[n].wrap \in Wrap /\ row'[n].wrap.of = n /\ row'[n].wrap.kid = keys.cur
    <2>1. n \notin IdsOf(list) => row'[n] = row[n]
        BY <1>1 DEF Rewraps
    <2>2. ASSUME n \in IdsOf(list)
          PROVE  /\ row'[n] = [who |-> row[n].who, wrap |-> row'[n].wrap, shape |-> row[n].shape,
                               chunks |-> row[n].chunks, grant |-> row[n].grant]
                 /\ row'[n].who = row[n].who /\ row'[n].grant = row[n].grant
                 /\ row'[n].shape = row[n].shape /\ row'[n].chunks = row[n].chunks
                 /\ row'[n].wrap \in Wrap /\ row'[n].wrap.of = n /\ row'[n].wrap.kid = keys.cur
        <3>1. PICK j \in DOMAIN list : list[j].id = n
            BY <2>2 DEF IdsOf
        <3>2. PICK i : i = CHOOSE k \in DOMAIN list : list[k].id = n
            OBVIOUS
        <3>3. i \in DOMAIN list /\ list[i].id = n
            BY <3>1, <3>2
        <3>4. list[i] \in Snap
            BY <1>2, <3>3
        <3>5. PICK w : w = list[i].wrap
            OBVIOUS
        <3>6. w \in Wrap /\ w.of = n /\ w.kid = keys.cur
            BY <1>2, <3>3, <3>4, <3>5 DEF Snap
        <3>7. PICK q : q = row[n]
            OBVIOUS
        <3>8. q = [who |-> q.who, wrap |-> q.wrap, shape |-> q.shape, chunks |-> q.chunks, grant |-> q.grant]
            BY <1>0, <3>7 DEF RowsInv
        <3>9. row'[n] = [q EXCEPT !.wrap = w]
            BY <1>1, <2>2, <3>2, <3>5, <3>7 DEF Rewraps
        <3>10. row'[n] = [who |-> q.who, wrap |-> w, shape |-> q.shape, chunks |-> q.chunks, grant |-> q.grant]
            BY <3>8, <3>9
        <3>11. PICK r : r = row'[n]
            OBVIOUS
        <3>12. /\ r.who = q.who /\ r.wrap = w /\ r.shape = q.shape /\ r.chunks = q.chunks /\ r.grant = q.grant
               /\ r = [who |-> q.who, wrap |-> r.wrap, shape |-> q.shape, chunks |-> q.chunks, grant |-> q.grant]
            BY <3>10, <3>11
        <3> QED BY <3>6, <3>7, <3>11, <3>12
    <2> QED BY <2>1, <2>2
<1>4. row' = [n \in Id |-> row'[n]]
    BY DEF Rewraps
<1>5. \A n \in IdsOf(list) : row[n].who # "none"
    BY <1>2 DEF Live
<1>6. ASSUME NEW n \in Id PROVE row'[n].who = row[n].who
    <2>1. CASE n \in IdsOf(list)
        BY <1>3, <2>1
    <2>2. CASE n \notin IdsOf(list)
        BY <1>3, <2>2
    <2> QED BY <2>1, <2>2
<1>7. RowsInv'
    <2>1. ASSUME NEW n \in Id
          PROVE  /\ row'[n] = [who |-> row'[n].who, wrap |-> row'[n].wrap, shape |-> row'[n].shape,
                               chunks |-> row'[n].chunks, grant |-> row'[n].grant]
                 /\ row'[n].who \in {"none", "own", "shared", "signer", "gone"}
                 /\ row'[n].wrap \in Wrap
                 /\ row'[n].who # "none" => row'[n].wrap.of = n /\ row'[n].grant \in {0, n}
        <3>1. CASE n \notin IdsOf(list)
            <4>1. row'[n] = row[n]
                BY <1>3, <3>1
            <4> QED BY <1>0, <4>1 DEF RowsInv
        <3>2. CASE n \in IdsOf(list)
            <4>1. /\ row'[n] = [who |-> row[n].who, wrap |-> row'[n].wrap, shape |-> row[n].shape,
                                chunks |-> row[n].chunks, grant |-> row[n].grant]
                  /\ row'[n].who = row[n].who /\ row'[n].grant = row[n].grant
                  /\ row'[n].shape = row[n].shape /\ row'[n].chunks = row[n].chunks
                  /\ row'[n].wrap \in Wrap /\ row'[n].wrap.of = n
                BY <1>3, <3>2
            <4>2. row[n].who \in {"own", "shared", "signer", "none", "gone"} /\ row[n].who # "none"
                  /\ row[n].grant \in {0, n}
                BY <1>0, <1>5, <3>2 DEF RowsInv
            <4> QED BY <4>1, <4>2
        <3> QED BY <3>1, <3>2
    <2> QED BY <1>4, <2>1 DEF RowsInv
<1>8. Fades /\ Resealing
    BY <1>3, <1>6 DEF Fades, Resealing
<1> QED BY <1>1, <1>3, <1>6, <1>7, <1>8

\* A batch accepted disturbs nobody else: no other loop moves to the key served.
LEMMA OthersGoOn ==
    ASSUME Inv, keys' = keys, NEW o \in Op, op[o].kind = "rewrap", op[o].key = keys.cur,
           Fades, \A n \in Id : row'[n].who = row[n].who, NEW p \in Op, p # o, op'[p] = op[p]
    PROVE  Known(op[p])' /\ WalkInv(op[p])' /\ LoopInv(op[p])'
<1>0. Known(op[p]) /\ WalkInv(op[p]) /\ Resumes(p)
    BY DEF Inv, OpsInv, WalksInv, Resumes
<1>1. Known(op[p])'
    BY <1>0 DEF Known, Resting, Walking, Opening, Giving, Creating, Moving
<1>2. WalkInv(op[p])'
    <2> SUFFICES ASSUME Walking(op[p])', ~op'[p].cut PROVE WalkHolds(op[p])'
        BY DEF WalkInv
    <2>1. Walking(op[p]) /\ WalkHolds(op[p])
        BY <1>0 DEF Walking, WalkInv
    <2> QED BY <1>0, <2>1, WalkKept
<1>3. LoopInv(op[p])'
    <2>1. ~(op[p].kind = "rewrap" /\ op[p].key = keys.cur)
        BY DEF Inv, OwnKeys
    <2> QED BY <2>1 DEF LoopInv, Moving
<1> QED BY <1>1, <1>2, <1>3

LEMMA PutWrapsKeeps ==
    ASSUME Inv, NEW o \in Op, PutWraps(o)
    PROVE  Inv'
<1>0. RowsInv /\ KeysInv /\ PageInv /\ op = [p \in Op |-> op[p]] /\ Known(op[o]) /\ LoopInv(op[o])
    BY DEF Inv, OpsInv, LoopsInv
<1>1. /\ Moving(op[o]) /\ op[o].at \in Nat /\ op[o].stage = "put" /\ op[o].start \subseteq Id
      /\ op[o].got \in Seq(Snap) /\ op[o].kind = "rewrap"
    BY <1>0, LoopStage DEF PutWraps, Moving
<1>2. keys' = keys /\ KeysInv'
    BY <1>0, SameKeys DEF PutWraps
<1>3. PageInv'
    <2>1. deeds' \in 0..MaxDeeds /\ saved' \subseteq Id /\ view' = view /\ shown' = shown /\ modal' = modal
        BY <1>0 DEF PutWraps, PageInv
    <2> QED BY <1>0, <2>1, SamePage
<1>4. CASE ~Takes(o)
    <2>1. row' = row /\ op' = [op EXCEPT ![o] = Idle]
        BY <1>4 DEF PutWraps
    <2> QED BY <1>0, <1>2, <1>3, <2>1, SameRows, OneEnds DEF Inv
<1>5. CASE Takes(o)
    <2>1. row' = Rewraps(o) /\ op' = [op EXCEPT ![o].stage = "stale", ![o].got = <<>>]
        BY <1>5 DEF PutWraps
    <2>2. /\ RowsInv' /\ Fades /\ Resealing
          /\ \A n \in Id : /\ row'[n].who = row[n].who
                           /\ n \notin IdsOf(op[o].got) => row'[n] = row[n]
                           /\ n \in IdsOf(op[o].got) => row'[n].wrap.kid = keys.cur
        BY <1>1, <1>5, <2>1, RewrapsIs
    <2>3. PICK q, r : q = op[o] /\ r = op'[o]
        OBVIOUS
    <2>4. q = [kind |-> q.kind, stage |-> q.stage, id |-> q.id, at |-> q.at,
               key |-> q.key, got |-> q.got, start |-> q.start, cut |-> q.cut]
        BY <1>0, <2>3 DEF Known
    <2>5. r = [[q EXCEPT !.stage = "stale"] EXCEPT !.got = <<>>]
        BY <1>0, <2>1, <2>3
    <2>6. /\ r.kind = q.kind /\ r.stage = "stale" /\ r.at = q.at /\ r.key = q.key
          /\ r.got = <<>> /\ r.start = q.start /\ r.cut = q.cut
          /\ r = [kind |-> r.kind, stage |-> r.stage, id |-> r.id, at |-> r.at,
                  key |-> r.key, got |-> r.got, start |-> r.start, cut |-> r.cut]
        BY <2>4, <2>5
    <2>7. op' = [p \in Op |-> op'[p]] /\ \A p \in Op : p # o => op'[p] = op[p]
        BY <1>0, <2>1
    <2>8. Known(op[o])' /\ Moving(op[o])'
        <3>1. Moving(op[o])'
            <4>1. <<>> \in Seq(Snap)
                OBVIOUS
            <4> QED BY <1>1, <1>2, <2>3, <2>6, <4>1 DEF Moving
        <3> QED BY <1>1, <2>3, <2>6, <3>1 DEF Known
    <2>9. op[o].key = keys.cur
        BY <1>5 DEF Takes
    <2>10. ASSUME ~r.cut PROVE LoopHolds(op[o])'
        <3>1. LoopHolds(q)
            BY <1>0, <1>1, <2>3, <2>6, <2>9, <2>10 DEF LoopInv
        <3>2. Live' = Live /\ Unused' = Unused
            BY <2>2 DEF Live, Unused
        <3>3. q.start \cap Unused' = {}
            BY <3>1, <3>2 DEF LoopHolds
        <3>4. ASSUME NEW n \in q.start \cap Live PROVE Opens(row[n].wrap)'
            <4>1. n \in Id /\ row[n].who # "none" /\ Opens(row[n].wrap)
                BY <3>1 DEF LoopHolds, Live
            <4>2. row'[n].wrap = row[n].wrap \/ row'[n].wrap.kid = keys.cur
                BY <2>2, <4>1 DEF Resealing
            <4> QED BY <1>0, <1>2, <4>1, <4>2 DEF Opens, KeysInv
        <3>5. \A n \in Stale' : n \in Stale /\ n \notin IdsOf(q.got) /\ row'[n] = row[n]
            BY <1>2, <2>2, <2>3, <3>2 DEF Stale, Live
        <3>6. \A n \in Stale \ IdsOf(q.got) : n \in Stale' /\ row'[n] = row[n]
            BY <1>2, <2>2, <2>3, <3>2 DEF Stale, Live
        <3>7. ASSUME NEW n \in q.start \cap Stale' PROVE q.at <= Cardinality(Others(op[o], n)')
            <4>1. q.at <= Cardinality(Others(q, n) \ IdsOf(q.got))
                BY <1>1, <2>3, <3>1, <3>5, <3>7 DEF LoopHolds
            <4>2. \A m \in Id : row'[m].who = row[m].who
                BY <2>2
            <4>3. Others(op[o], n)' = {m \in Stale' : Sooner(m, n)' /\ m \notin q.start}
                BY <2>3, <2>6 DEF Others
            <4>4. \A m \in Stale' : Sooner(m, n)' <=> Sooner(m, n)
                BY <3>5, <3>7 DEF Sooner
            <4>5. Others(op[o], n)' = Others(q, n) \ IdsOf(q.got)
                BY <3>5, <3>6, <4>3, <4>4 DEF Others
            <4> QED BY <4>1, <4>5
        <3> QED BY <2>3, <2>6, <3>2, <3>3, <3>4, <3>7 DEF LoopHolds
    <2>11. WalkInv(op[o])' /\ LoopInv(op[o])'
        BY <2>3, <2>6, <2>8, <2>10 DEF WalkInv, LoopInv, Walking, Moving
    <2>12. \A p \in Op : Known(op[p])' /\ WalkInv(op[p])' /\ LoopInv(op[p])'
        <3> TAKE p \in Op
        <3>1. CASE p = o
            BY <2>8, <2>11, <3>1
        <3>2. CASE p # o
            BY <1>1, <1>2, <2>2, <2>7, <2>9, <3>2, OthersGoOn
        <3> QED BY <3>1, <3>2
    <2>13. OwnKeys'
        <3>1. \A p \in Op : op'[p].kind = op[p].kind /\ op'[p].key = op[p].key
            BY <2>3, <2>6, <2>7
        <3> QED BY <3>1 DEF Inv, OwnKeys
    <2> QED BY <1>2, <1>3, <2>2, <2>7, <2>12, <2>13 DEF Inv, OpsInv, WalksInv, LoopsInv
<1> QED BY <1>4, <1>5

LEMMA LoopFailsKeeps ==
    ASSUME Inv, NEW o \in Op, LoopFails(o)
    PROVE  Inv'
<1>0. RowsInv /\ KeysInv /\ PageInv /\ op = [p \in Op |-> op[p]] /\ Known(op[o])
    BY DEF Inv, OpsInv
<1>1. Moving(op[o]) /\ op[o].kind = "rewrap"
    BY <1>0, LoopStage DEF LoopFails
<1>2. keys' = keys /\ KeysInv' /\ op' = [op EXCEPT ![o] = Idle]
    BY <1>0, SameKeys DEF LoopFails
<1>3. PageInv'
    <2>1. deeds' \in 0..MaxDeeds
        BY <1>0, Deed DEF LoopFails
    <2>2. saved' \subseteq Id /\ view' = view /\ shown' = shown /\ modal' = modal
        BY <1>0 DEF LoopFails, PageInv
    <2> QED BY <1>0, <2>1, <2>2, SamePage
<1>4. row' = row \/ (row' = Rewraps(o) /\ op[o].stage = "put" /\ Takes(o))
    BY DEF LoopFails
<1>5. CASE row' = row
    BY <1>0, <1>2, <1>3, <1>5, SameRows, OneEnds DEF Inv
<1>6. CASE row' = Rewraps(o) /\ op[o].stage = "put" /\ Takes(o)
    <2>1. RowsInv' /\ Fades /\ \A n \in Id : row'[n].who = row[n].who
        BY <1>1, <1>6, RewrapsIs
    <2>2. op' = [p \in Op |-> op'[p]] /\ op'[o] = Idle /\ \A p \in Op : p # o => op'[p] = op[p]
        BY <1>0, <1>2
    <2>3. Known(op[o])' /\ WalkInv(op[o])' /\ LoopInv(op[o])'
        <3>1. op'[o].kind = "idle"
            BY <2>2 DEF Idle
        <3>2. Known(op[o])'
            BY <2>2 DEF Idle, Known, Resting
        <3> QED BY <3>1, <3>2 DEF WalkInv, LoopInv, Walking, Moving
    <2>4. op[o].key = keys.cur
        BY <1>6 DEF Takes
    <2>5. \A p \in Op : Known(op[p])' /\ WalkInv(op[p])' /\ LoopInv(op[p])'
        <3> TAKE p \in Op
        <3>1. CASE p = o
            BY <2>3, <3>1
        <3>2. CASE p # o
            BY <1>1, <1>2, <2>1, <2>2, <2>4, <3>2, OthersGoOn
        <3> QED BY <3>1, <3>2
    <2>6. OwnKeys'
        <3>1. \A p \in Op : op'[p].kind = "rewrap" => p # o /\ op'[p] = op[p]
            BY <2>2 DEF Idle
        <3> QED BY <3>1 DEF Inv, OwnKeys
    <2> QED BY <1>2, <1>3, <2>1, <2>2, <2>5, <2>6 DEF Inv, OpsInv, WalksInv, LoopsInv
<1> QED BY <1>4, <1>5, <1>6

----------------------------------------------------------------------------
(* The invariant holds of every state *)

LEMMA InitInv == ASSUME Init PROVE Inv
<1>1. PICK lost \in SUBSET {2, 3, 5}, shape \in Shapes, k \in {1, 2} :
          /\ keys = [cur |-> k, held |-> 1..k]
          /\ row = [n \in Id |-> IF n \in DOMAIN Held0
                                 THEN Row(Held0[n], IF n \in lost THEN 0 ELSE 1, n, shape) ELSE NoRow]
    BY DEF Init
<1>2. KeysInv
    <2>1. k \in Kid /\ 1 .. k \subseteq Kid /\ k \in 1 .. k
        BY Consts DEF Kid
    <2> QED BY <1>1, <2>1 DEF KeysInv
<1>3. RowsInv
    <2>1. row = [n \in Id |-> row[n]]
        BY <1>1
    <2>2. ASSUME NEW n \in Id
          PROVE  /\ row[n] = [who |-> row[n].who, wrap |-> row[n].wrap, shape |-> row[n].shape,
                              chunks |-> row[n].chunks, grant |-> row[n].grant]
                 /\ row[n].who \in {"none", "own", "shared", "signer", "gone"}
                 /\ row[n].wrap \in Wrap
                 /\ row[n].who # "none" => row[n].wrap.of = n /\ row[n].grant \in {0, n}
        <3>1. CASE n \in DOMAIN Held0
            <4>1. n \in 1 .. 5
                BY <3>1 DEF Held0
            <4>2. Held0[n] \in {"own", "shared", "signer"}
                BY <4>1 DEF Held0
            <4>3. PICK h, j : h = Held0[n] /\ j = (IF n \in lost THEN 0 ELSE 1)
                OBVIOUS
            <4>4. j \in Kid
                BY <4>3, Consts DEF Kid
            <4>5. PICK r : r = Row(h, j, n, shape)
                OBVIOUS
            <4>6. /\ r = [who |-> h, wrap |-> r.wrap, shape |-> shape, chunks |-> r.chunks, grant |-> 0]
                  /\ r.wrap \in Wrap /\ r.wrap.of = n
                BY <4>2, <4>3, <4>4, <4>5, RowKnown
            <4>7. row[n] = r
                BY <1>1, <3>1, <4>3, <4>5
            <4>8. /\ r = [who |-> r.who, wrap |-> r.wrap, shape |-> r.shape, chunks |-> r.chunks, grant |-> r.grant]
                  /\ r.who = h /\ r.grant = 0
                BY <4>6
            <4> QED BY <4>2, <4>3, <4>6, <4>7, <4>8
        <3>2. CASE n \notin DOMAIN Held0
            <4>1. row[n] = NoRow
                BY <1>1, <3>2
            <4>2. PICK r : r = NoRow
                OBVIOUS
            <4>3. /\ r = [who |-> r.who, wrap |-> r.wrap, shape |-> r.shape, chunks |-> r.chunks, grant |-> r.grant]
                  /\ r.who = "none" /\ r.wrap = NoWrap
                BY <4>2 DEF NoRow
            <4>4. NoWrap \in Wrap
                BY Consts DEF NoWrap, Wrap, Kid
            <4> QED BY <4>1, <4>2, <4>3, <4>4
        <3> QED BY <3>1, <3>2
    <2> QED BY <2>1, <2>2 DEF RowsInv
<1>4. PageInv
    <2>1. Shown("own") \in Seq(Snap) /\ Shown("shared") \in Seq(Snap)
        <3>1. ASSUME NEW kind \in {"own", "shared"} PROVE Shown(kind) \in Seq(Snap)
            BY <1>3, ListPage, Consts DEF Shown, PageIs
        <3> QED BY <3>1
    <2>2. view = [own |-> Shown("own"), shared |-> Shown("shared"), news |-> FALSE]
          /\ shown = [n \in Id |-> Hidden] /\ modal = NoModal /\ deeds = 0 /\ saved = {}
        BY DEF Init
    <2>3. Hidden.as = "hidden"
        BY DEF Hidden
    <2>4. /\ modal = [open |-> modal.open, to |-> modal.to, pending |-> modal.pending, verdict |-> modal.verdict]
          /\ modal.to = NoOne /\ modal.pending = {}
        BY <2>2 DEF NoModal
    <2>5. 0 \in 0 .. MaxDeeds
        BY SecretsConstants
    <2> HIDE DEF Hidden
    <2> QED BY <2>1, <2>2, <2>3, <2>4, <2>5 DEF PageInv, VerdictOfPicked
<1>5. op = [o \in Op |-> op[o]] /\ \A o \in Op : op[o] = Idle
    BY DEF Init
<1>6. OpsInv
    <2>1. Known(Idle)
        BY DEF Known, Resting, Idle
    <2> QED BY <1>5, <2>1 DEF OpsInv
<1>7. \A o \in Op : op[o].kind = "idle"
    BY <1>5 DEF Idle
<1>8. OwnKeys /\ WalksInv /\ LoopsInv
    BY <1>7 DEF OwnKeys, WalksInv, WalkInv, Walking, LoopsInv, LoopInv, Moving
<1> QED BY <1>2, <1>3, <1>4, <1>6, <1>8 DEF Inv

LEMMA NextInv == ASSUME Inv, [Next]_vars PROVE Inv'
<1>1. ASSUME NEW o \in Op,
             FetchPage(o) \/ ShowList(o) \/ WalkFails(o) \/ Reload(o) \/ Refresh(o)
             \/ StartOpen(o) \/ OpenKey(o) \/ OpenContent(o) \/ Download(o)
      PROVE  Inv'
    BY <1>1, FetchPageKeeps, ShowListKeeps, WalkFailsKeeps, ReloadKeeps, RefreshKeeps,
       StartOpenKeeps, OpenKeyKeeps, OpenContentKeeps, DownloadKeeps
<1>2. ASSUME NEW o \in Op,
             StartCreate(o) \/ PostCreate(o) \/ Upload(o) \/ CreateFails(o)
             \/ StartShare(o) \/ Share(o) \/ Rotate(o) \/ Loop(o) \/ LoopFails(o)
      PROVE  Inv'
    BY <1>2, StartCreateKeeps, PostCreateKeeps, UploadKeeps, CreateFailsKeeps, StartShareKeeps,
       ShareKeeps, RotateKeeps, FetchStaleKeeps, OpenPageKeeps, PutWrapsKeeps, LoopFailsKeeps DEF Loop
<1>3. ASSUME NEW n \in Id, Lock(n) \/ TakeAway(n) \/ Reshare(n) PROVE Inv'
    BY <1>3, LockKeeps, TakeAwayKeeps, ReshareKeeps
<1>4. ASSUME NEW r \in Recipient, Pick(r) \/ Verdict(r) PROVE Inv'
    BY <1>4, PickKeeps, VerdictKeeps
<1>5. CASE OpenModal \/ CloseModal
    BY <1>5, OpenModalKeeps, CloseModalKeeps
<1>6. ASSUME NEW k \in keys.held, Destroy(k) PROVE Inv'
    BY <1>6, DestroyKeeps
<1>7. ASSUME NEW who \in {"own", "shared", "signer"}, Arrive(who) PROVE Inv'
    BY <1>7, ArriveKeeps
<1>8. CASE UNCHANGED vars
    <2>1. row' = row /\ keys' = keys /\ view' = view /\ shown' = shown /\ modal' = modal /\ op' = op
          /\ deeds' = deeds /\ saved' = saved
        BY <1>8 DEF vars
    <2>2. RowsInv /\ KeysInv /\ PageInv
        BY DEF Inv
    <2>3. PageInv'
        <3>1. deeds' \in 0..MaxDeeds /\ saved' \subseteq Id
            BY <2>1, <2>2 DEF PageInv
        <3> QED BY <2>1, <2>2, <3>1, SamePage
    <2> QED BY <2>1, <2>2, <2>3, SameRows, SameKeys, AllUntouched DEF Inv
<1> QED BY <1>1, <1>2, <1>3, <1>4, <1>5, <1>6, <1>7, <1>8 DEF Next

LEMMA Always == Spec => []Inv
<1>1. Init => Inv
    BY InitInv
<1>2. Inv /\ [Next]_vars => Inv'
    BY NextInv
<1> QED BY <1>1, <1>2, PTL DEF Spec

\* Whatever is wrapped stays what it was: every wrap, moved to a new key by the
\* loop's batches or given to a recipient, contains the file key of its own row,
\* and the dialog goes by the verdict of the recipient picked.
THEOREM WrapsStayTheirOwn == Spec => []SecretsInv
<1>1. ASSUME Inv PROVE SecretsInv
    <2>1. KeysInv /\ RowsInv /\ PageInv /\ OpsInv
        BY <1>1 DEF Inv
    <2>2. SealedRight
        BY <2>1 DEF RowsInv, SealedRight, Live
    <2>3. IdsOf(view.own) \cup IdsOf(view.shared) \subseteq Id
        <3>1. ASSUME NEW list \in Seq(Snap) PROVE IdsOf(list) \subseteq Id
            <4>1. \A i \in DOMAIN list : list[i] \in Snap
                OBVIOUS
            <4> QED BY <4>1 DEF IdsOf, Snap
        <3>2. view.own \in Seq(Snap) /\ view.shared \in Seq(Snap)
            BY <2>1 DEF PageInv
        <3> QED BY <3>1, <3>2
    <2>4. \A n \in Id : row[n].who \in {"none", "own", "shared", "signer", "gone"} /\ row[n].wrap.kid \in Kid
        BY <2>1 DEF RowsInv, Wrap
    <2>5. \A o \in Op : op[o].stage \in Stages /\ op[o].kind \in Kinds /\ op[o].at \in Nat
        <3>1. \A o \in Op : Known(op[o])
            BY <2>1 DEF OpsInv
        <3>2. \A o \in Op : op[o].at \in Nat
            BY <3>1 DEF Known
        <3>3. \A o \in Op : op[o].stage \in Stages /\ op[o].kind \in Kinds
            BY <3>1 DEF Known, Resting, Walking, Opening, Giving, Creating, Moving, Stages, Kinds
        <3> QED BY <3>2, <3>3
    <2>6. /\ \A n \in Id : shown[n].as \in {"hidden", "text", "descriptor", "files"}
          /\ modal.to \in Recipient \cup {NoOne} /\ modal.pending \subseteq Recipient
          /\ deeds \in 0..MaxDeeds /\ saved \subseteq Id /\ view.news \in BOOLEAN /\ VerdictOfPicked
        BY <2>1 DEF PageInv
    <2> QED BY <2>1, <2>2, <2>3, <2>4, <2>5, <2>6 DEF SecretsInv, TypeOK, KeysInv
<1> QED BY <1>1, Always, PTL

\* A walk that ran through its pages lists every row that was there when it began
\* and still is, whatever was added meanwhile (fetchAllPages).
THEOREM WalksHideNothing == Spec => []NothingHidden
<1>1. ASSUME Inv PROVE NothingHidden
    <2> SUFFICES ASSUME NEW o \in Op, op[o].stage = "titles", ~op[o].cut
                 PROVE  op[o].start \cap Live \subseteq IdsOf(op[o].got)
        BY DEF NothingHidden
    <2>1. Known(op[o]) /\ WalkInv(op[o])
        BY <1>1 DEF Inv, OpsInv, WalksInv
    <2>2. Walking(op[o])
        BY <2>1 DEF Known, Resting, Walking, Opening, Giving, Creating, Moving
    <2> QED BY <2>1, <2>2 DEF WalkInv, WalkHolds
<1> QED BY <1>1, Always, PTL

\* Only a loop at its last page finishes.
LEMMA WhoFinishes ==
    ASSUME Inv, [Next]_vars, NEW o \in Op, op[o].kind = "rewrap", op'[o] = Finished
    PROVE  FetchStale(o) \/ OpenPage(o)
<1>0. Known(op[o]) /\ op = [p \in Op |-> op[p]] /\ Moving(op[o])
    BY LoopStage DEF Inv, OpsInv
<1>1. op[o].stage \in {"stale", "open", "put"} /\ op[o].kind = "rewrap"
    BY <1>0 DEF Moving
<1>2. op'[o].kind = "idle" /\ op'[o].stage = "done" /\ op'[o] # op[o]
    BY <1>1 DEF Finished, Idle
<1>a. Idle.stage = "none" /\ Idle # Finished
    BY DEF Idle, Finished
<1>3. ASSUME NEW p \in Op, p # o, NEW x, op' = [op EXCEPT ![p] = x] PROVE FALSE
    BY <1>0, <1>2, <1>3
<1>4. ~Free(o)
    BY <1>1 DEF Free
<1>5. ASSUME NEW p \in Op, FetchPage(p) PROVE FALSE
    <2>1. p # o
        BY <1>1, <1>5 DEF FetchPage
    <2> QED BY <1>0, <1>2, <1>5, <2>1 DEF FetchPage
<1>6. ASSUME NEW p \in Op, ShowList(p) \/ WalkFails(p) \/ OpenKey(p) \/ OpenContent(p) \/ Download(p)
      PROVE  FALSE
    <2>1. p # o
        BY <1>1, <1>6 DEF ShowList, WalkFails, OpenKey, OpenContent, Download
    <2>2. op'[o] = op[o]
        BY <1>0, <1>6, <2>1 DEF ShowList, WalkFails, OpenKey, OpenContent, Download
    <2> QED BY <1>2, <2>2
<1>7. ASSUME NEW p \in Op, Reload(p) \/ Refresh(p) \/ StartOpen(p) \/ StartCreate(p) \/ StartShare(p) \/ Rotate(p)
      PROVE  FALSE
    <2>0. Free(p)
        BY Zenon, <1>7 DEF Reload, Refresh, StartOpen, StartCreate, StartShare, Rotate
    <2>1. p # o
        BY <1>4, <2>0
    <2>2. \E x : op' = [op EXCEPT ![p] = x]
        BY Zenon, <1>7 DEF Reload, Refresh, StartOpen, StartCreate, StartShare, Rotate
    <2> QED BY <1>3, <2>1, <2>2
<1>8. ASSUME NEW p \in Op, PostCreate(p) \/ Upload(p) \/ CreateFails(p) \/ Share(p) PROVE FALSE
    <2>1. p # o
        BY <1>1, <1>8 DEF PostCreate, Upload, CreateFails, Share
    <2>2. op'[o] = op[o]
        BY <1>0, <1>8, <2>1 DEF PostCreate, Upload, CreateFails, Share, Stored
    <2> QED BY <1>2, <2>2
<1>9. ASSUME NEW p \in Op, PutWraps(p) \/ LoopFails(p) PROVE FALSE
    <2>1. CASE p # o
        <3>1. op'[o] = op[o]
            BY <1>0, <1>9, <2>1 DEF PutWraps, LoopFails
        <3> QED BY <1>2, <3>1
    <2>2. CASE p = o
        <3>1. op'[o] = Idle \/ op'[o].stage = "stale"
            BY <1>0, <1>9, <2>2 DEF PutWraps, LoopFails, Known
        <3> QED BY <1>2, <1>a, <3>1
    <2> QED BY <2>1, <2>2
<1>10. ASSUME NEW p \in Op, FetchStale(p) \/ OpenPage(p) PROVE p = o
    <2>1. p # o => op'[o] = op[o]
        BY <1>0, <1>10 DEF FetchStale, OpenPage
    <2> QED BY <1>2, <2>1
<1>11. ASSUME NEW n \in Id, Lock(n) \/ TakeAway(n) \/ Reshare(n) PROVE FALSE
    <2>1. op'[o].kind = op[o].kind
        <3>1. CASE Lock(n)
            BY <3>1 DEF Lock
        <3>2. CASE TakeAway(n)
            BY <1>0, <3>2 DEF TakeAway, Cut, Known
        <3>3. CASE Reshare(n)
            BY <1>0, <3>3 DEF Reshare, Known
        <3> QED BY <1>11, <3>1, <3>2, <3>3
    <2> QED BY <1>1, <1>2, <2>1
<1>12. ASSUME NEW k, Destroy(k) PROVE FALSE
    <2>1. op'[o].kind = op[o].kind
        BY <1>0, <1>12 DEF Destroy, Known
    <2> QED BY <1>1, <1>2, <2>1
<1>13. ASSUME NEW r, Pick(r) \/ Verdict(r) PROVE FALSE
    BY <1>2, <1>13 DEF Pick, Verdict
<1>14. ASSUME NEW who, Arrive(who) PROVE FALSE
    BY <1>2, <1>14 DEF Arrive
<1>15. ASSUME OpenModal \/ CloseModal PROVE FALSE
    BY <1>2, <1>15 DEF OpenModal, CloseModal
<1>16. ASSUME UNCHANGED vars PROVE FALSE
    BY <1>2, <1>16 DEF vars
<1> QED BY <1>5, <1>6, <1>7, <1>8, <1>9, <1>10, <1>11, <1>12, <1>13, <1>14, <1>15, <1>16 DEF Next, Loop

\* A loop that ends by itself leaves nothing behind that it could open and that
\* this browser still can: the rows it steps past are only ever ones it was not
\* to move (rewrapStaleKeys and its offset).
THEOREM LoopsLeaveNothing == Spec => RewrapComplete
<1>1. ASSUME Inv, [Next]_vars
      PROVE  \A o \in Op :
                op[o].kind = "rewrap" /\ op'[o] = Finished /\ ~op[o].cut /\ op[o].key = keys.cur =>
                    \A n \in op[o].start \cap Live : Opens(row[n].wrap) => row[n].wrap.kid = keys.cur
    <2> SUFFICES ASSUME NEW o \in Op, op[o].kind = "rewrap", op'[o] = Finished, ~op[o].cut, op[o].key = keys.cur
                 PROVE  \A n \in op[o].start \cap Live : row[n].wrap.kid = keys.cur
        OBVIOUS
    <2>1. FetchStale(o) \/ OpenPage(o)
        BY <1>1, WhoFinishes
    <2>2. /\ RowsInv /\ Known(op[o]) /\ Moving(op[o]) /\ LoopInv(op[o]) /\ op = [p \in Op |-> op[p]]
        BY <1>1, LoopStage DEF Inv, OpsInv, LoopsInv
    <2>3. LoopHolds(op[o]) /\ op[o].start \subseteq Id /\ op[o].at \in Nat /\ op[o].got \in Seq(Snap)
        BY <2>2 DEF LoopInv, Moving, Known
    <2>4. PICK q : q = op[o]
        OBVIOUS
    <2>5. op'[o].stage = "done"
        BY DEF Finished, Idle
    <2>6. ASSUME NEW n \in q.start \cap Stale PROVE FALSE
        <3>1. CASE FetchStale(o)
            <4>1. PICK page : page = StalePage(q.at)
                OBVIOUS
            <4>2. page = <<>>
                <5>1. page # <<>> => op'[o] = [q EXCEPT !.stage = "open", !.got = page]
                    BY <2>2, <2>4, <3>1, <4>1 DEF FetchStale
                <5>2. q = [kind |-> q.kind, stage |-> q.stage, id |-> q.id, at |-> q.at,
                           key |-> q.key, got |-> q.got, start |-> q.start, cut |-> q.cut]
                    BY <2>2, <2>4 DEF Known
                <5>3. [q EXCEPT !.stage = "open", !.got = page].stage = "open"
                    BY <5>2
                <5> QED BY <2>5, <5>1, <5>3
            <4>3. /\ q.start \subseteq Id /\ q.at \in Nat
                  /\ \A m \in q.start \cap Live : Opens(row[m].wrap)
                  /\ \A m \in q.start \cap Stale : q.at <= Cardinality(Others(q, m))
                BY <2>3, <2>4, <3>1 DEF LoopHolds, FetchStale
            <4>4. \/ n \in IdsOf(page)
                  \/ page # <<>> /\ ~LastPage(page)
                BY <2>2, <4>1, <4>3, PageCounts
            <4> QED BY <4>2, <4>4 DEF IdsOf
        <3>2. CASE OpenPage(o)
            <4>1. PICK page : page = q.got
                OBVIOUS
            <4>2. Readable(page) = {} /\ LastPage(page)
                <5>1. PICK st, list, at : /\ st = IF Readable(page) = {} THEN "stale" ELSE "put"
                                          /\ list = Resealed(page, q.key)
                                          /\ at = q.at + Cardinality(DOMAIN page \ Readable(page))
                    OBVIOUS
                <5>2. ~(Readable(page) = {} /\ LastPage(page)) =>
                         op'[o] = [q EXCEPT !.stage = st, !.got = list, !.at = at]
                    BY <2>2, <2>4, <3>2, <4>1, <5>1 DEF OpenPage
                <5>3. q = [kind |-> q.kind, stage |-> q.stage, id |-> q.id, at |-> q.at,
                           key |-> q.key, got |-> q.got, start |-> q.start, cut |-> q.cut]
                    BY <2>2, <2>4 DEF Known
                <5>4. [q EXCEPT !.stage = st, !.got = list, !.at = at].stage = st
                    BY <5>3
                <5>5. st # "done"
                    BY <5>1
                <5> QED BY <2>5, <5>2, <5>4, <5>5
            <4>3. Readable(page) = DOMAIN page \ Unread(page)
                BY <2>3, <2>4, <4>1, ReadableIs
            <4>4. /\ \A i \in DOMAIN page : page[i].id \in q.start => Opens(page[i].wrap)
                  /\ n \in IdsOf(page)
                BY <2>3, <2>4, <3>2, <4>1, <4>2 DEF LoopHolds, OpenPage
            <4>5. PICK i \in DOMAIN page : page[i].id = n
                BY <4>4 DEF IdsOf
            <4>6. i \in Readable(page)
                BY <4>3, <4>4, <4>5 DEF Unread
            <4> QED BY <4>2, <4>6
        <3> QED BY <2>1, <3>1, <3>2
    <2> QED BY <2>4, <2>6 DEF Stale
<1> QED BY <1>1, Always, PTL DEF Spec, RewrapComplete
=============================================================================
