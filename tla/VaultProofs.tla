---------------------------- MODULE VaultProofs ----------------------------
(***************************************************************************)
(* The two keepers of the keys: the vault in the browser's storage, and    *)
(* the window in which TrustKeys asks before it uses one.                  *)
(*                                                                         *)
(* The vault.  What contacts encrypt to is held on this device, for any    *)
(* identities, tabs, operations and keys, as long as no two operations     *)
(* have a vault in hand at once (MaxWriters = 1): two tabs that read the   *)
(* whole vault and write it back lose a change, and a key with it.         *)
(* VaultInv says nothing of a vault that was read and is not written yet,  *)
(* of a key that is stored and still being published, or of a rotation     *)
(* being undone; Stored adds what is true of each, one vault in hand and   *)
(* one rotation under way.  ForgetInv follows a deleted account from the   *)
(* server's answer to the vault: only the erased identity goes.            *)
(*                                                                         *)
(* The approvals.  A request is answered once, the queue is bounded, and a *)
(* rotation is of the account its window named.  The three say too little  *)
(* of a request that is only on its way: AskInv adds that it is recorded   *)
(* as soon as it is not new, which is what counts it against its site      *)
(* while it waits for a window.                                            *)
(***************************************************************************)
EXTENDS Vault, Approvals, FiniteSetTheorems, SequenceTheorems, WellFoundedInduction, TLAPS

----------------------------------------------------------------------------
(* Queues: the requests waiting for a window, the keys an account has retired. *)

\* The least number principle: an induction without a predicate to instantiate.
LEMMA Least == ASSUME NEW T \in SUBSET Nat, T # {} PROVE \E x \in T : \A y \in T : x <= y
<1>1. PICK x \in T : \A y \in T : ~ (<<y, x>> \in OpToRel(<, Nat))
    BY WFMin, NatLessThanWellFounded
<1>2. \A y \in T : ~ (y < x)
    BY <1>1 DEF OpToRel
<1> QED BY <1>2

\* One position of a queue is taken out; what follows closes up.
LEMMA RemovedAt ==
    ASSUME NEW S, NEW t \in Seq(S), NEW i \in 1 .. Len(t)
    PROVE  /\ RemoveAt(t, i) \in Seq(S) /\ Len(RemoveAt(t, i)) = Len(t) - 1
           /\ \A j \in 1 .. Len(t) - 1 : RemoveAt(t, i)[j] = IF j < i THEN t[j] ELSE t[j + 1]
<1> DEFINE a == SubSeq(t, 1, i - 1)
           b == SubSeq(t, i + 1, Len(t))
<1>0. Len(t) \in Nat /\ i \in Nat /\ i >= 1 /\ \A n \in 1 .. Len(t) : t[n] \in S
    OBVIOUS
<1>1. a \in Seq(S) /\ Len(a) = i - 1 /\ \A j \in 1 .. i - 1 : a[j] = t[j]
    OBVIOUS
<1>2. b \in Seq(S) /\ Len(b) = Len(t) - i /\ \A j \in 1 .. Len(t) - i : b[j] = t[i + j]
    OBVIOUS
<1>3. RemoveAt(t, i) = a \o b
    BY DEF RemoveAt
<1> HIDE DEF a, b
<1>4. /\ a \o b \in Seq(S) /\ Len(a \o b) = Len(a) + Len(b)
      /\ \A j \in 1 .. Len(a) + Len(b) : (a \o b)[j] = IF j <= Len(a) THEN a[j] ELSE b[j - Len(a)]
    BY <1>1, <1>2, ConcatProperties
<1>5. Len(a) + Len(b) = Len(t) - 1
    BY <1>0, <1>1, <1>2
<1>6. ASSUME NEW j \in 1 .. Len(t) - 1 PROVE (a \o b)[j] = IF j < i THEN t[j] ELSE t[j + 1]
    <2>1. CASE j < i
        BY <1>0, <1>1, <1>4, <1>5, <2>1
    <2>2. CASE ~ (j < i)
        <3> DEFINE m == j - (i - 1)
        <3>1. m \in 1 .. Len(t) - i /\ i + m = j + 1
            BY <1>0, <2>2
        <3>2. (a \o b)[j] = b[m]
            BY <1>0, <1>1, <1>4, <1>5, <2>2
        <3> HIDE DEF m
        <3>3. b[m] = t[i + m]
            BY <1>2, <3>1
        <3> QED BY <2>2, <3>1, <3>2, <3>3
    <2> QED BY <2>1, <2>2
<1> QED BY <1>3, <1>4, <1>5, <1>6

\* A queue of distinct requests without one of them.
LEMMA Taken ==
    ASSUME NEW S, NEW t \in Seq(S), IsInjective(t), NEW e \in ToSet(t)
    PROVE  /\ RemoveFirst(t, e) \in Seq(S) /\ IsInjective(RemoveFirst(t, e))
           /\ ToSet(RemoveFirst(t, e)) = ToSet(t) \ {e}
           /\ Len(RemoveFirst(t, e)) = Len(t) - 1
           /\ t[1] # e => Len(t) > 1 /\ RemoveFirst(t, e)[1] = t[1]
<1> DEFINE I == {i \in 1 .. Len(t) : t[i] = e}
<1>0. Len(t) \in Nat /\ DOMAIN t = 1 .. Len(t)
    OBVIOUS
<1>1. I \in SUBSET Nat /\ I # {}
    BY <1>0 DEF ToSet
<1>2. PICK i \in I : \A y \in I : i <= y
    BY <1>1, Least
<1>3. Min(I) \in I
    BY <1>2 DEF Min
<1>4. PICK n \in 1 .. Len(t) : n = Min(I) /\ t[n] = e
    BY <1>3
<1>5. RemoveFirst(t, e) = RemoveAt(t, n)
    BY <1>1, <1>4 DEF RemoveFirst, SelectInSeq
<1> DEFINE r == RemoveAt(t, n)
<1>6. /\ r \in Seq(S) /\ Len(r) = Len(t) - 1
      /\ \A j \in 1 .. Len(t) - 1 : r[j] = IF j < n THEN t[j] ELSE t[j + 1]
    BY RemovedAt
<1> HIDE DEF r
<1>7. DOMAIN r = 1 .. Len(t) - 1
    BY <1>6
<1>8. IsInjective(r)
    <2> SUFFICES ASSUME NEW a \in 1 .. Len(t) - 1, NEW b \in 1 .. Len(t) - 1, r[a] = r[b]
                 PROVE  a = b
        BY <1>7 DEF IsInjective
    <2>1. \A x, y \in 1 .. Len(t) : t[x] = t[y] => x = y
        BY <1>0 DEF IsInjective
    <2>2. PICK x \in 1 .. Len(t) : r[a] = t[x] /\ x = IF a < n THEN a ELSE a + 1
        BY <1>0, <1>6
    <2>3. PICK y \in 1 .. Len(t) : r[b] = t[y] /\ y = IF b < n THEN b ELSE b + 1
        BY <1>0, <1>6
    <2>4. x = y
        BY <2>1, <2>2, <2>3
    <2> QED BY <1>0, <2>2, <2>3, <2>4
<1>9. ToSet(r) = ToSet(t) \ {e}
    <2>1. ASSUME NEW j \in 1 .. Len(t) - 1 PROVE r[j] \in ToSet(t) /\ r[j] # e
        <3>1. PICK x \in 1 .. Len(t) : r[j] = t[x] /\ x # n
            <4>1. j \in 1 .. Len(t) /\ j + 1 \in 1 .. Len(t)
                BY <1>0
            <4>2. CASE j < n
                BY <1>6, <4>1, <4>2
            <4>3. CASE ~ (j < n)
                <5>1. j + 1 # n
                    BY <1>0, <4>3
                <5> QED BY <1>6, <4>1, <4>3, <5>1
            <4> QED BY <4>2, <4>3
        <3> QED BY <1>0, <1>4, <3>1 DEF IsInjective, ToSet
    <2>2. ASSUME NEW x \in 1 .. Len(t), t[x] # e PROVE t[x] \in ToSet(r)
        <3>1. x # n
            BY <1>4, <2>2
        <3>2. PICK j \in 1 .. Len(t) - 1 : r[j] = t[x]
            <4>1. CASE x < n
                BY <1>0, <1>6, <4>1
            <4>2. CASE ~ (x < n)
                <5>1. x - 1 \in 1 .. Len(t) - 1 /\ ~ (x - 1 < n) /\ (x - 1) + 1 = x
                    BY <1>0, <3>1, <4>2
                <5> QED BY <1>6, <5>1
            <4> QED BY <4>1, <4>2
        <3> QED BY <1>7, <3>2 DEF ToSet
    <2> QED BY <1>0, <1>7, <2>1, <2>2 DEF ToSet
<1>10. t[1] # e => Len(t) > 1 /\ r[1] = t[1]
    <2> SUFFICES ASSUME t[1] # e PROVE Len(t) > 1 /\ r[1] = t[1]
        OBVIOUS
    <2>1. n > 1 /\ n <= Len(t)
        BY <1>0, <1>4
    <2>2. 1 \in 1 .. Len(t) - 1 /\ 1 < n
        BY <1>0, <2>1
    <2> QED BY <1>0, <1>6, <2>1, <2>2
<1> QED BY <1>5, <1>6, <1>8, <1>9, <1>10 DEF r


----------------------------------------------------------------------------
(* The keys of one account. *)

\* parseAccount refuses an account in which an encryption key appears twice.
Distinct(a) == IsInjective(a.old) /\ a.cur \notin ToSet(a.old)

\* The keys of an account, one by one.
LEMMA HeldIs ==
    ASSUME NEW a \in Account
    PROVE  /\ a.cur \in Kid /\ a.old \in Seq(Kid) /\ Len(a.old) \in Nat
           /\ Held(a) \subseteq Kid /\ a.cur \in Held(a)
           /\ \A n \in 1 .. Len(a.old) : a.old[n] \in Held(a)
           /\ \A k \in Held(a) : k = a.cur \/ \E n \in 1 .. Len(a.old) : a.old[n] = k
           /\ ToSet(a.old) = {a.old[n] : n \in 1 .. Len(a.old)}
           /\ (a.old = <<>> \/ Len(a.old) >= 1)
<1>1. a.cur \in Kid /\ a.old \in Seq(Kid)
    BY DEF Account
<1>2. Len(a.old) \in Nat /\ DOMAIN a.old = 1 .. Len(a.old) /\ (a.old = <<>> \/ Len(a.old) >= 1)
    BY <1>1
<1>3. \A n \in 1 .. Len(a.old) : a.old[n] \in Kid
    BY <1>1
<1> QED BY <1>1, <1>2, <1>3 DEF Held, ToSet

\* A key in front of an account, what was current behind it.
LEMMA RotatedIs ==
    ASSUME NEW a \in Account, Distinct(a), NEW k \in Kid, k \notin Held(a)
    PROVE  LET b == [cur |-> k, old |-> <<a.cur>> \o a.old]
           IN  /\ b \in Account /\ Distinct(b) /\ Held(b) = Held(a) \cup {k}
               /\ b.old # <<>> /\ Head(b.old) = a.cur
<1> DEFINE b == [cur |-> k, old |-> <<a.cur>> \o a.old]
<1>0. /\ a.cur \in Kid /\ a.old \in Seq(Kid) /\ Len(a.old) \in Nat /\ a.cur \in Held(a)
      /\ \A n \in 1 .. Len(a.old) : a.old[n] \in Held(a)
    BY HeldIs
<1>1. /\ b \in Account /\ b.cur = k /\ Len(b.old) = Len(a.old) + 1 /\ b.old[1] = a.cur
      /\ \A n \in 2 .. Len(b.old) : n - 1 \in 1 .. Len(a.old) /\ b.old[n] = a.old[n - 1]
    BY <1>0 DEF Account
<1> HIDE DEF b
<1>2. b.old # <<>> /\ Head(b.old) = a.cur /\ b.old \in Seq(Kid) /\ DOMAIN b.old = 1 .. Len(b.old)
    BY <1>0, <1>1 DEF Account
<1>3. \A n \in 1 .. Len(b.old) : n = 1 \/ n \in 2 .. Len(b.old)
    BY <1>0, <1>1
<1>4. \A n \in 1 .. Len(b.old) : b.old[n] \in Held(a)
    BY <1>0, <1>1, <1>3
<1>5. Held(b) = Held(a) \cup {k}
    <2>1. \A n \in 1 .. Len(a.old) : n + 1 \in 2 .. Len(b.old) /\ n + 1 \in 1 .. Len(b.old) /\ (n + 1) - 1 = n
        BY <1>0, <1>1
    <2>2. \A n \in 1 .. Len(a.old) : b.old[n + 1] = a.old[n]
        BY <1>1, <2>1
    <2>3. \A y \in Held(b) : y \in Held(a) \cup {k}
        BY <1>1, <1>4, HeldIs
    <2>4. k \in Held(b) /\ a.cur \in Held(b)
        <3>1. 1 \in 1 .. Len(b.old)
            BY <1>0, <1>1
        <3> QED BY <1>1, <3>1, HeldIs
    <2>5. \A y \in Held(a) : y \in Held(b)
        BY <1>1, <2>1, <2>2, <2>4, HeldIs
    <2> QED BY <2>3, <2>4, <2>5
<1>6. Distinct(b)
    <2>0. ToSet(b.old) = {b.old[n] : n \in 1 .. Len(b.old)}
        BY <1>1, HeldIs
    <2>1. b.cur \notin ToSet(b.old)
        BY <1>1, <1>4, <2>0
    <2>2. \A m, n \in 1 .. Len(a.old) : a.old[m] = a.old[n] => m = n
        BY <1>0 DEF Distinct, IsInjective
    <2>3. \A n \in 1 .. Len(a.old) : a.old[n] # a.cur
        BY HeldIs DEF Distinct
    <2>4. ASSUME NEW m \in 1 .. Len(b.old), NEW n \in 1 .. Len(b.old), b.old[m] = b.old[n]
          PROVE  m = n
        <3>1. CASE m = 1 /\ n = 1
            BY <3>1
        <3>2. CASE m # 1 /\ n # 1
            <4>1. /\ m - 1 \in 1 .. Len(a.old) /\ n - 1 \in 1 .. Len(a.old)
                  /\ a.old[m - 1] = a.old[n - 1]
                BY <1>1, <1>3, <2>4, <3>2
            <4> QED BY <2>2, <4>1
        <3>3. CASE (m = 1) # (n = 1)
            BY <1>1, <1>3, <2>3, <2>4, <3>3
        <3> QED BY <3>1, <3>2, <3>3
    <2> QED BY <1>2, <2>1, <2>4 DEF Distinct, IsInjective
<1> QED BY <1>1, <1>2, <1>5, <1>6 DEF b

\* The key retired last is current again, and what was current takes its place.
LEMMA RevertedIs ==
    ASSUME NEW a \in Account, Distinct(a), a.old # <<>>
    PROVE  LET b == [cur |-> Head(a.old), old |-> <<a.cur>> \o Tail(a.old)]
           IN  /\ b \in Account /\ Distinct(b) /\ Held(b) = Held(a) /\ b.cur # a.cur
<1> DEFINE b == [cur |-> Head(a.old), old |-> <<a.cur>> \o Tail(a.old)]
<1>0. /\ a.cur \in Kid /\ a.cur \in Held(a) /\ Len(a.old) \in Nat /\ 1 <= Len(a.old)
      /\ a.old \in Seq(Kid) /\ (\A n \in 1 .. Len(a.old) : a.old[n] \in Held(a))
      /\ DOMAIN a.old = 1 .. Len(a.old)
    BY HeldIs
<1>1. Tail(a.old) \in Seq(Kid) /\ Len(Tail(a.old)) = Len(a.old) - 1
      /\ \A n \in 1 .. Len(a.old) - 1 : Tail(a.old)[n] = a.old[n + 1]
    BY <1>0
<1>2. /\ b \in Account /\ b.cur = a.old[1] /\ b.old = <<a.cur>> \o Tail(a.old)
    BY <1>0, <1>1 DEF Account
<1> HIDE DEF b
<1>3. /\ Len(b.old) = Len(a.old) /\ b.old[1] = a.cur
      /\ \A n \in 2 .. Len(a.old) : b.old[n] = a.old[n]
    BY <1>0, <1>1, <1>2
<1>4. \A n \in 1 .. Len(a.old) : n = 1 \/ n \in 2 .. Len(a.old)
    BY <1>0
<1>5. Held(b) = Held(a)
    <2>2. \A n \in 1 .. Len(b.old) : b.old[n] \in Held(a)
        BY <1>0, <1>3, <1>4
    <2>3. b.cur \in Held(a)
        BY <1>0, <1>2
    <2>4. \A k \in Held(b) : k \in Held(a)
        BY <1>2, <2>2, <2>3, HeldIs
    <2>5. b.cur \in Held(b) /\ \A n \in 1 .. Len(b.old) : b.old[n] \in Held(b)
        BY <1>2, HeldIs
    <2>6. \A n \in 1 .. Len(a.old) : a.old[n] \in Held(b)
        BY <1>2, <1>3, <1>4, <2>5
    <2>7. a.cur \in Held(b)
        BY <1>0, <1>3, <2>5
    <2>8. \A k \in Held(a) : k \in Held(b)
        BY <2>6, <2>7, HeldIs
    <2> QED BY <2>4, <2>8
<1>6. \A m, n \in 1 .. Len(a.old) : a.old[m] = a.old[n] => m = n
    BY <1>0 DEF Distinct, IsInjective
<1>7. \A n \in 1 .. Len(a.old) : a.old[n] # a.cur
    BY HeldIs DEF Distinct
<1>8. Distinct(b)
    <2>1. \A n \in 1 .. Len(b.old) : b.old[n] # b.cur
        BY <1>0, <1>2, <1>3, <1>4, <1>6, <1>7
    <2>2. \A m, n \in 1 .. Len(b.old) : b.old[m] = b.old[n] => m = n
        BY <1>3, <1>4, <1>6, <1>7
    <2>3. DOMAIN b.old = 1 .. Len(b.old)
        BY <1>2 DEF Account
    <2>4. ToSet(b.old) = {b.old[n] : n \in 1 .. Len(b.old)}
        BY <1>2, HeldIs
    <2>5. IsInjective(b.old)
        BY <2>2, <2>3 DEF IsInjective
    <2> QED BY <2>1, <2>4, <2>5 DEF Distinct
<1>9. b.cur # a.cur
    BY <1>0, <1>2, <1>7
<1> QED BY <1>2, <1>5, <1>8, <1>9 DEF b

\* A retired key is destroyed: the others keep their order.
LEMMA DestroyedIs ==
    ASSUME NEW a \in Account, Distinct(a), NEW k \in ToSet(a.old)
    PROVE  LET b == [a EXCEPT !.old = RemoveFirst(a.old, k)]
           IN  /\ b \in Account /\ Distinct(b) /\ Held(b) = Held(a) \ {k} /\ b.cur = a.cur
               /\ a.old # <<>> /\ (Head(a.old) # k => Head(b.old) = Head(a.old))
<1> DEFINE b == [a EXCEPT !.old = RemoveFirst(a.old, k)]
<1>0. a.old \in Seq(Kid) /\ IsInjective(a.old) /\ a.cur \notin ToSet(a.old) /\ a.cur \in Kid
    BY HeldIs DEF Distinct
<1>1. /\ RemoveFirst(a.old, k) \in Seq(Kid) /\ IsInjective(RemoveFirst(a.old, k))
      /\ ToSet(RemoveFirst(a.old, k)) = ToSet(a.old) \ {k}
      /\ Len(RemoveFirst(a.old, k)) = Len(a.old) - 1
      /\ a.old[1] # k => Len(a.old) > 1 /\ RemoveFirst(a.old, k)[1] = a.old[1]
    BY <1>0, Taken
<1>2. b = [cur |-> a.cur, old |-> RemoveFirst(a.old, k)]
    BY DEF Account
<1> HIDE DEF b
<1>3. b \in Account /\ b.cur = a.cur /\ b.old = RemoveFirst(a.old, k)
    BY <1>0, <1>1, <1>2 DEF Account
<1>4. Held(b) = Held(a) \ {k}
    BY <1>0, <1>1, <1>3 DEF Held
<1>5. Distinct(b)
    BY <1>0, <1>1, <1>3 DEF Distinct
<1>6. a.old # <<>> /\ (Head(a.old) # k => Head(b.old) = Head(a.old))
    BY <1>0, <1>1, <1>3, HeldIs
<1> QED BY <1>3, <1>4, <1>5, <1>6 DEF b

----------------------------------------------------------------------------
(* What is true of the stored vault, the backup, and the operations that have read
   a vault and not written it yet, or written a key and not heard of it. *)

\* Accounts of identities of this device, no key twice in one of them.
AccountsOK(acc) ==
    DOMAIN acc \subseteq Id /\ \A i \in DOMAIN acc : acc[i] \in Account /\ Distinct(acc[i])
VaultOK(v) ==
    /\ DOMAIN v = {"acc", "active", "seal"} /\ AccountsOK(v.acc)
    /\ DOMAIN v.acc # {} => v.active \in DOMAIN v.acc

\* Only identities and keys that were generated.
Known(acc) ==
    DOMAIN acc \subseteq born /\ \A i \in DOMAIN acc : \A k \in Held(acc[i]) : k <= lastKey

\* The fields of an operation.
Fields == {"stage", "tab", "kind", "id", "key", "pw", "me", "token", "from", "full", "drop", "forget"}

\* The keys of an identity that are stored, or that its owner gave up.
Kept(i) == forgone[i] \cup HeldIn(blob.acc, i)

\* What is stored, backed up, published and in doubt.
StoreInv ==
    /\ VaultOK(blob) /\ AccountsOK(file) /\ Known(blob.acc) /\ Known(file)
    /\ DOMAIN server = {"key", "gone"} /\ server.key \in [Id -> 0 .. MaxKey]
    /\ forgone \in [Id -> SUBSET Kid] /\ unsure \in [Id -> SUBSET Kid]
    /\ lastKey \in 0 .. MaxKey /\ born \subseteq Id
    /\ \A i \in Id : \A k \in unsure[i] : k <= lastKey
    /\ \A i \in Id : server.key[i] # 0 => i \in born
    /\ \A i \in DOMAIN file : server.key[i] # 0 => server.key[i] \in Held(file[i]) \cup Kept(i)

\* A rotation that may still be published or undone, a vault read and not written.
UnderWay(o) ==
    op[o].kind = "revert" \/ op[o].stage = "send" \/ (op[o].kind = "rotate" /\ op[o].stage = "write")
InHand(o) == op[o].stage \in Holding

\* What operation r, which leaves the vault v, makes of the account of identity i.
Change(r, v, i) ==
    LET b == v.acc[i]
        a == blob.acc[i]
    IN  \/ i \in DOMAIN blob.acc /\ b = a /\ (r.kind = "revert" => i # v.active)
        \/ r.kind = "add" /\ i = r.id /\ i \notin DOMAIN blob.acc /\ server.key[i] = 0
        \/ /\ r.kind = "rotate" /\ i = r.id /\ i \in DOMAIN blob.acc
           /\ b = [cur |-> r.key, old |-> <<a.cur>> \o a.old]
        \/ /\ r.kind = "revert" /\ i = v.active /\ i \in DOMAIN blob.acc
           /\ a.cur = r.key /\ a.old # <<>>
           /\ b = [cur |-> Head(a.old), old |-> <<a.cur>> \o Tail(a.old)]
        \/ /\ r.kind = "destroy" /\ i \in DOMAIN blob.acc /\ r.key \in ToSet(a.old)
           /\ b = [a EXCEPT !.old = RemoveFirst(a.old, r.key)]
Turns(o, i) == Change(op[o], op[o].full, i)

\* The keys a write gives up on purpose.
Loss(o, i) == IF op[o].kind \in Purposeful THEN op[o].drop[i] ELSE {}

\* The key of a rotation is nowhere but in the vault about to be written.
Launches(o) ==
    LET r == op[o] IN
    /\ r.id \in DOMAIN r.full.acc /\ r.full.acc[r.id].cur = r.key /\ r.key \in Kid
    /\ \A i \in Id : r.key \notin HeldIn(blob.acc, i) \cup HeldIn(file, i) \cup unsure[i]

\* The vault about to be written: a change of the stored one, unless that was wiped.
WriteOK(o) == op[o].stage = "write" =>
    LET v == op[o].full IN
    /\ VaultOK(v) /\ Known(v.acc) /\ DOMAIN v.acc # {}
    /\ op[o].drop \in [Id -> SUBSET Kid]
    /\ \A i \in Id : HeldIn(blob.acc, i) \subseteq HeldIn(v.acc, i) \cup Loss(o, i)
    /\ \A i \in DOMAIN v.acc :
          /\ server.key[i] # 0 => server.key[i] \in Held(v.acc[i]) \cup Kept(i)
          /\ op[o].kind # "import" =>
                IF HasVault THEN Turns(o, i) ELSE server.key[i] \in {0} \cup forgone[i]
    /\ op[o].kind = "rotate" => Launches(o)
    /\ op[o].kind = "revert" => op[o].key \in HeldIn(v.acc, v.active)

\* Where a key is held, it is current.
OnTop(acc, i, k) == i \in DOMAIN acc /\ k \in Held(acc[i]) => acc[i].cur = k

\* The key being published is stored, or was given up.
SendOK(o) == op[o].stage = "send" =>
    LET r == op[o] IN
    /\ r.kind = "rotate" /\ r.id \in born /\ r.key \in Kid /\ r.key \in Kept(r.id)
    /\ OnTop(blob.acc, r.id, r.key) /\ OnTop(file, r.id, r.key)

\* What a login sends is the current key of the vault as it still is.
LoginOK(o) == op[o].stage = "login" =>
    LET r == op[o] IN
    /\ r.id \in born /\ r.key \in Kid
    /\ HasVault => r.id \in DOMAIN blob.acc /\ blob.acc[r.id].cur = r.key

\* The server's key of identity i is one its owner did not give up.
Counts(i) == server.key[i] # 0 /\ server.key[i] \notin forgone[i]

\* Undoing the rotation to k brings back the key the server serves, unless there
\* was doubt about it before.
Undoable(i, k) ==
    LET a == blob.acc[i] IN
    a.cur = k /\ a.old # <<>> /\ Counts(i) /\ server.key[i] # k /\ unsure[i] \subseteq {k} =>
        Head(a.old) = server.key[i]
UndoOK(o) ==
    op[o].stage = "send" \/ op[o].kind = "revert" =>
        \A i \in DOMAIN blob.acc : Undoable(i, op[o].key)

\* A write leaves the key being published where it is.
Apart(o, p) ==
    op[o].stage = "send" /\ op[p].stage = "write" =>
        /\ OnTop(op[p].full.acc, op[o].id, op[o].key)
        /\ op[p].kind = "add" => op[p].id # op[o].id

\* What is known of one operation.
RecordInv(o) == WriteOK(o) /\ SendOK(o) /\ LoginOK(o) /\ UndoOK(o)

\* One vault in hand at a time, and one rotation under way.
OrderInv ==
    /\ \A o, p \in Op : Apart(o, p)
    /\ \A o, p \in Op : UnderWay(o) /\ UnderWay(p) => o = p
    /\ \A o, p \in Op : InHand(o) /\ InHand(p) => o = p

\* The key invariant.
KeyInv ==
    /\ StoreInv /\ PublishedHeld /\ RefusedUndone
    /\ \A o \in Op : RecordInv(o)
    /\ OrderInv

----------------------------------------------------------------------------
(* Steps that leave what is stored alone. *)

\* What is stored, and what the history says of it.
store == <<blob, file, lastKey, born, forgone, unsure>>

\* A step of an operation that reads, writes and sends nothing, and undoes no
\* rotation but its own.
Quiet(o) ==
    /\ op'[o].stage \notin {"write", "login", "send"}
    /\ op'[o].kind = "revert" =>
          op'[o].key = op[o].key /\ (op[o].kind = "revert" \/ op[o].stage = "send")

\* Stored, published and given up: nothing of it changed.
LEMMA StoreKept ==
    ASSUME StoreInv, UNCHANGED store, server'.key = server.key, DOMAIN server' = DOMAIN server
    PROVE  StoreInv'
  BY DEF StoreInv, store, VaultOK, AccountsOK, Known, Kept, HeldIn

\* An operation that stays as it is keeps its record.
LEMMA RecordKept ==
    ASSUME UNCHANGED store, server'.key = server.key, NEW o, op'[o] = op[o], RecordInv(o)
    PROVE  RecordInv(o)'
<1>0. blob' = blob /\ file' = file /\ lastKey' = lastKey /\ born' = born /\ forgone' = forgone /\ unsure' = unsure
  BY DEF store
<1>1. WriteOK(o)'
  <2>1. \A i : Turns(o, i)' <=> Turns(o, i)
    BY <1>0 DEF Turns, Change
  <2>2. Launches(o)' <=> Launches(o)
    BY <1>0 DEF Launches, HeldIn
  <2>3. \A i : Kept(i)' = Kept(i) /\ Loss(o, i)' = Loss(o, i)
    BY <1>0 DEF Kept, HeldIn, Loss
  <2>4. Known(op[o].full.acc)' <=> Known(op[o].full.acc)
    BY <1>0 DEF Known
  <2>5. HasVault' <=> HasVault
    BY <1>0 DEF HasVault
  <2> QED
    BY <1>0, <2>1, <2>2, <2>3, <2>4, <2>5 DEF RecordInv, WriteOK
<1>2. SendOK(o)'
  BY DEF store, RecordInv, SendOK, Kept, HeldIn, OnTop
<1>3. LoginOK(o)'
  BY DEF store, RecordInv, LoginOK, HasVault
<1>4. UndoOK(o)'
  BY DEF store, RecordInv, UndoOK, Undoable, Counts
<1> QED
  BY <1>1, <1>2, <1>3, <1>4 DEF RecordInv

\* No quiet step takes a vault in hand or starts a rotation.
LEMMA OrderKept ==
    ASSUME KeyInv, \A o \in Op : op'[o] = op[o] \/ Quiet(o) PROVE OrderInv'
<1>1. ASSUME NEW o \in Op
      PROVE  /\ UnderWay(o)' => UnderWay(o)
             /\ InHand(o)' => InHand(o)
             /\ op'[o].stage \in {"write", "send"} => op'[o] = op[o]
  BY DEF Quiet, UnderWay, InHand, Holding
<1>2. ASSUME NEW o \in Op, NEW p \in Op PROVE Apart(o, p)'
  <2>1. SUFFICES ASSUME op'[o].stage = "send", op'[p].stage = "write" PROVE Apart(o, p)'
    BY DEF Apart
  <2>2. op'[o] = op[o] /\ op'[p] = op[p]
    BY <2>1, <1>1
  <2> QED
    BY <2>2 DEF KeyInv, OrderInv, Apart, OnTop
<1>3. \A o, p \in Op : UnderWay(o)' /\ UnderWay(p)' => o = p
  BY <1>1 DEF KeyInv, OrderInv
<1>4. \A o, p \in Op : InHand(o)' /\ InHand(p)' => o = p
  BY <1>1 DEF KeyInv, OrderInv
<1> QED
  BY <1>2, <1>3, <1>4 DEF OrderInv

\* A step that stores and publishes nothing keeps the key invariant.
LEMMA Calm ==
    ASSUME KeyInv, UNCHANGED store, server'.key = server.key, DOMAIN server' = DOMAIN server,
           \A o \in Op : op'[o] = op[o] \/ Quiet(o)
    PROVE  KeyInv'
<1>1. StoreInv'
  BY StoreKept DEF KeyInv, OrderInv
<1>2. PublishedHeld' /\ RefusedUndone'
  BY DEF KeyInv, OrderInv, PublishedHeld, RefusedUndone, store
<1>3. ASSUME NEW o \in Op PROVE RecordInv(o)'
  <2>1. CASE op'[o] = op[o]
    BY <2>1, RecordKept DEF KeyInv, OrderInv
  <2>2. CASE Quiet(o)
    <3>1. WriteOK(o)' /\ SendOK(o)' /\ LoginOK(o)'
      BY <2>2 DEF Quiet, WriteOK, SendOK, LoginOK
    <3>2. UndoOK(o)'
      BY <2>2 DEF Quiet, UndoOK, Undoable, Counts, KeyInv, RecordInv, store
    <3> QED
      BY <3>1, <3>2 DEF RecordInv
  <2> QED
    BY <2>1, <2>2
<1> QED
  BY <1>1, <1>2, <1>3, OrderKept DEF KeyInv, OrderInv

----------------------------------------------------------------------------
(* Reading the vault: what each change makes of it. *)

\* An operation that has generated what its change needs.
Ready(r) ==
    /\ r.kind \in Writers
    /\ r.kind = "add" => r.id \in Id \ born
    /\ r.kind = "rotate" => r.id = blob.active
    /\ r.kind \in {"add", "rotate"} => r.key = lastKey + 1 /\ r.key \in Kid

\* What it may leave: every account is accounted for.
Good(r, v) ==
    /\ VaultOK(v) /\ DOMAIN v.acc # {}
    /\ \A i \in DOMAIN v.acc :
          Change(r, v, i) \/ (r.kind = "import" /\ i \in DOMAIN file /\ v.acc[i] = file[i])
    /\ r.kind \notin Purposeful => DOMAIN blob.acc \subseteq DOMAIN v.acc
    /\ r.kind = "add" => Held(v.acc[r.id]) = {r.key}
    /\ r.kind = "rotate" => r.id \in DOMAIN v.acc /\ v.acc[r.id].cur = r.key
    /\ r.kind = "revert" => r.key \in HeldIn(v.acc, v.active)

\* addVaultAccount: a new identity beside the others.
LEMMA AddedIs ==
    ASSUME StoreInv, HasVault, NEW r, Ready(r), r.kind = "add", NEW v \in Results(r, blob)
    PROVE  Good(r, v)
<1> DEFINE D == DOMAIN blob.acc \cup {r.id}
           f == [i \in D |-> IF i = r.id THEN [cur |-> r.key, old |-> <<>>] ELSE blob.acc[i]]
<1>1. v = [blob EXCEPT !.acc = f]
  BY DEF Results, Added
<1>2. DOMAIN blob = {"acc", "active", "seal"} /\ AccountsOK(blob.acc) /\ blob.active \in DOMAIN blob.acc
  BY DEF StoreInv, VaultOK, HasVault
<1>3. r.id \in Id \ born /\ r.key \in Kid /\ DOMAIN blob.acc \subseteq born
      /\ server.key[r.id] = 0
  BY DEF Ready, StoreInv, Known
<1>4. v.acc = f /\ v.active = blob.active /\ DOMAIN v = {"acc", "active", "seal"}
  BY <1>1, <1>2
<1>5. [cur |-> r.key, old |-> <<>>] \in Account /\ Distinct([cur |-> r.key, old |-> <<>>])
  BY <1>3 DEF Account, Distinct, IsInjective, ToSet
<1>6. AccountsOK(f)
  BY <1>2, <1>3, <1>5 DEF AccountsOK
<1>7. \A i \in D : Change(r, v, i)
  BY <1>3, <1>4 DEF Change
<1>8. Held(v.acc[r.id]) = {r.key}
  BY <1>4 DEF Held, ToSet
<1> QED
  BY <1>2, <1>4, <1>6, <1>7, <1>8 DEF Good, VaultOK

\* switchVaultAccount moves nothing but the active identity.
LEMMA SwitchedIs ==
    ASSUME StoreInv, HasVault, NEW r, Ready(r), r.kind = "switch", NEW v \in Results(r, blob)
    PROVE  Good(r, v)
<1>1. v = [blob EXCEPT !.active = r.id] /\ r.id \in DOMAIN blob.acc
  BY DEF Results, Switched
<1>2. DOMAIN blob = {"acc", "active", "seal"} /\ AccountsOK(blob.acc)
  BY DEF StoreInv, VaultOK
<1>3. v.acc = blob.acc /\ v.active = r.id /\ DOMAIN v = {"acc", "active", "seal"}
  BY <1>1, <1>2
<1> QED
  BY <1>1, <1>2, <1>3 DEF Good, VaultOK, Change

\* deleteVaultAccount and a forgotten identity: the others stay as they are.
LEMMA RemovedIs ==
    ASSUME StoreInv, HasVault, NEW r, r.kind \in {"delete", "forget"}, NEW v \in Results(r, blob)
    PROVE  Good(r, v)
<1> DEFINE left == DOMAIN blob.acc \ {r.id}
<1>1. PICK a \in IF blob.active = r.id THEN left ELSE {blob.active} :
          v = [blob EXCEPT !.acc = [i \in left |-> blob.acc[i]], !.active = a]
  BY DEF Results, Removed
<1>2. DOMAIN blob = {"acc", "active", "seal"} /\ AccountsOK(blob.acc) /\ blob.active \in DOMAIN blob.acc
  BY DEF StoreInv, VaultOK, HasVault
<1>3. a \in left
  BY <1>1, <1>2
<1>4. v.acc = [i \in left |-> blob.acc[i]] /\ v.active = a /\ DOMAIN v = {"acc", "active", "seal"}
  BY <1>1, <1>2
<1>5. AccountsOK(v.acc)
  BY <1>2, <1>4 DEF AccountsOK
<1>6. \A i \in DOMAIN v.acc : Change(r, v, i)
  BY <1>4 DEF Change
<1> QED
  BY <1>3, <1>4, <1>5, <1>6 DEF Good, VaultOK, Purposeful

\* importVault: the backup's accounts, and the others as they were.
LEMMA MergedIs ==
    ASSUME StoreInv, HasVault, NEW r, r.kind = "import", NEW v \in Results(r, blob)
    PROVE  Good(r, v)
<1> DEFINE D == DOMAIN blob.acc \cup DOMAIN file
           f == [i \in D |-> IF i \in DOMAIN file THEN file[i] ELSE blob.acc[i]]
<1>1. v = [blob EXCEPT !.acc = f]
  BY DEF Results, Merged
<1>2. /\ DOMAIN blob = {"acc", "active", "seal"} /\ AccountsOK(blob.acc) /\ blob.active \in DOMAIN blob.acc
      /\ AccountsOK(file)
  BY DEF StoreInv, VaultOK, HasVault
<1>3. v.acc = f /\ v.active = blob.active /\ DOMAIN v = {"acc", "active", "seal"}
  BY <1>1, <1>2
<1>4. AccountsOK(f)
  BY <1>2 DEF AccountsOK
<1>5. \A i \in D : Change(r, v, i) \/ (i \in DOMAIN file /\ v.acc[i] = file[i])
  BY <1>3 DEF Change
<1> QED
  BY <1>2, <1>3, <1>4, <1>5 DEF Good, VaultOK, Purposeful

\* The three that change the account in use.
LEMMA ActiveIs ==
    ASSUME StoreInv, HasVault, NEW v, NEW b \in Account, Distinct(b),
           v = [blob EXCEPT !.acc[blob.active] = b]
    PROVE  /\ VaultOK(v) /\ DOMAIN v.acc # {} /\ DOMAIN v.acc = DOMAIN blob.acc
           /\ v.active = blob.active /\ v.active \in DOMAIN blob.acc /\ v.acc[v.active] = b
           /\ \A i \in DOMAIN v.acc \ {v.active} : v.acc[i] = blob.acc[i]
<1>1. DOMAIN blob = {"acc", "active", "seal"} /\ AccountsOK(blob.acc) /\ blob.active \in DOMAIN blob.acc
  BY DEF StoreInv, VaultOK, HasVault
<1>2. v.acc = [blob.acc EXCEPT ![blob.active] = b] /\ v.active = blob.active /\ DOMAIN v = {"acc", "active", "seal"}
  BY <1>1
<1>3. AccountsOK(v.acc)
  BY <1>1, <1>2 DEF AccountsOK
<1> QED
  BY <1>1, <1>2, <1>3 DEF VaultOK

\* A stored vault has its active account.
LEMMA ActiveAccount ==
    ASSUME StoreInv, HasVault
    PROVE  /\ blob.active \in DOMAIN blob.acc
           /\ blob.acc[blob.active] \in Account /\ Distinct(blob.acc[blob.active])
           /\ DOMAIN blob = {"acc", "active", "seal"}
           /\ \A k \in Held(blob.acc[blob.active]) : k <= lastKey
  BY DEF StoreInv, VaultOK, HasVault, AccountsOK, Known

\* rotateEncryptionKey puts the new key in front of the retired ones.
LEMMA RotationIs ==
    ASSUME StoreInv, HasVault, NEW r, Ready(r), r.kind = "rotate", NEW v \in Results(r, blob)
    PROVE  Good(r, v)
<1> DEFINE a == blob.acc[blob.active]
           b == [cur |-> r.key, old |-> <<a.cur>> \o a.old]
<1>1. v = [blob EXCEPT !.acc[blob.active] = b]
  BY DEF Results, Rotated
<1>2. r.key \in Kid /\ r.key \notin Held(a) /\ r.id = blob.active
  BY ActiveAccount DEF Ready, StoreInv
<1>3. b \in Account /\ Distinct(b)
  BY <1>2, ActiveAccount, RotatedIs
<1> HIDE DEF b
<1>4. /\ VaultOK(v) /\ DOMAIN v.acc # {} /\ DOMAIN v.acc = DOMAIN blob.acc
      /\ v.active = blob.active /\ v.active \in DOMAIN blob.acc /\ v.acc[v.active] = b
      /\ \A i \in DOMAIN v.acc \ {v.active} : v.acc[i] = blob.acc[i]
  BY <1>1, <1>3, ActiveIs
<1>5. \A i \in DOMAIN v.acc : Change(r, v, i)
  <2>1. \A i \in DOMAIN v.acc : i # v.active => Change(r, v, i)
    BY <1>4 DEF Change
  <2>2. Change(r, v, v.active)
    BY <1>2, <1>4 DEF Change, b
  <2> QED
    BY <2>1, <2>2
<1>6. r.id \in DOMAIN v.acc /\ v.acc[r.id].cur = r.key
  BY <1>2, <1>4 DEF b
<1> QED
  BY <1>4, <1>5, <1>6 DEF Good

\* A rotation undone puts the key retired last back in front.
LEMMA ReversalIs ==
    ASSUME StoreInv, HasVault, NEW r, r.kind = "revert", NEW v \in Results(r, blob)
    PROVE  Good(r, v)
<1> DEFINE a == blob.acc[blob.active]
           b == [cur |-> Head(a.old), old |-> <<a.cur>> \o Tail(a.old)]
<1>0. v = [blob EXCEPT !.acc[blob.active] = b]
  BY DEF Results, Reverted
<1>1. a.cur = r.key /\ a.old # <<>>
  BY DEF Results, Reverted
<1>2. b \in Account /\ Distinct(b) /\ Held(b) = Held(a)
  BY <1>1, ActiveAccount, RevertedIs
<1> HIDE DEF b
<1>3. /\ VaultOK(v) /\ DOMAIN v.acc # {} /\ DOMAIN v.acc = DOMAIN blob.acc
      /\ v.active = blob.active /\ v.active \in DOMAIN blob.acc /\ v.acc[v.active] = b
      /\ \A i \in DOMAIN v.acc \ {v.active} : v.acc[i] = blob.acc[i]
  BY <1>0, <1>2, ActiveIs
<1>4. \A i \in DOMAIN v.acc : Change(r, v, i)
  <2>1. \A i \in DOMAIN v.acc : i # v.active => Change(r, v, i)
    BY <1>3 DEF Change
  <2>2. Change(r, v, v.active)
    BY <1>1, <1>3 DEF Change, b
  <2> QED
    BY <2>1, <2>2
<1>5. r.key \in HeldIn(v.acc, v.active)
  BY <1>1, <1>2, <1>3, HeldIs, ActiveAccount DEF HeldIn
<1> QED
  BY <1>3, <1>4, <1>5 DEF Good

\* destroyRetiredKey takes one retired key out.
LEMMA DestructionIs ==
    ASSUME StoreInv, HasVault, NEW r, r.kind = "destroy", NEW v \in Results(r, blob)
    PROVE  Good(r, v)
<1> DEFINE a == blob.acc[blob.active]
           b == [a EXCEPT !.old = RemoveFirst(a.old, r.key)]
<1>1. v = [blob EXCEPT !.acc[blob.active].old = RemoveFirst(a.old, r.key)] /\ r.key \in ToSet(a.old)
  BY DEF Results, Destroyed
<1>2. b \in Account /\ Distinct(b)
  BY <1>1, ActiveAccount, DestroyedIs
<1>3. v = [blob EXCEPT !.acc[blob.active] = b]
  BY <1>1, ActiveAccount
<1> HIDE DEF b
<1>4. /\ VaultOK(v) /\ DOMAIN v.acc # {} /\ DOMAIN v.acc = DOMAIN blob.acc
      /\ v.active = blob.active /\ v.active \in DOMAIN blob.acc /\ v.acc[v.active] = b
      /\ \A i \in DOMAIN v.acc \ {v.active} : v.acc[i] = blob.acc[i]
  BY <1>2, <1>3, ActiveIs
<1>5. \A i \in DOMAIN v.acc : Change(r, v, i)
  BY <1>1, <1>4 DEF Change, b
<1> QED
  BY <1>4, <1>5 DEF Good

\* Whatever the operation, it leaves a vault that accounts for every identity.
LEMMA Outcome ==
    ASSUME StoreInv, HasVault, NEW r, Ready(r), NEW v \in Results(r, blob)
    PROVE  Good(r, v)
<1>1. r.kind \in {"add", "switch", "delete", "forget", "rotate", "revert", "destroy", "import"}
  BY DEF Ready, Writers
<1> QED
  BY <1>1, AddedIs, SwitchedIs, RemovedIs, MergedIs, RotationIs, ReversalIs, DestructionIs

\* What a change makes of an account that is stored.
LEMMA ChangeIs ==
    ASSUME AccountsOK(blob.acc), NEW r, NEW v, NEW i \in DOMAIN blob.acc, Change(r, v, i),
           r.kind = "rotate" => r.key \in Kid \ Held(blob.acc[i])
    PROVE  /\ \A k \in Held(v.acc[i]) : k \in Held(blob.acc[i]) \/ (r.kind = "rotate" /\ k = r.key)
           /\ r.kind # "destroy" => Held(blob.acc[i]) \subseteq Held(v.acc[i])
           /\ r.kind \notin {"rotate", "revert"} => v.acc[i].cur = blob.acc[i].cur
<1>0. blob.acc[i] \in Account /\ Distinct(blob.acc[i])
  BY DEF AccountsOK
<1>1. CASE v.acc[i] = blob.acc[i]
  BY <1>1
<1>2. CASE r.kind = "rotate" /\ v.acc[i] = [cur |-> r.key, old |-> <<blob.acc[i].cur>> \o blob.acc[i].old]
  <2>1. Held(v.acc[i]) = Held(blob.acc[i]) \cup {r.key}
    BY <1>0, <1>2, RotatedIs
  <2> QED
    BY <1>2, <2>1
<1>3. CASE r.kind = "revert" /\ blob.acc[i].old # <<>>
           /\ v.acc[i] = [cur |-> Head(blob.acc[i].old), old |-> <<blob.acc[i].cur>> \o Tail(blob.acc[i].old)]
  <2>1. Held(v.acc[i]) = Held(blob.acc[i])
    BY <1>0, <1>3, RevertedIs
  <2> QED
    BY <1>3, <2>1
<1>4. CASE r.kind = "destroy" /\ r.key \in ToSet(blob.acc[i].old)
           /\ v.acc[i] = [blob.acc[i] EXCEPT !.old = RemoveFirst(blob.acc[i].old, r.key)]
  <2>1. Held(v.acc[i]) = Held(blob.acc[i]) \ {r.key} /\ v.acc[i].cur = blob.acc[i].cur
    BY <1>0, <1>4, DestroyedIs
  <2> QED
    BY <1>4, <2>1
<1> QED
  BY <1>1, <1>2, <1>3, <1>4 DEF Change

\* What is held of an identity are keys.
LEMMA HeldInKid ==
    ASSUME NEW acc, AccountsOK(acc), NEW i PROVE HeldIn(acc, i) \subseteq Kid
  BY HeldIs DEF HeldIn, AccountsOK

\* The keys stored are keys that were generated, and not the next one.
LEMMA NotYet ==
    ASSUME StoreInv, NEW k, k = lastKey + 1
    PROVE  \A i \in Id : k \notin HeldIn(blob.acc, i) \cup HeldIn(file, i) \cup unsure[i]
<1>1. lastKey \in Nat /\ ~ (k <= lastKey)
  BY DEF StoreInv
<1> QED
  BY <1>1 DEF StoreInv, Known, HeldIn

\* The identity and key an operation generates are new.
LEMMA FreshIs ==
    ASSUME VaultConstants, StoreInv, NEW o \in Op, DOMAIN op[o] = Fields, op[o].kind \in Writers,
           NEW r \in Fresh(op[o])
    PROVE  /\ Ready(r) /\ DOMAIN r = Fields
           /\ r.kind = op[o].kind /\ r.tab = op[o].tab /\ r.pw = op[o].pw
           /\ r.kind \notin {"add", "rotate"} => r = op[o]
<1>0. lastKey < MaxKey => lastKey + 1 \in Kid
  BY DEF StoreInv, Kid, VaultConstants
<1>1. CASE op[o].kind = "add"
  <2>1. PICK i \in Id \ born : lastKey < MaxKey /\ r = [op[o] EXCEPT !.id = i, !.key = lastKey + 1]
    BY <1>1 DEF Fresh
  <2> QED
    BY <1>0, <1>1, <2>1 DEF Ready, Fields
<1>2. CASE op[o].kind = "rotate"
  <2>1. lastKey < MaxKey /\ r = [op[o] EXCEPT !.id = blob.active, !.key = lastKey + 1]
    BY <1>2 DEF Fresh
  <2> QED
    BY <1>0, <1>2, <2>1 DEF Ready, Fields
<1>3. CASE op[o].kind \notin {"add", "rotate"}
  BY <1>3 DEF Fresh, Ready
<1> QED
  BY <1>1, <1>2, <1>3

\* The vault read, changed, and about to be written.
LEMMA Taking ==
    ASSUME StoreInv, PublishedHeld, HasVault, UNCHANGED <<blob, file, server, forgone, unsure>>,
           NEW o \in Op, NEW r, Ready(r), NEW v \in Results(r, blob),
           op'[o].stage = "write", op'[o].full = v, op'[o].kind = r.kind, op'[o].id = r.id,
           op'[o].key = r.key,
           op'[o].drop = [i \in Id |-> HeldIn(blob.acc, i) \ HeldIn(v.acc, i)],
           lastKey' = IF r.kind \in {"add", "rotate"} THEN lastKey + 1 ELSE lastKey,
           born' = IF r.kind = "add" THEN born \cup {r.id} ELSE born
    PROVE  WriteOK(o)'
<1>1. Good(r, v) /\ AccountsOK(blob.acc) /\ AccountsOK(file)
  BY Outcome DEF StoreInv, VaultOK
<1>2. lastKey \in Nat /\ lastKey' \in Nat /\ lastKey <= lastKey' /\ born \subseteq born'
      /\ (r.kind \in {"add", "rotate"} => r.key = lastKey' /\ r.key \in Kid /\ r.key = lastKey + 1)
  BY DEF StoreInv, Ready
<1>3. r.kind = "rotate" => \A i \in Id : r.key \notin HeldIn(blob.acc, i) \cup HeldIn(file, i) \cup unsure[i]
  BY <1>2, NotYet
<1>4. ASSUME NEW i \in DOMAIN v.acc
      PROVE  /\ i \in born' /\ \A k \in Held(v.acc[i]) : k <= lastKey'
             /\ server.key[i] # 0 => server.key[i] \in Held(v.acc[i]) \cup Kept(i)
             /\ r.kind # "import" => Change(r, v, i)
  <2>0. i \in Id
    BY <1>1, <1>4 DEF Good, VaultOK, AccountsOK
  <2>1. CASE i \in DOMAIN blob.acc /\ Change(r, v, i)
    <3>1. r.kind = "rotate" => r.key \in Kid \ Held(blob.acc[i])
      BY <1>2, <1>3, <2>0, <2>1 DEF HeldIn
    <3>2. \A k \in Held(v.acc[i]) : k \in Held(blob.acc[i]) \/ (r.kind = "rotate" /\ k = r.key)
      BY <1>1, <2>1, <3>1, ChangeIs
    <3>3. \A k \in Held(blob.acc[i]) : k <= lastKey /\ k \in Nat
      BY <1>1, <2>1, HeldIs DEF StoreInv, Known, AccountsOK, Kid
    <3>4. \A k \in Held(v.acc[i]) : k <= lastKey'
      BY <1>2, <3>2, <3>3
    <3>5. server.key[i] # 0 => server.key[i] \in Kept(i)
      BY <2>1 DEF PublishedHeld, Kept, HeldIn
    <3> QED
      BY <1>2, <2>1, <3>4, <3>5 DEF StoreInv, Known
  <2>2. CASE i \notin DOMAIN blob.acc /\ Change(r, v, i)
    <3>1. r.kind = "add" /\ i = r.id /\ server.key[i] = 0
      BY <2>2 DEF Change
    <3> QED
      BY <1>1, <1>2, <2>2, <3>1 DEF Good
  <2>3. CASE r.kind = "import" /\ i \in DOMAIN file /\ v.acc[i] = file[i]
    <3>1. \A k \in Held(file[i]) : k <= lastKey /\ k \in Nat
      BY <1>1, <2>3, HeldIs DEF StoreInv, Known, AccountsOK, Kid
    <3> QED
      BY <1>2, <2>3, <3>1 DEF StoreInv, Known
  <2> QED
    BY <1>1, <2>1, <2>2, <2>3 DEF Good
<1>5. \A i \in Id : HeldIn(blob.acc, i) \subseteq HeldIn(v.acc, i) \cup Loss(o, i)'
  <2> SUFFICES ASSUME NEW i \in Id, r.kind \notin Purposeful PROVE HeldIn(blob.acc, i) \subseteq HeldIn(v.acc, i)
    BY DEF Loss
  <2>1. CASE i \in DOMAIN blob.acc
    <3>1. i \in DOMAIN v.acc /\ Change(r, v, i)
      BY <1>1, <1>4, <2>1 DEF Good, Purposeful
    <3>2. r.kind = "rotate" => r.key \in Kid \ Held(blob.acc[i])
      BY <1>2, <1>3, <2>1 DEF HeldIn
    <3>3. Held(blob.acc[i]) \subseteq Held(v.acc[i])
      BY <1>1, <2>1, <3>1, <3>2, ChangeIs DEF Purposeful
    <3> QED
      BY <2>1, <3>1, <3>3 DEF HeldIn
  <2>2. CASE i \notin DOMAIN blob.acc
    BY <2>2 DEF HeldIn
  <2> QED
    BY <2>1, <2>2
<1>6. op'[o].drop \in [Id -> SUBSET Kid]
  BY <1>1, HeldInKid
<1>7. VaultOK(v) /\ Known(v.acc)' /\ DOMAIN v.acc # {}
  BY <1>1, <1>4 DEF Good, Known
<1>8. \A i \in DOMAIN v.acc : r.kind # "import" => Turns(o, i)'
  <2> SUFFICES ASSUME NEW i \in DOMAIN v.acc, r.kind # "import" PROVE Change(op[o], op[o].full, i)'
    BY DEF Turns
  <2>1. Change(r, v, i) /\ blob' = blob /\ server' = server
    BY <1>4
  <2> HIDE DEF Change
  <2> QED
    BY ONLY <2>1, op'[o].full = v, op'[o].kind = r.kind, op'[o].id = r.id, op'[o].key = r.key DEF Change
<1>9. r.kind = "rotate" => Launches(o)'
  BY <1>1, <1>2, <1>3 DEF Good, Launches
<1>10. r.kind = "revert" => r.key \in HeldIn(v.acc, v.active)
  BY <1>1 DEF Good
<1>11. \A i \in DOMAIN v.acc : server'.key[i] # 0 => server'.key[i] \in Held(v.acc[i]) \cup Kept(i)'
  BY <1>4 DEF Kept, HeldIn
<1> QED
  BY <1>5, <1>6, <1>7, <1>8, <1>9, <1>10, <1>11 DEF WriteOK, HasVault

\* A key or an identity more was generated.
LEMMA MoreKnown ==
    ASSUME StoreInv, UNCHANGED <<blob, file, server, forgone, unsure>>,
           lastKey' \in 0 .. MaxKey, lastKey <= lastKey', born \subseteq born', born' \subseteq Id
    PROVE  StoreInv'
<1>1. ASSUME NEW acc, AccountsOK(acc), Known(acc) PROVE Known(acc)'
  <2>1. \A i \in DOMAIN acc : \A k \in Held(acc[i]) : k \in Nat /\ k <= lastKey
    BY <1>1, HeldIs DEF AccountsOK, Known, Kid
  <2>2. lastKey \in Nat /\ lastKey' \in Nat
    BY DEF StoreInv
  <2> QED
    BY <1>1, <2>1, <2>2 DEF Known
<1>2. Known(blob.acc)' /\ Known(file)'
  <2>1. Known(blob.acc)' <=> \A i \in {1} : (DOMAIN blob.acc \subseteq born' /\ \A j \in DOMAIN blob.acc : \A k \in Held(blob.acc[j]) : k <= lastKey')
    BY DEF Known
  <2> QED
    BY <1>1, <2>1 DEF StoreInv, VaultOK, Known
<1>3. \A i \in Id : \A k \in unsure[i] : k <= lastKey'
  <2>1. \A i \in Id : \A k \in unsure[i] : k \in Nat /\ k <= lastKey
    BY DEF StoreInv, Kid
  <2> QED
    BY <2>1 DEF StoreInv
<1>4. \A i : Kept(i)' = Kept(i)
  BY DEF Kept, HeldIn
<1> QED
  BY <1>2, <1>3, <1>4 DEF StoreInv

\* An operation that holds no vault of its own, while what is stored changes.
LEMMA Bystander ==
    ASSUME NEW p, op'[p] = op[p], ~ InHand(p), RecordInv(p), UndoOK(p)', born \subseteq born',
           op[p].stage = "send" =>
               /\ op[p].key \in Kept(op[p].id)'
               /\ OnTop(blob'.acc, op[p].id, op[p].key) /\ OnTop(file', op[p].id, op[p].key)
    PROVE  RecordInv(p)'
<1>1. WriteOK(p)' /\ LoginOK(p)'
  BY DEF WriteOK, LoginOK, InHand, Holding
<1>2. SendOK(p)'
  BY DEF SendOK, RecordInv
<1> QED
  BY <1>1, <1>2 DEF RecordInv

\* Fewer than one is none.
LEMMA NoneOf ==
    ASSUME VaultConstants, MaxWriters = 1, NEW S \in SUBSET Op, Cardinality(S) < MaxWriters
    PROVE  S = {}
<1>1. IsFiniteSet(S)
  BY FS_Subset DEF VaultConstants
<1>2. Cardinality(S) \in Nat /\ (Cardinality(S) = 0 <=> S = {})
  BY <1>1, FS_CardinalityType, FS_EmptySet
<1> QED
  BY <1>2

\* With one writer, whoever takes a vault in hand finds no other that has.
LEMMA RoomIs ==
    ASSUME VaultConstants, MaxWriters = 1, NEW kind, Room(kind)
    PROVE  /\ \A p \in Op : ~ InHand(p)
           /\ kind = "rotate" => \A p \in Op : op[p].kind # "revert" /\ op[p].stage # "send"
<1>1. {p \in Op : op[p].stage \in Holding} = {}
  <2>1. Cardinality({p \in Op : op[p].stage \in Holding}) < MaxWriters
    BY DEF Room
  <2> QED
    BY <2>1, NoneOf
<1>2. kind = "rotate" => {p \in Op : op[p].kind = "revert" \/ op[p].stage = "send"} = {}
  <2>1. kind = "rotate" => Cardinality({p \in Op : op[p].kind = "revert" \/ op[p].stage = "send"}) < MaxWriters
    BY DEF Room
  <2> QED
    BY <2>1, NoneOf
<1> QED
  BY <1>1, <1>2 DEF InHand

\* Every operation is recorded with its fields.
ShapeInv == DOMAIN op = Op /\ \A o \in Op : DOMAIN op[o] = Fields

\* Reading a vault to change it: what will be written is a change of what is stored.
LEMMA ReadKeeps ==
    ASSUME VaultConstants, MaxWriters = 1, KeyInv, ShapeInv, NEW o \in Op, ReadToWrite(o)
    PROVE  KeyInv'
<1> USE DEF ShapeInv
<1>1. op[o].stage = "read" /\ op[o].kind \in Writers /\ HasVault /\ Room(op[o].kind)
      /\ UNCHANGED <<blob, file, bio, server, deeds, forgone, unsure>>
  BY DEF ReadToWrite, Opens, Reads
<1>2. PICK r \in Fresh(op[o]) :
        LET out == Results(r, blob) IN
        /\ \/ /\ out = {}
              /\ op' = [op EXCEPT ![o] = Idle]
              /\ tab' = [tab EXCEPT ![r.tab].cached = CachedByRead(r.tab, r.pw)]
           \/ \E v \in out :
              /\ op' = [op EXCEPT ![o] = [r EXCEPT !.stage = "write", !.full = v,
                                                   !.from = blob.acc[blob.active].cur,
                                                   !.drop = [i \in Id |-> HeldIn(blob.acc, i) \ HeldIn(v.acc, i)]]]
              /\ tab' = [tab EXCEPT ![r.tab].cached = CachedByRead(r.tab, r.pw),
                                    ![r.tab].mem = ViewAtRead(r, v)]
        /\ lastKey' = IF out # {} /\ r.kind \in {"add", "rotate"} THEN lastKey + 1 ELSE lastKey
        /\ born' = IF r.kind = "add" THEN born \cup {r.id} ELSE born
  BY DEF ReadToWrite
<1>3. /\ Ready(r) /\ DOMAIN r = Fields /\ r.kind = op[o].kind
      /\ r.kind \notin {"add", "rotate"} => r = op[o]
  BY <1>1, FreshIs DEF KeyInv, OrderInv
<1>4. CASE Results(r, blob) = {} /\ op' = [op EXCEPT ![o] = Idle]
  <2>1. r.kind # "add"
    BY <1>4 DEF Results, Added
  <2>2. UNCHANGED store
    BY <1>1, <1>2, <1>4, <2>1 DEF store
  <2>3. \A p \in Op : op'[p] = op[p] \/ Quiet(p)
    BY <1>4 DEF Quiet, Idle
  <2> QED
    BY <1>1, <2>2, <2>3, Calm
<1>5. ASSUME NEW v \in Results(r, blob),
             op' = [op EXCEPT ![o] = [r EXCEPT !.stage = "write", !.full = v,
                                               !.from = blob.acc[blob.active].cur,
                                               !.drop = [i \in Id |-> HeldIn(blob.acc, i) \ HeldIn(v.acc, i)]]]
      PROVE  KeyInv'
  <2>1. /\ \A p \in Op \ {o} : op'[p] = op[p]
        /\ op'[o].stage = "write" /\ op'[o].full = v /\ op'[o].kind = r.kind /\ op'[o].id = r.id
        /\ op'[o].key = r.key
        /\ op'[o].drop = [i \in Id |-> HeldIn(blob.acc, i) \ HeldIn(v.acc, i)]
    BY <1>3, <1>5 DEF Fields
  <2>2. /\ lastKey' = IF r.kind \in {"add", "rotate"} THEN lastKey + 1 ELSE lastKey
        /\ born' = IF r.kind = "add" THEN born \cup {r.id} ELSE born
    BY <1>2, <1>5
  <2> HIDE <1>5
  <2>3. WriteOK(o)'
    BY <1>1, <1>3, <2>1, <2>2, Taking DEF KeyInv, OrderInv
  <2>4. StoreInv'
    <3>1. lastKey \in 0 .. MaxKey /\ born \subseteq Id /\ MaxKey \in Nat
      BY DEF KeyInv, OrderInv, StoreInv, VaultConstants
    <3>2. lastKey' \in 0 .. MaxKey /\ lastKey <= lastKey' /\ born \subseteq born' /\ born' \subseteq Id
      BY <1>3, <2>2, <3>1 DEF Ready, Kid
    <3> QED
      BY <1>1, <3>2, MoreKnown DEF KeyInv, OrderInv
  <2>5. PublishedHeld' /\ RefusedUndone'
    BY <1>1 DEF KeyInv, OrderInv, PublishedHeld, RefusedUndone
  <2>6. \A p \in Op : ~ InHand(p)
    BY <1>1, RoomIs
  <2>7. ASSUME NEW p \in Op PROVE UndoOK(p)'
    <3>1. CASE p = o
      <4>1. op'[o].kind = "revert" => op[o].kind = "revert" /\ op'[o].key = op[o].key
        BY <1>3, <2>1
      <4> QED
        BY <1>1, <2>1, <3>1, <4>1 DEF KeyInv, OrderInv, RecordInv, UndoOK, Undoable, Counts
    <3>2. CASE p # o
      BY <1>1, <2>1, <3>2 DEF KeyInv, OrderInv, RecordInv, UndoOK, Undoable, Counts
    <3> QED
      BY <3>1, <3>2
  <2>8. ASSUME NEW p \in Op PROVE RecordInv(p)'
    <3>1. CASE p = o
      BY <2>1, <2>3, <2>7, <3>1 DEF RecordInv, SendOK, LoginOK
    <3>2. CASE p # o
      <4>1. born \subseteq born'
        BY <2>2
      <4>2. op[p].stage = "send" =>
               /\ op[p].key \in Kept(op[p].id)'
               /\ OnTop(blob'.acc, op[p].id, op[p].key) /\ OnTop(file', op[p].id, op[p].key)
        <5>1. Kept(op[p].id)' = Kept(op[p].id) /\ blob' = blob /\ file' = file
          BY <1>1, <2>1, <3>2 DEF Kept, HeldIn
        <5> QED
          BY <5>1 DEF KeyInv, OrderInv, RecordInv, SendOK
      <4> QED
        BY <2>1, <2>6, <2>7, <3>2, <4>1, <4>2, Bystander DEF KeyInv, OrderInv
    <3> QED
      BY <3>1, <3>2
  <2>9. ASSUME NEW p \in Op, NEW q \in Op PROVE Apart(p, q)'
    <3> SUFFICES ASSUME op'[p].stage = "send", op'[q].stage = "write"
                 PROVE  /\ OnTop(op'[q].full.acc, op'[p].id, op'[p].key)
                        /\ op'[q].kind = "add" => op'[q].id # op'[p].id
      BY DEF Apart
    <3>1. q = o /\ p # o /\ op'[p] = op[p]
      BY <2>1, <2>6 DEF InHand, Holding
    <3>2. /\ op[p].id \in born /\ OnTop(blob.acc, op[p].id, op[p].key)
          /\ OnTop(file, op[p].id, op[p].key)
      BY <3>1 DEF KeyInv, OrderInv, RecordInv, SendOK
    <3>3. r.kind \notin {"rotate", "revert"}
      <4>1. r.kind # "rotate"
        BY <1>1, <1>3, <3>1, RoomIs
      <4>2. r.kind # "revert"
        BY <1>3, <3>1 DEF KeyInv, OrderInv, UnderWay
      <4> QED
        BY <4>1, <4>2
    <3>4. r.kind = "add" => r.id # op[p].id
      BY <1>3, <3>2 DEF Ready
    <3>5. OnTop(v.acc, op[p].id, op[p].key)
      <4>1. Good(r, v) /\ AccountsOK(blob.acc)
        BY <1>1, <1>3, Outcome DEF KeyInv, OrderInv, StoreInv, VaultOK
      <4>2. SUFFICES ASSUME op[p].id \in DOMAIN v.acc, op[p].key \in Held(v.acc[op[p].id])
                     PROVE  v.acc[op[p].id].cur = op[p].key
        BY DEF OnTop
      <4>3. CASE r.kind = "import" /\ op[p].id \in DOMAIN file /\ v.acc[op[p].id] = file[op[p].id]
        BY <3>2, <4>2, <4>3 DEF OnTop
      <4>4. CASE Change(r, v, op[p].id)
        <5>1. op[p].id \in DOMAIN blob.acc
          BY <3>4, <4>4 DEF Change
        <5>2. /\ \A k \in Held(v.acc[op[p].id]) : k \in Held(blob.acc[op[p].id])
              /\ v.acc[op[p].id].cur = blob.acc[op[p].id].cur
          BY <3>3, <4>1, <4>4, <5>1, ChangeIs
        <5> QED
          BY <3>2, <4>2, <5>1, <5>2 DEF OnTop
      <4> QED
        BY <4>1, <4>2, <4>3, <4>4 DEF Good
    <3> QED
      BY <2>1, <3>1, <3>4, <3>5
  <2>10. ASSUME NEW p \in Op, NEW q \in Op, UnderWay(p)', UnderWay(q)' PROVE p = q
    <3>1. ASSUME NEW s \in Op \ {o}, UnderWay(s)' PROVE UnderWay(s) /\ r.kind # "rotate"
      <4>1. UnderWay(s) /\ ~ InHand(s)
        BY <2>1, <2>6, <3>1 DEF UnderWay
      <4> QED
        BY <1>1, <1>3, <4>1, RoomIs DEF UnderWay, InHand, Holding
    <3>2. UnderWay(o)' => r.kind = "rotate" \/ UnderWay(o)
      BY <1>3, <2>1 DEF UnderWay
    <3> QED
      BY <2>10, <3>1, <3>2 DEF KeyInv, OrderInv
  <2>11. ASSUME NEW p \in Op, NEW q \in Op, InHand(p)', InHand(q)' PROVE p = q
    BY <2>1, <2>6, <2>11 DEF InHand
  <2> QED
    BY <2>4, <2>5, <2>8, <2>9, <2>10, <2>11 DEF KeyInv, OrderInv
<1> QED
  BY <1>2, <1>4, <1>5

----------------------------------------------------------------------------
(* The other steps that change what is stored, or what the server serves. *)

\* A backup holds what the vault holds.
LEMMA ExportKeeps ==
    ASSUME KeyInv, ShapeInv, NEW o \in Op, file' = blob.acc, op' = [op EXCEPT ![o] = Idle],
           UNCHANGED <<blob, server, lastKey, born, forgone, unsure>>
    PROVE  KeyInv'
<1> USE DEF ShapeInv
<1>1. \A p \in Op : op'[p] = op[p] \/ Quiet(p)
  BY DEF Quiet, Idle
<1>2. StoreInv'
  <2>1. \A i : Kept(i)' = Kept(i)
    BY DEF Kept, HeldIn
  <2>2. Known(file)' /\ AccountsOK(file)' /\ Known(blob.acc)' /\ VaultOK(blob)'
    BY DEF KeyInv, StoreInv, VaultOK, Known
  <2>3. \A i \in DOMAIN file' : server.key[i] # 0 => server.key[i] \in Held(file'[i]) \cup Kept(i)
    BY DEF KeyInv, PublishedHeld, Kept
  <2> QED
    BY <2>1, <2>2, <2>3 DEF KeyInv, StoreInv
<1>3. PublishedHeld' /\ RefusedUndone'
  BY DEF KeyInv, PublishedHeld, RefusedUndone
<1>4. ASSUME NEW p \in Op PROVE RecordInv(p)'
  <2>1. CASE p = o
    BY <2>1 DEF Idle, RecordInv, WriteOK, SendOK, LoginOK, UndoOK
  <2>2. CASE p # o
    <3>1. op'[p] = op[p] /\ RecordInv(p)
      BY <2>2 DEF KeyInv
    <3>2. WriteOK(p)'
      <4>1. \A i : Turns(p, i)' <=> Turns(p, i)
        <5>1. blob' = blob /\ server' = server
          OBVIOUS
        <5> QED
          BY ONLY <3>1, <5>1 DEF Turns, Change
      <4>2. Launches(p) => Launches(p)'
        BY <3>1 DEF Launches
      <4>3. \A i : Kept(i)' = Kept(i) /\ Loss(p, i)' = Loss(p, i)
        BY <3>1 DEF Kept, HeldIn, Loss
      <4>4. Known(op[p].full.acc)' <=> Known(op[p].full.acc)
        BY <3>1 DEF Known
      <4>5. HasVault' <=> HasVault
        BY DEF HasVault
      <4> QED
        BY <3>1, <4>1, <4>2, <4>3, <4>4, <4>5 DEF RecordInv, WriteOK
    <3>3. SendOK(p)'
      BY <3>1 DEF RecordInv, SendOK, Kept, HeldIn
    <3>4. LoginOK(p)' /\ UndoOK(p)'
      BY <3>1 DEF RecordInv, LoginOK, HasVault, UndoOK, Undoable, Counts
    <3> QED
      BY <3>2, <3>3, <3>4 DEF RecordInv
  <2> QED
    BY <2>1, <2>2
<1> QED
  BY <1>1, <1>2, <1>3, <1>4, OrderKept DEF KeyInv

\* A key the server takes is one the device holds on top, or gave up.
LEMMA Served ==
    ASSUME KeyInv, NEW i \in born, NEW k \in Kid, k \in Kept(i), OnTop(blob.acc, i, k),
           server' = [server EXCEPT !.key[i] = k], unsure' = Settled(i) \/ unsure' = unsure,
           UNCHANGED <<blob, file, lastKey, born, forgone>>
    PROVE  /\ StoreInv' /\ PublishedHeld' /\ RefusedUndone'
           /\ server'.key[i] = k /\ \A j \in Id \ {i} : server'.key[j] = server.key[j]
           /\ \A j \in Id : unsure'[j] \subseteq unsure[j]
           /\ \A j \in Id \ {i} : unsure'[j] = unsure[j]
<1>1. /\ i \in Id /\ DOMAIN server = {"key", "gone"} /\ server.key \in [Id -> 0 .. MaxKey]
      /\ unsure \in [Id -> SUBSET Kid] /\ DOMAIN blob.acc \subseteq Id /\ DOMAIN file \subseteq Id
  BY DEF KeyInv, StoreInv, VaultOK, AccountsOK
<1>2. /\ server'.key = [server.key EXCEPT ![i] = k] /\ DOMAIN server' = {"key", "gone"}
      /\ k \in 0 .. MaxKey
  BY <1>1 DEF Kid
<1>3. /\ unsure' \in [Id -> SUBSET Kid] /\ \A j \in Id : unsure'[j] \subseteq unsure[j]
      /\ \A j \in Id \ {i} : unsure'[j] = unsure[j]
  BY <1>1 DEF Settled
<1>4. /\ server'.key \in [Id -> 0 .. MaxKey] /\ server'.key[i] = k
      /\ \A j \in Id \ {i} : server'.key[j] = server.key[j]
  BY <1>1, <1>2
<1>5. \A j : Kept(j)' = Kept(j)
  BY DEF Kept, HeldIn
<1>6. StoreInv'
  <2>1. Known(file)' /\ Known(blob.acc)' /\ VaultOK(blob)' /\ AccountsOK(file)'
    BY DEF KeyInv, StoreInv, Known
  <2>2. \A j \in Id : server'.key[j] # 0 => j \in born
    BY <1>4 DEF KeyInv, StoreInv
  <2>3. \A j \in DOMAIN file : server'.key[j] # 0 => server'.key[j] \in Held(file[j]) \cup Kept(j)
    BY <1>1, <1>4 DEF KeyInv, StoreInv
  <2>4. \A j \in Id : \A x \in unsure'[j] : x <= lastKey
    BY <1>3 DEF KeyInv, StoreInv
  <2>5. forgone' \in [Id -> SUBSET Kid] /\ lastKey' \in 0 .. MaxKey /\ born' \subseteq Id
    BY DEF KeyInv, StoreInv
  <2> QED
    BY <1>2, <1>3, <1>4, <1>5, <2>1, <2>2, <2>3, <2>4, <2>5 DEF StoreInv
<1>7. PublishedHeld'
  <2> SUFFICES ASSUME NEW j \in DOMAIN blob.acc, server'.key[j] # 0
               PROVE  server'.key[j] \in Held(blob.acc[j]) \cup forgone[j]
    BY DEF PublishedHeld
  <2> QED
    BY <1>1, <1>4 DEF KeyInv, PublishedHeld, Kept, HeldIn
<1>8. RefusedUndone'
  <2> SUFFICES ASSUME NEW j \in DOMAIN blob.acc, server'.key[j] # 0, server'.key[j] \notin forgone[j],
                      unsure'[j] = {}
               PROVE  blob.acc[j].cur = server'.key[j]
    BY DEF RefusedUndone
  <2>1. CASE j = i
    BY <1>4, <2>1 DEF Kept, HeldIn, OnTop
  <2>2. CASE j # i
    BY <1>1, <1>3, <1>4, <2>2 DEF KeyInv, RefusedUndone
  <2> QED
    BY <2>1, <2>2
<1> QED
  BY <1>3, <1>4, <1>6, <1>7, <1>8

\* The server takes the key: it is stored, or was given up since.
LEMMA PublishKeeps ==
    ASSUME KeyInv, ShapeInv, NEW o \in Op, Publish(o) PROVE KeyInv'
<1> USE DEF ShapeInv
<1> DEFINE i == op[o].id
           k == op[o].key
<1>1. /\ op[o].stage = "send" /\ op' = [op EXCEPT ![o] = Idle]
      /\ server' = [server EXCEPT !.key[i] = k] /\ (unsure' = Settled(i) \/ unsure' = unsure)
      /\ UNCHANGED <<blob, file, lastKey, born, forgone>>
  BY DEF Publish
<1>2. /\ i \in born /\ k \in Kid /\ k \in Kept(i) /\ OnTop(blob.acc, i, k) /\ op[o].kind = "rotate"
  BY <1>1 DEF KeyInv, RecordInv, SendOK
<1> HIDE DEF i, k
<1>3. /\ StoreInv' /\ PublishedHeld' /\ RefusedUndone'
      /\ server'.key[i] = k /\ \A j \in Id \ {i} : server'.key[j] = server.key[j]
  BY <1>1, <1>2, Served
<1>4. \A p \in Op : op'[p] = op[p] \/ Quiet(p)
  BY <1>1 DEF Quiet, Idle
<1>5. ASSUME NEW p \in Op PROVE RecordInv(p)'
  <2>1. CASE p = o
    BY <1>1, <2>1 DEF Idle, RecordInv, WriteOK, SendOK, LoginOK, UndoOK
  <2>2. CASE p # o
    <3>1. op'[p] = op[p] /\ RecordInv(p)
      BY <1>1, <2>2 DEF KeyInv
    <3>2. ~ UnderWay(p)
      BY <1>1, <2>2 DEF KeyInv, OrderInv, UnderWay
    <3>3. SendOK(p)' /\ UndoOK(p)'
      BY <3>1, <3>2 DEF UnderWay, SendOK, UndoOK
    <3>4. LoginOK(p)'
      BY <1>1, <3>1 DEF RecordInv, LoginOK, HasVault
    <3>5. WriteOK(p)'
      <4> SUFFICES ASSUME op[p].stage = "write" PROVE WriteOK(p)'
        BY <3>1 DEF WriteOK
      <4> DEFINE v == op[p].full
      <4>1. op[p].kind \notin {"rotate", "revert"}
        BY <3>2 DEF UnderWay
      <4>2. \A j : Kept(j)' = Kept(j) /\ Loss(p, j)' = Loss(p, j)
        BY <1>1, <3>1 DEF Kept, HeldIn, Loss
      <4>3. (Known(v.acc)' <=> Known(v.acc)) /\ (HasVault' <=> HasVault)
        BY <1>1, <3>1 DEF Known, HasVault
      <4>4. ASSUME NEW j \in DOMAIN v.acc
            PROVE  /\ server'.key[j] # 0 => server'.key[j] \in Held(v.acc[j]) \cup Kept(j)
                   /\ op[p].kind # "import" /\ HasVault => Turns(p, j)'
                   /\ op[p].kind # "import" /\ ~ HasVault => server'.key[j] \in {0} \cup forgone[j]
        <5>1. /\ server.key[j] # 0 => server.key[j] \in Held(v.acc[j]) \cup Kept(j)
              /\ op[p].kind # "import" => IF HasVault THEN Turns(p, j) ELSE server.key[j] \in {0} \cup forgone[j]
              /\ j \in Id
          BY <3>1 DEF RecordInv, WriteOK, VaultOK, AccountsOK
        <5>2. CASE j # i
          <6>1. server'.key[j] = server.key[j]
            BY <1>3, <5>1, <5>2
          <6>2. Turns(p, j) => Turns(p, j)'
            BY <1>1, <3>1, <6>1 DEF Turns, Change
          <6> QED
            BY <5>1, <6>1, <6>2
        <5>3. CASE j = i
          <6>1. server'.key[j] = k /\ k \in Kept(j)
            BY <1>2, <1>3, <5>3
          <6>2. op[p].kind = "add" => j # op[p].id
            BY <1>1, <5>3 DEF KeyInv, OrderInv, Apart, i
          <6>3. Turns(p, j) => Turns(p, j)'
            BY <1>1, <3>1, <6>2 DEF Turns, Change
          <6>4. ~ HasVault => k \in forgone[j]
            BY <6>1 DEF Kept, HeldIn, HasVault
          <6> QED
            BY <5>1, <6>1, <6>3, <6>4
        <5> QED
          BY <5>2, <5>3
      <4> QED
        BY <1>1, <3>1, <4>1, <4>2, <4>3, <4>4 DEF RecordInv, WriteOK
    <3> QED
      BY <3>3, <3>4, <3>5 DEF RecordInv
  <2> QED
    BY <2>1, <2>2
<1> QED
  BY <1>3, <1>4, <1>5, OrderKept DEF KeyInv

\* A login publishes the current key of the vault that signed it.
LEMMA AdmissionKeeps ==
    ASSUME KeyInv, ShapeInv, NEW o \in Op, Admitted(o) PROVE KeyInv'
<1> USE DEF ShapeInv
<1> DEFINE i == op[o].id
           k == op[o].key
<1>1. /\ op[o].stage = "login" /\ op' = [op EXCEPT ![o] = Idle] /\ HasVault
      /\ server' = [server EXCEPT !.key[i] = k] /\ (unsure' = Settled(i) \/ unsure' = unsure)
      /\ UNCHANGED <<blob, file, lastKey, born, forgone>>
  BY DEF Admitted, Opens, Reads
<1>2. /\ i \in born /\ k \in Kid /\ i \in DOMAIN blob.acc /\ blob.acc[i].cur = k
  BY <1>1 DEF KeyInv, RecordInv, LoginOK
<1> HIDE DEF i, k
<1>3. k \in Kept(i) /\ OnTop(blob.acc, i, k)
  BY <1>2 DEF Kept, HeldIn, Held, OnTop
<1>4. /\ StoreInv' /\ PublishedHeld' /\ RefusedUndone'
      /\ server'.key[i] = k /\ \A j \in Id \ {i} : server'.key[j] = server.key[j]
      /\ \A j \in Id \ {i} : unsure'[j] = unsure[j]
  BY <1>1, <1>2, <1>3, Served
<1>5. \A p \in Op : op'[p] = op[p] \/ Quiet(p)
  BY <1>1 DEF Quiet, Idle
<1>6. ASSUME NEW p \in Op PROVE RecordInv(p)'
  <2>1. CASE p = o
    BY <1>1, <2>1 DEF Idle, RecordInv, WriteOK, SendOK, LoginOK, UndoOK
  <2>2. CASE p # o
    <3>1. op'[p] = op[p] /\ RecordInv(p)
      BY <1>1, <2>2 DEF KeyInv
    <3>2. ~ InHand(p)
      BY <1>1, <2>2 DEF KeyInv, OrderInv, InHand, Holding
    <3>3. UndoOK(p)'
      <4> SUFFICES ASSUME op[p].stage = "send" \/ op[p].kind = "revert", NEW j \in DOMAIN blob.acc
                   PROVE  Undoable(j, op[p].key)'
        BY <1>1, <3>1 DEF UndoOK
      <4>1. Undoable(j, op[p].key) /\ j \in Id
        BY <3>1 DEF RecordInv, UndoOK, KeyInv, StoreInv, VaultOK, AccountsOK
      <4>2. CASE j = i
        BY <1>1, <1>2, <1>4, <3>1, <4>2 DEF Undoable
      <4>3. CASE j # i
        BY <1>1, <1>4, <3>1, <4>1, <4>3 DEF Undoable, Counts
      <4> QED
        BY <4>2, <4>3
    <3>4. op[p].stage = "send" =>
               /\ op[p].key \in Kept(op[p].id)'
               /\ OnTop(blob'.acc, op[p].id, op[p].key) /\ OnTop(file', op[p].id, op[p].key)
      <4>1. Kept(op[p].id)' = Kept(op[p].id) /\ blob' = blob /\ file' = file
        BY <1>1, <3>1 DEF Kept, HeldIn
      <4> QED
        BY <3>1, <4>1 DEF RecordInv, SendOK
    <3> QED
      BY <1>1, <3>1, <3>2, <3>3, <3>4, Bystander
  <2> QED
    BY <2>1, <2>2
<1> QED
  BY <1>4, <1>5, <1>6, OrderKept DEF KeyInv

\* A tab opens a vault and sends its current key to the server.
LEMMA OpenedOrder ==
    ASSUME KeyInv, NEW o \in Op, \A p \in Op : ~ InHand(p), \A p \in Op \ {o} : op'[p] = op[p],
           op'[o].stage = "login", op'[o].kind = "login"
    PROVE  OrderInv'
<1>1. ASSUME NEW p \in Op
      PROVE  /\ UnderWay(p)' => UnderWay(p) /\ p # o
             /\ InHand(p)' => p = o
             /\ op'[p].stage # "write"
  BY DEF UnderWay, InHand, Holding
<1>2. \A p, q \in Op : Apart(p, q)'
  BY <1>1 DEF Apart
<1> QED
  BY <1>1, <1>2 DEF KeyInv, OrderInv

\* Opening the vault starts a login with the key that is current.
LEMMA OpenKeeps ==
    ASSUME KeyInv, NEW o \in Op, UNCHANGED store, server' = server, \A p \in Op : ~ InHand(p),
           \A p \in Op \ {o} : op'[p] = op[p], HasVault,
           op'[o].stage = "login", op'[o].kind = "login",
           op'[o].id = blob.active, op'[o].key = blob.acc[blob.active].cur
    PROVE  KeyInv'
<1>1. StoreInv' /\ PublishedHeld' /\ RefusedUndone'
  BY StoreKept DEF KeyInv, PublishedHeld, RefusedUndone, store
<1>2. ASSUME NEW p \in Op PROVE RecordInv(p)'
  <2>1. CASE p = o
    <3>1. /\ blob.active \in DOMAIN blob.acc /\ blob.active \in born
          /\ blob.acc[blob.active].cur \in Kid
      BY ActiveAccount, HeldIs DEF KeyInv, StoreInv, Known
    <3>2. LoginOK(p)'
      BY <2>1, <3>1 DEF LoginOK, store
    <3> QED
      BY <2>1, <3>2 DEF RecordInv, WriteOK, SendOK, UndoOK
  <2>2. CASE p # o
    BY <2>2, RecordKept DEF KeyInv
  <2> QED
    BY <2>1, <2>2
<1> QED
  BY <1>1, <1>2, OpenedOrder DEF KeyInv

\* A vault where there was none: its accounts are new, or a backup's, whose keys
\* are all in doubt.
LEMMA NewVaultKeeps ==
    ASSUME KeyInv, NEW o \in Op, NEW acc, AccountsOK(acc), DOMAIN acc # {}, ~ HasVault,
           DOMAIN blob' = {"acc", "active", "seal"}, blob'.acc = acc, blob'.active \in DOMAIN acc,
           UNCHANGED <<file, server, forgone>>, Known(acc)',
           lastKey' \in 0 .. MaxKey, lastKey <= lastKey', born \subseteq born', born' \subseteq Id,
           unsure' \in [Id -> SUBSET Kid], \A i \in Id : unsure[i] \subseteq unsure'[i],
           \A i \in Id : \A k \in unsure'[i] : k <= lastKey',
           \A i \in DOMAIN acc :
               \/ i \notin born
               \/ i \in DOMAIN file /\ acc[i] = file[i] /\ Held(acc[i]) \subseteq unsure'[i],
           \A p \in Op : ~ InHand(p), \A p \in Op \ {o} : op'[p] = op[p],
           op'[o].stage = "login", op'[o].kind = "login",
           op'[o].id = blob'.active, op'[o].key = acc[blob'.active].cur
    PROVE  KeyInv'
<1>1. \A i \in Id : server.key[i] # 0 => i \in born
  BY DEF KeyInv, StoreInv
<1>2. \A i \in DOMAIN acc : i \in Id /\ acc[i] \in Account /\ Distinct(acc[i]) /\ acc[i].cur \in Held(acc[i])
  BY HeldIs DEF AccountsOK
<1>3. \A i : Kept(i) = forgone[i] /\ Kept(i) \subseteq forgone'[i] \cup HeldIn(blob'.acc, i)
  BY DEF Kept, HeldIn, HasVault
<1>4. \A i \in DOMAIN acc : server.key[i] # 0 =>
          /\ i \in DOMAIN file /\ acc[i] = file[i] /\ Held(acc[i]) \subseteq unsure'[i]
          /\ server.key[i] \in Held(acc[i]) \cup forgone[i]
  BY <1>1, <1>2, <1>3 DEF KeyInv, StoreInv
<1>5. StoreInv'
  <2>1. AccountsOK(file)' /\ VaultOK(blob)'
    BY DEF KeyInv, StoreInv, VaultOK, AccountsOK
  <2>2. Known(file)'
    <3>1. \A i \in DOMAIN file : \A k \in Held(file[i]) : k \in Nat /\ k <= lastKey
      BY HeldIs DEF KeyInv, StoreInv, AccountsOK, Known, Kid
    <3>2. lastKey \in Nat /\ lastKey' \in Nat
      BY DEF KeyInv, StoreInv
    <3> QED
      BY <3>1, <3>2 DEF KeyInv, StoreInv, Known
  <2>3. Known(blob.acc)'
    BY DEF Known
  <2>4. \A i \in Id : server.key[i] # 0 => i \in born'
    BY <1>1
  <2>5. \A i \in DOMAIN file : server.key[i] # 0 => server.key[i] \in Held(file[i]) \cup Kept(i)'
    BY <1>3 DEF KeyInv, StoreInv, Kept
  <2>6. DOMAIN server = {"key", "gone"} /\ server.key \in [Id -> 0 .. MaxKey] /\ forgone \in [Id -> SUBSET Kid]
    BY DEF KeyInv, StoreInv
  <2> QED
    BY <2>1, <2>2, <2>3, <2>4, <2>5, <2>6 DEF StoreInv
<1>6. PublishedHeld'
  BY <1>4 DEF PublishedHeld
<1>7. RefusedUndone'
  <2> SUFFICES ASSUME NEW i \in DOMAIN acc, server.key[i] # 0, unsure'[i] = {} PROVE FALSE
    BY DEF RefusedUndone
  <2> QED
    BY <1>2, <1>4
<1>8. ASSUME NEW p \in Op, p # o PROVE RecordInv(p)'
  <2>1. op'[p] = op[p] /\ RecordInv(p)
    BY <1>8 DEF KeyInv
  <2>2. UndoOK(p)'
    <3> SUFFICES ASSUME NEW j \in DOMAIN acc, acc[j].old # <<>>, acc[j].cur = op[p].key,
                        server.key[j] # 0, unsure'[j] \subseteq {op[p].key}
                 PROVE  FALSE
      BY <2>1 DEF UndoOK, Undoable, Counts
    <3>1. Held(acc[j]) \subseteq {acc[j].cur}
      BY <1>4
    <3>2. acc[j].old \in Seq(Kid) /\ Len(acc[j].old) >= 1 /\ acc[j].old[1] \in Held(acc[j])
          /\ ToSet(acc[j].old) = {acc[j].old[n] : n \in 1 .. Len(acc[j].old)}
      <4>1. /\ Len(acc[j].old) \in Nat /\ (acc[j].old = <<>> \/ Len(acc[j].old) >= 1)
            /\ \A n \in 1 .. Len(acc[j].old) : acc[j].old[n] \in Held(acc[j])
            /\ ToSet(acc[j].old) = {acc[j].old[n] : n \in 1 .. Len(acc[j].old)}
            /\ acc[j].old \in Seq(Kid)
        BY <1>2, HeldIs
      <4>2. Len(acc[j].old) >= 1 /\ 1 \in 1 .. Len(acc[j].old)
        BY <4>1
      <4> QED
        BY <4>1, <4>2
    <3>3. acc[j].old[1] \in ToSet(acc[j].old)
      BY <3>2
    <3> QED
      BY <1>2, <3>1, <3>2, <3>3 DEF Distinct
  <2>3. op[p].stage = "send" =>
             /\ op[p].key \in Kept(op[p].id)'
             /\ OnTop(blob'.acc, op[p].id, op[p].key) /\ OnTop(file', op[p].id, op[p].key)
    <3> SUFFICES ASSUME op[p].stage = "send"
                 PROVE  /\ op[p].key \in Kept(op[p].id)'
                        /\ OnTop(acc, op[p].id, op[p].key) /\ OnTop(file, op[p].id, op[p].key)
      OBVIOUS
    <3>1. op[p].id \in born /\ op[p].key \in Kept(op[p].id) /\ OnTop(file, op[p].id, op[p].key)
      BY <2>1 DEF RecordInv, SendOK
    <3>2. OnTop(acc, op[p].id, op[p].key)
      BY <3>1 DEF OnTop
    <3>3. op[p].key \in Kept(op[p].id)'
      BY <1>3, <2>1, <3>1 DEF Kept
    <3> QED
      BY <3>1, <3>2, <3>3
  <2> QED
    BY <2>1, <2>2, <2>3, Bystander
<1>9. RecordInv(o)'
  <2>1. LoginOK(o)'
    BY <1>2, HeldIs DEF LoginOK, Known
  <2> QED
    BY <2>1 DEF RecordInv, WriteOK, SendOK, UndoOK
<1>10. OrderInv'
  BY OpenedOrder
<1> QED
  BY <1>5, <1>6, <1>7, <1>8, <1>9, <1>10 DEF KeyInv

\* The vault is wiped: its keys are given up.
LEMMA WipeKeeps ==
    ASSUME KeyInv, NEW o \in Op, blob' = NoVault,
           op'[o] = Idle, \A p \in Op \ {o} : op'[p] = op[p],
           forgone' = [i \in Id |-> forgone[i] \cup HeldIn(blob.acc, i)],
           UNCHANGED <<file, server, lastKey, born, unsure>>
    PROVE  KeyInv'
<1>1. /\ DOMAIN blob'.acc = {} /\ DOMAIN blob' = {"acc", "active", "seal"} /\ ~ HasVault'
      /\ blob'.acc = NoAccounts
  BY DEF NoVault, NoAccounts, HasVault
<1>2. \A i \in Id : forgone'[i] = Kept(i) /\ Kept(i)' = Kept(i) /\ HeldIn(blob'.acc, i) = {}
  BY <1>1 DEF Kept, HeldIn
<1>3. \A p \in Op : op'[p] = op[p] \/ Quiet(p)
  BY DEF Quiet, Idle
<1>4. AccountsOK(blob.acc) /\ DOMAIN blob.acc \subseteq Id /\ DOMAIN file \subseteq Id
  BY DEF KeyInv, StoreInv, VaultOK, AccountsOK
<1>5. StoreInv'
  <2>1. AccountsOK(file)' /\ VaultOK(blob)' /\ Known(blob.acc)' /\ Known(file)'
    BY <1>1 DEF KeyInv, StoreInv, VaultOK, AccountsOK, Known
  <2>2. forgone' \in [Id -> SUBSET Kid]
    BY <1>4, HeldInKid DEF KeyInv, StoreInv
  <2>3. \A i \in DOMAIN file : server.key[i] # 0 => server.key[i] \in Held(file[i]) \cup Kept(i)'
    BY <1>2, <1>4 DEF KeyInv, StoreInv
  <2> QED
    BY <2>1, <2>2, <2>3 DEF KeyInv, StoreInv
<1>6. PublishedHeld' /\ RefusedUndone'
  BY <1>1 DEF PublishedHeld, RefusedUndone
<1>7. ASSUME NEW p \in Op, p # o PROVE RecordInv(p)'
  <2>1. op'[p] = op[p] /\ RecordInv(p)
    BY <1>7 DEF KeyInv
  <2>2. WriteOK(p)'
    <3> SUFFICES ASSUME op[p].stage = "write" PROVE WriteOK(p)'
      BY <2>1 DEF WriteOK
    <3> DEFINE v == op[p].full
    <3>1. VaultOK(v) /\ Known(v.acc) /\ DOMAIN v.acc \subseteq Id
      BY <2>1 DEF RecordInv, WriteOK, VaultOK, AccountsOK
    <3>2. ASSUME NEW i \in DOMAIN v.acc
          PROVE  /\ server.key[i] # 0 => server.key[i] \in Held(v.acc[i]) \cup Kept(i)'
                 /\ op[p].kind # "import" => server.key[i] \in {0} \cup forgone'[i]
      <4>1. /\ server.key[i] # 0 => server.key[i] \in Held(v.acc[i]) \cup Kept(i)
            /\ op[p].kind # "import" => IF HasVault THEN Turns(p, i) ELSE server.key[i] \in {0} \cup forgone[i]
        BY <2>1 DEF RecordInv, WriteOK
      <4>2. op[p].kind # "import" => server.key[i] \in {0} \cup Kept(i)
        <5>1. i \in DOMAIN blob.acc /\ server.key[i] # 0 => server.key[i] \in Kept(i)
          BY DEF KeyInv, PublishedHeld, Kept, HeldIn
        <5>2. Turns(p, i) => i \in DOMAIN blob.acc \/ server.key[i] = 0
          BY DEF Turns, Change
        <5>3. forgone[i] \subseteq Kept(i)
          BY DEF Kept
        <5> QED
          BY <4>1, <5>1, <5>2, <5>3
      <4> QED
        BY <1>2, <3>1, <4>1, <4>2
    <3>3. Launches(p) => Launches(p)'
      BY <1>2, <2>1 DEF Launches
    <3>4. Known(v.acc)'
      BY <2>1, <3>1 DEF Known
    <3> QED
      BY <1>1, <1>2, <2>1, <3>2, <3>3, <3>4 DEF RecordInv, WriteOK
  <2>3. SendOK(p)'
    <3> SUFFICES ASSUME op[p].stage = "send" PROVE SendOK(p)'
      BY <2>1 DEF SendOK
    <3>1. /\ op[p].kind = "rotate" /\ op[p].id \in born /\ op[p].id \in Id /\ op[p].key \in Kid
          /\ op[p].key \in Kept(op[p].id) /\ OnTop(file, op[p].id, op[p].key)
      BY <2>1 DEF RecordInv, SendOK, KeyInv, StoreInv
    <3>2. OnTop(blob'.acc, op[p].id, op[p].key)
      BY <1>1 DEF OnTop
    <3> QED
      BY <1>2, <2>1, <3>1, <3>2 DEF SendOK
  <2>4. LoginOK(p)' /\ UndoOK(p)'
    BY <1>1, <2>1 DEF RecordInv, LoginOK, UndoOK
  <2> QED
    BY <2>2, <2>3, <2>4 DEF RecordInv
<1>8. RecordInv(o)'
  BY DEF Idle, RecordInv, WriteOK, SendOK, LoginOK, UndoOK
<1> QED
  BY <1>3, <1>5, <1>6, <1>7, <1>8, OrderKept DEF KeyInv

----------------------------------------------------------------------------
(* Writing the vault back. *)

\* What is known of operation o when it writes v.
Writing(o, v) ==
    /\ op[o].stage = "write" /\ v = op[o].full
    /\ DOMAIN blob' = {"acc", "active", "seal"} /\ blob'.acc = v.acc /\ blob'.active = v.active
    /\ forgone' = ForgoneAfter(op[o]) /\ unsure' = UnsureAfter(op[o])
    /\ UNCHANGED <<file, server, lastKey, born>>

\* Nothing is lost that is not put down as given up.
LEMMA WriteLoses ==
    ASSUME KeyInv, NEW o \in Op, NEW v, Writing(o, v)
    PROVE  /\ forgone' \in [Id -> SUBSET Kid]
           /\ \A i \in Id : forgone[i] \subseteq forgone'[i] /\ Loss(o, i) \subseteq forgone'[i]
           /\ \A i \in Id : Kept(i) \subseteq Kept(i)'
           /\ op[o].kind \notin Purposeful => forgone' = forgone
<1>1. op[o].drop \in [Id -> SUBSET Kid] /\ forgone \in [Id -> SUBSET Kid]
      /\ \A i \in Id : HeldIn(blob.acc, i) \subseteq HeldIn(v.acc, i) \cup Loss(o, i)
  BY DEF Writing, KeyInv, RecordInv, WriteOK, StoreInv
<1>2. CASE op[o].kind \in Purposeful
  <2>1. forgone' = [i \in Id |-> forgone[i] \cup op[o].drop[i]]
    BY <1>2 DEF Writing, ForgoneAfter
  <2> QED
    BY <1>1, <1>2, <2>1 DEF Loss, Kept, Writing, HeldIn
<1>3. CASE op[o].kind \notin Purposeful
  <2>1. forgone' = forgone
    BY <1>3 DEF Writing, ForgoneAfter
  <2> QED
    BY <1>1, <1>3, <2>1 DEF Loss, Kept, Writing, HeldIn
<1> QED
  BY <1>2, <1>3

\* What becomes of the doubts about each identity.
Doubts(o, v, i) ==
    /\ op[o].kind = "import" =>
          IF Brought(v, i) THEN Held(v.acc[i]) \subseteq unsure'[i] ELSE unsure'[i] = unsure[i]
    /\ op[o].kind = "rotate" => unsure'[i] = IF i = op[o].id THEN unsure[i] \cup {op[o].key} ELSE unsure[i]
    /\ op[o].kind = "revert" =>
          IF i # v.active THEN unsure'[i] = unsure[i]
          ELSE /\ server.key[i] = op[o].key => unsure'[i] = unsure[i] \cup {op[o].key}
               /\ server.key[i] # op[o].key => unsure'[i] = unsure[i] \ {op[o].key}
    /\ op[o].kind \notin {"import", "rotate", "revert"} => unsure'[i] = unsure[i]

\* What a write makes of the doubts about each identity.
LEMMA WriteDoubts ==
    ASSUME KeyInv, NEW o \in Op, NEW v, Writing(o, v)
    PROVE  /\ unsure' \in [Id -> SUBSET Kid] /\ \A i \in Id : \A k \in unsure'[i] : k <= lastKey
           /\ \A i \in DOMAIN v.acc : Doubts(o, v, i)
<1>1. /\ unsure \in [Id -> SUBSET Kid] /\ \A i \in Id : \A k \in unsure[i] : k <= lastKey
      /\ VaultOK(v) /\ Known(v.acc) /\ AccountsOK(v.acc) /\ DOMAIN v.acc \subseteq Id /\ DOMAIN v.acc # {}
      /\ \A i \in DOMAIN v.acc : Held(v.acc[i]) \subseteq Kid
  BY HeldIs DEF Writing, KeyInv, StoreInv, RecordInv, WriteOK, VaultOK, AccountsOK
<1>2. op[o].full = v /\ unsure' = UnsureAfter(op[o])
  BY DEF Writing
<1>3. CASE op[o].kind = "rotate"
  <2>1. op[o].id \in DOMAIN v.acc /\ op[o].key \in Held(v.acc[op[o].id])
    BY <1>3, HeldIs DEF Writing, KeyInv, RecordInv, WriteOK, Launches, Held
  <2>2. op[o].key \in Kid /\ op[o].key <= lastKey /\ op[o].id \in Id
    BY <1>1, <2>1 DEF Known
  <2>3. unsure' = [unsure EXCEPT ![op[o].id] = @ \cup {op[o].key}]
    BY <1>2, <1>3 DEF UnsureAfter
  <2> QED
    BY <1>1, <1>3, <2>2, <2>3 DEF Doubts
<1>4. CASE op[o].kind = "revert"
  <2>1. op[o].key \in HeldIn(v.acc, v.active) /\ v.active \in DOMAIN v.acc
    BY <1>1, <1>4 DEF Writing, KeyInv, RecordInv, WriteOK, VaultOK
  <2>2. op[o].key \in Kid /\ op[o].key <= lastKey /\ v.active \in Id
    BY <1>1, <2>1 DEF Known, HeldIn
  <2>3. unsure' = [unsure EXCEPT ![v.active] =
                  IF server.key[v.active] = op[o].key THEN @ \cup {op[o].key} ELSE @ \ {op[o].key}]
    BY <1>2, <1>4 DEF UnsureAfter
  <2> QED
    BY <1>1, <1>4, <2>2, <2>3 DEF Doubts
<1>5. CASE op[o].kind = "import"
  <2>1. unsure' = [i \in Id |-> unsure[i] \cup IF Brought(v, i) THEN Held(v.acc[i]) ELSE {}]
    BY <1>2, <1>5 DEF UnsureAfter
  <2>2. \A i : Brought(v, i) => i \in DOMAIN v.acc
    BY DEF Brought
  <2>3. unsure' \in [Id -> SUBSET Kid]
    BY <1>1, <2>1, <2>2
  <2>4. \A i \in Id : \A k \in unsure'[i] : k <= lastKey
    BY <1>1, <2>1, <2>2 DEF Known
  <2> QED
    BY <1>1, <1>5, <2>1, <2>3, <2>4 DEF Doubts
<1>6. CASE op[o].kind \notin {"import", "rotate", "revert"}
  <2>1. unsure' = unsure
    BY <1>2, <1>6 DEF UnsureAfter
  <2> QED
    BY <1>1, <1>6, <2>1 DEF Doubts
<1> QED
  BY <1>3, <1>4, <1>5, <1>6

\* What an account written that was not brought in by an import is.
LEMMA WriteTurns ==
    ASSUME KeyInv, NEW o \in Op, NEW v, Writing(o, v), NEW i \in DOMAIN v.acc, Counts(i)'
    PROVE  /\ Counts(i) /\ i \in Id
           /\ op[o].kind = "import" => Brought(v, i) \/ (i \in DOMAIN blob.acc /\ v.acc[i] = blob.acc[i])
           /\ op[o].kind # "import" => i \in DOMAIN blob.acc /\ Change(op[o], v, i)
<1>1. VaultOK(v) /\ i \in Id /\ server' = server
  BY DEF Writing, KeyInv, RecordInv, WriteOK, VaultOK, AccountsOK
<1>2. Counts(i)
  BY <1>1, WriteLoses DEF Counts
<1>3. op[o].kind # "import" => Change(op[o], v, i) /\ i \in DOMAIN blob.acc
  <2>1. op[o].kind # "import" => IF HasVault THEN Turns(o, i) ELSE server.key[i] \in {0} \cup forgone[i]
    BY DEF Writing, KeyInv, RecordInv, WriteOK
  <2>2. op[o].kind # "import" => Turns(o, i)
    BY <1>2, <2>1 DEF Counts
  <2> QED
    BY <1>2, <2>2 DEF Turns, Change, Writing, Counts
<1> QED
  BY <1>1, <1>2, <1>3 DEF Brought, Change

\* After a write too, what is refused and not in doubt is undone.
LEMMA WriteUndone ==
    ASSUME KeyInv, NEW o \in Op, NEW v, Writing(o, v) PROVE RefusedUndone'
<1> SUFFICES ASSUME NEW i \in DOMAIN v.acc, Counts(i)', unsure'[i] = {}
             PROVE  v.acc[i].cur = server.key[i]
  BY DEF RefusedUndone, Counts, Writing
<1>1. /\ Counts(i) /\ i \in Id
      /\ op[o].kind = "import" => Brought(v, i) \/ (i \in DOMAIN blob.acc /\ v.acc[i] = blob.acc[i])
      /\ op[o].kind # "import" => i \in DOMAIN blob.acc /\ Change(op[o], v, i)
  BY WriteTurns
<1>2. i \in DOMAIN blob.acc /\ unsure[i] = {} => blob.acc[i].cur = server.key[i]
  BY <1>1 DEF KeyInv, RefusedUndone, Counts
<1>3. AccountsOK(v.acc) /\ v.acc[i].cur \in Held(v.acc[i]) /\ AccountsOK(blob.acc)
  BY HeldIs DEF Writing, KeyInv, RecordInv, WriteOK, VaultOK, AccountsOK, StoreInv
<1>8. Doubts(o, v, i)
  BY WriteDoubts
<1>4. CASE op[o].kind = "import"
  <2>1. ~ Brought(v, i) /\ unsure[i] = {}
    BY <1>3, <1>4, <1>8 DEF Doubts
  <2> QED
    BY <1>1, <1>2, <1>4, <2>1
<1>5. CASE op[o].kind = "rotate"
  <2>1. i # op[o].id /\ unsure[i] = {}
    BY <1>5, <1>8 DEF Doubts
  <2>2. i \in DOMAIN blob.acc /\ v.acc[i] = blob.acc[i]
    BY <1>1, <1>5, <2>1 DEF Change
  <2> QED
    BY <1>2, <2>1, <2>2
<1>6. CASE op[o].kind = "revert"
  <2>1. CASE i # v.active
    <3>1. unsure[i] = {}
      BY <1>6, <2>1, <1>8 DEF Doubts
    <3>2. i \in DOMAIN blob.acc /\ v.acc[i] = blob.acc[i]
      BY <1>1, <1>6, <2>1 DEF Change
    <3> QED
      BY <1>2, <3>1, <3>2
  <2>2. CASE i = v.active
    <3>1. server.key[i] # op[o].key /\ unsure[i] \subseteq {op[o].key}
      BY <1>6, <2>2, <1>8 DEF Doubts
    <3>2. /\ i \in DOMAIN blob.acc /\ blob.acc[i].cur = op[o].key /\ blob.acc[i].old # <<>>
          /\ v.acc[i].cur = Head(blob.acc[i].old)
      <4>0. op[o].full.acc = v.acc /\ op[o].full.active = v.active
        BY DEF Writing
      <4>1. Turns(o, i)
        BY <1>1, <1>6 DEF KeyInv, RecordInv, WriteOK, Writing, HasVault, Counts
      <4>2. Change(op[o], v, i)
        BY <4>1 DEF Turns, Writing
      <4> QED
        BY <1>6, <2>2, <4>2 DEF Change
    <3>3. Undoable(i, op[o].key)
      BY <1>6, <3>2 DEF KeyInv, RecordInv, UndoOK
    <3> QED
      BY <1>1, <3>1, <3>2, <3>3 DEF Undoable
  <2> QED
    BY <2>1, <2>2
<1>7. CASE op[o].kind \notin {"import", "rotate", "revert"}
  <2>1. unsure[i] = {}
    BY <1>7, <1>8 DEF Doubts
  <2>2. i \in DOMAIN blob.acc /\ v.acc[i].cur = blob.acc[i].cur
    BY <1>1, <1>3, <1>7, ChangeIs
  <2> QED
    BY <1>2, <2>1, <2>2
<1> QED
  BY <1>4, <1>5, <1>6, <1>7

\* Another operation's rotation can still be undone.
LEMMA WriteUndoable ==
    ASSUME KeyInv, NEW o \in Op, NEW v, Writing(o, v), op[o].kind \notin {"rotate", "revert"},
           NEW p \in Op, op[p].stage = "send" \/ op[p].kind = "revert",
           NEW i \in DOMAIN v.acc,
           Counts(i)', v.acc[i].cur = op[p].key, v.acc[i].old # <<>>, server.key[i] # op[p].key,
           unsure'[i] \subseteq {op[p].key}
    PROVE  Head(v.acc[i].old) = server.key[i]
<1>1. /\ Counts(i) /\ i \in Id
      /\ op[o].kind = "import" => Brought(v, i) \/ (i \in DOMAIN blob.acc /\ v.acc[i] = blob.acc[i])
      /\ op[o].kind # "import" => i \in DOMAIN blob.acc /\ Change(op[o], v, i)
  BY WriteTurns
<1>2. /\ AccountsOK(v.acc) /\ v.acc[i] \in Account /\ Distinct(v.acc[i])
      /\ AccountsOK(blob.acc)
  BY DEF Writing, KeyInv, RecordInv, WriteOK, VaultOK, AccountsOK, StoreInv
<1>3. i \in DOMAIN blob.acc /\ blob.acc[i].cur = op[p].key /\ blob.acc[i].old # <<>> /\ unsure[i] \subseteq {op[p].key}
      => Head(blob.acc[i].old) = server.key[i]
  BY <1>1 DEF KeyInv, RecordInv, UndoOK, Undoable
<1>8. Doubts(o, v, i)
  BY WriteDoubts
<1>4. CASE i \in DOMAIN blob.acc /\ v.acc[i] = blob.acc[i]
  <2>1. unsure[i] \subseteq unsure'[i]
    BY <1>4, <1>8 DEF Brought, Doubts
  <2> QED
    BY <1>3, <1>4, <2>1
<1>5. CASE op[o].kind = "import" /\ Brought(v, i)
  <2>1. Held(v.acc[i]) \subseteq {v.acc[i].cur}
    BY <1>5, <1>8 DEF Doubts
  <2>2. /\ Len(v.acc[i].old) \in Nat /\ (v.acc[i].old = <<>> \/ Len(v.acc[i].old) >= 1)
        /\ \A n \in 1 .. Len(v.acc[i].old) : v.acc[i].old[n] \in Held(v.acc[i])
        /\ ToSet(v.acc[i].old) = {v.acc[i].old[n] : n \in 1 .. Len(v.acc[i].old)}
    BY <1>2, HeldIs
  <2>3. 1 \in 1 .. Len(v.acc[i].old)
    BY <2>2
  <2>4. v.acc[i].old[1] = v.acc[i].cur /\ v.acc[i].old[1] \in ToSet(v.acc[i].old)
    BY <2>1, <2>2, <2>3
  <2> QED
    BY <1>2, <2>4 DEF Distinct
<1>6. CASE op[o].kind = "destroy" /\ i \in DOMAIN blob.acc /\ op[o].key \in ToSet(blob.acc[i].old)
           /\ v.acc[i] = [blob.acc[i] EXCEPT !.old = RemoveFirst(blob.acc[i].old, op[o].key)]
  <2>1. blob.acc[i] \in Account /\ Distinct(blob.acc[i])
    BY <1>2, <1>6 DEF AccountsOK
  <2>2. /\ Held(v.acc[i]) = Held(blob.acc[i]) \ {op[o].key} /\ v.acc[i].cur = blob.acc[i].cur
        /\ blob.acc[i].old # <<>>
        /\ Head(blob.acc[i].old) # op[o].key => Head(v.acc[i].old) = Head(blob.acc[i].old)
    <3> DEFINE a == blob.acc[i]
    <3>1. a \in Account /\ Distinct(a) /\ op[o].key \in ToSet(a.old)
      BY <1>6, <2>1
    <3>2. v.acc[i] = [a EXCEPT !.old = RemoveFirst(a.old, op[o].key)]
      BY <1>6
    <3> HIDE DEF a
    <3>3. LET b == [a EXCEPT !.old = RemoveFirst(a.old, op[o].key)]
          IN  /\ b \in Account /\ Distinct(b) /\ Held(b) = Held(a) \ {op[o].key} /\ b.cur = a.cur
              /\ a.old # <<>> /\ (Head(a.old) # op[o].key => Head(b.old) = Head(a.old))
      BY <3>1, DestroyedIs
    <3> QED
      BY <3>2, <3>3 DEF a
  <2>3. unsure'[i] = unsure[i]
    BY <1>6, <1>8 DEF Doubts
  <2>4. Head(blob.acc[i].old) = server.key[i]
    BY <1>3, <1>6, <2>2, <2>3
  <2>5. op[o].key \in forgone'[i]
    <3>1. HeldIn(blob.acc, i) \subseteq HeldIn(v.acc, i) \cup Loss(o, i)
      BY <1>1 DEF Writing, KeyInv, RecordInv, WriteOK
    <3>2. op[o].key \in HeldIn(blob.acc, i) /\ op[o].key \notin HeldIn(v.acc, i)
      BY <1>6, <2>2 DEF HeldIn, Held
    <3> QED
      BY <1>1, <3>1, <3>2, WriteLoses
  <2>6. server.key[i] # op[o].key
    BY <2>5 DEF Counts, Writing
  <2> QED
    BY <2>2, <2>4, <2>6
<1> QED
  BY <1>1, <1>4, <1>5, <1>6 DEF Change

\* A write loses no published key it does not give up.
LEMMA WriteStore ==
    ASSUME KeyInv, NEW o \in Op, NEW v, Writing(o, v) PROVE StoreInv' /\ PublishedHeld'
<1>1. VaultOK(v) /\ Known(v.acc) /\ AccountsOK(v.acc) /\ DOMAIN v.acc \subseteq Id /\ DOMAIN v.acc # {}
      /\ v.active \in DOMAIN v.acc
  BY DEF Writing, KeyInv, RecordInv, WriteOK, VaultOK, AccountsOK
<1>2. UNCHANGED <<file, server, lastKey, born>> /\ blob'.acc = v.acc /\ blob'.active = v.active
      /\ DOMAIN blob' = {"acc", "active", "seal"}
  BY DEF Writing
<1>3. VaultOK(blob)' /\ Known(blob.acc)' /\ AccountsOK(file)' /\ Known(file)'
  BY <1>1, <1>2 DEF KeyInv, StoreInv, VaultOK, Known
<1>4. \A i \in DOMAIN file : server.key[i] # 0 => server.key[i] \in Held(file[i]) \cup Kept(i)'
  BY WriteLoses DEF KeyInv, StoreInv, AccountsOK
<1>5. PublishedHeld'
  <2> SUFFICES ASSUME NEW i \in DOMAIN v.acc, server.key[i] # 0
               PROVE  server.key[i] \in Held(v.acc[i]) \cup forgone'[i]
    BY <1>2 DEF PublishedHeld
  <2>1. server.key[i] \in Held(v.acc[i]) \cup Kept(i)
    BY DEF Writing, KeyInv, RecordInv, WriteOK
  <2>2. Kept(i)' = forgone'[i] \cup Held(v.acc[i])
    BY <1>2 DEF Kept, HeldIn
  <2> QED
    BY <1>1, <2>1, <2>2, WriteLoses
<1> QED
  BY <1>2, <1>3, <1>4, <1>5, WriteLoses, WriteDoubts DEF KeyInv, StoreInv

\* A write, whatever its operation does next.
LEMMA WrittenKeeps ==
    ASSUME KeyInv, NEW o \in Op, NEW v, Writing(o, v), \A p \in Op \ {o} : op'[p] = op[p],
           \/ op'[o] = Idle
           \/ /\ op[o].kind = "rotate" /\ op'[o].stage = "send" /\ op'[o].kind = "rotate"
              /\ op'[o].id = op[o].id /\ op'[o].key = op[o].key
    PROVE  KeyInv'
<1>1. StoreInv' /\ PublishedHeld' /\ RefusedUndone'
  BY WriteStore, WriteUndone
<1>2. /\ op[o].stage = "write" /\ v = op[o].full /\ blob'.acc = v.acc
      /\ UNCHANGED <<file, server, lastKey, born>>
      /\ RecordInv(o) /\ WriteOK(o)
  BY DEF Writing, KeyInv, RecordInv
<1>3. ASSUME NEW p \in Op \ {o} PROVE op'[p] = op[p] /\ RecordInv(p) /\ ~ InHand(p)
  BY <1>2 DEF KeyInv, OrderInv, InHand, Holding
<1>4. op'[o] = Idle => op'[o].stage = "idle" /\ op'[o].kind = "none"
  BY DEF Idle
<1>5. ASSUME NEW p \in Op, p # o PROVE RecordInv(p)'
  <2>1. UndoOK(p)'
    <3> SUFFICES ASSUME op[p].stage = "send" \/ op[p].kind = "revert", NEW i \in DOMAIN v.acc,
                        Counts(i)', v.acc[i].cur = op[p].key, v.acc[i].old # <<>>,
                        server.key[i] # op[p].key, unsure'[i] \subseteq {op[p].key}
                 PROVE  Head(v.acc[i].old) = server.key[i]
      BY <1>2, <1>3, <1>5 DEF UndoOK, Undoable
    <3>1. op[o].kind \notin {"rotate", "revert"}
      BY <1>2, <1>5 DEF KeyInv, OrderInv, UnderWay
    <3> QED
      BY <3>1, WriteUndoable
  <2>2. op[p].stage = "send" =>
               /\ op[p].key \in Kept(op[p].id)'
               /\ OnTop(blob'.acc, op[p].id, op[p].key) /\ OnTop(file', op[p].id, op[p].key)
    <3> SUFFICES ASSUME op[p].stage = "send"
                 PROVE  /\ op[p].key \in Kept(op[p].id)'
                        /\ OnTop(blob'.acc, op[p].id, op[p].key) /\ OnTop(file', op[p].id, op[p].key)
      OBVIOUS
    <3>1. /\ op[p].id \in Id /\ op[p].key \in Kept(op[p].id) /\ OnTop(file, op[p].id, op[p].key)
      BY <1>3, <1>5 DEF RecordInv, SendOK, KeyInv, StoreInv
    <3>2. OnTop(v.acc, op[p].id, op[p].key)
      BY <1>2 DEF KeyInv, OrderInv, Apart
    <3>3. op[p].key \in Kept(op[p].id)'
      BY <1>3, <1>5, <3>1, WriteLoses
    <3> QED
      BY <1>2, <3>1, <3>2, <3>3
  <2> QED
    BY <1>2, <1>3, <1>5, <2>1, <2>2, Bystander
<1>6. RecordInv(o)'
  <2>1. CASE op'[o] = Idle
    BY <1>4, <2>1 DEF RecordInv, WriteOK, SendOK, LoginOK, UndoOK
  <2>2. CASE /\ op[o].kind = "rotate" /\ op'[o].stage = "send" /\ op'[o].kind = "rotate"
             /\ op'[o].id = op[o].id /\ op'[o].key = op[o].key
    <3> DEFINE i == op[o].id
               k == op[o].key
    <3>1. /\ i \in DOMAIN v.acc /\ v.acc[i].cur = k /\ k \in Kid
          /\ \A j \in Id : k \notin HeldIn(blob.acc, j) \cup HeldIn(file, j) \cup unsure[j]
          /\ VaultOK(v) /\ Known(v.acc)
      BY <1>2, <2>2 DEF WriteOK, Launches
    <3>2. i \in born /\ i \in Id
      BY <3>1 DEF Known, VaultOK, AccountsOK
    <3> HIDE DEF i, k
    <3>3. SendOK(o)'
      <4>1. k \in Kept(i)'
        BY <1>2, <2>2, <3>1 DEF Kept, HeldIn, Held, i
      <4>2. OnTop(v.acc, i, k) /\ OnTop(file, i, k)
        BY <3>1, <3>2 DEF OnTop, HeldIn
      <4> QED
        BY <1>2, <2>2, <3>1, <3>2, <4>1, <4>2 DEF SendOK, i, k
    <3>4. UndoOK(o)'
      <4> SUFFICES ASSUME NEW j \in DOMAIN v.acc, Counts(j)', v.acc[j].cur = k, v.acc[j].old # <<>>,
                          server.key[j] # k, unsure'[j] \subseteq {k}
                   PROVE  Head(v.acc[j].old) = server.key[j]
        BY <1>2, <2>2 DEF UndoOK, Undoable, k
      <4>1. /\ Counts(j) /\ j \in Id /\ j \in DOMAIN blob.acc /\ Change(op[o], v, j)
            /\ Doubts(o, v, j)
        BY <2>2, WriteTurns, WriteDoubts
      <4>2. blob.acc[j] \in Account /\ Distinct(blob.acc[j]) /\ blob.acc[j].cur \in HeldIn(blob.acc, j)
        BY <4>1, HeldIs DEF KeyInv, StoreInv, VaultOK, AccountsOK, HeldIn
      <4>3. v.acc[j] # blob.acc[j]
        BY <3>1, <4>1, <4>2
      <4>4. j = i /\ v.acc[j] = [cur |-> k, old |-> <<blob.acc[j].cur>> \o blob.acc[j].old]
        BY <2>2, <4>1, <4>3 DEF Change, i, k
      <4>5. k \notin Held(blob.acc[j])
        BY <3>1, <4>1 DEF HeldIn
      <4>6. Head(v.acc[j].old) = blob.acc[j].cur
        BY <3>1, <4>2, <4>4, <4>5, RotatedIs
      <4>7. unsure[j] = {}
        BY <2>2, <3>1, <4>1, <4>4 DEF Doubts, i, k
      <4> QED
        BY <4>1, <4>6, <4>7 DEF KeyInv, RefusedUndone, Counts
    <3> QED
      BY <2>2, <3>3, <3>4 DEF RecordInv, WriteOK, LoginOK
  <2> QED
    BY <2>1, <2>2
<1>7. OrderInv'
  <2>1. ASSUME NEW p \in Op
        PROVE  /\ UnderWay(p)' => UnderWay(p)
               /\ ~ InHand(p)'
               /\ op'[p].stage # "write"
    <3>1. CASE p = o
      BY <1>2, <1>4, <3>1 DEF UnderWay, InHand, Holding
    <3>2. CASE p # o
      BY <1>3, <3>2 DEF UnderWay, InHand, Holding
    <3> QED
      BY <3>1, <3>2
  <2>2. \A p, q \in Op : Apart(p, q)'
    BY <2>1 DEF Apart
  <2> QED
    BY <2>1, <2>2 DEF KeyInv, OrderInv
<1> QED
  BY <1>1, <1>5, <1>6, <1>7 DEF KeyInv

\* The write itself, or a save that had no key and no password.
LEMMA WriteKeeps ==
    ASSUME KeyInv, ShapeInv, NEW o \in Op, Write(o) PROVE KeyInv'
<1> USE DEF ShapeInv
<1>1. CASE CanSave(op[o].tab, op[o].pw)
  <2> DEFINE v == op[o].full
  <2>1. /\ op[o].stage = "write" /\ blob' = Sealed(op[o].tab, op[o].pw, v)
        /\ op' = [op EXCEPT ![o] = IF Goes(op[o])
                         THEN [op[o] EXCEPT !.stage = "send", !.full = NoVault, !.drop = NoDrop, !.pw = "null"]
                         ELSE Idle]
        /\ forgone' = ForgoneAfter(op[o]) /\ unsure' = UnsureAfter(op[o])
        /\ UNCHANGED <<file, server, lastKey, born>>
    BY <1>1 DEF Write
  <2>2. blob'.acc = v.acc /\ blob'.active = v.active /\ DOMAIN blob' = {"acc", "active", "seal"}
    BY <2>1 DEF Sealed
  <2>3. Writing(o, v)
    BY <2>1, <2>2 DEF Writing
  <2>4. \/ op'[o] = Idle
        \/ /\ op[o].kind = "rotate" /\ op'[o].stage = "send" /\ op'[o].kind = "rotate"
           /\ op'[o].id = op[o].id /\ op'[o].key = op[o].key
    BY <2>1 DEF Fields, Goes
  <2>5. \A p \in Op \ {o} : op'[p] = op[p]
    BY <2>1
  <2> QED
    BY <2>3, <2>4, <2>5, WrittenKeeps
<1>2. CASE ~ CanSave(op[o].tab, op[o].pw)
  <2>1. UNCHANGED store /\ server' = server /\ op' = [op EXCEPT ![o] = Idle]
    BY <1>2 DEF Write, store
  <2>2. \A p \in Op : op'[p] = op[p] \/ Quiet(p)
    BY <2>1 DEF Quiet, Idle
  <2> QED
    BY <2>1, <2>2, Calm
<1> QED
  BY <1>1, <1>2

----------------------------------------------------------------------------
(* Every step keeps the keys. *)

\* Asking for the password moves only the operation that asks.
LEMMA AsksIs ==
    ASSUME ShapeInv, NEW o \in Op, NEW r, DOMAIN r = Fields, NEW forced, Asks(o, r, forced)
    PROVE  /\ \A p \in Op \ {o} : op'[p] = op[p]
           /\ DOMAIN op' = Op /\ DOMAIN op'[o] = Fields
           /\ op'[o].stage \in {"ask", "read"} /\ op'[o].kind = r.kind /\ op'[o].key = r.key
           /\ op'[o].tab = r.tab /\ op'[o].id = r.id
  BY DEF Asks, ShapeInv, Fields

\* A new operation has the fields of one.
LEMMA NewOpIs ==
    ASSUME NEW t, NEW kind
    PROVE  /\ DOMAIN NewOp(t, kind) = Fields
           /\ NewOp(t, kind).kind = kind /\ NewOp(t, kind).tab = t /\ NewOp(t, kind).stage = "idle"
  BY DEF NewOp, Idle, Fields

\* Operations that do not rotate, asking for the password or for nothing more.
LEMMA AskingKeeps ==
    ASSUME KeyInv, ShapeInv, NEW o \in Op, NEW r, DOMAIN r = Fields, NEW forced, Asks(o, r, forced),
           r.kind = "revert" => r.key = op[o].key /\ op[o].stage = "send",
           UNCHANGED store, server' = server
    PROVE  KeyInv'
<1>1. \A p \in Op : op'[p] = op[p] \/ Quiet(p)
  BY AsksIs DEF Quiet
<1> QED
  BY <1>1, Calm

\* Starting an operation stores nothing.
LEMMA StartKeeps ==
    ASSUME KeyInv, ShapeInv, NEW o \in Op, NEW t \in Tab,
           Start(o, t) \/ StartErase(o, t) \/ ForgetAtLogin(o, t)
    PROVE  KeyInv'
<1>1. CASE Start(o, t)
  <2>0. PICK kind \in {"add", "switch", "delete", "import", "export", "rotate", "destroy", "enable"} :
          \E id, k : Asks(o, [NewOp(t, kind) EXCEPT !.id = id, !.key = k], kind \in Forced)
    BY <1>1 DEF Start
  <2>1. PICK id, k : Asks(o, [NewOp(t, kind) EXCEPT !.id = id, !.key = k], kind \in Forced)
    BY <2>0
  <2> DEFINE r == [NewOp(t, kind) EXCEPT !.id = id, !.key = k]
  <2>2. DOMAIN r = Fields /\ r.kind = kind /\ kind # "revert"
    BY NewOpIs DEF Fields
  <2>3. UNCHANGED store /\ server' = server
    BY <1>1 DEF Start, store
  <2> HIDE DEF r
  <2> QED
    BY <2>1, <2>2, <2>3, AskingKeeps DEF r
<1>2. CASE StartErase(o, t)
  <2>1. PICK kind \in {"erase", "leave"}, f \in BOOLEAN :
          LET r == [NewOp(t, kind) EXCEPT !.forget = f]
          IN IF tab[t].ext
             THEN /\ op' = [op EXCEPT ![o] = [r EXCEPT !.stage = "submit", !.id = ExtId]]
                  /\ UNCHANGED tab
             ELSE tab[t].mem # Locked /\ Asks(o, r, TRUE)
    BY <1>2 DEF StartErase
  <2> DEFINE r == [NewOp(t, kind) EXCEPT !.forget = f]
  <2>2. DOMAIN r = Fields /\ r.kind = kind /\ kind # "revert"
    BY NewOpIs DEF Fields
  <2>3. UNCHANGED store /\ server' = server
    BY <1>2 DEF StartErase, store
  <2>4. CASE op' = [op EXCEPT ![o] = [r EXCEPT !.stage = "submit", !.id = ExtId]]
    <3> HIDE DEF r
    <3>1. \A p \in Op : op'[p] = op[p] \/ Quiet(p)
      BY <2>2, <2>4 DEF Quiet, Fields, ShapeInv
    <3> QED
      BY <2>3, <3>1, Calm
  <2>5. CASE Asks(o, r, TRUE)
    <3> HIDE DEF r
    <3> QED
      BY <2>2, <2>3, <2>5, AskingKeeps
  <2> QED
    BY <2>1, <2>4, <2>5
<1>3. CASE ForgetAtLogin(o, t)
  <2>1. CASE Wiped /\ UNCHANGED op
    <3>1. op'[o] = Idle /\ \A p \in Op \ {o} : op'[p] = op[p]
      BY <1>3, <2>1 DEF ForgetAtLogin
    <3> QED
      BY <1>3, <2>1, <3>1, WipeKeeps DEF ForgetAtLogin, Wiped
  <2>2. CASE UNCHANGED <<blob, bio, tab, forgone>>
    <3> DEFINE r == [NewOp(t, "forget") EXCEPT !.stage = "read", !.pw = "right", !.id = tab[t].mem.active]
    <3>1. op' = op \/ op' = [op EXCEPT ![o] = r]
      BY <1>3 DEF ForgetAtLogin
    <3>2. r.stage = "read" /\ r.kind = "forget"
      BY DEF NewOp, Idle
    <3> HIDE DEF r
    <3>3. \A p \in Op : op'[p] = op[p] \/ Quiet(p)
      BY <3>1, <3>2 DEF Quiet, ShapeInv
    <3>4. UNCHANGED store /\ server' = server
      BY <1>3, <2>2 DEF ForgetAtLogin, store
    <3> QED
      BY <3>3, <3>4, Calm
  <2> QED
    BY <1>3, <2>1, <2>2 DEF ForgetAtLogin
<1> QED
  BY <1>1, <1>2, <1>3

\* The prompt is answered or not, a tab signs out, drops its cache or reloads.
LEMMA TabsKeep ==
    ASSUME KeyInv, ShapeInv, NEW t \in Tab,
           \/ Submit(t) \/ Cancel(t) \/ BioAnswers(t) \/ LoginTrustKeys(t) \/ Logout(t)
           \/ DropCache(t) \/ DisableBiometrics(t) \/ Reload(t)
    PROVE  KeyInv'
<1>1. UNCHANGED store /\ server' = server
  BY DEF Submit, Cancel, BioAnswers, LoginTrustKeys, Logout, DropCache, DisableBiometrics, Reload, store
<1>2. ASSUME NEW p \in Op PROVE op'[p] = op[p] \/ Quiet(p)
  <2>1. ASSUME NEW pw, Answer(t, pw) PROVE op'[p] = op[p] \/ Quiet(p)
    <3>1. op'[p] = op[p] \/ op'[p] = [op[p] EXCEPT !.stage = "read", !.pw = pw]
      BY <2>1 DEF Answer
    <3>2. op'[p] = [op[p] EXCEPT !.stage = "read", !.pw = pw] =>
              op'[p].stage = "read" /\ op'[p].kind = op[p].kind /\ op'[p].key = op[p].key
      BY DEF ShapeInv, Fields
    <3> QED
      BY <3>1, <3>2 DEF Quiet
  <2>2. CASE Submit(t) \/ BioAnswers(t)
    BY <2>1, <2>2 DEF Submit, BioAnswers
  <2>3. op'[p] = Idle => Quiet(p)
    BY DEF Quiet, Idle
  <2>4. CASE Cancel(t) \/ Reload(t)
    BY <2>3, <2>4 DEF Cancel, Reload
  <2>5. CASE LoginTrustKeys(t) \/ Logout(t) \/ DropCache(t) \/ DisableBiometrics(t)
    BY <2>5 DEF LoginTrustKeys, Logout, DropCache, DisableBiometrics
  <2> QED
    BY <2>2, <2>4, <2>5
<1> QED
  BY <1>1, <1>2, Calm

\* What an operation does that ends it, or that changes nothing stored.
LEMMA EndKeeps ==
    ASSUME KeyInv, ShapeInv, NEW o \in Op,
           \/ ReadFails(o) \/ Unanswered(o) \/ Turned(o) \/ Submitted(o) \/ SubmitFails(o) \/ ForgetNone(o)
    PROVE  KeyInv'
<1>1. UNCHANGED store
  BY DEF ReadFails, Unanswered, Turned, Submitted, SubmitFails, ForgetNone, store
<1>2. server'.key = server.key /\ DOMAIN server' = DOMAIN server
  <2>1. DOMAIN server = {"key", "gone"}
    BY DEF KeyInv, StoreInv
  <2> QED
    BY <2>1 DEF ReadFails, Unanswered, Turned, Submitted, SubmitFails, ForgetNone
<1>3. op' = [op EXCEPT ![o] = Idle] \/ (op' = [op EXCEPT ![o].stage = "forget"] /\ op[o].stage = "submit")
  BY DEF ReadFails, Unanswered, Turned, Submitted, SubmitFails, ForgetNone
<1>4. ASSUME NEW p \in Op PROVE op'[p] = op[p] \/ Quiet(p)
  <2>1. CASE op' = [op EXCEPT ![o] = Idle]
    BY <2>1 DEF Quiet, Idle, ShapeInv
  <2>2. CASE op' = [op EXCEPT ![o].stage = "forget"]
    <3>1. op'[o].stage = "forget" /\ op'[o].kind = op[o].kind /\ op'[o].key = op[o].key
      BY <2>2 DEF ShapeInv, Fields
    <3>2. p # o => op'[p] = op[p]
      BY <2>2 DEF ShapeInv
    <3> QED
      BY <3>1, <3>2 DEF Quiet
  <2> QED
    BY <1>3, <2>1, <2>2
<1> QED
  BY <1>1, <1>2, <1>4, Calm

\* A refused rotation is undone, a forgotten identity goes on: both read again.
LEMMA AgainKeeps ==
    ASSUME KeyInv, ShapeInv, NEW o \in Op, Refused(o) \/ ForgetOne(o)
    PROVE  KeyInv'
<1>1. UNCHANGED store /\ server' = server
  BY DEF Refused, ForgetOne, store
<1>2. CASE Refused(o)
  <2> DEFINE r == [NewOp(op[o].tab, "revert") EXCEPT !.key = op[o].key]
  <2>1. Asks(o, r, FALSE) /\ op[o].stage = "send"
    BY <1>2 DEF Refused
  <2>2. DOMAIN r = Fields /\ r.key = op[o].key
    BY NewOpIs DEF Fields
  <2> HIDE DEF r
  <2> QED
    BY <1>1, <2>1, <2>2, AskingKeeps
<1>3. CASE ForgetOne(o)
  <2> DEFINE t == op[o].tab
             r == [NewOp(t, "forget") EXCEPT !.id = tab[t].mem.active, !.forget = TRUE]
  <2>1. Asks(o, r, FALSE)
    BY <1>3 DEF ForgetOne
  <2>2. DOMAIN r = Fields /\ r.kind = "forget"
    BY NewOpIs DEF Fields
  <2> HIDE DEF r
  <2> QED
    BY <1>1, <2>1, <2>2, AskingKeeps
<1> QED
  BY <1>2, <1>3

\* An export, a biometric registration and a deletion's signature.
LEMMA ReadOnlyKeeps ==
    ASSUME KeyInv, ShapeInv, NEW o \in Op, ReadOnly(o) PROVE KeyInv'
<1>1. UNCHANGED <<blob, server, lastKey, born, forgone, unsure>>
  BY DEF ReadOnly
<1>2. CASE file' = blob.acc /\ op' = [op EXCEPT ![o] = Idle]
  BY <1>1, <1>2, ExportKeeps
<1>3. CASE /\ file' = file
           /\ \/ op' = [op EXCEPT ![o] = Idle]
              \/ op' = [op EXCEPT ![o] = [op[o] EXCEPT !.stage = "submit", !.id = blob.active]]
  <2>1. UNCHANGED store /\ server' = server
    BY <1>1, <1>3 DEF store
  <2>2. ASSUME NEW p \in Op PROVE op'[p] = op[p] \/ Quiet(p)
    <3>1. CASE op' = [op EXCEPT ![o] = Idle]
      BY <3>1 DEF Quiet, Idle, ShapeInv
    <3>2. CASE op' = [op EXCEPT ![o] = [op[o] EXCEPT !.stage = "submit", !.id = blob.active]]
      <4>1. op'[o].stage = "submit" /\ op'[o].kind = op[o].kind /\ op'[o].key = op[o].key
        BY <3>2 DEF ShapeInv, Fields
      <4>2. p # o => op'[p] = op[p]
        BY <3>2 DEF ShapeInv
      <4> QED
        BY <4>1, <4>2 DEF Quiet
    <3> QED
      BY <1>3, <3>1, <3>2
  <2> QED
    BY <2>1, <2>2, Calm
<1> QED
  BY <1>2, <1>3 DEF ReadOnly

\* The login record of a tab that opens a vault.
LEMMA OpenedIs ==
    ASSUME ShapeInv, NEW o \in Op, NEW t, NEW v, NEW pw, NEW cached, Opened(o, t, v, pw, cached)
    PROVE  /\ \A p \in Op \ {o} : op'[p] = op[p]
           /\ DOMAIN op' = Op /\ DOMAIN op'[o] = Fields
           /\ op'[o].stage = "login" /\ op'[o].kind = "login" /\ op'[o].tab = t
           /\ op'[o].id = v.active /\ op'[o].key = v.acc[v.active].cur
<1> DEFINE r == [NewOp(t, "login") EXCEPT
                  !.stage = "login", !.pw = pw, !.id = v.active, !.key = v.acc[v.active].cur]
<1>1. op' = [op EXCEPT ![o] = r]
  BY DEF Opened
<1>2. /\ DOMAIN r = Fields /\ r.stage = "login" /\ r.kind = "login" /\ r.tab = t
      /\ r.id = v.active /\ r.key = v.acc[v.active].cur
  BY DEF NewOp, Idle, Fields
<1> HIDE DEF r
<1> QED
  BY <1>1, <1>2 DEF ShapeInv

\* Signing in to the vault there is.
LEMMA UnlockKeeps ==
    ASSUME VaultConstants, MaxWriters = 1, KeyInv, ShapeInv, NEW o \in Op, NEW t \in Tab,
           Unlock(o, t) \/ UnlockWithBiometrics(o, t)
    PROVE  KeyInv'
<1>1. UNCHANGED store /\ server' = server /\ HasVault /\ Room("login")
  BY DEF Unlock, UnlockWithBiometrics, store, AtSignIn
<1>2. \A p \in Op : ~ InHand(p)
  BY <1>1, RoomIs
<1>3. ASSUME NEW pw, NEW cached, Opened(o, t, blob, pw, cached) PROVE KeyInv'
  BY <1>1, <1>2, <1>3, OpenedIs, OpenKeeps
<1>4. CASE Unlock(o, t)
  BY <1>3, <1>4 DEF Unlock
<1>5. CASE UnlockWithBiometrics(o, t)
  <2>1. op' = op => KeyInv'
    <3> SUFFICES ASSUME op' = op PROVE KeyInv'
      OBVIOUS
    <3>1. \A p \in Op : op'[p] = op[p] \/ Quiet(p)
      OBVIOUS
    <3> QED
      BY <1>1, <3>1, Calm
  <2> QED
    BY <1>3, <1>5, <2>1 DEF UnlockWithBiometrics
<1> QED
  BY <1>4, <1>5

\* Signing up: a vault with one new identity and its first key.
LEMMA CreateKeeps ==
    ASSUME VaultConstants, MaxWriters = 1, KeyInv, ShapeInv, NEW o \in Op, NEW t \in Tab, Create(o, t)
    PROVE  KeyInv'
<1>0. PICK k : k = lastKey + 1
  OBVIOUS
<1> DEFINE a == [cur |-> k, old |-> <<>>]
<1>1. PICK i \in Id \ born :
        /\ NewVault(o, t, [acc |-> [j \in {i} |-> [cur |-> lastKey + 1, old |-> <<>>]], active |-> i])
        /\ born' = born \cup {i}
  BY DEF Create
<1> DEFINE acc == [j \in {i} |-> a]
           v == [acc |-> acc, active |-> i]
<1>2. /\ ~ HasVault /\ blob' = Sealed(t, "right", v) /\ Room("login")
      /\ Opened(o, t, v, "right", CachedBySave(t, "right"))
  BY <1>0, <1>1 DEF NewVault, AtSignIn
<1>3. UNCHANGED <<file, server, forgone, unsure>> /\ lastKey' = lastKey + 1 /\ lastKey < MaxKey
  BY DEF Create
<1>4. lastKey \in 0 .. MaxKey /\ MaxKey \in Nat /\ born \subseteq Id
  BY DEF KeyInv, StoreInv, VaultConstants
<1>5. k \in Kid /\ k <= lastKey' /\ lastKey' \in 0 .. MaxKey /\ lastKey <= lastKey'
  BY <1>0, <1>3, <1>4 DEF Kid
<1>6. a \in Account /\ Distinct(a) /\ Held(a) = {k}
  BY <1>5 DEF Account, Distinct, IsInjective, ToSet, Held
<1>7. v.acc = acc /\ v.active = i /\ DOMAIN acc = {i} /\ acc[i] = a
  OBVIOUS
<1>8. DOMAIN blob' = {"acc", "active", "seal"} /\ blob'.acc = acc /\ blob'.active = i
  BY <1>2 DEF Sealed
<1>9. \A p \in Op : ~ InHand(p)
  BY <1>2, RoomIs
<1>10. /\ \A p \in Op \ {o} : op'[p] = op[p]
       /\ op'[o].stage = "login" /\ op'[o].kind = "login"
       /\ op'[o].id = i /\ op'[o].key = a.cur
  BY <1>2, <1>7, OpenedIs
<1> HIDE DEF v, acc, a
<1>11. AccountsOK(acc) /\ Known(acc)' /\ i \notin born /\ DOMAIN acc # {}
  BY <1>1, <1>5, <1>6, <1>7 DEF AccountsOK, Known
<1>12. /\ unsure' \in [Id -> SUBSET Kid] /\ \A j \in Id : unsure[j] \subseteq unsure'[j]
       /\ \A j \in Id : \A x \in unsure'[j] : x <= lastKey'
  <2>1. \A j \in Id : \A x \in unsure[j] : x \in Nat /\ x <= lastKey
    BY DEF KeyInv, StoreInv, Kid
  <2> QED
    BY <1>3, <1>4, <2>1 DEF KeyInv, StoreInv
<1>13. born \subseteq born' /\ born' \subseteq Id
  BY <1>1, <1>4
<1> QED
  BY <1>2, <1>3, <1>5, <1>7, <1>8, <1>9, <1>10, <1>11, <1>12, <1>13, NewVaultKeeps

\* Restoring a backup where there is no vault: its keys are in doubt.
LEMMA ReceiveKeeps ==
    ASSUME VaultConstants, MaxWriters = 1, KeyInv, ShapeInv, NEW o \in Op, NEW t \in Tab, Receive(o, t)
    PROVE  KeyInv'
<1>1. PICK i \in DOMAIN file : NewVault(o, t, [acc |-> file, active |-> i])
  BY DEF Receive
<1> DEFINE v == [acc |-> file, active |-> i]
<1>2. /\ ~ HasVault /\ blob' = Sealed(t, "right", v) /\ Room("login")
      /\ Opened(o, t, v, "right", CachedBySave(t, "right"))
  BY <1>1 DEF NewVault, AtSignIn
<1>3. /\ UNCHANGED <<file, server, lastKey, born, forgone>>
      /\ unsure' = [j \in Id |-> unsure[j] \cup HeldIn(file, j)]
  BY DEF Receive
<1>4. lastKey \in 0 .. MaxKey /\ lastKey <= lastKey /\ born \subseteq Id /\ AccountsOK(file) /\ Known(file)
      /\ unsure \in [Id -> SUBSET Kid] /\ \A j \in Id : \A k \in unsure[j] : k <= lastKey
  BY DEF KeyInv, StoreInv
<1>5. v.acc = file /\ v.active = i
  OBVIOUS
<1>6. DOMAIN blob' = {"acc", "active", "seal"} /\ blob'.acc = file /\ blob'.active = i
  BY <1>2 DEF Sealed
<1>7. \A p \in Op : ~ InHand(p)
  BY <1>2, RoomIs
<1>8. /\ \A p \in Op \ {o} : op'[p] = op[p]
      /\ op'[o].stage = "login" /\ op'[o].kind = "login"
      /\ op'[o].id = i /\ op'[o].key = file[i].cur
  BY <1>2, <1>5, OpenedIs
<1> HIDE DEF v
<1>9. Known(file)'
  BY <1>3, <1>4 DEF Known
<1>10. /\ unsure' \in [Id -> SUBSET Kid] /\ \A j \in Id : unsure[j] \subseteq unsure'[j]
       /\ \A j \in Id : \A k \in unsure'[j] : k <= lastKey
  <2>1. \A j \in Id : HeldIn(file, j) \subseteq Kid /\ \A k \in HeldIn(file, j) : k <= lastKey
    BY <1>4, HeldInKid DEF Known, HeldIn
  <2> QED
    BY <1>3, <1>4, <2>1
<1>11. \A j \in DOMAIN file : Held(file[j]) \subseteq unsure'[j]
  BY <1>3, <1>4 DEF HeldIn, AccountsOK
<1> QED
  BY <1>2, <1>3, <1>4, <1>6, <1>7, <1>8, <1>9, <1>10, <1>11, NewVaultKeeps

\* Every step keeps the key invariant.
LEMMA KeysStep ==
    ASSUME VaultConstants, MaxWriters = 1, KeyInv, ShapeInv, Next PROVE KeyInv'
<1>1. ASSUME NEW t \in Tab,
             \/ Submit(t) \/ Cancel(t) \/ BioAnswers(t) \/ LoginTrustKeys(t) \/ Logout(t)
             \/ DropCache(t) \/ DisableBiometrics(t) \/ Reload(t)
      PROVE  KeyInv'
  BY <1>1, TabsKeep
<1>2. ASSUME NEW o \in Op,
             \/ ReadFails(o) \/ Unanswered(o) \/ Turned(o) \/ Submitted(o) \/ SubmitFails(o) \/ ForgetNone(o)
      PROVE  KeyInv'
  BY <1>2, EndKeeps
<1>3. ASSUME NEW o \in Op, Refused(o) \/ ForgetOne(o) PROVE KeyInv'
  BY <1>3, AgainKeeps
<1>4. ASSUME NEW o \in Op, ReadToWrite(o) PROVE KeyInv'
  BY <1>4, ReadKeeps
<1>5. ASSUME NEW o \in Op, ReadOnly(o) PROVE KeyInv'
  BY <1>5, ReadOnlyKeeps
<1>6. ASSUME NEW o \in Op, Write(o) PROVE KeyInv'
  BY <1>6, WriteKeeps
<1>7. ASSUME NEW o \in Op, Publish(o) PROVE KeyInv'
  BY <1>7, PublishKeeps
<1>8. ASSUME NEW o \in Op, Admitted(o) PROVE KeyInv'
  BY <1>8, AdmissionKeeps
<1>9. ASSUME NEW o \in Op, ForgetLast(o) PROVE KeyInv'
  BY <1>9, WipeKeeps DEF ForgetLast, Wiped, ShapeInv
<1>10. ASSUME NEW o \in Op, NEW t \in Tab, Start(o, t) \/ StartErase(o, t) \/ ForgetAtLogin(o, t)
       PROVE  KeyInv'
  BY <1>10, StartKeeps
<1>11. ASSUME NEW o \in Op, NEW t \in Tab, Unlock(o, t) \/ UnlockWithBiometrics(o, t) PROVE KeyInv'
  BY <1>11, UnlockKeeps
<1>12. ASSUME NEW o \in Op, NEW t \in Tab, Create(o, t) PROVE KeyInv'
  BY <1>12, CreateKeeps
<1>13. ASSUME NEW o \in Op, NEW t \in Tab, Receive(o, t) PROVE KeyInv'
  BY <1>13, ReceiveKeeps
<1> QED
  BY <1>1, <1>2, <1>3, <1>4, <1>5, <1>6, <1>7, <1>8, <1>9, <1>10, <1>11, <1>12, <1>13 DEF Next

\* It holds where there is nothing, and where a backup is all there is.
LEMMA KeysInit ==
    ASSUME VaultConstants, Init PROVE KeyInv
<1>1. /\ blob = NoVault /\ op = [o \in Op |-> Idle] /\ forgone = NoDrop /\ unsure = NoDrop
  BY DEF Init
<1>2. /\ DOMAIN blob = {"acc", "active", "seal"} /\ DOMAIN blob.acc = {} /\ ~ HasVault
  BY <1>1 DEF NoVault, NoAccounts, HasVault
<1>3. \A i \in Id : forgone[i] = {} /\ unsure[i] = {}
  BY <1>1 DEF NoDrop
<1>4. forgone \in [Id -> SUBSET Kid] /\ unsure \in [Id -> SUBSET Kid]
  BY <1>1 DEF NoDrop
<1>5. VaultOK(blob) /\ Known(blob.acc)
  BY <1>2 DEF VaultOK, AccountsOK, Known
<1>6. StoreInv
  <2>1. CASE /\ file = NoAccounts /\ born = {} /\ lastKey = 0
             /\ server = [key |-> [i \in Id |-> 0], gone |-> {}]
    <3>1. DOMAIN file = {}
      BY <2>1 DEF NoAccounts
    <3>2. AccountsOK(file) /\ Known(file)
      BY <3>1 DEF AccountsOK, Known
    <3>3. lastKey \in 0 .. MaxKey /\ born \subseteq Id
      BY <2>1 DEF VaultConstants
    <3>4. DOMAIN server = {"key", "gone"} /\ server.key \in [Id -> 0 .. MaxKey]
          /\ \A i \in Id : server.key[i] = 0
      BY <2>1 DEF VaultConstants
    <3> QED
      BY <1>3, <1>4, <1>5, <3>1, <3>2, <3>3, <3>4 DEF StoreInv
  <2>2. ASSUME NEW i \in Id,
               file = [j \in {i} |-> [cur |-> 1, old |-> <<>>]], born = {i}, lastKey = 1,
               server = [key |-> [j \in Id |-> IF j = i THEN 1 ELSE 0], gone |-> {}]
        PROVE  StoreInv
    <3> DEFINE a == [cur |-> 1, old |-> <<>>]
    <3>0. MaxKey \in Nat /\ 1 \in Kid
      BY DEF VaultConstants, Kid
    <3>1. a \in Account /\ Distinct(a) /\ Held(a) = {1}
      BY <3>0 DEF Account, Distinct, IsInjective, ToSet, Held
    <3>2. DOMAIN file = {i} /\ file[i] = a
      BY <2>2
    <3> HIDE DEF a
    <3>3. AccountsOK(file) /\ Known(file)
      BY <2>2, <3>1, <3>2 DEF AccountsOK, Known
    <3>4. lastKey \in 0 .. MaxKey /\ born \subseteq Id
      BY <2>2, <3>0
    <3>5. DOMAIN server = {"key", "gone"} /\ server.key = [j \in Id |-> IF j = i THEN 1 ELSE 0]
      BY <2>2
    <3>6. server.key \in [Id -> 0 .. MaxKey] /\ \A j \in Id : server.key[j] # 0 => j = i /\ server.key[j] = 1
      BY <3>0, <3>5
    <3> QED
      BY <1>3, <1>4, <1>5, <2>2, <3>1, <3>2, <3>3, <3>4, <3>5, <3>6 DEF StoreInv
  <2> QED
    BY <2>1, <2>2 DEF Init
<1>7. PublishedHeld /\ RefusedUndone
  BY <1>2 DEF PublishedHeld, RefusedUndone
<1>8. \A o \in Op : op[o].stage = "idle" /\ op[o].kind = "none"
  BY <1>1 DEF Idle
<1>9. \A o \in Op : RecordInv(o)
  BY <1>8 DEF RecordInv, WriteOK, SendOK, LoginOK, UndoOK
<1>10. OrderInv
  BY <1>8 DEF OrderInv, Apart, UnderWay, InHand, Holding
<1> QED
  BY <1>6, <1>7, <1>9, <1>10 DEF KeyInv

----------------------------------------------------------------------------
(* The tabs: their views, their prompts and who waits behind them. *)

\* An operation has its fields and asks in a tab.
OpOK(r) ==
    /\ DOMAIN r = Fields
    /\ r.stage # "idle" => r.tab \in Tab
    /\ r.stage = "submit" => r.id \in Id \cup {ExtId}
    /\ r.kind = "add" /\ r.stage = "write" => r.id \in Id

\* The fields of a tab, and what they hold.
TabFields == {"mem", "cached", "ttl", "prompt", "waiters", "who", "session", "ext", "sees", "blocked"}
TabOK(s) == DOMAIN s = TabFields /\ DOMAIN s.mem = {"ids", "active"} /\ s.mem.ids \subseteq Id

\* Whoever waits asked in that tab, and waits behind a prompt.
PromptInv ==
    /\ DOMAIN tab = Tab /\ DOMAIN op = Op
    /\ \A t \in Tab : /\ TabOK(tab[t]) /\ tab[t].prompt \in {"none", "bio", "modal"}
                      /\ tab[t].waiters \subseteq Op
                      /\ \A o \in tab[t].waiters : op[o].stage = "ask" /\ op[o].tab = t
    /\ \A o \in Op : OpOK(op[o])
    /\ AskersWait

\* What a step leaves in place: every prompt and who waits behind it.
Steady ==
    /\ DOMAIN tab' = Tab
    /\ \A t \in Tab : /\ TabOK(tab'[t]) /\ tab'[t].prompt = tab[t].prompt
                      /\ tab'[t].waiters = tab[t].waiters

\* A step of an operation that was not asking, and is not now.
Past(o) == op[o].stage # "ask" /\ op'[o].stage # "ask" /\ OpOK(op'[o])

\* Prompts and who waits unchanged: the prompts stay in order.
LEMMA SteadyKeeps ==
    ASSUME PromptInv, Steady, DOMAIN op' = Op, \A o \in Op : op'[o] = op[o] \/ Past(o)
    PROVE  PromptInv'
<1>1. \A o \in Op : OpOK(op'[o])
  BY DEF PromptInv, Past
<1>2. \A o \in Op : op[o].stage = "ask" \/ op'[o].stage = "ask" => op'[o] = op[o]
  BY DEF Past
<1>3. ASSUME NEW t \in Tab
      PROVE  /\ TabOK(tab'[t]) /\ tab'[t].prompt \in {"none", "bio", "modal"}
             /\ tab'[t].waiters \subseteq Op
             /\ \A o \in tab'[t].waiters : op'[o].stage = "ask" /\ op'[o].tab = t
  BY <1>2 DEF PromptInv, Steady
<1>4. AskersWait'
  <2> SUFFICES ASSUME NEW o \in Op, op'[o].stage = "ask"
               PROVE  o \in tab'[op'[o].tab].waiters /\ tab'[op'[o].tab].prompt # "none"
    BY DEF AskersWait
  <2>1. op'[o] = op[o]
    BY <1>2
  <2>2. op[o].tab \in Tab
    BY <2>1 DEF PromptInv, OpOK
  <2> QED
    BY <2>1, <2>2 DEF PromptInv, AskersWait, Steady
<1> QED
  BY <1>1, <1>3, <1>4 DEF PromptInv, Steady

\* An operation asks: with a key cached it goes on, else it waits.
LEMMA AsksKeeps ==
    ASSUME PromptInv, NEW o \in Op, op[o].stage # "ask", NEW r, DOMAIN r = Fields, r.tab \in Tab,
           NEW forced, Asks(o, r, forced)
    PROVE  PromptInv'
<1> DEFINE t == r.tab
<1>1. CASE /\ op' = [op EXCEPT ![o] = [r EXCEPT !.stage = "read", !.pw = "null"]]
           /\ UNCHANGED tab
  <2> DEFINE q == [r EXCEPT !.stage = "read", !.pw = "null"]
  <2>1. OpOK(q) /\ q.stage = "read"
    BY DEF OpOK, Fields
  <2> HIDE DEF q
  <2>2. \A p \in Op : op'[p] = op[p] \/ Past(p)
    BY <1>1, <2>1 DEF PromptInv, Past, q
  <2>3. Steady
    BY <1>1 DEF PromptInv, Steady
  <2>4. DOMAIN op' = Op
    BY <1>1 DEF PromptInv
  <2> QED
    BY <2>2, <2>3, <2>4, SteadyKeeps
<1>2. CASE /\ op' = [op EXCEPT ![o] = [r EXCEPT !.stage = "ask"]]
           /\ tab' = [tab EXCEPT
                  ![t].waiters = Joined(t, o),
                  ![t].prompt = IF @ # "none" THEN @
                                ELSE IF bio # "none" /\ ~forced THEN "bio" ELSE "modal"]
  <2> DEFINE q == [r EXCEPT !.stage = "ask"]
             pr == IF tab[t].prompt # "none" THEN tab[t].prompt
                   ELSE IF bio # "none" /\ ~forced THEN "bio" ELSE "modal"
  <2>1. OpOK(q) /\ q.stage = "ask" /\ q.tab = t
    BY DEF OpOK, Fields
  <2>2. pr \in {"none", "bio", "modal"} /\ pr # "none"
    BY DEF PromptInv
  <2>3. /\ DOMAIN tab' = Tab /\ \A s \in Tab \ {t} : tab'[s] = tab[s]
        /\ tab'[t] = [tab[t] EXCEPT !.waiters = tab[t].waiters \cup {o}, !.prompt = pr]
    BY <1>2 DEF PromptInv, Joined
  <2> HIDE DEF q, pr
  <2>4. DOMAIN op' = Op /\ op'[o] = q /\ \A p \in Op \ {o} : op'[p] = op[p]
    BY <1>2 DEF PromptInv, q
  <2> HIDE DEF t
  <2>5. t \in Tab
    BY DEF t
  <2>6. /\ TabOK(tab'[t]) /\ tab'[t].waiters = tab[t].waiters \cup {o} /\ tab'[t].prompt = pr
    BY <2>3, <2>5 DEF PromptInv, TabOK, TabFields
  <2>7. \A s \in Tab : o \notin tab[s].waiters
    BY DEF PromptInv
  <2>8. ASSUME NEW s \in Tab
        PROVE  /\ TabOK(tab'[s]) /\ tab'[s].prompt \in {"none", "bio", "modal"}
               /\ tab'[s].waiters \subseteq Op
               /\ \A p \in tab'[s].waiters : op'[p].stage = "ask" /\ op'[p].tab = s
    <3>1. CASE s = t
      BY <2>1, <2>2, <2>4, <2>6, <2>7, <3>1 DEF PromptInv
    <3>2. CASE s # t
      BY <2>3, <2>4, <2>7, <3>2 DEF PromptInv
    <3> QED
      BY <3>1, <3>2
  <2>9. \A p \in Op : OpOK(op'[p])
    BY <2>1, <2>4 DEF PromptInv
  <2>10. AskersWait'
    <3> SUFFICES ASSUME NEW p \in Op, op'[p].stage = "ask"
                 PROVE  p \in tab'[op'[p].tab].waiters /\ tab'[op'[p].tab].prompt # "none"
      BY DEF AskersWait
    <3>1. CASE p = o
      BY <2>1, <2>2, <2>4, <2>6, <3>1
    <3>2. CASE p # o
      <4>1. op'[p] = op[p] /\ op[p].tab \in Tab /\ p \in tab[op[p].tab].waiters /\ tab[op[p].tab].prompt # "none"
        BY <2>4, <3>2 DEF PromptInv, OpOK, AskersWait
      <4>2. CASE op[p].tab = t
        BY <2>2, <2>6, <4>1, <4>2
      <4>3. CASE op[p].tab # t
        <5>1. tab'[op[p].tab] = tab[op[p].tab]
          BY <2>3, <4>1, <4>3
        <5> QED
          BY <4>1, <5>1
      <4> QED
        BY <4>2, <4>3
    <3> QED
      BY <3>1, <3>2
  <2> QED
    BY <2>3, <2>4, <2>8, <2>9, <2>10 DEF PromptInv
<1> QED
  BY <1>1, <1>2 DEF Asks

\* A step after which operation o does not wait in tab t.
Moved(o, t) ==
    \/ op'[o] = op[o] /\ ~ (op[o].stage = "ask" /\ op[o].tab = t)
    \/ op[o].tab = t /\ op'[o].stage # "ask" /\ OpOK(op'[o])

\* The prompt of a tab is done with: nobody waits there any more.
LEMMA AnsweredKeeps ==
    ASSUME PromptInv, NEW t \in Tab, DOMAIN tab' = Tab, DOMAIN op' = Op,
           \A s \in Tab \ {t} : tab'[s] = tab[s],
           TabOK(tab'[t]), tab'[t].prompt = "none", tab'[t].waiters = {},
           \A o \in Op : Moved(o, t)
    PROVE  PromptInv'
<1>1. ASSUME NEW s \in Tab
      PROVE  /\ TabOK(tab'[s]) /\ tab'[s].prompt \in {"none", "bio", "modal"}
             /\ tab'[s].waiters \subseteq Op
             /\ \A p \in tab'[s].waiters : op'[p].stage = "ask" /\ op'[p].tab = s
  BY DEF PromptInv, Moved
<1>2. \A o \in Op : OpOK(op'[o])
  BY DEF PromptInv, Moved
<1>3. AskersWait'
  <2> SUFFICES ASSUME NEW p \in Op, op'[p].stage = "ask"
               PROVE  p \in tab'[op'[p].tab].waiters /\ tab'[op'[p].tab].prompt # "none"
    BY DEF AskersWait
  <2>1. op'[p] = op[p] /\ op[p].tab # t /\ op[p].tab \in Tab
    BY DEF PromptInv, OpOK, Moved
  <2> QED
    BY <2>1 DEF PromptInv, AskersWait
<1> QED
  BY <1>1, <1>2, <1>3 DEF PromptInv

\* A tab that keeps its prompt and who waits.
LEMMA SteadyAt ==
    ASSUME PromptInv, NEW t \in Tab, NEW s, tab' = [tab EXCEPT ![t] = s], TabOK(s),
           s.prompt = tab[t].prompt, s.waiters = tab[t].waiters
    PROVE  Steady
  BY DEF PromptInv, Steady

\* The cached key is not a prompt.
LEMMA CachedSteady ==
    ASSUME PromptInv, NEW t \in Tab, NEW c, tab' = [tab EXCEPT ![t].cached = c] PROVE Steady
<1> DEFINE s == [tab[t] EXCEPT !.cached = c]
<1>1. TabOK(s) /\ s.prompt = tab[t].prompt /\ s.waiters = tab[t].waiters
  BY DEF PromptInv, TabOK, TabFields
<1>2. tab' = [tab EXCEPT ![t] = s]
  BY DEF PromptInv
<1> HIDE DEF s
<1> QED
  BY <1>1, <1>2, SteadyAt

\* Signing out leaves the prompt.
LEMMA SignedOutOK ==
    ASSUME NEW s, TabOK(s)
    PROVE  /\ TabOK(SignedOut(s)) /\ SignedOut(s).prompt = s.prompt
           /\ SignedOut(s).waiters = s.waiters /\ SignedOut(s).mem = s.mem
  BY DEF SignedOut, TabOK, TabFields

\* A tab whose vault is wiped keeps its prompt.
LEMMA EmptiedOK ==
    ASSUME NEW s, TabOK(s)
    PROVE  /\ TabOK(Emptied(s)) /\ Emptied(s).prompt = s.prompt
           /\ Emptied(s).waiters = s.waiters
  BY DEF TabOK, TabFields, Emptied, Locked

\* Nothing moved in any tab.
LEMMA Unmoved == ASSUME PromptInv, UNCHANGED tab PROVE Steady
  BY DEF PromptInv, Steady

\* An operation that was not asking is done.
LEMMA DoneIs ==
    ASSUME PromptInv, NEW o \in Op, op[o].stage # "ask", op' = [op EXCEPT ![o] = Idle]
    PROVE  DOMAIN op' = Op /\ \A p \in Op : op'[p] = op[p] \/ Past(p)
<1>1. OpOK(Idle) /\ Idle.stage = "idle"
  BY DEF OpOK, Idle, Fields
<1> HIDE DEF Idle
<1> QED
  BY <1>1 DEF PromptInv, Past

\* A prompt answered, cancelled or lost to a reload leaves nobody behind it.
LEMMA PromptAnswers ==
    ASSUME PromptInv, NEW t \in Tab,
           (\E pw \in {"right", "wrong", bio} : Answer(t, pw)) \/ Cancel(t) \/ Reload(t)
    PROVE  PromptInv'
<1>0. /\ TabOK(tab[t]) /\ DOMAIN tab = Tab /\ DOMAIN op = Op
      /\ \A o \in Op : op[o].stage = "ask" /\ op[o].tab = t => o \in tab[t].waiters
      /\ \A o \in tab[t].waiters : o \in Op /\ op[o].stage = "ask" /\ op[o].tab = t
      /\ \A o \in Op : OpOK(op[o])
  BY DEF PromptInv, AskersWait
<1>1. OpOK(Idle) /\ Idle.stage = "idle"
  BY DEF OpOK, Idle, Fields
<1>2. CASE (\E pw \in {"right", "wrong", bio} : Answer(t, pw)) \/ Cancel(t)
  <2>1. tab' = [tab EXCEPT ![t].prompt = "none", ![t].waiters = {}]
    BY <1>2 DEF Answer, Cancel
  <2>2. /\ DOMAIN tab' = Tab /\ \A s \in Tab \ {t} : tab'[s] = tab[s]
        /\ TabOK(tab'[t]) /\ tab'[t].prompt = "none" /\ tab'[t].waiters = {}
    BY <1>0, <2>1 DEF TabOK, TabFields
  <2>3. DOMAIN op' = Op
    BY <1>0, <1>2 DEF Answer, Cancel
  <2>4. ASSUME NEW o \in Op
        PROVE  Moved(o, t)
    <3>1. CASE o \notin tab[t].waiters
      BY <1>0, <1>2, <3>1 DEF Answer, Cancel, Moved
    <3>2. CASE o \in tab[t].waiters /\ Cancel(t)
      <4>1. op'[o] = Idle /\ op[o].tab = t
        BY <1>0, <3>2 DEF Cancel
      <4> QED
        BY <1>1, <4>1 DEF Moved
    <3>3. ASSUME o \in tab[t].waiters, NEW pw, Answer(t, pw)
          PROVE  op[o].tab = t /\ op'[o].stage # "ask" /\ OpOK(op'[o])
      <4>1. op'[o] = [op[o] EXCEPT !.stage = "read", !.pw = pw]
        BY <3>3 DEF Answer
      <4>2. op[o].tab = t /\ DOMAIN op[o] = Fields
        BY <1>0, <3>3 DEF OpOK
      <4>3. /\ DOMAIN op'[o] = Fields /\ op'[o].stage = "read" /\ op'[o].tab = t
        BY <4>1, <4>2 DEF Fields
      <4> QED
        BY <4>2, <4>3 DEF OpOK
    <3> QED
      BY <1>2, <3>1, <3>2, <3>3 DEF Moved
  <2>5. \A s \in Tab \ {t} : tab'[s] = tab[s]
    BY <2>2
  <2> QED
    BY <2>2, <2>3, <2>4, <2>5, AnsweredKeeps
<1>3. CASE Reload(t)
  <2> DEFINE s == [NewTab EXCEPT !.ttl = tab[t].ttl, !.ext = tab[t].ext, !.sees = HasVault]
  <2>1. tab' = [tab EXCEPT ![t] = s] /\ op' = [o \in Op |-> IF op[o].tab = t THEN Idle ELSE op[o]]
    BY <1>3 DEF Reload
  <2>2. TabOK(s) /\ s.prompt = "none" /\ s.waiters = {}
    BY DEF TabOK, TabFields, NewTab, Locked
  <2> HIDE DEF s
  <2>3. /\ DOMAIN tab' = Tab /\ (\A x \in Tab \ {t} : tab'[x] = tab[x]) /\ tab'[t] = s /\ DOMAIN op' = Op
    BY <1>0, <2>1
  <2>4. \A o \in Op : Moved(o, t)
    <3> SUFFICES ASSUME NEW o \in Op
                 PROVE  \/ op'[o] = op[o] /\ op[o].tab # t
                        \/ op[o].tab = t /\ op'[o] = Idle
      BY <1>1 DEF Moved
    <3> QED
      BY <2>1
  <2> QED
    BY <2>2, <2>3, <2>4, AnsweredKeeps
<1> QED
  BY <1>2, <1>3

\* What else happens to a tab.
LEMMA PromptTabs ==
    ASSUME PromptInv, NEW t \in Tab,
           \/ Submit(t) \/ Cancel(t) \/ BioAnswers(t) \/ LoginTrustKeys(t) \/ Logout(t)
           \/ DropCache(t) \/ DisableBiometrics(t) \/ Reload(t)
    PROVE  PromptInv'
<1>0. TabOK(tab[t]) /\ DOMAIN tab = Tab /\ DOMAIN op = Op
  BY DEF PromptInv
<1>1. ASSUME op' = op, Steady PROVE PromptInv'
  BY <1>0, <1>1, SteadyKeeps
<1>2. CASE Submit(t) \/ Cancel(t) \/ Reload(t)
  BY <1>2, PromptAnswers DEF Submit
<1>3. CASE BioAnswers(t)
  <2>1. CASE bio # "none" /\ Answer(t, bio)
    BY <2>1, PromptAnswers
  <2>2. CASE tab' = [tab EXCEPT ![t].prompt = "modal"] /\ op' = op /\ tab[t].prompt = "bio"
    <3>1. /\ TabOK(tab'[t]) /\ tab'[t].prompt = "modal" /\ tab'[t].waiters = tab[t].waiters
          /\ DOMAIN tab' = Tab /\ \A s \in Tab \ {t} : tab'[s] = tab[s]
      BY <1>0, <2>2 DEF TabOK, TabFields
    <3>2. ASSUME NEW s \in Tab
          PROVE  /\ TabOK(tab'[s]) /\ tab'[s].prompt \in {"none", "bio", "modal"}
                 /\ tab'[s].waiters = tab[s].waiters
                 /\ tab[s].prompt # "none" => tab'[s].prompt # "none"
      BY <3>1 DEF PromptInv
    <3>3. AskersWait'
      BY <2>2, <3>2 DEF PromptInv, AskersWait, OpOK
    <3> QED
      BY <2>2, <3>1, <3>2, <3>3 DEF PromptInv
  <2> QED
    BY <1>3, <2>1, <2>2 DEF BioAnswers
<1>4. CASE LoginTrustKeys(t)
  <2> DEFINE s == [tab[t] EXCEPT !.who = ExtId, !.session = ExtId]
  <2>1. TabOK(s) /\ s.prompt = tab[t].prompt /\ s.waiters = tab[t].waiters
    BY <1>0 DEF TabOK, TabFields
  <2>2. tab' = [tab EXCEPT ![t] = s] /\ op' = op
    BY <1>0, <1>4 DEF LoginTrustKeys
  <2> HIDE DEF s
  <2> QED
    BY <1>1, <2>1, <2>2, SteadyAt
<1>5. CASE Logout(t)
  BY <1>0, <1>1, <1>5, SignedOutOK, SteadyAt DEF Logout
<1>6. CASE DropCache(t)
  BY <1>1, <1>6, CachedSteady DEF DropCache
<1>7. CASE DisableBiometrics(t)
  BY <1>1, <1>7, Unmoved DEF DisableBiometrics
<1> QED
  BY <1>2, <1>3, <1>4, <1>5, <1>6, <1>7

\* Whoever is started and needs the password waits behind the prompt it opened.
LEMMA PromptStarts ==
    ASSUME KeyInv, PromptInv, NEW o \in Op, NEW t \in Tab,
           Start(o, t) \/ StartErase(o, t) \/ ForgetAtLogin(o, t)
    PROVE  PromptInv'
<1>0. DOMAIN op = Op
  BY DEF PromptInv
<1>1. op[o] = Idle /\ op[o].stage = "idle"
  <2>1. op[o] = Idle
    BY DEF Start, StartErase, ForgetAtLogin, Free
  <2> QED
    BY <2>1 DEF Idle
<1>2. CASE Start(o, t)
  <2>0. PICK kind \in {"add", "switch", "delete", "import", "export", "rotate", "destroy", "enable"} :
          \E id, k : Asks(o, [NewOp(t, kind) EXCEPT !.id = id, !.key = k], kind \in Forced)
    BY <1>2 DEF Start
  <2>1. PICK id, k : Asks(o, [NewOp(t, kind) EXCEPT !.id = id, !.key = k], kind \in Forced)
    BY <2>0
  <2> DEFINE r == [NewOp(t, kind) EXCEPT !.id = id, !.key = k]
  <2>2. DOMAIN r = Fields /\ r.tab = t
    BY NewOpIs DEF Fields
  <2> HIDE DEF r
  <2> QED
    BY <1>1, <2>1, <2>2, AsksKeeps DEF r
<1>3. CASE StartErase(o, t)
  <2>1. PICK kind \in {"erase", "leave"}, f \in BOOLEAN :
          LET r == [NewOp(t, kind) EXCEPT !.forget = f]
          IN IF tab[t].ext
             THEN /\ op' = [op EXCEPT ![o] = [r EXCEPT !.stage = "submit", !.id = ExtId]]
                  /\ UNCHANGED tab
             ELSE tab[t].mem # Locked /\ Asks(o, r, TRUE)
    BY <1>3 DEF StartErase
  <2> DEFINE r == [NewOp(t, kind) EXCEPT !.forget = f]
  <2>2. DOMAIN r = Fields /\ r.tab = t /\ r.kind # "add"
    BY NewOpIs DEF Fields
  <2>3. CASE op' = [op EXCEPT ![o] = [r EXCEPT !.stage = "submit", !.id = ExtId]] /\ UNCHANGED tab
    <3> HIDE DEF r
    <3> DEFINE q == [r EXCEPT !.stage = "submit", !.id = ExtId]
    <3>1. OpOK(q) /\ q.stage = "submit"
      BY <2>2 DEF OpOK, Fields
    <3> HIDE DEF q
    <3>2. /\ DOMAIN op' = Op /\ \A p \in Op : op'[p] = op[p] \/ Past(p)
      BY <1>0, <1>1, <2>3, <3>1 DEF Past, q
    <3> QED
      BY <2>3, <3>2, Unmoved, SteadyKeeps
  <2>4. CASE Asks(o, r, TRUE)
    <3> HIDE DEF r
    <3> QED
      BY <1>1, <2>2, <2>4, AsksKeeps
  <2> QED
    BY <2>1, <2>3, <2>4
<1>4. CASE ForgetAtLogin(o, t)
  <2>1. CASE tab' = [tab EXCEPT ![t] = Emptied(@)] /\ UNCHANGED op
    <3>1. tab' = [tab EXCEPT ![t] = Emptied(tab[t])] /\ TabOK(tab[t])
      BY <2>1 DEF PromptInv
    <3>2. Steady
      BY <3>1, EmptiedOK, SteadyAt
    <3> QED
      BY <1>0, <2>1, <3>2, SteadyKeeps
  <2>2. CASE UNCHANGED <<blob, bio, tab, forgone>>
    <3> DEFINE q == [NewOp(t, "forget") EXCEPT !.stage = "read", !.pw = "right", !.id = tab[t].mem.active]
    <3>1. OpOK(q) /\ q.stage = "read"
      BY DEF NewOp, Idle, OpOK, Fields
    <3>2. op' = op \/ op' = [op EXCEPT ![o] = q]
      BY <1>4 DEF ForgetAtLogin
    <3> HIDE DEF q
    <3>3. DOMAIN op' = Op /\ \A p \in Op : op'[p] = op[p] \/ Past(p)
      BY <1>0, <1>1, <3>1, <3>2 DEF Past
    <3> QED
      BY <2>2, <3>3, Unmoved, SteadyKeeps
  <2> QED
    BY <1>4, <2>1, <2>2 DEF ForgetAtLogin
<1> QED
  BY <1>2, <1>3, <1>4

\* A tab adopts a vault's view when it opens it.
LEMMA PromptOpens ==
    ASSUME PromptInv, NEW o \in Op, op[o] = Idle, NEW t \in Tab, NEW v, DOMAIN v.acc \subseteq Id,
           NEW pw, NEW cached, Opened(o, t, v, pw, cached)
    PROVE  PromptInv'
<1> DEFINE s == [tab[t] EXCEPT !.mem = View(v), !.who = v.active, !.cached = cached, !.sees = TRUE]
<1>0. DOMAIN tab = Tab /\ DOMAIN op = Op /\ TabOK(tab[t]) /\ op[o].stage = "idle"
  BY DEF PromptInv, Idle
<1>1. TabOK(s) /\ s.prompt = tab[t].prompt /\ s.waiters = tab[t].waiters
  BY <1>0 DEF TabOK, TabFields, View
<1>2. tab' = [tab EXCEPT ![t] = s]
  BY <1>0 DEF Opened
<1> HIDE DEF s
<1>3. Steady
  BY <1>1, <1>2, SteadyAt
<1>4. /\ DOMAIN op' = Op /\ \A p \in Op \ {o} : op'[p] = op[p]
      /\ DOMAIN op'[o] = Fields /\ op'[o].stage = "login" /\ op'[o].kind = "login" /\ op'[o].tab = t
  BY OpenedIs DEF PromptInv, ShapeInv, OpOK
<1>5. \A p \in Op : op'[p] = op[p] \/ Past(p)
  BY <1>0, <1>4 DEF Past, OpOK
<1> QED
  BY <1>3, <1>4, <1>5, SteadyKeeps

\* Signing in asks nobody.
LEMMA PromptSignsIn ==
    ASSUME KeyInv, PromptInv, NEW o \in Op, NEW t \in Tab,
           Unlock(o, t) \/ UnlockWithBiometrics(o, t) \/ Create(o, t) \/ Receive(o, t)
    PROVE  PromptInv'
<1>0. op[o] = Idle /\ DOMAIN op = Op /\ DOMAIN blob.acc \subseteq Id /\ DOMAIN file \subseteq Id
  BY DEF PromptInv, Unlock, UnlockWithBiometrics, Create, Receive, NewVault, AtSignIn,
         KeyInv, StoreInv, VaultOK, AccountsOK
<1>1. CASE Unlock(o, t)
  BY <1>0, <1>1, PromptOpens DEF Unlock
<1>2. CASE UnlockWithBiometrics(o, t)
  <2>1. CASE UNCHANGED <<tab, op>>
    BY <1>0, <2>1, Unmoved, SteadyKeeps
  <2> QED
    BY <1>0, <1>2, <2>1, PromptOpens DEF UnlockWithBiometrics
<1>3. CASE Create(o, t)
  <2>1. PICK i \in Id \ born :
          NewVault(o, t, [acc |-> [j \in {i} |-> [cur |-> lastKey + 1, old |-> <<>>]], active |-> i])
    BY <1>3 DEF Create
  <2> DEFINE v == [acc |-> [j \in {i} |-> [cur |-> lastKey + 1, old |-> <<>>]], active |-> i]
  <2>2. Opened(o, t, v, "right", CachedBySave(t, "right")) /\ DOMAIN v.acc \subseteq Id
    BY <2>1 DEF NewVault
  <2> HIDE DEF v
  <2> QED
    BY <1>0, <2>2, PromptOpens
<1>4. CASE Receive(o, t)
  <2>1. PICK i \in DOMAIN file : NewVault(o, t, [acc |-> file, active |-> i])
    BY <1>4 DEF Receive
  <2> DEFINE v == [acc |-> file, active |-> i]
  <2>2. Opened(o, t, v, "right", CachedBySave(t, "right")) /\ DOMAIN v.acc \subseteq Id
    BY <1>0, <2>1 DEF NewVault
  <2> HIDE DEF v
  <2> QED
    BY <1>0, <2>2, PromptOpens
<1> QED
  BY <1>1, <1>2, <1>3, <1>4

\* A tab follows a write: only its view, its cache and its session change.
LEMMA FollowedOK ==
    ASSUME NEW r, NEW v, TabOK(tab[r.tab]), DOMAIN v.acc \subseteq Id, r.kind = "add" => r.id \in Id
    PROVE  /\ TabOK(AfterWrite(r, v)) /\ AfterWrite(r, v).prompt = tab[r.tab].prompt
           /\ AfterWrite(r, v).waiters = tab[r.tab].waiters
<1> DEFINE s == [tab[r.tab] EXCEPT !.cached = CachedBySave(r.tab, r.pw)]
           m == [s.mem EXCEPT !.ids = @ \ {r.id}]
<1>1. /\ TabOK(s) /\ s.prompt = tab[r.tab].prompt /\ s.waiters = tab[r.tab].waiters
  BY DEF TabOK, TabFields
<1>2. DOMAIN m = {"ids", "active"} /\ m.ids \subseteq Id
  BY <1>1 DEF TabOK, TabFields
<1>3. AfterWrite(r, v) =
          IF s.mem = Locked THEN s
          ELSE IF r.kind = "add" THEN [s EXCEPT !.mem.ids = @ \cup {r.id}]
          ELSE IF r.kind = "switch" THEN SignedOut([s EXCEPT !.mem.active = r.id])
          ELSE IF r.kind = "import" THEN [s EXCEPT !.mem = View(v)]
          ELSE IF r.kind = "delete" THEN [s EXCEPT !.mem = m, !.who = Adopts(m, s.who)]
          ELSE IF r.kind = "forget"
               THEN [SignedOut([s EXCEPT !.mem = m]) EXCEPT
                        !.blocked = FALSE, !.who = IF s.session = NoId THEN Adopts(m, s.who) ELSE NoId]
          ELSE s
  BY DEF AfterWrite
<1> HIDE DEF s, m
<1>4. CASE r.kind = "add" /\ s.mem # Locked
  BY <1>1, <1>3, <1>4 DEF TabOK, TabFields
<1>5. CASE r.kind = "switch" /\ s.mem # Locked
  <2> DEFINE q == [s EXCEPT !.mem.active = r.id]
  <2>1. TabOK(q) /\ q.prompt = s.prompt /\ q.waiters = s.waiters
    BY <1>1 DEF TabOK, TabFields
  <2> HIDE DEF q
  <2>2. AfterWrite(r, v) = SignedOut(q)
    BY <1>3, <1>5 DEF q
  <2> QED
    BY <1>1, <2>1, <2>2, SignedOutOK
<1>6. CASE r.kind = "import" /\ s.mem # Locked
  BY <1>1, <1>3, <1>6 DEF TabOK, TabFields, View
<1>7. CASE r.kind = "delete" /\ s.mem # Locked
  BY <1>1, <1>2, <1>3, <1>7 DEF TabOK, TabFields
<1>8. CASE r.kind = "forget" /\ s.mem # Locked
  <2> DEFINE q == [s EXCEPT !.mem = m]
             w == SignedOut(q)
             h == IF s.session = NoId THEN Adopts(m, s.who) ELSE NoId
  <2>1. TabOK(q) /\ q.prompt = s.prompt /\ q.waiters = s.waiters
    BY <1>1, <1>2 DEF TabOK, TabFields
  <2> HIDE DEF q
  <2>2. TabOK(w) /\ w.prompt = s.prompt /\ w.waiters = s.waiters
    BY <2>1, SignedOutOK
  <2>3. AfterWrite(r, v) = [w EXCEPT !.blocked = FALSE, !.who = h]
    BY <1>3, <1>8 DEF q
  <2> HIDE DEF w, h
  <2> QED
    BY <1>1, <2>2, <2>3 DEF TabOK, TabFields
<1>9. CASE r.kind \notin {"add", "switch", "import", "delete", "forget"} \/ s.mem = Locked
  BY <1>1, <1>3, <1>9
<1> QED
  BY <1>4, <1>5, <1>6, <1>7, <1>8, <1>9

\* Reading to change asks nobody.
LEMMA PromptReads ==
    ASSUME VaultConstants, KeyInv, PromptInv, NEW o \in Op, ReadToWrite(o) PROVE PromptInv'
<1>1. /\ op[o].stage = "read" /\ op[o].kind \in Writers /\ op[o].tab \in Tab /\ DOMAIN op[o] = Fields
      /\ DOMAIN op = Op /\ DOMAIN tab = Tab
  <2>1. op[o].stage = "read" /\ op[o].kind \in Writers
    BY DEF ReadToWrite
  <2> QED
    BY <2>1 DEF PromptInv, OpOK
<1>2. PICK r \in Fresh(op[o]) :
        \/ /\ op' = [op EXCEPT ![o] = Idle]
           /\ tab' = [tab EXCEPT ![r.tab].cached = CachedByRead(r.tab, r.pw)]
        \/ \E v \in Results(r, blob) :
           /\ op' = [op EXCEPT ![o] = [r EXCEPT !.stage = "write", !.full = v,
                                                !.from = blob.acc[blob.active].cur,
                                                !.drop = [i \in Id |-> HeldIn(blob.acc, i) \ HeldIn(v.acc, i)]]]
           /\ tab' = [tab EXCEPT ![r.tab].cached = CachedByRead(r.tab, r.pw),
                                 ![r.tab].mem = ViewAtRead(r, v)]
  BY DEF ReadToWrite
<1>3. Ready(r) /\ DOMAIN r = Fields /\ r.kind = op[o].kind /\ r.tab = op[o].tab
  BY <1>1, FreshIs DEF KeyInv
<1>4. CASE /\ op' = [op EXCEPT ![o] = Idle]
           /\ tab' = [tab EXCEPT ![r.tab].cached = CachedByRead(r.tab, r.pw)]
  BY <1>1, <1>3, <1>4, CachedSteady, DoneIs, SteadyKeeps
<1>5. ASSUME NEW v,
             op' = [op EXCEPT ![o] = [r EXCEPT !.stage = "write", !.full = v,
                                               !.from = blob.acc[blob.active].cur,
                                               !.drop = [i \in Id |-> HeldIn(blob.acc, i) \ HeldIn(v.acc, i)]]],
             tab' = [tab EXCEPT ![r.tab].cached = CachedByRead(r.tab, r.pw), ![r.tab].mem = ViewAtRead(r, v)]
      PROVE  PromptInv'
  <2>1. DOMAIN op' = Op /\ op'[o].stage = "write" /\ OpOK(op'[o])
    BY <1>1, <1>3, <1>5 DEF OpOK, Fields, Ready
  <2>2. \A p \in Op : op'[p] = op[p] \/ Past(p)
    BY <1>1, <1>5, <2>1 DEF Past
  <2> DEFINE t == r.tab
             s == [tab[t] EXCEPT !.cached = CachedByRead(t, r.pw), !.mem = ViewAtRead(r, v)]
  <2>3. TabOK(tab[t]) /\ t \in Tab
    BY <1>1, <1>3 DEF PromptInv
  <2>4. DOMAIN ViewAtRead(r, v) = {"ids", "active"} /\ ViewAtRead(r, v).ids = tab[t].mem.ids
    BY <2>3 DEF ViewAtRead, TabOK
  <2>5. TabOK(s) /\ s.prompt = tab[t].prompt /\ s.waiters = tab[t].waiters
    BY <2>3, <2>4 DEF TabOK, TabFields
  <2>6. tab' = [tab EXCEPT ![t] = s]
    BY <1>1, <1>5, <2>3
  <2> HIDE DEF s, t
  <2>7. Steady
    BY <2>3, <2>5, <2>6, SteadyAt
  <2> QED
    BY <2>1, <2>2, <2>7, SteadyKeeps
<1> QED
  BY <1>2, <1>4, <1>5

\* Writing back asks nobody.
LEMMA PromptWrites ==
    ASSUME KeyInv, PromptInv, NEW o \in Op, Write(o) PROVE PromptInv'
<1>1. /\ op[o].stage = "write" /\ op[o].tab \in Tab /\ DOMAIN op[o] = Fields
      /\ DOMAIN op = Op /\ DOMAIN tab = Tab /\ TabOK(tab[op[o].tab])
      /\ op[o].kind = "add" => op[o].id \in Id
  <2>1. op[o].stage = "write"
    BY DEF Write
  <2> QED
    BY <2>1 DEF PromptInv, OpOK
<1>2. DOMAIN op[o].full.acc \subseteq Id
  BY <1>1 DEF KeyInv, RecordInv, WriteOK, VaultOK, AccountsOK
<1>3. CASE CanSave(op[o].tab, op[o].pw)
  <2>1. /\ tab' = [tab EXCEPT ![op[o].tab] = AfterWrite(op[o], op[o].full)]
        /\ op' = [op EXCEPT ![o] = IF Goes(op[o])
                         THEN [op[o] EXCEPT !.stage = "send", !.full = NoVault, !.drop = NoDrop, !.pw = "null"]
                         ELSE Idle]
    BY <1>3 DEF Write
  <2>2. Steady
    BY <1>1, <1>2, <2>1, FollowedOK, SteadyAt
  <2> DEFINE q == [op[o] EXCEPT !.stage = "send", !.full = NoVault, !.drop = NoDrop, !.pw = "null"]
  <2>3. OpOK(q) /\ q.stage = "send"
    BY <1>1 DEF OpOK, Fields
  <2>4. OpOK(Idle) /\ Idle.stage = "idle"
    BY DEF OpOK, Idle, Fields
  <2> HIDE DEF q, Idle
  <2>5. DOMAIN op' = Op /\ \A p \in Op : op'[p] = op[p] \/ Past(p)
    BY <1>1, <2>1, <2>3, <2>4 DEF Past, q
  <2> QED
    BY <2>2, <2>5, SteadyKeeps
<1>4. CASE ~ CanSave(op[o].tab, op[o].pw)
  <2>1. op' = [op EXCEPT ![o] = Idle] /\ UNCHANGED tab
    BY <1>4 DEF Write
  <2> QED
    BY <1>1, <2>1, Unmoved, DoneIs, SteadyKeeps
<1> QED
  BY <1>3, <1>4

\* An operation that ends or goes on without a prompt.
LEMMA PromptEnds ==
    ASSUME KeyInv, PromptInv, NEW o \in Op,
           \/ ReadFails(o) \/ ReadOnly(o) \/ Publish(o) \/ Unanswered(o) \/ Admitted(o) \/ Turned(o)
           \/ Submitted(o) \/ SubmitFails(o) \/ ForgetLast(o) \/ ForgetNone(o)
    PROVE  PromptInv'
<1>1. op[o].stage \in {"read", "send", "login", "submit", "forget"}
  BY DEF ReadFails, ReadOnly, Publish, Unanswered, Admitted, Turned, Submitted, SubmitFails, ForgetLast, ForgetNone
<1>2. /\ op[o].tab \in Tab /\ DOMAIN op[o] = Fields /\ DOMAIN op = Op /\ DOMAIN tab = Tab
      /\ TabOK(tab[op[o].tab])
  BY <1>1 DEF PromptInv, OpOK
<1> DEFINE t == op[o].tab
<1>3. Steady
  <2>1. CASE ReadFails(o)
    BY <1>2, <2>1, CachedSteady DEF ReadFails
  <2>2. CASE ReadOnly(o)
    BY <1>2, <2>2, CachedSteady DEF ReadOnly
  <2>3. CASE Publish(o) \/ Unanswered(o) \/ Submitted(o) \/ SubmitFails(o)
    BY <2>3, Unmoved DEF Publish, Unanswered, Submitted, SubmitFails
  <2>4. CASE Admitted(o)
    <3>1. CASE tab' = tab
      BY <3>1, Unmoved
    <3>2. CASE tab' = [tab EXCEPT ![t].session = op[o].id, ![t].cached = CachedByRead(t, op[o].pw)]
      <4> DEFINE s == [tab[t] EXCEPT !.session = op[o].id, !.cached = CachedByRead(t, op[o].pw)]
      <4>1. TabOK(s) /\ s.prompt = tab[t].prompt /\ s.waiters = tab[t].waiters
        BY <1>2 DEF TabOK, TabFields
      <4>2. tab' = [tab EXCEPT ![t] = s]
        BY <1>2, <3>2
      <4> HIDE DEF s
      <4> QED
        BY <1>2, <4>1, <4>2, SteadyAt
    <3> QED
      BY <2>4, <3>1, <3>2 DEF Admitted
  <2>5. CASE Turned(o)
    <3> DEFINE s == [tab[t] EXCEPT !.blocked = @ \/ op[o].id \in server.gone]
    <3>1. TabOK(s) /\ s.prompt = tab[t].prompt /\ s.waiters = tab[t].waiters
      BY <1>2 DEF TabOK, TabFields
    <3>2. tab' = [tab EXCEPT ![t] = s]
      BY <1>2, <2>5 DEF Turned
    <3> HIDE DEF s
    <3> QED
      BY <1>2, <3>1, <3>2, SteadyAt
  <2>6. CASE ForgetLast(o)
    <3> DEFINE w == Emptied(tab[t])
    <3>1. TabOK(w) /\ w.prompt = tab[t].prompt /\ w.waiters = tab[t].waiters
      BY <1>2, EmptiedOK
    <3>2. tab' = [tab EXCEPT ![t] = SignedOut(w)]
      BY <1>2, <2>6 DEF ForgetLast
    <3> HIDE DEF w
    <3> QED
      BY <1>2, <3>1, <3>2, SignedOutOK, SteadyAt
  <2>7. CASE ForgetNone(o)
    <3>1. tab' = [tab EXCEPT ![t] = SignedOut(tab[t])]
      BY <1>2, <2>7 DEF ForgetNone
    <3> QED
      BY <1>2, <3>1, SignedOutOK, SteadyAt
  <2> QED
    BY <2>1, <2>2, <2>3, <2>4, <2>5, <2>6, <2>7
<1>4. CASE op' = [op EXCEPT ![o] = Idle]
  BY <1>1, <1>3, <1>4, DoneIs, SteadyKeeps
<1>5. ASSUME NEW q, op' = [op EXCEPT ![o] = q], OpOK(q), q.stage # "ask"
      PROVE  PromptInv'
  <2>1. DOMAIN op' = Op /\ \A p \in Op : op'[p] = op[p] \/ Past(p)
    BY <1>1, <1>2, <1>5 DEF Past
  <2> QED
    BY <1>3, <2>1, SteadyKeeps
<1>6. CASE Submitted(o) /\ op' = [op EXCEPT ![o].stage = "forget"]
  <2> DEFINE q == [op[o] EXCEPT !.stage = "forget"]
  <2>1. OpOK(q) /\ q.stage # "ask"
    BY <1>2 DEF OpOK, Fields
  <2>2. op' = [op EXCEPT ![o] = q]
    BY <1>2, <1>6
  <2> HIDE DEF q
  <2> QED
    BY <1>5, <2>1, <2>2
<1>7. CASE ReadOnly(o) /\ op' = [op EXCEPT ![o] = [op[o] EXCEPT !.stage = "submit", !.id = blob.active]]
  <2> DEFINE q == [op[o] EXCEPT !.stage = "submit", !.id = blob.active]
  <2>1. blob.active \in Id
    BY <1>7 DEF ReadOnly, Opens, Reads, HasVault, KeyInv, StoreInv, VaultOK, AccountsOK
  <2>2. OpOK(q) /\ q.stage # "ask"
    BY <1>2, <2>1 DEF OpOK, Fields
  <2> HIDE DEF q
  <2> QED
    BY <1>5, <1>7, <2>2 DEF q
<1> QED
  BY <1>4, <1>6, <1>7 DEF ReadFails, ReadOnly, Publish, Unanswered, Admitted, Turned, Submitted, SubmitFails,
     ForgetLast, ForgetNone

\* One that asks again waits behind the prompt.
LEMMA PromptAgain ==
    ASSUME PromptInv, NEW o \in Op, Refused(o) \/ ForgetOne(o) PROVE PromptInv'
<1>1. op[o].stage \in {"send", "forget"} /\ op[o].tab \in Tab
  BY DEF Refused, ForgetOne, PromptInv, OpOK
<1>2. CASE Refused(o)
  <2> DEFINE r == [NewOp(op[o].tab, "revert") EXCEPT !.key = op[o].key]
  <2>1. Asks(o, r, FALSE)
    BY <1>2 DEF Refused
  <2>2. DOMAIN r = Fields /\ r.tab = op[o].tab
    BY NewOpIs DEF Fields
  <2> HIDE DEF r
  <2> QED
    BY <1>1, <2>1, <2>2, AsksKeeps
<1>3. CASE ForgetOne(o)
  <2> DEFINE t == op[o].tab
             r == [NewOp(t, "forget") EXCEPT !.id = tab[t].mem.active, !.forget = TRUE]
  <2>1. Asks(o, r, FALSE)
    BY <1>3 DEF ForgetOne
  <2>2. DOMAIN r = Fields /\ r.tab = op[o].tab
    BY NewOpIs DEF Fields
  <2> HIDE DEF r
  <2> QED
    BY <1>1, <2>1, <2>2, AsksKeeps
<1> QED
  BY <1>2, <1>3

\* Every step keeps the prompts in order.
LEMMA PromptStep ==
    ASSUME VaultConstants, KeyInv, PromptInv, Next PROVE PromptInv'
<1>1. ASSUME NEW t \in Tab,
             \/ Submit(t) \/ Cancel(t) \/ BioAnswers(t) \/ LoginTrustKeys(t) \/ Logout(t)
             \/ DropCache(t) \/ DisableBiometrics(t) \/ Reload(t)
      PROVE  PromptInv'
  BY <1>1, PromptTabs
<1>2. ASSUME NEW o \in Op,
             \/ ReadFails(o) \/ ReadOnly(o) \/ Publish(o) \/ Unanswered(o) \/ Admitted(o) \/ Turned(o)
             \/ Submitted(o) \/ SubmitFails(o) \/ ForgetLast(o) \/ ForgetNone(o)
      PROVE  PromptInv'
  BY <1>2, PromptEnds
<1>3. ASSUME NEW o \in Op, Refused(o) \/ ForgetOne(o) PROVE PromptInv'
  BY <1>3, PromptAgain
<1>4. ASSUME NEW o \in Op, ReadToWrite(o) PROVE PromptInv'
  BY <1>4, PromptReads
<1>5. ASSUME NEW o \in Op, Write(o) PROVE PromptInv'
  BY <1>5, PromptWrites
<1>6. ASSUME NEW o \in Op, NEW t \in Tab, Start(o, t) \/ StartErase(o, t) \/ ForgetAtLogin(o, t)
      PROVE  PromptInv'
  BY <1>6, PromptStarts
<1>7. ASSUME NEW o \in Op, NEW t \in Tab,
             Unlock(o, t) \/ UnlockWithBiometrics(o, t) \/ Create(o, t) \/ Receive(o, t)
      PROVE  PromptInv'
  BY <1>7, PromptSignsIn
<1> QED
  BY <1>1, <1>2, <1>3, <1>4, <1>5, <1>6, <1>7 DEF Next

\* Nobody waits at first.
LEMMA PromptInit == ASSUME Init PROVE PromptInv
<1>1. PICK b \in BOOLEAN, e \in BOOLEAN : tab = [t \in Tab |-> [NewTab EXCEPT !.ttl = b, !.ext = e]]
  BY DEF Init
<1> DEFINE s == [NewTab EXCEPT !.ttl = b, !.ext = e]
<1>2. TabOK(s) /\ s.prompt = "none" /\ s.waiters = {}
  BY DEF TabOK, TabFields, NewTab, Locked
<1>3. OpOK(Idle) /\ Idle.stage = "idle"
  BY DEF OpOK, Idle, Fields
<1>4. op = [o \in Op |-> Idle] /\ tab = [t \in Tab |-> s]
  BY <1>1 DEF Init
<1> HIDE DEF s, Idle
<1> QED
  BY <1>2, <1>3, <1>4 DEF PromptInv, AskersWait

----------------------------------------------------------------------------
(* What is left, and the theorem. *)

\* The password a fingerprint gives, the deleted accounts and the count of operations.
RestInv ==
    bio \in {"none", "right"} /\ server.gone \subseteq Id \cup {ExtId} /\ deeds \in 0 .. MaxDeeds

\* No fingerprint is registered and nobody is gone at first.
LEMMA RestInit == ASSUME VaultConstants, Init PROVE RestInv
<1>1. bio = "none"
  BY DEF Init
<1>2. deeds = 0 /\ MaxDeeds \in Nat
  BY DEF Init, VaultConstants
<1>3. server.gone = {}
  <2>1. CASE server = [key |-> [i \in Id |-> 0], gone |-> {}]
    BY <2>1
  <2>2. CASE \E i \in Id : server = [key |-> [j \in Id |-> IF j = i THEN 1 ELSE 0], gone |-> {}]
    BY <2>2
  <2> QED
    BY <2>1, <2>2 DEF Init
<1>4. deeds \in 0 .. MaxDeeds
  BY <1>2
<1> QED
  BY <1>1, <1>3, <1>4 DEF RestInv

\* Reading a vault to change it leaves what is stored alone.
LEMMA ReadLeaves ==
    ASSUME NEW o \in Op, ReadToWrite(o) PROVE UNCHANGED <<blob, file, bio, server, deeds, forgone, unsure>>
  BY DEF ReadToWrite

\* A fingerprint wraps the password that was verified; the server forgets who erased itself.
LEMMA RestStep == ASSUME VaultConstants, KeyInv, PromptInv, RestInv, Next PROVE RestInv'
<1>1. deeds' \in 0 .. MaxDeeds
  <2>1. ASSUME NEW t \in Tab,
               \/ Submit(t) \/ Cancel(t) \/ BioAnswers(t) \/ LoginTrustKeys(t) \/ Logout(t)
               \/ DropCache(t) \/ DisableBiometrics(t) \/ Reload(t)
        PROVE  deeds' = deeds
    BY <2>1 DEF Submit, Cancel, BioAnswers, LoginTrustKeys, Logout, DropCache, DisableBiometrics, Reload
  <2>2. ASSUME NEW o \in Op, \/ ReadFails(o) \/ ReadToWrite(o) \/ ReadOnly(o) \/ Write(o) \/ Publish(o)
        PROVE  deeds' = deeds
    <3>1. CASE ReadFails(o)
      BY <3>1 DEF ReadFails
    <3>2. CASE ReadToWrite(o)
      BY <3>2, ReadLeaves
    <3>3. CASE ReadOnly(o)
      BY <3>3 DEF ReadOnly
    <3>4. CASE Write(o)
      <4>1. UNCHANGED <<file, bio, server, lastKey, born, deeds>>
        BY <3>4 DEF Write
      <4> QED
        BY <4>1
    <3>5. CASE Publish(o)
      BY <3>5 DEF Publish
    <3> QED
      BY <2>2, <3>1, <3>2, <3>3, <3>4, <3>5
  <2>3. ASSUME NEW o \in Op, \/ Refused(o) \/ Unanswered(o) \/ Admitted(o) \/ Turned(o) \/ Submitted(o)
        PROVE  deeds' = deeds
    BY <2>3 DEF Refused, Unanswered, Admitted, Turned, Submitted
  <2>4. ASSUME NEW o \in Op, SubmitFails(o) \/ ForgetLast(o) \/ ForgetOne(o) \/ ForgetNone(o)
        PROVE  deeds' = deeds
    <3>1. CASE SubmitFails(o)
      BY <3>1 DEF SubmitFails
    <3>2. CASE ForgetLast(o)
      BY <3>2 DEF ForgetLast
    <3>3. CASE ForgetOne(o)
      BY <3>3 DEF ForgetOne
    <3>4. CASE ForgetNone(o)
      BY <3>4 DEF ForgetNone
    <3> QED
      BY <2>4, <3>1, <3>2, <3>3, <3>4
  <2>5. ASSUME NEW o \in Op, NEW t \in Tab,
               \/ Unlock(o, t) \/ UnlockWithBiometrics(o, t) \/ Create(o, t) \/ Receive(o, t)
               \/ ForgetAtLogin(o, t)
        PROVE  deeds' = deeds
    BY <2>5 DEF Unlock, UnlockWithBiometrics, Create, NewVault, Receive, ForgetAtLogin
  <2>6. ASSUME NEW o \in Op, NEW t \in Tab, Start(o, t) \/ StartErase(o, t)
        PROVE  deeds < MaxDeeds /\ deeds' = deeds + 1
    <3>1. CASE Start(o, t)
      BY <3>1 DEF Start, Free
    <3>2. CASE StartErase(o, t)
      BY <3>2 DEF StartErase
    <3> QED
      BY <2>6, <3>1, <3>2
  <2>7. deeds' = deeds \/ (deeds < MaxDeeds /\ deeds' = deeds + 1)
    BY <2>1, <2>2, <2>3, <2>4, <2>5, <2>6 DEF Next
  <2>8. deeds \in 0 .. MaxDeeds /\ MaxDeeds \in Nat
    BY DEF RestInv, VaultConstants
  <2> QED
    BY <2>7, <2>8
<1>2. bio' \in {"none", "right"}
  <2>0. bio \in {"none", "right"}
    BY DEF RestInv
  <2>1. ASSUME NEW t \in Tab,
               \/ Submit(t) \/ Cancel(t) \/ BioAnswers(t) \/ LoginTrustKeys(t) \/ Logout(t)
               \/ DropCache(t) \/ DisableBiometrics(t) \/ Reload(t)
        PROVE  bio' \in {bio, "none"}
    BY <2>1 DEF Submit, Cancel, BioAnswers, LoginTrustKeys, Logout, DropCache, DisableBiometrics, Reload
  <2>2. ASSUME NEW o \in Op, \/ ReadFails(o) \/ ReadToWrite(o) \/ Write(o) \/ Publish(o)
        PROVE  bio' = bio
    <3>1. CASE ReadFails(o)
      BY <3>1 DEF ReadFails
    <3>2. CASE ReadToWrite(o)
      BY <3>2, ReadLeaves
    <3>3. CASE Write(o)
      <4>1. UNCHANGED <<file, bio, server, lastKey, born, deeds>>
        BY <3>3 DEF Write
      <4> QED
        BY <4>1
    <3>4. CASE Publish(o)
      BY <3>4 DEF Publish
    <3> QED
      BY <2>2, <3>1, <3>2, <3>3, <3>4
  <2>3. ASSUME NEW o \in Op, \/ Refused(o) \/ Unanswered(o) \/ Admitted(o) \/ Turned(o) \/ Submitted(o)
        PROVE  bio' = bio
    BY <2>3 DEF Refused, Unanswered, Admitted, Turned, Submitted
  <2>4. ASSUME NEW o \in Op, SubmitFails(o) \/ ForgetLast(o) \/ ForgetOne(o) \/ ForgetNone(o)
        PROVE  bio' \in {bio, "none"}
    BY <2>4 DEF SubmitFails, ForgetLast, Wiped, ForgetOne, ForgetNone
  <2>5. ASSUME NEW o \in Op, NEW t \in Tab, \/ Unlock(o, t) \/ Receive(o, t) \/ ForgetAtLogin(o, t)
                                          \/ Start(o, t) \/ StartErase(o, t)
        PROVE  bio' \in {bio, "none"}
    <3>1. CASE Unlock(o, t)
      BY <3>1 DEF Unlock
    <3>2. CASE Receive(o, t)
      BY <3>2 DEF Receive, NewVault
    <3>3. CASE ForgetAtLogin(o, t)
      BY <3>3 DEF ForgetAtLogin, Wiped
    <3>4. CASE Start(o, t)
      BY <3>4 DEF Start
    <3>5. CASE StartErase(o, t)
      BY <3>5 DEF StartErase
    <3> QED
      BY <2>5, <3>1, <3>2, <3>3, <3>4, <3>5
  <2>6. ASSUME NEW o \in Op, NEW t \in Tab, UnlockWithBiometrics(o, t)
        PROVE  bio' \in {bio, "none"}
    BY <2>6 DEF UnlockWithBiometrics
  <2>7. ASSUME NEW o \in Op, NEW t \in Tab, Create(o, t)
        PROVE  bio' \in {bio, "none"}
    BY <2>7 DEF Create, NewVault
  <2>8. ASSUME NEW o \in Op, ReadOnly(o)
        PROVE  bio' \in {bio, "none", "right"}
    BY <2>8 DEF ReadOnly, Wrapped, Verified
  <2> QED
    BY <2>0, <2>1, <2>2, <2>3, <2>4, <2>5, <2>6, <2>7, <2>8 DEF Next
<1>3. server'.gone \subseteq Id \cup {ExtId}
  <2>0. DOMAIN server = {"key", "gone"} /\ server.gone \subseteq Id \cup {ExtId}
    BY DEF KeyInv, StoreInv, RestInv
  <2>1. ASSUME NEW o \in Op, Publish(o) PROVE server'.gone = server.gone
    BY <2>0, <2>1 DEF Publish
  <2>2. ASSUME NEW o \in Op, Admitted(o) PROVE server'.gone = server.gone
    BY <2>0, <2>2 DEF Admitted
  <2>3. ASSUME NEW o \in Op, Submitted(o) PROVE server'.gone \subseteq Id \cup {ExtId}
    <3>1. op[o].id \in Id \cup {ExtId}
      BY <2>3 DEF Submitted, PromptInv, OpOK
    <3>2. server' = server \/ server' = [server EXCEPT !.gone = server.gone \cup {op[o].id}]
      BY <2>3 DEF Submitted
    <3> QED
      BY <2>0, <3>1, <3>2
  <2>4. UNCHANGED server \/ \E o \in Op : Publish(o) \/ Admitted(o) \/ Submitted(o)
    BY DEF Next, Submit, Cancel, BioAnswers, LoginTrustKeys, Logout, DropCache, DisableBiometrics, Reload,
       ReadFails, ReadToWrite, ReadOnly, Write, Refused, Unanswered, Turned,
       SubmitFails, ForgetLast, ForgetOne, ForgetNone, Start, StartErase, Unlock, UnlockWithBiometrics,
       Create, Receive, ForgetAtLogin
  <2> QED
    BY <2>0, <2>1, <2>2, <2>3, <2>4
<1> QED
  BY <1>1, <1>2, <1>3 DEF RestInv

\* The inductive invariant.
Stored == KeyInv /\ PromptInv /\ RestInv

\* Stored gives the invariant the runs check.
LEMMA StoredGives == ASSUME Stored PROVE VaultInv
<1>1. TypeOK
  <2>1. /\ DOMAIN blob.acc \subseteq Id /\ (\A i \in DOMAIN blob.acc : blob.acc[i] \in Account)
        /\ (HasVault => blob.active \in DOMAIN blob.acc)
    BY DEF Stored, KeyInv, StoreInv, VaultOK, AccountsOK, HasVault
  <2>2. \A t \in Tab : /\ tab[t].mem.ids \subseteq Id /\ tab[t].prompt \in {"none", "bio", "modal"}
                      /\ tab[t].waiters \subseteq Op
    BY DEF Stored, PromptInv, TabOK
  <2> QED
    BY <2>1, <2>2 DEF TypeOK, Stored, RestInv, KeyInv, StoreInv
<1> QED
  BY <1>1 DEF VaultInv, Stored, KeyInv, PromptInv, RestInv, BioWrapsPassword

\* Stored is inductive.
LEMMA StoredHolds == ASSUME VaultConstants, MaxWriters = 1 PROVE Spec => []Stored
<1>1. Init => Stored
  BY KeysInit, PromptInit, RestInit DEF Stored
<1>2. Stored /\ [Next]_vars => Stored'
  <2> SUFFICES ASSUME Stored, [Next]_vars PROVE Stored'
    OBVIOUS
  <2>0. ShapeInv
    BY DEF Stored, PromptInv, OpOK, ShapeInv
  <2>1. CASE Next
    BY <2>0, <2>1, KeysStep, PromptStep, RestStep DEF Stored
  <2>2. CASE UNCHANGED vars
    <3>1. UNCHANGED store /\ op' = op /\ tab' = tab /\ server' = server /\ bio' = bio /\ deeds' = deeds
      BY <2>2 DEF vars, store
    <3>2. KeyInv'
      BY <3>1, Calm DEF Stored
    <3>3. PromptInv'
      BY <3>1, Unmoved, SteadyKeeps DEF Stored, PromptInv
    <3> QED
      BY <3>1, <3>2, <3>3 DEF Stored, RestInv
  <2> QED
    BY <2>1, <2>2
<1> QED
  BY <1>1, <1>2, PTL DEF Spec

(* While no two operations have a vault in hand at once, the key the server
   serves for an identity of this device is one this device holds or its owner
   gave up, a refused rotation leaves no trace in what is current, a fingerprint
   wraps the right password and nobody is left behind a prompt
   (vaultRotation.js: saved before it is published; PQCContext.jsx: a refusal
   reverts, a network failure does not). *)
THEOREM PublishedKeysHeld == ASSUME VaultConstants, MaxWriters = 1 PROVE Spec => []VaultInv
<1>1. Stored => VaultInv
  BY StoredGives
<1> QED
  BY <1>1, StoredHolds, PTL

----------------------------------------------------------------------------
(* What a deleted account takes with it. *)

\* An operation that forgets is about an identity the server erased, and what it
\* will write lacks, of the stored vault, no other.
ForgetOK(o) ==
    LET r == op[o] IN
    /\ r.stage = "forget" /\ r.kind = "erase" => r.me \in server.gone
    /\ r.kind = "forget" /\ r.forget => r.id \in server.gone
    /\ r.kind = "forget" /\ r.stage = "write" => DOMAIN blob.acc \ DOMAIN r.full.acc \subseteq {r.id}
ForgetInv == \A o \in Op : ForgetOK(o)

\* A step of an operation that forgets nobody else than it did.
Plain(o) ==
    /\ op'[o].stage \notin {"write", "forget"}
    /\ op'[o].kind = "forget" /\ op'[o].forget =>
          op[o].kind = "forget" /\ op[o].forget /\ op'[o].id = op[o].id

\* Whom the server erased stays erased.
LEMMA GoneGrows == ASSUME KeyInv, Next PROVE server.gone \subseteq server'.gone
<1>0. DOMAIN server = {"key", "gone"}
  BY DEF KeyInv, StoreInv
<1>1. ASSUME NEW o \in Op, Publish(o) \/ Admitted(o) PROVE server'.gone = server.gone
  BY <1>0, <1>1 DEF Publish, Admitted
<1>2. ASSUME NEW o \in Op, Submitted(o) PROVE server.gone \subseteq server'.gone
  <2>1. server' = server \/ server' = [server EXCEPT !.gone = server.gone \cup {op[o].id}]
    BY <1>2 DEF Submitted
  <2> QED
    BY <1>0, <2>1
<1>3. UNCHANGED server \/ \E o \in Op : Publish(o) \/ Admitted(o) \/ Submitted(o)
  BY DEF Next, Submit, Cancel, BioAnswers, LoginTrustKeys, Logout, DropCache, DisableBiometrics, Reload,
     ReadFails, ReadToWrite, ReadOnly, Write, Refused, Unanswered, Turned,
     SubmitFails, ForgetLast, ForgetOne, ForgetNone, Start, StartErase, Unlock, UnlockWithBiometrics,
     Create, Receive, ForgetAtLogin
<1> QED
  BY <1>1, <1>2, <1>3

\* Steps that start, answer or end operations, and write no vault over another's.
LEMMA PlainKeeps ==
    ASSUME ForgetInv, server.gone \subseteq server'.gone,
           \A p \in Op : op'[p] = op[p] \/ Plain(p),
           \/ DOMAIN blob'.acc \subseteq DOMAIN blob.acc
           \/ \A p \in Op : op'[p].stage # "write"
    PROVE  ForgetInv'
<1> SUFFICES ASSUME NEW p \in Op PROVE ForgetOK(p)'
  BY DEF ForgetInv
<1>1. ForgetOK(p)
  BY DEF ForgetInv
<1>2. CASE op'[p] = op[p]
  BY <1>1, <1>2 DEF ForgetOK
<1>3. CASE Plain(p)
  BY <1>1, <1>3 DEF ForgetOK, Plain
<1> QED
  BY <1>2, <1>3

\* Asking starts nothing that forgets, or what the record asked for says.
LEMMA AskingPlain ==
    ASSUME DOMAIN op = Op, NEW o \in Op, NEW r, NEW forced, DOMAIN r = Fields, Asks(o, r, forced)
    PROVE  /\ \A p \in Op \ {o} : op'[p] = op[p]
           /\ op'[o].stage \in {"read", "ask"} /\ op'[o].kind = r.kind
           /\ op'[o].forget = r.forget /\ op'[o].id = r.id
  BY DEF Asks, Fields

\* The prompt is answered or not, a tab signs out, drops its cache or reloads.
LEMMA TabsForget ==
    ASSUME ShapeInv, NEW t \in Tab,
           \/ Submit(t) \/ Cancel(t) \/ BioAnswers(t) \/ LoginTrustKeys(t) \/ Logout(t)
           \/ DropCache(t) \/ DisableBiometrics(t) \/ Reload(t)
    PROVE  blob' = blob /\ \A p \in Op : op'[p] = op[p] \/ Plain(p)
<1>1. blob' = blob
  BY DEF Submit, Cancel, BioAnswers, LoginTrustKeys, Logout, DropCache, DisableBiometrics, Reload
<1>2. ASSUME NEW p \in Op PROVE op'[p] = op[p] \/ Plain(p)
  <2>1. ASSUME NEW pw, Answer(t, pw) PROVE op'[p] = op[p] \/ Plain(p)
    <3>1. op'[p] = op[p] \/ op'[p] = [op[p] EXCEPT !.stage = "read", !.pw = pw]
      BY <2>1 DEF Answer
    <3>2. op'[p] = [op[p] EXCEPT !.stage = "read", !.pw = pw] =>
              /\ op'[p].stage = "read" /\ op'[p].kind = op[p].kind
              /\ op'[p].forget = op[p].forget /\ op'[p].id = op[p].id
      BY DEF ShapeInv, Fields
    <3> QED
      BY <3>1, <3>2 DEF Plain
  <2>2. CASE Submit(t) \/ BioAnswers(t)
    BY <2>1, <2>2 DEF Submit, BioAnswers
  <2>3. op'[p] = Idle => Plain(p)
    BY DEF Plain, Idle
  <2>4. CASE Cancel(t) \/ Reload(t)
    BY <2>3, <2>4 DEF Cancel, Reload
  <2>5. CASE LoginTrustKeys(t) \/ Logout(t) \/ DropCache(t) \/ DisableBiometrics(t)
    BY <2>5 DEF LoginTrustKeys, Logout, DropCache, DisableBiometrics
  <2> QED
    BY <2>2, <2>4, <2>5
<1> QED
  BY <1>1, <1>2

\* Reading to change: a vault from which an identity is taken lacks only that one.
LEMMA ReadForgets ==
    ASSUME VaultConstants, MaxWriters = 1, KeyInv, ShapeInv, ForgetInv, NEW o \in Op, ReadToWrite(o)
    PROVE  ForgetInv'
<1> USE DEF ShapeInv
<1>1. op[o].kind \in Writers /\ op[o].stage = "read" /\ UNCHANGED <<blob, server>>
  BY DEF ReadToWrite
<1>2. PICK r \in Fresh(op[o]) :
        \/ op' = [op EXCEPT ![o] = Idle]
        \/ \E v \in Results(r, blob) :
              op' = [op EXCEPT ![o] = [r EXCEPT !.stage = "write", !.full = v,
                                                !.from = blob.acc[blob.active].cur,
                                                !.drop = [i \in Id |-> HeldIn(blob.acc, i) \ HeldIn(v.acc, i)]]]
  BY DEF ReadToWrite
<1>3. DOMAIN r = Fields /\ r.kind = op[o].kind /\ (r.kind \notin {"add", "rotate"} => r = op[o])
  BY <1>1, FreshIs DEF KeyInv
<1>4. CASE op' = [op EXCEPT ![o] = Idle]
  <2>1. \A q \in Op : op'[q] = op[q] \/ Plain(q)
    BY <1>4 DEF Plain, Idle
  <2> QED
    BY <1>1, <2>1, PlainKeeps
<1>5. ASSUME NEW v \in Results(r, blob),
             op' = [op EXCEPT ![o] = [r EXCEPT !.stage = "write", !.full = v,
                                               !.from = blob.acc[blob.active].cur,
                                               !.drop = [i \in Id |-> HeldIn(blob.acc, i) \ HeldIn(v.acc, i)]]]
      PROVE  ForgetInv'
  <2>1. /\ \A q \in Op \ {o} : op'[q] = op[q]
        /\ op'[o].stage = "write" /\ op'[o].full = v /\ op'[o].kind = r.kind /\ op'[o].id = r.id
        /\ op'[o].forget = r.forget
    BY <1>3, <1>5 DEF Fields
  <2>2. r.kind = "forget" => DOMAIN blob.acc \ DOMAIN v.acc \subseteq {r.id}
    <3> SUFFICES ASSUME r.kind = "forget" PROVE DOMAIN blob.acc \ DOMAIN v.acc \subseteq {r.id}
      OBVIOUS
    <3> DEFINE left == DOMAIN blob.acc \ {r.id}
    <3>1. PICK a : v = [blob EXCEPT !.acc = [i \in left |-> blob.acc[i]], !.active = a]
      BY DEF Results, Removed
    <3>2. DOMAIN blob = {"acc", "active", "seal"}
      BY DEF KeyInv, StoreInv, VaultOK
    <3>3. DOMAIN v.acc = left
      BY <3>1, <3>2
    <3> QED
      BY <3>3
  <2> HIDE <1>5
  <2>3. r.kind = "forget" /\ r.forget => r.id \in server.gone
    BY <1>3 DEF ForgetInv, ForgetOK
  <2>4. ForgetOK(o)'
    BY <1>1, <2>1, <2>2, <2>3 DEF ForgetOK
  <2>5. \A q \in Op \ {o} : ForgetOK(q)'
    BY <1>1, <2>1 DEF ForgetInv, ForgetOK
  <2> QED
    BY <2>4, <2>5 DEF ForgetInv
<1> QED
  BY <1>2, <1>4, <1>5

\* What the server answers a deletion, and what the tab does about its vault.
LEMMA ErasureForgets ==
    ASSUME KeyInv, ShapeInv, ForgetInv, NEW o \in Op, Submitted(o) \/ ForgetOne(o),
           server.gone \subseteq server'.gone
    PROVE  ForgetInv'
<1> USE DEF ShapeInv
<1>1. blob' = blob
  BY DEF Submitted, ForgetOne
<1>2. ForgetOK(o) /\ DOMAIN server = {"key", "gone"} /\ DOMAIN op[o] = Fields
  BY DEF ForgetInv, KeyInv, StoreInv
<1>3. CASE Submitted(o) /\ op' = [op EXCEPT ![o] = Idle]
  <2>1. \A q \in Op : op'[q] = op[q] \/ Plain(q)
    BY <1>3 DEF Plain, Idle
  <2> QED
    BY <1>1, <2>1, PlainKeeps
<1>4. CASE Submitted(o) /\ op' # [op EXCEPT ![o] = Idle]
  <2>1. /\ op[o].id = op[o].token /\ op[o].me = op[o].token /\ op[o].stage = "submit"
        /\ server' = IF op[o].kind = "erase"
                     THEN [server EXCEPT !.gone = server.gone \cup {op[o].id}] ELSE server
        /\ op' = [op EXCEPT ![o].stage = "forget"]
    BY <1>4 DEF Submitted
  <2>2. /\ \A q \in Op \ {o} : op'[q] = op[q]
        /\ op'[o].stage = "forget" /\ op'[o].kind = op[o].kind /\ op'[o].me = op[o].me
        /\ op'[o].forget = op[o].forget /\ op'[o].id = op[o].id
    BY <1>2, <2>1 DEF Fields
  <2>3. op[o].kind = "erase" => op[o].me \in server'.gone
    BY <1>2, <2>1
  <2>4. ForgetOK(o)'
    BY <1>2, <2>2, <2>3 DEF ForgetOK
  <2>5. \A q \in Op \ {o} : ForgetOK(q)'
    BY <1>1, <2>2 DEF ForgetInv, ForgetOK
  <2> QED
    BY <2>4, <2>5 DEF ForgetInv
<1>5. CASE ForgetOne(o)
  <2> DEFINE t == op[o].tab
             r == [NewOp(t, "forget") EXCEPT !.id = tab[t].mem.active, !.forget = TRUE]
  <2>1. /\ op[o].stage = "forget" /\ op[o].kind = "erase" /\ tab[t].mem.active = op[o].me
        /\ Asks(o, r, FALSE) /\ server' = server
    BY <1>5 DEF ForgetOne, Forgets, Holds
  <2>2. DOMAIN r = Fields /\ r.kind = "forget" /\ r.id = op[o].me
    BY <2>1, NewOpIs DEF Fields
  <2> HIDE DEF r, t
  <2>3. /\ \A q \in Op \ {o} : op'[q] = op[q]
        /\ op'[o].stage \in {"read", "ask"} /\ op'[o].kind = "forget" /\ op'[o].id = op[o].me
    BY <2>1, <2>2, AskingPlain
  <2>4. ForgetOK(o)'
    BY <1>2, <2>1, <2>3 DEF ForgetOK
  <2>5. \A q \in Op \ {o} : ForgetOK(q)'
    BY <1>1, <2>1, <2>3 DEF ForgetInv, ForgetOK
  <2> QED
    BY <2>4, <2>5 DEF ForgetInv
<1> QED
  BY <1>3, <1>4, <1>5

\* An operation that is started forgets nobody yet, or was confirmed at the sign-in.
LEMMA StartForgets ==
    ASSUME ShapeInv, NEW o \in Op, NEW t \in Tab,
           Start(o, t) \/ StartErase(o, t) \/ ForgetAtLogin(o, t)
    PROVE  /\ \A p \in Op : op'[p] = op[p] \/ Plain(p)
           /\ DOMAIN blob'.acc \subseteq DOMAIN blob.acc
<1>1. CASE Start(o, t)
  <2>0. PICK kind \in {"add", "switch", "delete", "import", "export", "rotate", "destroy", "enable"} :
          \E id, k : Asks(o, [NewOp(t, kind) EXCEPT !.id = id, !.key = k], kind \in Forced)
    BY <1>1 DEF Start
  <2>1. PICK id, k : Asks(o, [NewOp(t, kind) EXCEPT !.id = id, !.key = k], kind \in Forced)
    BY <2>0
  <2> DEFINE r == [NewOp(t, kind) EXCEPT !.id = id, !.key = k]
  <2>2. DOMAIN r = Fields /\ r.kind # "forget"
    BY NewOpIs DEF Fields
  <2>3. blob' = blob
    BY <1>1 DEF Start
  <2> HIDE DEF r
  <2>4. /\ \A p \in Op \ {o} : op'[p] = op[p]
        /\ op'[o].stage \in {"read", "ask"} /\ op'[o].kind = r.kind
    BY <2>1, <2>2, AskingPlain DEF r, ShapeInv
  <2> QED
    BY <2>2, <2>3, <2>4 DEF Plain
<1>2. CASE StartErase(o, t)
  <2>1. PICK kind \in {"erase", "leave"}, f \in BOOLEAN :
          LET r == [NewOp(t, kind) EXCEPT !.forget = f]
          IN IF tab[t].ext
             THEN /\ op' = [op EXCEPT ![o] = [r EXCEPT !.stage = "submit", !.id = ExtId]]
                  /\ UNCHANGED tab
             ELSE tab[t].mem # Locked /\ Asks(o, r, TRUE)
    BY <1>2 DEF StartErase
  <2> DEFINE r == [NewOp(t, kind) EXCEPT !.forget = f]
  <2>2. DOMAIN r = Fields /\ r.kind # "forget"
    BY NewOpIs DEF Fields
  <2>3. blob' = blob
    BY <1>2 DEF StartErase
  <2>4. CASE op' = [op EXCEPT ![o] = [r EXCEPT !.stage = "submit", !.id = ExtId]]
    <3> HIDE DEF r
    <3> QED
      BY <2>2, <2>3, <2>4 DEF Plain, Fields, ShapeInv
  <2>5. CASE Asks(o, r, TRUE)
    <3> HIDE DEF r
    <3>1. /\ \A p \in Op \ {o} : op'[p] = op[p]
          /\ op'[o].stage \in {"read", "ask"} /\ op'[o].kind = r.kind
      BY <2>2, <2>5, AskingPlain DEF ShapeInv
    <3> QED
      BY <2>2, <2>3, <3>1 DEF Plain
  <2> QED
    BY <2>1, <2>4, <2>5
<1>3. CASE ForgetAtLogin(o, t)
  <2> DEFINE r == [NewOp(t, "forget") EXCEPT !.stage = "read", !.pw = "right", !.id = tab[t].mem.active]
  <2>1. r.stage = "read" /\ r.forget = FALSE
    BY DEF NewOp, Idle
  <2>2. op' = op \/ op' = [op EXCEPT ![o] = r]
    BY <1>3 DEF ForgetAtLogin
  <2> HIDE DEF r
  <2>3. \A p \in Op : op'[p] = op[p] \/ Plain(p)
    BY <2>1, <2>2 DEF Plain, ShapeInv
  <2>4. DOMAIN blob'.acc \subseteq DOMAIN blob.acc
    BY <1>3 DEF ForgetAtLogin, Wiped, NoVault, NoAccounts
  <2> QED
    BY <2>3, <2>4
<1> QED
  BY <1>1, <1>2, <1>3

\* Signing in: what is stored then, no operation had in hand.
LEMMA SignInForgets ==
    ASSUME VaultConstants, MaxWriters = 1, ShapeInv, NEW o \in Op, NEW t \in Tab,
           Unlock(o, t) \/ UnlockWithBiometrics(o, t) \/ Create(o, t) \/ Receive(o, t)
    PROVE  /\ \A p \in Op : op'[p] = op[p] \/ Plain(p)
           /\ \A p \in Op : op'[p].stage # "write"
           /\ op[o] = Idle
<1>1. AtSignIn(o, t)
  BY DEF Unlock, UnlockWithBiometrics, Create, Receive, NewVault
<1>2. op[o] = Idle /\ \A p \in Op : op[p].stage # "write"
  BY <1>1, RoomIs DEF AtSignIn, InHand, Holding
<1>3. op' = op \/ \E v, pw, cached : Opened(o, t, v, pw, cached)
  BY DEF Unlock, UnlockWithBiometrics, Create, Receive, NewVault
<1>4. ASSUME NEW v, NEW pw, NEW cached, Opened(o, t, v, pw, cached)
      PROVE  /\ \A p \in Op \ {o} : op'[p] = op[p]
             /\ op'[o].stage = "login" /\ op'[o].kind = "login"
  BY <1>4, OpenedIs
<1> QED
  BY <1>2, <1>3, <1>4 DEF Plain

\* An operation that ends, is sent, is submitted, or undoes a rotation.
LEMMA EndsForget ==
    ASSUME KeyInv, ShapeInv, NEW o \in Op,
           \/ ReadFails(o) \/ ReadOnly(o) \/ Write(o) \/ Publish(o) \/ Refused(o) \/ Unanswered(o)
           \/ Admitted(o) \/ Turned(o) \/ SubmitFails(o) \/ ForgetLast(o) \/ ForgetNone(o)
    PROVE  /\ \A p \in Op \ {o} : op'[p] = op[p]
           /\ Plain(o)
           /\ \/ DOMAIN blob'.acc \subseteq DOMAIN blob.acc
              \/ \A p \in Op : op'[p].stage # "write"
<1> USE DEF ShapeInv
<1>1. CASE op' = [op EXCEPT ![o] = Idle] /\ blob' = blob
  BY <1>1 DEF Plain, Idle
<1>2. CASE ReadOnly(o) /\ op' = [op EXCEPT ![o] = [op[o] EXCEPT !.stage = "submit", !.id = blob.active]]
  <2>1. op[o].kind \notin Writers /\ blob' = blob
    BY <1>2 DEF ReadOnly
  <2>2. op'[o].stage = "submit" /\ op'[o].kind = op[o].kind /\ \A p \in Op \ {o} : op'[p] = op[p]
    BY <1>2 DEF Fields
  <2> QED
    BY <2>1, <2>2 DEF Plain, Writers
<1>3. CASE Write(o) /\ CanSave(op[o].tab, op[o].pw)
  <2> DEFINE r == [op[o] EXCEPT !.stage = "send", !.full = NoVault, !.drop = NoDrop, !.pw = "null"]
  <2>1. /\ op[o].stage = "write"
        /\ op' = [op EXCEPT ![o] = IF Goes(op[o]) THEN r ELSE Idle]
    BY <1>3 DEF Write
  <2>2. r.stage = "send" /\ r.kind = op[o].kind
    BY DEF Fields
  <2>3. Idle.stage = "idle" /\ Idle.kind = "none"
    BY DEF Idle
  <2> HIDE DEF r, Idle
  <2>4. \A p \in Op \ {o} : op'[p] = op[p]
    BY <2>1
  <2>5. op'[o].stage \notin {"write", "forget"} /\ op'[o].kind # "forget"
    BY <2>1, <2>2, <2>3 DEF Goes
  <2>6. \A p \in Op : op'[p].stage # "write"
    BY <2>1, <2>4, <2>5 DEF KeyInv, OrderInv, InHand, Holding
  <2> QED
    BY <2>4, <2>5, <2>6 DEF Plain
<1>4. CASE Write(o) /\ ~ CanSave(op[o].tab, op[o].pw)
  <2>1. op' = [op EXCEPT ![o] = Idle] /\ blob' = blob
    BY <1>4 DEF Write
  <2> QED
    BY <1>1, <2>1
<1>5. CASE Refused(o)
  <2> DEFINE r == [NewOp(op[o].tab, "revert") EXCEPT !.key = op[o].key]
  <2>1. Asks(o, r, FALSE) /\ blob' = blob
    BY <1>5 DEF Refused
  <2>2. DOMAIN r = Fields /\ r.kind = "revert"
    BY NewOpIs DEF Fields
  <2> HIDE DEF r
  <2>3. /\ \A p \in Op \ {o} : op'[p] = op[p]
        /\ op'[o].stage \in {"read", "ask"} /\ op'[o].kind = "revert"
    BY <2>1, <2>2, AskingPlain
  <2> QED
    BY <2>1, <2>3 DEF Plain
<1>6. CASE ForgetLast(o)
  <2>1. op' = [op EXCEPT ![o] = Idle] /\ blob' = NoVault
    BY <1>6 DEF ForgetLast, Wiped
  <2> QED
    BY <2>1 DEF Plain, Idle, NoVault, NoAccounts
<1>7. \/ op' = [op EXCEPT ![o] = Idle] /\ blob' = blob
      \/ ReadOnly(o) /\ op' = [op EXCEPT ![o] = [op[o] EXCEPT !.stage = "submit", !.id = blob.active]]
      \/ Write(o) \/ Refused(o) \/ ForgetLast(o)
  BY DEF ReadFails, ReadOnly, Publish, Unanswered, Admitted, Turned, SubmitFails, ForgetNone
<1> QED
  BY <1>1, <1>2, <1>3, <1>4, <1>5, <1>6, <1>7

\* Nobody forgets at first.
LEMMA ForgetInit == ASSUME Init PROVE ForgetInv
  BY DEF Init, ForgetInv, ForgetOK, Idle

\* Every step keeps to the erased.
LEMMA ForgetStep ==
    ASSUME VaultConstants, MaxWriters = 1, KeyInv, ShapeInv, ForgetInv, Next PROVE ForgetInv'
<1>1. server.gone \subseteq server'.gone
  BY GoneGrows
<1>2. ASSUME NEW t \in Tab,
             \/ Submit(t) \/ Cancel(t) \/ BioAnswers(t) \/ LoginTrustKeys(t) \/ Logout(t)
             \/ DropCache(t) \/ DisableBiometrics(t) \/ Reload(t)
      PROVE  ForgetInv'
  BY <1>1, <1>2, TabsForget, PlainKeeps
<1>3. ASSUME NEW o \in Op,
             \/ ReadFails(o) \/ ReadOnly(o) \/ Write(o) \/ Publish(o) \/ Refused(o) \/ Unanswered(o)
             \/ Admitted(o) \/ Turned(o) \/ SubmitFails(o) \/ ForgetLast(o) \/ ForgetNone(o)
      PROVE  ForgetInv'
  <2>1. /\ \A p \in Op \ {o} : op'[p] = op[p]
        /\ Plain(o)
        /\ \/ DOMAIN blob'.acc \subseteq DOMAIN blob.acc
           \/ \A p \in Op : op'[p].stage # "write"
    BY <1>3, EndsForget
  <2>2. \A p \in Op : op'[p] = op[p] \/ Plain(p)
    BY <2>1
  <2> QED
    BY <1>1, <2>1, <2>2, PlainKeeps
<1>4. ASSUME NEW o \in Op, ReadToWrite(o) PROVE ForgetInv'
  BY <1>4, ReadForgets
<1>5. ASSUME NEW o \in Op, Submitted(o) \/ ForgetOne(o) PROVE ForgetInv'
  BY <1>1, <1>5, ErasureForgets
<1>6. ASSUME NEW o \in Op, NEW t \in Tab, Start(o, t) \/ StartErase(o, t) \/ ForgetAtLogin(o, t)
      PROVE  ForgetInv'
  BY <1>1, <1>6, StartForgets, PlainKeeps
<1>7. ASSUME NEW o \in Op, NEW t \in Tab,
             Unlock(o, t) \/ UnlockWithBiometrics(o, t) \/ Create(o, t) \/ Receive(o, t)
      PROVE  ForgetInv'
  BY <1>1, <1>7, SignInForgets, PlainKeeps
<1> QED
  BY <1>2, <1>3, <1>4, <1>5, <1>6, <1>7 DEF Next

\* A step of an operation that forgets takes from the vault, of what its tab
\* shows, only the erased.
LEMMA ForgetTakes ==
    ASSUME VaultConstants, MaxWriters = 1, Stored, ShapeInv, ForgetInv, Next,
           NEW o \in Op, Forgetting(o), op'[o] # op[o], op[o].forget
    PROVE  Gone \cap tab[op[o].tab].mem.ids \subseteq server.gone
<1> USE DEF ShapeInv
<1>1. ForgetOK(o)
  BY DEF ForgetInv
<1>2. op[o] # Idle
  BY DEF Forgetting, Idle
<1>3. CASE blob' = blob
  BY <1>3 DEF Gone
<1>4. CASE Write(o) /\ blob' # blob
  <2>1. op[o].stage = "write" /\ blob'.acc = op[o].full.acc
    BY <1>4 DEF Write, Sealed
  <2> QED
    BY <1>1, <2>1 DEF Gone, Forgetting, ForgetOK
<1>5. CASE ForgetLast(o)
  <2> DEFINE ids == tab[op[o].tab].mem.ids
  <2>1. /\ op[o].stage = "forget" /\ op[o].kind = "erase"
        /\ op[o].me \in ids /\ Cardinality(ids) = 1
    BY <1>5 DEF ForgetLast, Forgets, Holds
  <2>2. IsFiniteSet(ids)
    <3>1. op[o].tab \in Tab
      BY <2>1 DEF Stored, PromptInv, OpOK
    <3>2. ids \subseteq Id
      BY <3>1 DEF Stored, PromptInv, TabOK
    <3> QED
      BY <3>2, FS_Subset DEF VaultConstants
  <2> HIDE DEF ids
  <2>3. ids = {op[o].me}
    BY <2>1, <2>2, FS_Singleton
  <2>4. op[o].me \in server.gone
    BY <1>1, <2>1 DEF ForgetOK
  <2> QED
    BY <2>3, <2>4 DEF ids
<1>6. ASSUME NEW p \in Op, Write(p) \/ ForgetLast(p) PROVE p = o
  <2>1. \A q \in Op \ {p} : op'[q] = op[q]
    BY <1>6, EndsForget DEF Stored
  <2> QED
    BY <2>1
<1>7. ASSUME NEW p \in Op, NEW t \in Tab, Create(p, t) \/ Receive(p, t) \/ ForgetAtLogin(p, t)
      PROVE  FALSE
  <2>1. op[p] = Idle /\ \A q \in Op \ {p} : op'[q] = op[q]
    BY <1>7 DEF Create, Receive, NewVault, AtSignIn, Opened, ForgetAtLogin
  <2> QED
    BY <1>2, <2>1
<1>8. \/ blob' = blob
      \/ \E p \in Op : Write(p) \/ ForgetLast(p)
      \/ \E p \in Op, t \in Tab : Create(p, t) \/ Receive(p, t) \/ ForgetAtLogin(p, t)
  BY DEF Next, Submit, Cancel, BioAnswers, LoginTrustKeys, Logout, DropCache, DisableBiometrics, Reload,
     ReadFails, ReadToWrite, ReadOnly, Publish, Refused, Unanswered, Admitted, Turned,
     Submitted, SubmitFails, ForgetOne, ForgetNone, Start, StartErase, Unlock, UnlockWithBiometrics
<1> QED
  BY <1>3, <1>4, <1>5, <1>6, <1>7, <1>8

(* Deleting the server account destroys, of the identities its tab shows, no keys
   but those of the identity the server erased, and none when the account was only
   left: whatever another tab added, switched to or removed meanwhile
   (PQCContext.jsx forgetLocalIdentity, vaultHoldsCurrentIdentity). *)
THEOREM ErasedForgotten == ASSUME VaultConstants, MaxWriters = 1 PROVE Spec => ForgetsOnlyErased
<1>1. Stored => ShapeInv
  BY DEF Stored, PromptInv, OpOK, ShapeInv
<1>2. Stored /\ ForgetInv /\ [Next]_vars => ForgetInv'
  <2> SUFFICES ASSUME Stored, ForgetInv, [Next]_vars PROVE ForgetInv'
    OBVIOUS
  <2>1. CASE Next
    BY <1>1, <2>1, ForgetStep DEF Stored
  <2>2. CASE UNCHANGED vars
    BY <2>2 DEF vars, ForgetInv, ForgetOK
  <2> QED
    BY <2>1, <2>2
<1>3. ASSUME Stored, ForgetInv, [Next]_vars
      PROVE  [\A o \in Op : Forgetting(o) /\ op'[o] # op[o] /\ op[o].forget
                => Gone \cap tab[op[o].tab].mem.ids \subseteq server.gone]_vars
  BY <1>1, <1>3, ForgetTakes
<1> QED
  BY <1>2, <1>3, ForgetInit, StoredHolds, PTL DEF Spec, ForgetsOnlyErased

----------------------------------------------------------------------------
(* The requests TrustKeys asks its user about. *)

\* What is known of a request: its record from the moment it is asked, and the
\* account its rotation was of, if it was carried out.
AskInv ==
    \A r \in Req :
        /\ IF state[r] = "new" THEN ask[r] = NotAsked ELSE ask[r] \in Asked
        /\ state[r] = "new" => rotated[r] = NoAccount
        /\ rotated[r] # NoAccount => rotated[r] = ask[r].acct

RequestInv == ApprovalsTypeOK /\ AnsweredOnce /\ QueueBounded /\ AskInv

\* A request that is not in the queue joins it.
LEMMA Enqueued ==
    ASSUME NEW S, NEW t \in Seq(S), IsInjective(t), NEW e \in S, e \notin ToSet(t)
    PROVE  /\ Append(t, e) \in Seq(S) /\ IsInjective(Append(t, e))
           /\ ToSet(Append(t, e)) = ToSet(t) \cup {e}
           /\ Len(Append(t, e)) = Len(t) + 1
<1> DEFINE r == Append(t, e)
<1>1. /\ r \in Seq(S) /\ Len(r) = Len(t) + 1 /\ Len(t) \in Nat
      /\ \A i \in 1 .. Len(t) : r[i] = t[i]
      /\ r[Len(t) + 1] = e
    BY AppendProperties
<1> HIDE DEF r
<1>2. DOMAIN t = 1 .. Len(t) /\ DOMAIN r = 1 .. Len(t) + 1
    BY <1>1
<1>3. 1 .. Len(t) + 1 = 1 .. Len(t) \cup {Len(t) + 1}
    BY <1>1
<1>4. ToSet(r) = ToSet(t) \cup {e}
    BY <1>1, <1>2, <1>3 DEF ToSet
<1>5. IsInjective(r)
    <2>1. \A i \in 1 .. Len(t) : r[i] \in ToSet(t) /\ r[i] # e
        BY <1>1, <1>2 DEF ToSet
    <2> SUFFICES ASSUME NEW a \in DOMAIN r, NEW b \in DOMAIN r, r[a] = r[b] PROVE a = b
        BY DEF IsInjective
    <2>2. CASE a \in 1 .. Len(t) /\ b \in 1 .. Len(t)
        BY <1>1, <1>2, <2>2 DEF IsInjective
    <2>3. CASE a = Len(t) + 1 \/ b = Len(t) + 1
        BY <1>1, <1>2, <1>3, <2>1, <2>3
    <2> QED BY <1>2, <1>3, <2>2, <2>3
<1> QED BY <1>1, <1>4, <1>5 DEF r

\* finish(): a request leaves the Map, if it is there.
LEMMA Rested ==
    ASSUME NEW q \in Seq(Req), IsInjective(q), NEW r
    PROVE  /\ Rest(q, r) \in Seq(Req) /\ IsInjective(Rest(q, r))
           /\ ToSet(Rest(q, r)) = ToSet(q) \ {r} /\ Len(Rest(q, r)) <= Len(q)
<1>1. CASE r \in ToSet(q)
    <2>1. Len(q) \in Nat
        OBVIOUS
    <2>2. Len(RemoveFirst(q, r)) = Len(q) - 1
        BY <1>1, Taken
    <2> QED BY <1>1, <2>1, <2>2, Taken DEF Rest
<1>2. CASE r \notin ToSet(q)
    <2>1. \A i \in 1 .. Len(q) : q[i] # r
        BY <1>2 DEF ToSet
    <2>2. Rest(q, r) = q
        BY <2>1 DEF Rest, RemoveFirst
    <2>3. Len(q) <= Len(q)
        OBVIOUS
    <2> QED BY <1>2, <2>2, <2>3
<1> QED BY <1>1, <1>2

\* A request is pending while it is in the queue.
LEMMA PendingIs == ASSUME RequestInv, NEW r \in Req PROVE Pending(r) <=> r \in ToSet(queue)
BY DEF RequestInv, ApprovalsTypeOK, Pending, Contains, ToSet

\* So it is after the step.
LEMMA PendingNext ==
    ASSUME queue' \in Seq(Req), NEW r \in Req PROVE Pending(r)' <=> r \in ToSet(queue')
BY DEF Pending, Contains, ToSet

\* A queue that only shrinks keeps within both caps.
LEMMA Shrinks ==
    ASSUME ApprovalsConstants, RequestInv, queue' \in Seq(Req), IsInjective(queue'),
           Len(queue') <= Len(queue), ToSet(queue') \subseteq ToSet(queue),
           \A r \in ToSet(queue) : ask'[r].o = ask[r].o
    PROVE  QueueBounded'
<1>1. Len(queue') <= MaxTotal
    <2>1. Len(queue) \in Nat /\ Len(queue') \in Nat /\ MaxTotal \in Nat /\ Len(queue) <= MaxTotal
        BY DEF RequestInv, ApprovalsTypeOK, QueueBounded, ApprovalsConstants
    <2> QED BY <2>1
<1>2. ASSUME NEW o \in Origin PROVE Cardinality(PendingForOrigin(o)') <= MaxPerOrigin
    <2>1. PendingForOrigin(o)' \subseteq PendingForOrigin(o)
        BY DEF PendingForOrigin
    <2>2. IsFiniteSet(PendingForOrigin(o))
        <3>1. PendingForOrigin(o) \subseteq Req
            BY DEF PendingForOrigin, RequestInv, ApprovalsTypeOK, ToSet
        <3> QED BY <3>1, FS_Subset DEF ApprovalsConstants
    <2>3. /\ Cardinality(PendingForOrigin(o)') <= Cardinality(PendingForOrigin(o))
          /\ IsFiniteSet(PendingForOrigin(o)')
        BY <2>1, <2>2, FS_Subset
    <2>4. Cardinality(PendingForOrigin(o)') \in Nat /\ Cardinality(PendingForOrigin(o)) \in Nat
        BY <2>2, <2>3, FS_CardinalityType
    <2>5. Cardinality(PendingForOrigin(o)) <= MaxPerOrigin /\ MaxPerOrigin \in Nat
        BY DEF RequestInv, QueueBounded, ApprovalsConstants
    <2> QED BY <2>3, <2>4, <2>5
<1> QED BY <1>1, <1>2 DEF QueueBounded

\* Where the queue stands still, so do the caps.
LEMMA Stands ==
    ASSUME ApprovalsConstants, RequestInv, queue' = queue, \A r \in ToSet(queue) : ask'[r].o = ask[r].o
    PROVE  QueueBounded' /\ \A r \in Req : Pending(r)' <=> Pending(r)
<1>1. queue \in Seq(Req) /\ IsInjective(queue) /\ Len(queue) <= Len(queue)
    BY DEF RequestInv, ApprovalsTypeOK, QueueBounded
<1> QED BY <1>1, Shrinks DEF Pending

\* The callbacks of what leaves the queue: each of them is answered, once.
LEMMA Finished ==
    ASSUME ApprovalsConstants, RequestInv, NEW S \in SUBSET Req, Finish(S),
           queue' \in Seq(Req), ToSet(queue') = ToSet(queue) \ S
    PROVE  /\ state' \in [Req -> Fate] /\ answers' \in [Req -> Nat]
           /\ AnsweredOnce'
           /\ \A r \in Req : state'[r] = "new" <=> state[r] = "new"
<1>1. \A r \in Req : /\ state'[r] = IF r \in S /\ Pending(r) THEN "answered" ELSE state[r]
                     /\ answers'[r] = IF r \in S /\ Pending(r) THEN answers[r] + 1 ELSE answers[r]
                     /\ Pending(r)' <=> Pending(r) /\ r \notin S
    BY PendingIs, PendingNext DEF Finish
<1>2. state' \in [Req -> Fate] /\ answers' \in [Req -> Nat]
    BY DEF Finish, RequestInv, ApprovalsTypeOK, Fate
<1>3. \A r \in Req : /\ answers[r] = IF state[r] = "answered" THEN 1 ELSE 0
                     /\ state[r] = "pending" <=> Pending(r)
    BY DEF RequestInv, AnsweredOnce
<1>4. AnsweredOnce'
    <2> SUFFICES ASSUME NEW r \in Req
                 PROVE  /\ answers'[r] = IF state'[r] = "answered" THEN 1 ELSE 0
                        /\ state'[r] = "pending" <=> Pending(r)'
        BY DEF AnsweredOnce
    <2>1. CASE r \in S /\ Pending(r)
        <3>1. state'[r] = "answered" /\ answers'[r] = 0 + 1 /\ ~ Pending(r)'
            BY <1>1, <1>3, <2>1
        <3> QED BY <3>1
    <2>2. CASE ~ (r \in S /\ Pending(r))
        <3>1. state'[r] = state[r] /\ answers'[r] = answers[r] /\ (Pending(r)' <=> Pending(r))
            BY <1>1, <2>2
        <3> QED BY <1>3, <3>1
    <2> QED BY <2>1, <2>2
<1> QED BY <1>1, <1>2, <1>3, <1>4

----------------------------------------------------------------------------
(* Steps. *)

\* openTrackedWindow goes on: nothing but how far it got changes in the record.
LEMMA GoesOn ==
    ASSUME RequestInv, NEW r \in Req, ask[r].pc \in {"focus", "create"},
           NEW p \in {"create", "surfaced"}, ask' = [ask EXCEPT ![r].pc = p]
    PROVE  /\ ask' \in [Req -> {NotAsked} \cup Asked]
           /\ \A x \in Req : /\ ask'[x].o = ask[x].o /\ ask'[x].acct = ask[x].acct
                             /\ ask[x] \in Asked => ask'[x] \in Asked
                             /\ ask[x] = NotAsked => ask'[x] = NotAsked
<1>1. ask \in [Req -> {NotAsked} \cup Asked]
    BY DEF RequestInv, ApprovalsTypeOK
<1>2. ask[r] \in Asked
    BY <1>1 DEF NotAsked
<1> DEFINE y == [ask[r] EXCEPT !.pc = p]
<1>3. y \in Asked /\ y.o = ask[r].o /\ y.acct = ask[r].acct
    BY <1>2 DEF Asked
<1>4. ask' = [ask EXCEPT ![r] = y]
    OBVIOUS
<1> HIDE DEF y
<1>5. ask[r] # NotAsked
    BY <1>2 DEF Asked, NotAsked
<1> QED BY <1>1, <1>3, <1>4, <1>5

\* What displays a request is a window, and what it displays is a request.
LEMMA ShownIs ==
    ASSUME RequestInv, NEW w \in Window, shows[w].at = "request"
    PROVE  shows[w].r \in Req
BY DEF RequestInv, ApprovalsTypeOK, Unopened, Dashboard, ShutWindow, Showing

\* advanceWindow: the window shows the next request, or none is left.
LEMMA Advances ==
    ASSUME RequestInv, NEW w \in Window, NEW q \in Seq(Req), Advance(w, q)
    PROVE  shows' \in [Window -> {Unopened, Dashboard, ShutWindow} \cup {Showing(r) : r \in Req}]
<1> DEFINE y == IF q = <<>> THEN Dashboard ELSE Showing(Head(q))
<1>1. q # <<>> => Head(q) \in Req
    OBVIOUS
<1>2. y \in {Dashboard} \cup {Showing(r) : r \in Req}
    BY <1>1
<1>3. shows' = [shows EXCEPT ![w] = y]
    BY DEF Advance
<1> QED BY <1>2, <1>3 DEF RequestInv, ApprovalsTypeOK

\* A page asks: refused at once, or counted against both caps from now on.
LEMMA AskStep ==
    ASSUME ApprovalsConstants, RequestInv, NEW r \in Req, NEW o \in Origin, NEW k \in Kinds, Ask(r, o, k)
    PROVE  RequestInv'
<1> DEFINE admitted == MayAsk(o, k) /\ HasRoom(o)
<1>1. /\ state[r] = "new" /\ ask[r] = NotAsked /\ r \notin ToSet(queue) /\ answers[r] = 0
      /\ rotated[r] = NoAccount
    <2>1. state[r] = "new" /\ ~ Pending(r)
        BY DEF Ask, RequestInv, AnsweredOnce
    <2> QED BY <2>1, PendingIs DEF RequestInv, AskInv, AnsweredOnce
<1>2. PICK y \in Asked : y.o = o /\ ask' = [ask EXCEPT ![r] = y]
    <2>1. PICK pc \in {"focus", "create", "surfaced"} :
            pc = IF ~ admitted THEN "surfaced" ELSE IF slot # NoWindow THEN "focus" ELSE "create"
        OBVIOUS
    <2>2. PICK a \in Holder \cup {NoAccount} : a = IF k \in {"sign", "rotate"} THEN active ELSE NoAccount
        BY DEF RequestInv, ApprovalsTypeOK
    <2>3. slot \in Window \cup {NoWindow}
        BY DEF RequestInv, ApprovalsTypeOK
    <2> DEFINE y == [pc |-> pc, o |-> o, k |-> k, acct |-> a, target |-> slot]
    <2>4. y \in Asked /\ y.o = o
        BY <2>3 DEF Asked
    <2>5. ask' = [ask EXCEPT ![r] = y]
        BY <2>1, <2>2 DEF Ask
    <2> QED BY <2>4, <2>5
<1>3. /\ ask' \in [Req -> {NotAsked} \cup Asked] /\ ask'[r] = y
      /\ \A x \in Req : x # r => ask'[x] = ask[x]
    BY <1>2 DEF RequestInv, ApprovalsTypeOK
<1>4. UNCHANGED <<locked, active, connected, slot, shows, removed, rotated, restarts>>
    BY DEF Ask, vault, windows
<1>5. CASE admitted
    <2>1. /\ queue' = Append(queue, r) /\ state' = [state EXCEPT ![r] = "pending"] /\ answers' = answers
          /\ Len(queue) < MaxTotal /\ Cardinality(PendingForOrigin(o)) < MaxPerOrigin
        BY <1>5 DEF Ask, HasRoom
    <2>2. /\ queue' \in Seq(Req) /\ IsInjective(queue') /\ Len(queue') = Len(queue) + 1
          /\ ToSet(queue') = ToSet(queue) \cup {r}
        BY <1>1, <2>1, Enqueued DEF RequestInv, ApprovalsTypeOK, QueueBounded
    <2>3. state' \in [Req -> Fate] /\ state'[r] = "pending" /\ \A x \in Req : x # r => state'[x] = state[x]
        BY <2>1 DEF RequestInv, ApprovalsTypeOK, Fate
    <2>4. ApprovalsTypeOK'
        BY <1>3, <1>4, <2>1, <2>2, <2>3 DEF RequestInv, ApprovalsTypeOK
    <2>5. AnsweredOnce'
        <3>1. \A x \in Req : Pending(x)' <=> x = r \/ Pending(x)
            BY <2>2, PendingIs, PendingNext
        <3> QED BY <1>1, <2>1, <2>3, <3>1 DEF RequestInv, AnsweredOnce
    <2>6. QueueBounded'
        <3>1. Len(queue') <= MaxTotal
            BY <2>1, <2>2 DEF ApprovalsConstants, RequestInv, ApprovalsTypeOK
        <3>2. ASSUME NEW p \in Origin PROVE Cardinality(PendingForOrigin(p)') <= MaxPerOrigin
            <4>1. IsFiniteSet(PendingForOrigin(p)) /\ r \notin PendingForOrigin(p)
                <5>1. PendingForOrigin(p) \subseteq Req
                    BY DEF PendingForOrigin, RequestInv, ApprovalsTypeOK, ToSet
                <5> QED BY <1>1, <5>1, FS_Subset DEF ApprovalsConstants, PendingForOrigin
            <4>2. PendingForOrigin(p)' = IF p = o THEN PendingForOrigin(p) \cup {r} ELSE PendingForOrigin(p)
                <5>1. \A x \in ToSet(queue) : ask'[x].o = ask[x].o
                    BY <1>1, <1>3 DEF RequestInv, ApprovalsTypeOK, ToSet
                <5>2. ask'[r].o = o
                    BY <1>2, <1>3
                <5> QED BY <2>2, <5>1, <5>2 DEF PendingForOrigin
            <4>3. CASE p = o
                <5>1. Cardinality(PendingForOrigin(p)') = Cardinality(PendingForOrigin(p)) + 1
                    BY <4>1, <4>2, <4>3, FS_AddElement
                <5>2. Cardinality(PendingForOrigin(p)) \in Nat
                    BY <4>1, FS_CardinalityType
                <5> QED BY <2>1, <4>3, <5>1, <5>2 DEF ApprovalsConstants
            <4>4. CASE p # o
                BY <4>2, <4>4 DEF RequestInv, QueueBounded
            <4> QED BY <4>3, <4>4
        <3> QED BY <2>2, <3>1, <3>2 DEF QueueBounded
    <2>7. AskInv'
        BY <1>1, <1>2, <1>3, <1>4, <2>3 DEF RequestInv, AskInv
    <2> QED BY <2>4, <2>5, <2>6, <2>7 DEF RequestInv
<1>6. CASE ~ admitted
    <2>1. /\ queue' = queue /\ state' = [state EXCEPT ![r] = "answered"]
          /\ answers' = [answers EXCEPT ![r] = @ + 1]
        BY <1>6 DEF Ask
    <2>2. /\ state' \in [Req -> Fate] /\ state'[r] = "answered"
          /\ \A x \in Req : x # r => state'[x] = state[x]
        BY <2>1 DEF RequestInv, ApprovalsTypeOK, Fate
    <2>3. /\ answers' \in [Req -> Nat] /\ answers'[r] = 1
          /\ \A x \in Req : x # r => answers'[x] = answers[x]
        BY <1>1, <2>1 DEF RequestInv, ApprovalsTypeOK
    <2>4. QueueBounded' /\ \A x \in Req : Pending(x)' <=> Pending(x)
        <3>1. \A x \in ToSet(queue) : ask'[x].o = ask[x].o
            BY <1>1, <1>3 DEF RequestInv, ApprovalsTypeOK, ToSet
        <3> QED BY <2>1, <3>1, Stands
    <2>5. ApprovalsTypeOK'
        BY <1>3, <1>4, <2>1, <2>2, <2>3 DEF RequestInv, ApprovalsTypeOK
    <2>6. AnsweredOnce'
        BY <1>1, <2>2, <2>3, <2>4, PendingIs DEF RequestInv, AnsweredOnce
    <2>7. AskInv'
        BY <1>1, <1>2, <1>3, <1>4, <2>2 DEF RequestInv, AskInv
    <2> QED BY <2>4, <2>5, <2>6, <2>7 DEF RequestInv
<1> QED BY <1>5, <1>6

\* The window of a request is focused or created: no request changes its fate.
LEMMA WindowStep ==
    ASSUME ApprovalsConstants, RequestInv, NEW r \in Req, Focus(r) \/ \E w \in Window : CreateWindow(r, w)
    PROVE  RequestInv'
<1>1. UNCHANGED <<locked, active, connected, queue, state, answers, removed, rotated, restarts>>
    BY DEF Focus, CreateWindow, vault
<1>2. /\ ask' \in [Req -> {NotAsked} \cup Asked]
      /\ \A x \in Req : /\ ask'[x].o = ask[x].o /\ ask'[x].acct = ask[x].acct
                        /\ ask[x] \in Asked => ask'[x] \in Asked
                        /\ ask[x] = NotAsked => ask'[x] = NotAsked
    <2>1. PICK p \in {"create", "surfaced"} : ask' = [ask EXCEPT ![r].pc = p]
        BY DEF Focus, CreateWindow
    <2>2. ask[r].pc \in {"focus", "create"}
        BY DEF Focus, CreateWindow
    <2> QED BY <2>1, <2>2, GoesOn
<1>3. /\ slot' \in Window \cup {NoWindow}
      /\ shows' \in [Window -> {Unopened, Dashboard, ShutWindow} \cup {Showing(x) : x \in Req}]
    <2>1. slot' \in Window \cup {NoWindow}
        BY DEF Focus, CreateWindow, RequestInv, ApprovalsTypeOK
    <2>2. \/ shows' = shows
          \/ \E w \in Window, y \in {Showing(r), Dashboard} : shows' = [shows EXCEPT ![w] = y]
        BY DEF Focus, CreateWindow
    <2>3. {Showing(r), Dashboard} \subseteq {Unopened, Dashboard, ShutWindow} \cup {Showing(x) : x \in Req}
        OBVIOUS
    <2> QED BY <2>1, <2>2, <2>3 DEF RequestInv, ApprovalsTypeOK
<1>4. QueueBounded' /\ \A x \in Req : Pending(x)' <=> Pending(x)
    <2>1. \A x \in ToSet(queue) : ask'[x].o = ask[x].o
        BY <1>2 DEF RequestInv, ApprovalsTypeOK, ToSet
    <2> QED BY <1>1, <2>1, Stands
<1>5. ApprovalsTypeOK'
    BY <1>1, <1>2, <1>3 DEF RequestInv, ApprovalsTypeOK
<1>6. AnsweredOnce'
    BY <1>1, <1>4 DEF RequestInv, AnsweredOnce
<1>7. AskInv'
    BY <1>1, <1>2 DEF RequestInv, AskInv
<1> QED BY <1>4, <1>5, <1>6, <1>7 DEF RequestInv

\* One request is refused: its window cannot be opened, its time is over, or the
\* user says so.
LEMMA RejectStep ==
    ASSUME ApprovalsConstants, RequestInv, NEW r \in Req, Reject(r),
           ask' \in [Req -> {NotAsked} \cup Asked],
           \A x \in Req : /\ ask'[x].o = ask[x].o /\ ask'[x].acct = ask[x].acct
                          /\ ask[x] \in Asked => ask'[x] \in Asked
                          /\ ask[x] = NotAsked => ask'[x] = NotAsked,
           shows' \in [Window -> {Unopened, Dashboard, ShutWindow} \cup {Showing(x) : x \in Req}],
           UNCHANGED <<locked, active, connected, slot, removed, rotated, restarts>>
    PROVE  RequestInv'
<1>1. /\ queue' \in Seq(Req) /\ IsInjective(queue') /\ Len(queue') <= Len(queue)
      /\ ToSet(queue') = ToSet(queue) \ {r}
    BY Rested DEF Reject, RequestInv, ApprovalsTypeOK, QueueBounded
<1>2. /\ state' \in [Req -> Fate] /\ answers' \in [Req -> Nat] /\ AnsweredOnce'
      /\ \A x \in Req : state'[x] = "new" <=> state[x] = "new"
    BY <1>1, Finished DEF Reject
<1>3. QueueBounded'
    <2>1. \A x \in ToSet(queue) : ask'[x].o = ask[x].o
        BY DEF RequestInv, ApprovalsTypeOK, ToSet
    <2> QED BY <1>1, <2>1, Shrinks
<1>4. ApprovalsTypeOK'
    BY <1>1, <1>2 DEF RequestInv, ApprovalsTypeOK
<1>5. AskInv'
    BY <1>2 DEF RequestInv, AskInv
<1> QED BY <1>2, <1>3, <1>4, <1>5 DEF RequestInv

\* A request answered without its user: closed, timed out, refused.
LEMMA RefusalStep ==
    ASSUME ApprovalsConstants, RequestInv,
           (\E r \in Req : CreateFails(r) \/ Timeout(r)) \/ (\E w \in Window : ClickReject(w))
    PROVE  RequestInv'
<1>1. ASSUME NEW r \in Req, CreateFails(r) PROVE RequestInv'
    <2>1. /\ Reject(r) /\ ask[r].pc \in {"focus", "create"} /\ ask' = [ask EXCEPT ![r].pc = "surfaced"]
          /\ UNCHANGED <<locked, active, connected, slot, shows, removed, rotated, restarts>>
        BY <1>1 DEF CreateFails, vault, windows
    <2>2. /\ ask' \in [Req -> {NotAsked} \cup Asked]
          /\ \A x \in Req : /\ ask'[x].o = ask[x].o /\ ask'[x].acct = ask[x].acct
                            /\ ask[x] \in Asked => ask'[x] \in Asked
                            /\ ask[x] = NotAsked => ask'[x] = NotAsked
        BY <2>1, GoesOn
    <2>3. shows' \in [Window -> {Unopened, Dashboard, ShutWindow} \cup {Showing(x) : x \in Req}]
        BY <2>1 DEF RequestInv, ApprovalsTypeOK
    <2> QED BY <1>1, <2>1, <2>2, <2>3, RejectStep
<1>2. ASSUME NEW r \in Req, Timeout(r) PROVE RequestInv'
    <2>1. /\ Reject(r)
          /\ UNCHANGED <<locked, active, connected, ask, slot, shows, removed, rotated, restarts>>
        BY <1>2 DEF Timeout, vault, windows
    <2>2. /\ ask' \in [Req -> {NotAsked} \cup Asked]
          /\ shows' \in [Window -> {Unopened, Dashboard, ShutWindow} \cup {Showing(x) : x \in Req}]
        BY <2>1 DEF RequestInv, ApprovalsTypeOK
    <2> QED BY <1>2, <2>1, <2>2, RejectStep
<1>3. ASSUME NEW w \in Window, ClickReject(w) PROVE RequestInv'
    <2>1. PICK r \in Req : r = shows[w].r
        BY <1>3, ShownIs DEF ClickReject
    <2>2. /\ Reject(r) /\ Advance(w, Rest(queue, r))
          /\ UNCHANGED <<locked, active, connected, ask, slot, removed, rotated, restarts>>
        BY <1>3, <2>1 DEF ClickReject, vault
    <2>3. Rest(queue, r) \in Seq(Req)
        BY Rested DEF RequestInv, ApprovalsTypeOK, QueueBounded
    <2>4. shows' \in [Window -> {Unopened, Dashboard, ShutWindow} \cup {Showing(x) : x \in Req}]
        BY <2>2, <2>3, Advances
    <2>5. ask' \in [Req -> {NotAsked} \cup Asked]
        BY <2>2 DEF RequestInv, ApprovalsTypeOK
    <2> QED BY <2>1, <2>2, <2>4, <2>5, RejectStep
<1> QED BY <1>1, <1>2, <1>3

\* The event of a closed window: if it is the tracked one, everything is refused.
LEMMA OnRemovedStep ==
    ASSUME ApprovalsConstants, RequestInv, NEW w \in Window, OnRemoved(w) PROVE RequestInv'
<1>1. /\ UNCHANGED <<locked, active, connected, ask, shows, rotated, restarts>>
      /\ removed' \subseteq Window /\ slot' \in Window \cup {NoWindow}
    BY DEF OnRemoved, vault, RequestInv, ApprovalsTypeOK
<1>2. CASE w = slot
    <2>1. queue' = <<>> /\ Finish(Req)
        BY <1>2 DEF OnRemoved, RejectAll
    <2>2. queue' \in Seq(Req) /\ IsInjective(queue') /\ ToSet(queue') = {} /\ Len(queue') = 0
        BY <2>1 DEF IsInjective, ToSet
    <2>3. Len(queue') <= Len(queue)
        BY <2>2 DEF RequestInv, ApprovalsTypeOK
    <2>4. ToSet(queue') = ToSet(queue) \ Req
        BY <2>2 DEF RequestInv, ApprovalsTypeOK, ToSet
    <2>5. /\ state' \in [Req -> Fate] /\ answers' \in [Req -> Nat] /\ AnsweredOnce'
          /\ \A x \in Req : state'[x] = "new" <=> state[x] = "new"
        BY <2>1, <2>2, <2>4, Finished
    <2>6. QueueBounded'
        BY <1>1, <2>2, <2>3, Shrinks
    <2>7. ApprovalsTypeOK' /\ AskInv'
        BY <1>1, <2>2, <2>5 DEF RequestInv, ApprovalsTypeOK, AskInv
    <2> QED BY <2>5, <2>6, <2>7 DEF RequestInv
<1>3. CASE w # slot
    <2>1. UNCHANGED <<queue, state, answers>>
        BY <1>3 DEF OnRemoved
    <2>2. ApprovalsTypeOK' /\ AskInv'
        BY <1>1, <2>1 DEF RequestInv, ApprovalsTypeOK, AskInv
    <2>3. AnsweredOnce' /\ QueueBounded'
        BY <1>1, <2>1, Stands DEF RequestInv, AnsweredOnce
    <2> QED BY <2>2, <2>3 DEF RequestInv
<1> QED BY <1>2, <1>3

\* What was approved is carried out, and its page hears of it.
LEMMA WorkStep == ASSUME ApprovalsConstants, RequestInv, NEW r \in Req, Work(r) PROVE RequestInv'
<1>1. /\ UNCHANGED <<locked, active, connected, ask, queue, slot, shows, removed, rotated, restarts>>
      /\ state[r] = "working"
    BY DEF Work, vault, windows
<1>2. answers[r] = 0 /\ ~ Pending(r)
    BY <1>1 DEF RequestInv, AnsweredOnce
<1>3. PICK hung \in BOOLEAN :
        /\ state' = [state EXCEPT ![r] = IF hung THEN "hung" ELSE "answered"]
        /\ answers' = [answers EXCEPT ![r] = IF hung THEN @ ELSE @ + 1]
    <2>1. PICK failed \in BOOLEAN :
            /\ state' = [state EXCEPT ![r] =
                            IF failed /\ ask[r].k = "decrypt" THEN "hung" ELSE "answered"]
            /\ answers' = [answers EXCEPT ![r] =
                              IF failed /\ ask[r].k = "decrypt" THEN @ ELSE @ + 1]
        BY DEF Work
    <2>2. CASE failed /\ ask[r].k = "decrypt"
        BY <2>1, <2>2
    <2>3. CASE ~ (failed /\ ask[r].k = "decrypt")
        BY <2>1, <2>3
    <2> QED BY <2>2, <2>3
<1>4. /\ state' \in [Req -> Fate] /\ answers' \in [Req -> Nat]
      /\ state'[r] \in {"hung", "answered"} /\ answers'[r] = IF state'[r] = "answered" THEN 1 ELSE 0
      /\ \A x \in Req : x # r => state'[x] = state[x] /\ answers'[x] = answers[x]
    <2>1. CASE hung
        BY <1>2, <1>3, <2>1 DEF RequestInv, ApprovalsTypeOK, Fate
    <2>2. CASE ~ hung
        BY <1>2, <1>3, <2>2 DEF RequestInv, ApprovalsTypeOK, Fate
    <2> QED BY <2>1, <2>2
<1>5. QueueBounded' /\ \A x \in Req : Pending(x)' <=> Pending(x)
    BY <1>1, Stands
<1>6. AnsweredOnce'
    BY <1>2, <1>4, <1>5 DEF RequestInv, AnsweredOnce
<1>7. ApprovalsTypeOK' /\ AskInv'
    BY <1>1, <1>4 DEF RequestInv, ApprovalsTypeOK, AskInv
<1> QED BY <1>5, <1>6, <1>7 DEF RequestInv

\* The user approves: the callback runs up to its first await.
LEMMA ClickApproveStep ==
    ASSUME ApprovalsConstants, RequestInv, NEW w \in Window, ClickApprove(w) PROVE RequestInv'
<1>1. PICK r \in Req : r = shows[w].r
    BY ShownIs DEF ClickApprove
<1>2. /\ queue' = Rest(queue, r) /\ Advance(w, queue')
      /\ UNCHANGED <<locked, active, ask, slot, removed, restarts>>
    BY <1>1 DEF ClickApprove
<1>3. /\ queue' \in Seq(Req) /\ IsInjective(queue') /\ Len(queue') <= Len(queue)
      /\ ToSet(queue') = ToSet(queue) \ {r}
    BY <1>2, Rested DEF RequestInv, ApprovalsTypeOK, QueueBounded
<1>4. shows' \in [Window -> {Unopened, Dashboard, ShutWindow} \cup {Showing(x) : x \in Req}]
    BY <1>2, <1>3, Advances
<1>5. QueueBounded' /\ \A x \in Req : Pending(x)' <=> Pending(x) /\ x # r
    <2>1. QueueBounded'
        BY <1>2, <1>3, Shrinks
    <2> QED BY <1>3, <2>1, PendingIs, PendingNext
<1>6. CASE Pending(r)
    <2>1. /\ state' = [state EXCEPT ![r] = Approved(r)]
          /\ answers' = [answers EXCEPT ![r] = IF Approved(r) = "answered" THEN @ + 1 ELSE @]
          /\ connected' = IF Approved(r) = "working" /\ ask[r].k = "connect"
                          THEN connected \cup {ask[r].o} ELSE connected
          /\ rotated' = [rotated EXCEPT ![r] =
                           IF Approved(r) = "working" /\ ask[r].k = "rotate" THEN active ELSE @]
        BY <1>1, <1>6 DEF ClickApprove
    <2>2. /\ Approved(r) \in {"hung", "working", "answered"}
          /\ Approved(r) = "working" /\ ask[r].k = "rotate" => active = ask[r].acct
        BY DEF Approved
    <2>3. state[r] = "pending" /\ answers[r] = 0 /\ ask[r] \in Asked
        BY <1>6 DEF RequestInv, AnsweredOnce, AskInv
    <2>4. /\ state' \in [Req -> Fate] /\ state'[r] = Approved(r)
          /\ \A x \in Req : x # r => state'[x] = state[x]
        BY <2>1, <2>2 DEF RequestInv, ApprovalsTypeOK, Fate
    <2>5. /\ answers' \in [Req -> Nat] /\ answers'[r] = IF Approved(r) = "answered" THEN 1 ELSE 0
          /\ \A x \in Req : x # r => answers'[x] = answers[x]
        <3>1. CASE Approved(r) = "answered"
            BY <2>1, <2>3, <3>1 DEF RequestInv, ApprovalsTypeOK
        <3>2. CASE Approved(r) # "answered"
            BY <2>1, <2>3, <3>2 DEF RequestInv, ApprovalsTypeOK
        <3> QED BY <3>1, <3>2
    <2>6. connected' \subseteq Origin
        BY <2>1, <2>3 DEF RequestInv, ApprovalsTypeOK, Asked
    <2>7. /\ rotated' \in [Req -> Holder \cup {NoAccount}]
          /\ \A x \in Req : x # r => rotated'[x] = rotated[x]
          /\ rotated'[r] = rotated[r] \/ rotated'[r] = ask[r].acct
        <3>1. PICK a \in Holder \cup {NoAccount} :
                /\ rotated' = [rotated EXCEPT ![r] = a]
                /\ a = rotated[r] \/ a = ask[r].acct
            BY <2>1, <2>2 DEF RequestInv, ApprovalsTypeOK
        <3> QED BY <3>1 DEF RequestInv, ApprovalsTypeOK
    <2>8. ApprovalsTypeOK'
        BY <1>2, <1>3, <1>4, <2>4, <2>5, <2>6, <2>7 DEF RequestInv, ApprovalsTypeOK
    <2>9. AnsweredOnce'
        BY <1>5, <2>2, <2>4, <2>5 DEF RequestInv, AnsweredOnce
    <2>10. AskInv'
        BY <1>2, <2>2, <2>3, <2>4, <2>7 DEF RequestInv, AskInv
    <2> QED BY <1>5, <2>8, <2>9, <2>10 DEF RequestInv
<1>7. CASE ~ Pending(r)
    <2>1. UNCHANGED <<state, answers, connected, rotated>>
        BY <1>1, <1>7 DEF ClickApprove
    <2>2. ApprovalsTypeOK' /\ AskInv'
        BY <1>2, <1>3, <1>4, <2>1 DEF RequestInv, ApprovalsTypeOK, AskInv
    <2>3. AnsweredOnce'
        BY <1>5, <1>7, <2>1 DEF RequestInv, AnsweredOnce
    <2> QED BY <1>5, <2>2, <2>3 DEF RequestInv
<1> QED BY <1>6, <1>7

\* A window goes; the vault is locked, unlocked or switched: no request notices.
LEMMA AroundStep ==
    ASSUME ApprovalsConstants, RequestInv,
           \/ \E w \in Window : CloseWindow(w)
           \/ \E a \in Holder \cup {NoAccount} : SwitchAccount(a)
           \/ LockVault \/ UnlockVault
    PROVE  RequestInv'
<1>1. UNCHANGED <<connected, ask, queue, state, answers, slot, rotated, restarts>>
    BY DEF CloseWindow, SwitchAccount, LockVault, UnlockVault, vault, windows
<1>2. locked' \in BOOLEAN /\ active' \in Holder \cup {NoAccount} /\ removed' \subseteq Window
    BY DEF CloseWindow, SwitchAccount, LockVault, UnlockVault, vault, windows, RequestInv, ApprovalsTypeOK
<1>3. shows' \in [Window -> {Unopened, Dashboard, ShutWindow} \cup {Showing(x) : x \in Req}]
    <2>1. shows' = shows \/ \E w \in Window : shows' = [shows EXCEPT ![w] = ShutWindow]
        BY DEF CloseWindow, SwitchAccount, LockVault, UnlockVault, windows
    <2> QED BY <2>1 DEF RequestInv, ApprovalsTypeOK
<1>4. ApprovalsTypeOK' /\ AskInv'
    BY <1>1, <1>2, <1>3 DEF RequestInv, ApprovalsTypeOK, AskInv
<1>5. AnsweredOnce' /\ QueueBounded'
    BY <1>1, Stands DEF RequestInv, AnsweredOnce
<1> QED BY <1>4, <1>5 DEF RequestInv

\* The worker is stopped: what was in the air is lost, and so is the queue.
LEMMA RestartStep == ASSUME ApprovalsConstants, RequestInv, Restart PROVE RequestInv'
<1>1. /\ restarts < MaxRestarts /\ restarts' = restarts + 1 /\ locked' \in BOOLEAN
      /\ queue' = <<>> /\ slot' = NoWindow
      /\ state' = [r \in Req |-> IF state[r] \in {"pending", "working", "hung"} THEN "lost" ELSE state[r]]
      /\ ask' = [r \in Req |-> IF ask[r].pc \in {"focus", "create"}
                               THEN [ask[r] EXCEPT !.pc = "surfaced"] ELSE ask[r]]
      /\ UNCHANGED <<active, connected, answers, shows, removed, rotated>>
    BY DEF Restart, RequestInv, ApprovalsTypeOK
<1>2. restarts' \in 0 .. MaxRestarts
    BY <1>1 DEF RequestInv, ApprovalsTypeOK, ApprovalsConstants
<1>3. ASSUME NEW x \in Req
      PROVE  /\ ask[x] \in Asked => ask'[x] \in Asked /\ ask'[x].o = ask[x].o /\ ask'[x].acct = ask[x].acct
             /\ ask[x] = NotAsked => ask'[x] = NotAsked
    <2>1. CASE ask[x] \in Asked
        <3>1. ask[x] # NotAsked
            BY <2>1 DEF Asked, NotAsked
        <3> QED BY <1>1, <2>1, <3>1 DEF Asked
    <2>2. CASE ask[x] = NotAsked
        <3>1. ask[x].pc \notin {"focus", "create"}
            BY <2>2 DEF NotAsked
        <3>2. ask[x] \notin Asked
            BY <2>2 DEF Asked, NotAsked
        <3> QED BY <1>1, <2>2, <3>1, <3>2
    <2> QED BY <2>1, <2>2
<1>4. ask' \in [Req -> {NotAsked} \cup Asked]
    <2>1. \A x \in Req : ask[x] \in {NotAsked} \cup Asked
        BY DEF RequestInv, ApprovalsTypeOK
    <2>2. DOMAIN ask' = Req /\ ask' = [x \in Req |-> ask'[x]]
        BY <1>1
    <2> QED BY <1>3, <2>1, <2>2
<1>5. queue' \in Seq(Req) /\ IsInjective(queue') /\ ToSet(queue') = {} /\ Len(queue') <= Len(queue)
    BY <1>1 DEF RequestInv, ApprovalsTypeOK, IsInjective, ToSet
<1>6. state' \in [Req -> Fate] /\ \A x \in Req : state'[x] = "new" <=> state[x] = "new"
    BY <1>1 DEF RequestInv, ApprovalsTypeOK, Fate
<1>7. ApprovalsTypeOK'
    BY <1>1, <1>2, <1>4, <1>5, <1>6 DEF RequestInv, ApprovalsTypeOK
<1>8. AnsweredOnce'
    <2>1. \A x \in Req : ~ Pending(x)'
        BY <1>5, PendingNext
    <2> QED BY <1>1, <2>1 DEF RequestInv, AnsweredOnce
<1>9. QueueBounded'
    <2>1. \A o \in Origin : PendingForOrigin(o)' = {}
        BY <1>5 DEF PendingForOrigin
    <2>2. Cardinality({}) = 0
        BY FS_EmptySet
    <2>3. Len(queue') = 0
        BY <1>1
    <2>4. 0 <= MaxTotal /\ 0 <= MaxPerOrigin
        BY DEF ApprovalsConstants
    <2>5. \A o \in Origin : Cardinality(PendingForOrigin(o)') <= MaxPerOrigin
        BY <2>1, <2>2, <2>4
    <2> QED BY <1>5, <2>3, <2>4, <2>5 DEF QueueBounded
<1>10. AskInv'
    BY <1>1, <1>3, <1>6 DEF RequestInv, AskInv
<1> QED BY <1>7, <1>8, <1>9, <1>10 DEF RequestInv

----------------------------------------------------------------------------
(* The queue. *)

\* Nothing is asked at first.
LEMMA Starts == ASSUME ApprovalsConstants, ApprovalsInit PROVE RequestInv
<1>1. ApprovalsTypeOK
    <2>1. /\ locked \in BOOLEAN /\ active \in Holder \cup {NoAccount} /\ connected \subseteq Origin
          /\ removed \subseteq Window /\ slot \in Window \cup {NoWindow}
        BY DEF ApprovalsInit
    <2>2. queue \in Seq(Req) /\ ask \in [Req -> {NotAsked} \cup Asked] /\ state \in [Req -> Fate]
        BY DEF ApprovalsInit, Fate
    <2>3. answers \in [Req -> Nat] /\ rotated \in [Req -> Holder \cup {NoAccount}]
        BY DEF ApprovalsInit
    <2>4. shows \in [Window -> {Unopened, Dashboard, ShutWindow} \cup {Showing(r) : r \in Req}]
        BY DEF ApprovalsInit
    <2>5. restarts \in 0 .. MaxRestarts
        BY DEF ApprovalsInit, ApprovalsConstants
    <2> QED BY <2>1, <2>2, <2>3, <2>4, <2>5 DEF ApprovalsTypeOK
<1>2. ToSet(queue) = {} /\ Len(queue) = 0 /\ IsInjective(queue)
    BY DEF ApprovalsInit, ToSet, IsInjective
<1>3. AnsweredOnce
    BY DEF ApprovalsInit, AnsweredOnce, Pending, Contains
<1>4. QueueBounded
    <2>1. \A o \in Origin : PendingForOrigin(o) = {}
        BY <1>2 DEF PendingForOrigin
    <2>2. Cardinality({}) = 0
        BY FS_EmptySet
    <2>3. 0 <= MaxTotal /\ 0 <= MaxPerOrigin
        BY DEF ApprovalsConstants
    <2>4. \A o \in Origin : Cardinality(PendingForOrigin(o)) <= MaxPerOrigin
        BY <2>1, <2>2, <2>3
    <2> QED BY <1>2, <2>3, <2>4 DEF QueueBounded
<1>5. AskInv
    BY DEF ApprovalsInit, AskInv
<1> QED BY <1>1, <1>3, <1>4, <1>5 DEF RequestInv

\* Every step keeps the invariant.
LEMMA Steps == ASSUME ApprovalsConstants, RequestInv, [ApprovalsNext]_approvalVars PROVE RequestInv'
<1>1. CASE UNCHANGED approvalVars
    <2>1. UNCHANGED <<locked, active, connected, ask, queue, state, answers, slot, shows, removed, rotated, restarts>>
        BY <1>1 DEF approvalVars
    <2>2. ApprovalsTypeOK' /\ AskInv'
        BY <2>1 DEF RequestInv, ApprovalsTypeOK, AskInv
    <2>3. AnsweredOnce' /\ QueueBounded'
        BY <2>1, Stands DEF RequestInv, AnsweredOnce
    <2> QED BY <2>2, <2>3 DEF RequestInv
<1>2. CASE ApprovalsNext
    <2>1. ASSUME NEW r \in Req, NEW o \in Origin, NEW k \in Kinds, Ask(r, o, k) PROVE RequestInv'
        BY <2>1, AskStep
    <2>2. ASSUME NEW r \in Req, Focus(r) \/ \E w \in Window : CreateWindow(r, w) PROVE RequestInv'
        BY <2>2, WindowStep
    <2>3. ASSUME NEW r \in Req, CreateFails(r) \/ Timeout(r) PROVE RequestInv'
        BY <2>3, RefusalStep
    <2>4. ASSUME NEW r \in Req, Work(r) PROVE RequestInv'
        BY <2>4, WorkStep
    <2>5. ASSUME NEW w \in Window, ClickReject(w) PROVE RequestInv'
        BY <2>5, RefusalStep
    <2>6. ASSUME NEW w \in Window, ClickApprove(w) PROVE RequestInv'
        BY <2>6, ClickApproveStep
    <2>7. ASSUME NEW w \in Window, OnRemoved(w) PROVE RequestInv'
        BY <2>7, OnRemovedStep
    <2>8. ASSUME \/ \E w \in Window : CloseWindow(w)
                 \/ \E a \in Holder \cup {NoAccount} : SwitchAccount(a)
                 \/ LockVault \/ UnlockVault
          PROVE  RequestInv'
        BY <2>8, AroundStep
    <2>9. ASSUME Restart PROVE RequestInv'
        BY <2>9, RestartStep
    <2> QED BY <1>2, <2>1, <2>2, <2>3, <2>4, <2>5, <2>6, <2>7, <2>8, <2>9 DEF ApprovalsNext
<1> QED BY <1>1, <1>2

\* The invariant is inductive.
LEMMA Sound == ASSUME ApprovalsConstants PROVE ApprovalsSpec => []RequestInv
<1> QED BY Starts, Steps, PTL DEF ApprovalsSpec

\* requestApproval "settles EXACTLY once", however the click, the timer, the
\* dismissal and a window that fails cross, and neither cap is ever exceeded.
THEOREM RequestsHold == ASSUME ApprovalsConstants PROVE ApprovalsSpec => []ApprovalsInv
<1>1. RequestInv => ApprovalsInv
    BY DEF RequestInv, ApprovalsInv
<1> QED BY <1>1, Sound, PTL

\* handleRotateEncryptionKeyAsync rotates the account its window named, whatever
\* was made active while the window was open.
THEOREM RotationsAsNamed == ASSUME ApprovalsConstants PROVE ApprovalsSpec => []RotatesNamedAccount
<1>1. RequestInv => RotatesNamedAccount
    BY DEF RequestInv, AskInv, RotatesNamedAccount
<1> QED BY <1>1, Sound, PTL
============================================================================
