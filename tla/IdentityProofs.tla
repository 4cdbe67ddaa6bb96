--------------------------- MODULE IdentityProofs ---------------------------
(***************************************************************************)
(* What Identity guarantees for any number of addresses, keys, challenges, *)
(* invite codes and concurrent requests; and, for requests served one at a *)
(* time, the contract that concurrent ones break (see the README).         *)
(***************************************************************************)
EXTENDS Identity, TLAPS

\* A request that is not idle is a full request record.
LEMMA BusyRequests ==
    ASSUME TypeOK, NEW r \in Req, req[r].pc # "idle"
    PROVE  req[r] \in Busy
  BY DEF TypeOK, Idle

\* Advancing a request keeps the request table well typed, and touches it alone.
LEMMA AdvanceTyped ==
    ASSUME TypeOK, NEW r \in Req, NEW next \in {Idle} \cup Busy, Advance(r, next)
    PROVE  /\ req' \in [Req -> {Idle} \cup Busy]
           /\ req'[r] = next
           /\ \A q \in Req \ {r} : req'[q] = req[q]
  BY DEF TypeOK, Advance

\* An answered request is idle, the others are as they were.
LEMMA FinishTyped ==
    ASSUME TypeOK, NEW r \in Req, Finish(r)
    PROVE  /\ req' \in [Req -> {Idle} \cup Busy]
           /\ req'[r].pc = "idle"
           /\ \A q \in Req \ {r} : req'[q] = req[q]
  BY AdvanceTyped DEF Finish, Idle

\* A challenge that was issued belongs to an address; spent, it still does.
LEMMA IssuedChallenge ==
    ASSUME TypeOK, NEW n \in Nonce, challenge[n].at # "unissued"
    PROVE  /\ challenge[n].of \in Addr
           /\ \A at \in {"live", "expired", "gone"} :
                 /\ [challenge[n] EXCEPT !.at = at] \in Challenge
                 /\ [challenge[n] EXCEPT !.at = at].at = at
                 /\ [challenge[n] EXCEPT !.at = at].of = challenge[n].of
<1>1. challenge[n] \in [of : Addr, at : {"live", "expired", "gone"}]
  BY DEF TypeOK, Challenge
<1> QED
  BY <1>1 DEF Challenge

\* The directory the server starts over is well typed.
LEMMA InitTypeOK == Init => TypeOK
  BY DEF Init, TypeOK, Idle, Challenge

\* A newly arrived request is well typed.
LEMMA FreshTyped ==
    ASSUME NEW pc \in {"claim", "write", "locked"}, NEW op \in Ops, NEW a \in Addr
    PROVE  Fresh(pc, op, a) \in Busy
  BY DEF Fresh, Busy, Kinds

\* A token dies only by being handed out first.
LEMMA DeadTyped ==
    ASSUME TypeOK, NoteDead, tokens' = tokens
    PROVE  dead' \subseteq tokens'
  BY DEF TypeOK, NoteDead

\* The columns a login writes are well typed.
LEMMA UpsertTyped ==
    ASSUME TypeOK, NEW r \in Req, req[r].pc = "write", Upsert(r, req[r].a)
    PROVE  /\ rows' \subseteq Addr /\ deleted' \subseteq rows' /\ blocked' \subseteq rows'
           /\ version' \in [Addr -> Nat]
           /\ encKey' \in [Addr -> Key \cup {NoKey}]
           /\ attest' \in [Addr -> Key \cup {NoKey}]
           /\ uses' \in [Code -> Nat]
<1>1. req[r] \in Busy
  BY BusyRequests
<1>2. /\ req[r].a \in Addr /\ req[r].key \in Key \cup {NoKey}
      /\ req[r].seenKey \in Key \cup {NoKey} /\ req[r].seenAtt \in Key \cup {NoKey}
  BY <1>1 DEF Busy
<1>3. ASSUME Admit(req[r].code) PROVE uses' \in [Code -> Nat]
  BY <1>3 DEF Admit, TypeOK
<1>4. ASSUME SetEncryptionKey(r, req[r].a)
      PROVE  /\ encKey' \in [Addr -> Key \cup {NoKey}]
             /\ attest' \in [Addr -> Key \cup {NoKey}]
  BY <1>2, <1>4 DEF SetEncryptionKey, Written, TypeOK
<1>5. CASE Register(r, req[r].a)
  BY <1>2, <1>3, <1>5 DEF Register, TypeOK
<1>6. CASE Revive(r, req[r].a)
  BY <1>2, <1>3, <1>4, <1>6 DEF Revive, TypeOK
<1>7. CASE ChangeKey(r, req[r].a)
  BY <1>2, <1>4, <1>7 DEF ChangeKey, TypeOK
<1>8. CASE Backfill(r, req[r].a)
  BY <1>2, <1>8 DEF Backfill, TypeOK
<1> QED
  BY <1>5, <1>6, <1>7, <1>8 DEF Upsert

\* Every step of every handler keeps the rows and the request table well typed.
LEMMA NextTypeOK == TypeOK /\ [Next]_vars => TypeOK'
<1> SUFFICES ASSUME TypeOK, [Next]_vars PROVE TypeOK'
  OBVIOUS
<1>1. CASE UNCHANGED vars
  BY <1>1 DEF vars, identity, invites, TypeOK
<1>2. ASSUME NEW a \in Addr, NEW n \in Nonce, GetNonce(a, n) PROVE TypeOK'
  <2>1. ASSUME NEW m \in Nonce PROVE challenge'[m] \in Challenge
    <3>1. CASE m = n
      BY <1>2, <3>1 DEF GetNonce, Challenge
    <3>2. CASE m # n
      BY <1>2, <3>2, IssuedChallenge DEF GetNonce, TypeOK
    <3> QED
      BY <3>1, <3>2
  <2>2. challenge' \in [Nonce -> Challenge]
    BY <1>2, <2>1 DEF GetNonce
  <2> QED
    BY <1>2, <2>2 DEF GetNonce, identity, invites, TypeOK
<1>3. ASSUME NEW n \in Nonce, NonceExpires(n) PROVE TypeOK'
  <2>1. challenge' \in [Nonce -> Challenge]
    BY <1>3, IssuedChallenge DEF NonceExpires, TypeOK
  <2> QED
    BY <1>3, <2>1 DEF NonceExpires, identity, invites, TypeOK
<1>4. ASSUME NEW c \in Code, CreateInvite(c) \/ InviteExpires(c) PROVE TypeOK'
  BY <1>4 DEF CreateInvite, InviteExpires, identity, invites, TypeOK
<1>5. ASSUME NEW r \in Req, NEW a \in Addr, NEW n \in Nonce,
             NEW k \in Key \cup {NoKey}, NEW c \in Code \cup {NoCode},
             LoginArrive(r, a, n, k, c)
      PROVE  TypeOK'
  <2> DEFINE new == Fresh("claim", "login", a)
  <2>0. new \in Busy
    BY FreshTyped DEF Ops
  <2> HIDE DEF new
  <2>1. [new EXCEPT !.n = n, !.key = k, !.code = c] \in Busy
    BY <2>0 DEF Busy
  <2>2. req' \in [Req -> {Idle} \cup Busy]
    BY <1>5, <2>1, AdvanceTyped DEF LoginArrive, new
  <2> QED
    BY <1>5, <2>2 DEF LoginArrive, identity, invites, TypeOK
<1>6. ASSUME NEW r \in Req, NEW a \in Addr, NEW n \in Nonce, NEW op \in Ops,
             DeleteArrive(r, op, a, n)
      PROVE  TypeOK'
  <2>1. [Fresh("claim", op, a) EXCEPT !.n = n] \in Busy
    BY FreshTyped DEF Busy, Fresh
  <2>2. req' \in [Req -> {Idle} \cup Busy]
    BY <1>6, <2>1, AdvanceTyped DEF DeleteArrive
  <2> QED
    BY <1>6, <2>2 DEF DeleteArrive, identity, invites, TypeOK
<1>7. ASSUME NEW r \in Req, NEW a \in Addr, LogoutArrive(r, a) PROVE TypeOK'
  <2>1. version[a] \in Nat
    BY DEF TypeOK
  <2>2. [Fresh("write", "logout", a) EXCEPT !.seenVersion = version[a]] \in Busy
    BY <2>1, FreshTyped DEF Busy, Fresh, Ops
  <2>3. req' \in [Req -> {Idle} \cup Busy]
    BY <1>7, <2>2, AdvanceTyped DEF LogoutArrive
  <2> QED
    BY <1>7, <2>3 DEF LogoutArrive, identity, invites, TypeOK
<1>8. ASSUME NEW r \in Req, NEW a \in Addr, NEW from \in Key, NEW k \in Key,
             RotateArrive(r, a, from, k)
      PROVE  TypeOK'
  <2> DEFINE new == Fresh("locked", "rotate", a)
  <2>0. new \in Busy
    BY FreshTyped DEF Ops
  <2> HIDE DEF new
  <2>1. [new EXCEPT !.key = k, !.from = from] \in Busy
    BY <2>0 DEF Busy
  <2>2. req' \in [Req -> {Idle} \cup Busy]
    BY <1>8, <2>1, AdvanceTyped DEF RotateArrive, new
  <2> QED
    BY <1>8, <2>2 DEF RotateArrive, identity, invites, TypeOK
<1>9. ASSUME NEW r \in Req, Claim(r) PROVE TypeOK'
  <2>1. req[r] \in Busy
    BY <1>9, BusyRequests DEF Claim
  <2>2. \A pc \in {"read", "locked"} : [req[r] EXCEPT !.pc = pc] \in Busy
    BY <2>1 DEF Busy
  <2>3. req' \in [Req -> {Idle} \cup Busy]
    BY <1>9, <2>2, AdvanceTyped, FinishTyped DEF Claim
  <2>4. challenge' \in [Nonce -> Challenge]
    <3>1. CASE UNCHANGED challenge
      BY <3>1 DEF TypeOK
    <3>2. CASE ClaimWins(r) /\ SpendChallenge(r)
      <4>1. ASSUME NEW m \in Nonce PROVE challenge'[m] \in Challenge
        <5>1. CASE m = req[r].n
          <6>1. challenge[m].at = "live"
            BY <3>2, <5>1 DEF ClaimWins
          <6>2. challenge'[m] = [challenge[m] EXCEPT !.at = "gone"]
            BY <3>2, <5>1 DEF SpendChallenge, TypeOK
          <6> QED
            BY <6>1, <6>2, IssuedChallenge
        <5>2. CASE m # req[r].n
          BY <3>2, <5>2 DEF SpendChallenge, TypeOK
        <5> QED
          BY <5>1, <5>2
      <4>2. challenge' = [m \in Nonce |-> challenge'[m]]
        BY <3>2 DEF SpendChallenge, TypeOK
      <4> QED
        BY <4>1, <4>2
    <3> QED
      BY <1>9, <3>1, <3>2 DEF Claim
  <2> QED
    BY <1>9, <2>3, <2>4 DEF Claim, identity, invites, TypeOK
<1>10. ASSUME NEW r \in Req, LoginRead(r) PROVE TypeOK'
  <2>1. req[r] \in Busy
    BY <1>10, BusyRequests DEF LoginRead
  <2>2. req[r].a \in Addr
    BY <2>1 DEF Busy
  <2>3. LoginKind(req[r].a, req[r].key) \in Kinds
    BY DEF LoginKind, Kinds
  <2>4. encKey[req[r].a] \in Key \cup {NoKey} /\ attest[req[r].a] \in Key \cup {NoKey}
    BY <2>2 DEF TypeOK
  <2>5. \A pc \in {"mint", "write"} : \A kind \in Kinds :
          [req[r] EXCEPT !.pc = pc, !.kind = kind, !.seenKey = encKey[req[r].a],
                         !.seenAtt = attest[req[r].a]] \in Busy
    BY <2>1, <2>4 DEF Busy
  <2>6. req' \in [Req -> {Idle} \cup Busy]
    BY <1>10, <2>3, <2>5, AdvanceTyped, FinishTyped DEF LoginRead
  <2> QED
    BY <1>10, <2>6 DEF LoginRead, identity, invites, TypeOK
<1>11. ASSUME NEW r \in Req, LoginWrite(r) PROVE TypeOK'
  <2>1. [req[r] EXCEPT !.pc = "mint"] \in Busy
    BY <1>11, BusyRequests DEF LoginWrite, Busy
  <2>2. req' \in [Req -> {Idle} \cup Busy]
    BY <1>11, <2>1, AdvanceTyped DEF LoginWrite
  <2> QED
    BY <1>11, <2>2, UpsertTyped, DeadTyped DEF LoginWrite, TypeOK
<1>12. ASSUME NEW r \in Req, LoginMint(r) PROVE TypeOK'
  <2>1. req[r] \in Busy
    BY <1>12, BusyRequests DEF LoginMint
  <2>2. <<req[r].a, version[req[r].a]>> \in Addr \X Nat
    BY <2>1 DEF Busy, TypeOK
  <2>3. req' \in [Req -> {Idle} \cup Busy]
    BY <1>12, FinishTyped DEF LoginMint
  <2>4. effects' \in [Nonce -> Nat]
    <3>1. ASSUME NEW m \in Nonce PROVE effects'[m] \in Nat
      BY <1>12 DEF LoginMint, TypeOK
    <3>2. effects' = [m \in Nonce |-> effects'[m]]
      BY <1>12 DEF LoginMint, TypeOK
    <3> QED
      BY <3>1, <3>2
  <2> QED
    BY <1>12, <2>2, <2>3, <2>4 DEF LoginMint, identity, invites, TypeOK
<1>13. ASSUME NEW r \in Req, DeleteCommit(r) PROVE TypeOK'
  <2>1. req' \in [Req -> {Idle} \cup Busy]
    BY <1>13, FinishTyped DEF DeleteCommit
  <2>2. req[r].a \in Addr
    BY <1>13, BusyRequests DEF DeleteCommit, Busy
  <2>3. effects' \in [Nonce -> Nat]
    BY <1>13 DEF DeleteCommit, TypeOK
  <2>4. challenge' \in [Nonce -> Challenge]
    <3>1. CASE UNCHANGED challenge
      BY <3>1 DEF TypeOK
    <3>2. CASE challenge' = [n \in Nonce |->
                    IF challenge[n].at # "unissued" /\ challenge[n].of = req[r].a
                    THEN [challenge[n] EXCEPT !.at = "gone"] ELSE challenge[n]]
      <4>1. ASSUME NEW n \in Nonce PROVE challenge'[n] \in Challenge
        BY <3>2, IssuedChallenge DEF TypeOK
      <4> QED
        BY <3>2, <4>1
    <3> QED
      BY <1>13, <3>1, <3>2 DEF DeleteCommit
  <2>5. CASE UNCHANGED <<identity, dead>>
    BY <1>13, <2>1, <2>3, <2>4, <2>5 DEF DeleteCommit, identity, invites, TypeOK
  <2>6. CASE IsActive(req[r].a) /\ StripIdentity(r, req[r].a) /\ NoteDead
    <3>1. /\ encKey' \in [Addr -> Key \cup {NoKey}] /\ attest' \in [Addr -> Key \cup {NoKey}]
      BY <2>6 DEF StripIdentity, TypeOK
    <3>4. version[req[r].a] + 1 \in Nat
      BY <2>2 DEF TypeOK
    <3>5. version' \in [Addr -> Nat]
      BY <2>6, <3>4 DEF StripIdentity, TypeOK
    <3>2. rows' \subseteq Addr /\ deleted' \subseteq rows' /\ blocked' \subseteq rows'
      BY <2>6 DEF StripIdentity, TypeOK, IsActive
    <3>3. dead' \subseteq tokens' /\ tokens' = tokens
      BY <1>13, <2>6, DeadTyped DEF DeleteCommit
    <3> QED
      BY <1>13, <2>1, <2>3, <2>4, <3>1, <3>2, <3>3, <3>5 DEF DeleteCommit, invites, TypeOK
  <2> QED
    BY <1>13, <2>5, <2>6 DEF DeleteCommit
<1>14. ASSUME NEW r \in Req, LogoutCommit(r) PROVE TypeOK'
  <2>1. req[r].seenVersion + 1 \in Nat
    BY <1>14, BusyRequests DEF LogoutCommit, Busy
  <2>2. version' \in [Addr -> Nat]
    BY <1>14, <2>1 DEF LogoutCommit, BumpedVersion, TypeOK
  <2>3. req' \in [Req -> {Idle} \cup Busy]
    BY <1>14, FinishTyped DEF LogoutCommit
  <2>4. tokens' = tokens /\ dead' \subseteq tokens'
    BY <1>14, DeadTyped DEF LogoutCommit
  <2> QED
    BY <1>14, <2>2, <2>3, <2>4 DEF LogoutCommit, invites, TypeOK
<1>15. ASSUME NEW r \in Req, RotateCommit(r) PROVE TypeOK'
  <2>1. req' \in [Req -> {Idle} \cup Busy]
    BY <1>15, FinishTyped DEF RotateCommit
  <2>2. req[r].key \in Key \cup {NoKey}
    BY <1>15, BusyRequests DEF RotateCommit, Busy
  <2>3. /\ encKey' \in [Addr -> Key \cup {NoKey}] /\ attest' \in [Addr -> Key \cup {NoKey}]
    BY <1>15, <2>2 DEF RotateCommit, TypeOK
  <2> QED
    BY <1>15, <2>1, <2>3 DEF RotateCommit, invites, TypeOK
<1>16. ASSUME NEW r \in Req, Abort(r) PROVE TypeOK'
  BY <1>16, FinishTyped DEF Abort, identity, invites, TypeOK
<1> QED
  BY <1>1, <1>2, <1>3, <1>4, <1>5, <1>6, <1>7, <1>8, <1>9, <1>10, <1>11, <1>12,
     <1>13, <1>14, <1>15, <1>16 DEF Next

\* Every reachable state is well typed: the columns of the users, challenges and
\* invites, the tokens handed out, and the records of the handlers in flight.
THEOREM TypeCorrect == Spec => []TypeOK
  BY InitTypeOK, NextTypeOK, PTL DEF Spec

----------------------------------------------------------------------------
(***************************************************************************)
(* A challenge authorises at most one thing.  The invariant follows the    *)
(* challenge through the request that won it: held by one request, already *)
(* deleted from the table, and without effect until that request answers.  *)
(***************************************************************************)

\* No request past its claim appears, and no challenge or effect changes.
LEMMA ChallengeKept ==
    ASSUME ChallengeInv, UNCHANGED <<challenge, effects>>,
           \A r \in Req, n \in Nonce : Holds(r, n)' => Holds(r, n)
    PROVE  ChallengeInv'
  BY DEF ChallengeInv

\* A request that answers gives up its challenge, the others keep theirs.
LEMMA FinishHolds ==
    ASSUME TypeOK, NEW r \in Req, Finish(r)
    PROVE  \A q \in Req, n \in Nonce : Holds(q, n)' <=> (q # r /\ Holds(q, n))
  BY FinishTyped DEF Holds

\* A request that had effect was the only holder, and holds the challenge no more.
LEMMA EffectOnce ==
    ASSUME TypeOK, ChallengeInv, NEW r \in Req, Finish(r),
           Holds(r, req[r].n),
           effects' = [effects EXCEPT ![req[r].n] = @ + 1],
           \A n \in Nonce : challenge'[n].at = challenge[n].at \/ challenge'[n].at = "gone"
    PROVE  ChallengeInv'
<1> SUFFICES ASSUME NEW n \in Nonce
             PROVE  /\ effects'[n] <= 1
                    /\ challenge'[n].at # "gone" => effects'[n] = 0
                    /\ \A q \in Req : Holds(q, n)' =>
                          /\ challenge'[n].at = "gone"
                          /\ effects'[n] = 0
                          /\ \A p \in Req \ {q} : ~ Holds(p, n)'
  BY DEF ChallengeInv
<1>1. \A q \in Req : Holds(q, n)' <=> (q # r /\ Holds(q, n))
  BY FinishHolds
<1>2. CASE n = req[r].n
  <2>1. /\ Holds(r, n) /\ challenge[n].at = "gone" /\ effects[n] = 0
        /\ \A p \in Req \ {r} : ~ Holds(p, n)
    BY <1>2 DEF ChallengeInv
  <2>2. effects'[n] = 1
    BY <1>2, <2>1 DEF TypeOK
  <2> QED
    BY <1>1, <2>1, <2>2
<1>3. CASE n # req[r].n
  <2>1. effects'[n] = effects[n]
    BY <1>3 DEF TypeOK
  <2> QED
    BY <1>1, <2>1 DEF ChallengeInv
<1> QED
  BY <1>2, <1>3

\* Claiming a live challenge makes its winner the only holder.
LEMMA ClaimInv ==
    ASSUME TypeOK, ChallengeInv, NEW r \in Req, Claim(r)
    PROVE  ChallengeInv'
<1> DEFINE n == req[r].n
<1>1. effects' = effects /\ req[r].pc = "claim" /\ req[r] \in Busy
  BY BusyRequests DEF Claim
<1>2. CASE Finish(r) /\ UNCHANGED challenge
  BY <1>1, <1>2, FinishHolds, ChallengeKept
<1>3. CASE ClaimWins(r) /\ SpendChallenge(r)
  <2>1. challenge[n].at = "live"
    BY <1>3 DEF ClaimWins
  <2>2. \A m \in Nonce : challenge'[m].at = IF m = n THEN "gone" ELSE challenge[m].at
    <3>1. ASSUME NEW m \in Nonce, m = n PROVE challenge'[m].at = "gone"
      BY <1>3, <2>1, <3>1, IssuedChallenge DEF SpendChallenge, TypeOK
    <3>2. ASSUME NEW m \in Nonce, m # n PROVE challenge'[m].at = challenge[m].at
      BY <1>3, <3>2 DEF SpendChallenge, TypeOK
    <3> QED
      BY <3>1, <3>2
  <2>3. n \in Nonce => effects[n] = 0 /\ \A q \in Req : ~ Holds(q, n)
    BY <2>1 DEF ChallengeInv
  <2>4. CASE Finish(r)
    BY <1>1, <2>2, <2>3, <2>4, FinishHolds DEF ChallengeInv
  <2>5. CASE Advance(r, [req[r] EXCEPT
                    !.pc = IF req[r].op = "login" THEN "read" ELSE "locked"])
    <3>1. \A pc \in {"read", "locked"} :
             [req[r] EXCEPT !.pc = pc] \in Busy /\ [req[r] EXCEPT !.pc = pc].n = n
      BY <1>1 DEF Busy
    <3>2. req'[r].n = n /\ \A q \in Req \ {r} : req'[q] = req[q]
      BY <2>5, <3>1, AdvanceTyped
    <3>3. \A m \in Nonce, q \in Req : Holds(q, m)' => Holds(q, m) \/ (q = r /\ m = n)
      BY <3>2 DEF Holds
    <3> QED
      BY <1>1, <2>2, <2>3, <3>3 DEF ChallengeInv
  <2> QED
    BY <1>1, <2>4, <2>5 DEF Claim, n
<1> QED
  BY <1>2, <1>3 DEF Claim

\* The invariant is inductive.
LEMMA NextChallengeInv == TypeOK /\ ChallengeInv /\ [Next]_vars => ChallengeInv'
<1> SUFFICES ASSUME TypeOK, ChallengeInv, [Next]_vars PROVE ChallengeInv'
  OBVIOUS
<1>1. CASE UNCHANGED vars
  BY <1>1, ChallengeKept DEF vars, Holds
<1>2. ASSUME NEW a \in Addr, NEW n \in Nonce, GetNonce(a, n) PROVE ChallengeInv'
  <2>1. ASSUME NEW m \in Nonce
        PROVE  /\ challenge[m].at = "gone" => challenge'[m].at = "gone"
               /\ challenge'[m].at # "gone" => challenge[m].at # "gone"
    BY <1>2 DEF GetNonce
  <2>2. effects' = effects /\ req' = req
    BY <1>2 DEF GetNonce
  <2> QED
    BY <2>1, <2>2 DEF ChallengeInv, Holds
<1>3. ASSUME NEW n \in Nonce, NonceExpires(n) PROVE ChallengeInv'
  <2>1. ASSUME NEW m \in Nonce
        PROVE  challenge[m].at = "gone" <=> challenge'[m].at = "gone"
    <3>1. CASE m = n
      BY <1>3, <3>1, IssuedChallenge DEF NonceExpires, TypeOK
    <3>2. CASE m # n
      BY <1>3, <3>2 DEF NonceExpires, TypeOK
    <3> QED
      BY <3>1, <3>2
  <2>2. effects' = effects /\ req' = req
    BY <1>3 DEF NonceExpires
  <2> QED
    BY <2>1, <2>2 DEF ChallengeInv, Holds
<1>4. ASSUME NEW c \in Code, CreateInvite(c) \/ InviteExpires(c) PROVE ChallengeInv'
  BY <1>4, ChallengeKept DEF CreateInvite, InviteExpires, Holds
<1>5. ASSUME NEW r \in Req, NEW next, Advance(r, next), next.n \notin Nonce \/ next.pc = "claim",
             UNCHANGED <<challenge, effects>>
      PROVE  ChallengeInv'
  <2>1. ASSUME NEW q \in Req, NEW n \in Nonce, Holds(q, n)' PROVE Holds(q, n)
    BY <1>5, <2>1 DEF Advance, TypeOK, Holds
  <2> QED
    BY <1>5, <2>1, ChallengeKept
<1>6. ASSUME NEW r \in Req, NEW next, Advance(r, next), next.n = req[r].n,
             req[r].pc \in {"read", "write"}, UNCHANGED <<challenge, effects>>
      PROVE  ChallengeInv'
  <2>1. ASSUME NEW q \in Req, NEW n \in Nonce, Holds(q, n)' PROVE Holds(q, n)
    BY <1>6, <2>1 DEF Advance, TypeOK, Holds
  <2> QED
    BY <1>6, <2>1, ChallengeKept
<1>7. ASSUME NEW r \in Req, Finish(r), UNCHANGED <<challenge, effects>> PROVE ChallengeInv'
  BY <1>7, FinishHolds, ChallengeKept
<1>8. ASSUME NEW r \in Req, NEW a \in Addr, NEW n \in Nonce,
             NEW k \in Key \cup {NoKey}, NEW c \in Code \cup {NoCode},
             LoginArrive(r, a, n, k, c)
      PROVE  ChallengeInv'
  <2>1. [Fresh("claim", "login", a) EXCEPT !.n = n, !.key = k, !.code = c].pc = "claim"
    BY DEF Fresh
  <2> QED
    BY <1>5, <1>8, <2>1 DEF LoginArrive
<1>9. ASSUME NEW r \in Req, NEW a \in Addr, NEW n \in Nonce, NEW op \in Ops,
             DeleteArrive(r, op, a, n)
      PROVE  ChallengeInv'
  <2>1. [Fresh("claim", op, a) EXCEPT !.n = n].pc = "claim"
    BY DEF Fresh
  <2> QED
    BY <1>5, <1>9, <2>1 DEF DeleteArrive
<1>10. ASSUME NEW r \in Req, NEW a \in Addr, LogoutArrive(r, a) PROVE ChallengeInv'
  <2>1. [Fresh("write", "logout", a) EXCEPT !.seenVersion = version[a]].n \notin Nonce
    BY NullNonce DEF Fresh
  <2> QED
    BY <1>5, <1>10, <2>1 DEF LogoutArrive
<1>11. ASSUME NEW r \in Req, NEW a \in Addr, NEW from \in Key, NEW k \in Key,
              RotateArrive(r, a, from, k)
       PROVE  ChallengeInv'
  <2>1. [Fresh("locked", "rotate", a) EXCEPT !.key = k, !.from = from].n \notin Nonce
    BY NullNonce DEF Fresh
  <2> QED
    BY <1>5, <1>11, <2>1 DEF RotateArrive
<1>12. ASSUME NEW r \in Req, Claim(r) PROVE ChallengeInv'
  BY <1>12, ClaimInv
<1>13. ASSUME NEW r \in Req, LoginRead(r) PROVE ChallengeInv'
  <2> DEFINE a == req[r].a
             new == [req[r] EXCEPT
                  !.pc = IF LoginKind(a, req[r].key) = "login" THEN "mint" ELSE "write",
                  !.kind = LoginKind(a, req[r].key),
                  !.seenKey = encKey[a], !.seenAtt = attest[a]]
  <2>1. new.n = req[r].n
    BY <1>13, BusyRequests DEF LoginRead, Busy
  <2>2. Advance(r, new) \/ Finish(r)
    BY <1>13 DEF LoginRead
  <2> HIDE DEF new
  <2> QED
    BY <1>6, <1>7, <1>13, <2>1, <2>2 DEF LoginRead
<1>14. ASSUME NEW r \in Req, LoginWrite(r) PROVE ChallengeInv'
  <2>1. [req[r] EXCEPT !.pc = "mint"].n = req[r].n
    BY <1>14, BusyRequests DEF LoginWrite, Busy
  <2> QED
    BY <1>6, <1>14, <2>1 DEF LoginWrite
<1>15. ASSUME NEW r \in Req, LoginMint(r) PROVE ChallengeInv'
  <2>1. Holds(r, req[r].n)
    BY <1>15 DEF LoginMint, Holds
  <2> QED
    BY <1>15, <2>1, EffectOnce DEF LoginMint
<1>16. ASSUME NEW r \in Req, DeleteCommit(r) PROVE ChallengeInv'
  <2>1. Holds(r, req[r].n) /\ Finish(r)
    BY <1>16 DEF DeleteCommit, Holds
  <2>2. \A n \in Nonce : challenge'[n].at = challenge[n].at \/ challenge'[n].at = "gone"
    <3>1. CASE UNCHANGED challenge
      BY <3>1
    <3>2. CASE challenge' = [n \in Nonce |->
                    IF challenge[n].at # "unissued" /\ challenge[n].of = req[r].a
                    THEN [challenge[n] EXCEPT !.at = "gone"] ELSE challenge[n]]
      BY <3>2, IssuedChallenge
    <3> QED
      BY <1>16, <3>1, <3>2 DEF DeleteCommit
  <2>3. CASE effects' = [effects EXCEPT ![req[r].n] = @ + 1]
    BY <2>1, <2>2, <2>3, EffectOnce
  <2>4. CASE UNCHANGED <<challenge, effects>>
    BY <1>7, <2>1, <2>4
  <2> QED
    BY <1>16, <2>3, <2>4 DEF DeleteCommit
<1>17. ASSUME NEW r \in Req, LogoutCommit(r) PROVE ChallengeInv'
  BY <1>7, <1>17 DEF LogoutCommit
<1>18. ASSUME NEW r \in Req, RotateCommit(r) PROVE ChallengeInv'
  BY <1>7, <1>18 DEF RotateCommit
<1>19. ASSUME NEW r \in Req, Abort(r) PROVE ChallengeInv'
  BY <1>7, <1>19 DEF Abort
<1> QED
  BY <1>1, <1>2, <1>3, <1>4, <1>8, <1>9, <1>10, <1>11, <1>12, <1>13, <1>14, <1>15,
     <1>16, <1>17, <1>18, <1>19 DEF Next

\* Nothing is held or authorised to begin with.
LEMMA InitChallengeInv == Init => ChallengeInv
  BY DEF Init, ChallengeInv, Holds, Idle

\* A challenge authorises one session or one deletion, however many requests
\* carry it (KRY-004: claim_nonce before any verification).
THEOREM ChallengesSpentOnce == Spec => []OneEffectPerChallenge
<1>1. ChallengeInv => OneEffectPerChallenge
  BY DEF ChallengeInv, OneEffectPerChallenge
<1> QED
  BY <1>1, TypeCorrect, InitChallengeInv, NextChallengeInv, PTL DEF Spec

----------------------------------------------------------------------------
(* Admission: every identity that enters was paid for. *)

\* Only a login's write makes an identity active, and then it has admitted it.
LEMMA AdmissionStep ==
    ASSUME TypeOK, [Next]_vars, NEW a \in Addr, ~ IsActive(a), IsActive(a)'
    PROVE  \E r \in Req : Admit(req[r].code)
<1>1. CASE \E r \in Req : LoginWrite(r)
  BY <1>1 DEF LoginWrite, Upsert, Register, Revive, ChangeKey, Backfill, IsActive
<1>2. CASE \E r \in Req : DeleteCommit(r)
  BY <1>2 DEF DeleteCommit, StripIdentity, identity, IsActive
<1>3. CASE ~ (\E r \in Req : LoginWrite(r) \/ DeleteCommit(r))
  <2>1. UNCHANGED <<rows, deleted>>
    BY <1>3 DEF Next, vars, identity, GetNonce, NonceExpires, CreateInvite, InviteExpires,
       LoginArrive, DeleteArrive, LogoutArrive, RotateArrive, Claim, LoginRead, LoginMint,
       LogoutCommit, RotateCommit, Abort
  <2> QED
    BY <2>1 DEF IsActive
<1> QED
  BY <1>1, <1>2, <1>3

\* On an invite-only server an identity is created or returns only in a step that
\* spends a use the code still had, whatever logins race for it (consume_invite).
THEOREM AdmissionsArePaid == Spec => AdmissionIsPaid
<1>1. TypeOK /\ [Next]_vars =>
        [InvitesRequired =>
           \A a \in Addr : (~ IsActive(a) /\ IsActive(a)') =>
             \E c \in Code : uses'[c] = uses[c] + 1 /\ uses'[c] <= MaxUses[c]]_vars
  <2> SUFFICES ASSUME TypeOK, [Next]_vars, InvitesRequired,
                      NEW a \in Addr, ~ IsActive(a), IsActive(a)'
               PROVE  \E c \in Code : uses'[c] = uses[c] + 1 /\ uses'[c] <= MaxUses[c]
    OBVIOUS
  <2>1. PICK r \in Req : Admit(req[r].code)
    BY AdmissionStep
  <2>2. req[r].code \in Code /\ uses[req[r].code] < MaxUses[req[r].code]
    BY <2>1 DEF Admit, Spendable, TypeOK
  <2>3. uses'[req[r].code] = uses[req[r].code] + 1
    BY <2>1, <2>2 DEF Admit, TypeOK
  <2> QED
    BY <2>2, <2>3, UsesCounted DEF TypeOK
<1> QED
  BY <1>1, TypeCorrect, PTL DEF Spec, AdmissionIsPaid

----------------------------------------------------------------------------
(***************************************************************************)
(* Sessions.  The deletion bumps token_version from the value it reads     *)
(* under the row lock, so versions only grow and a dead token stays behind *)
(* its row.  Logout writes one more than an earlier read: two of them, or  *)
(* one and a deletion, break this (see the README).  The theorem is about  *)
(* servers where nobody logs out, or where requests come one at a time.    *)
(***************************************************************************)

\* No logout meets another request.
LogoutsApart == "logout" \notin Offered \/ \A r, q \in Req : r = q

\* No version changes, and no token dies.
LEMMA SessionKept ==
    ASSUME SessionInv, UNCHANGED <<tokens, version>>, dead' = dead,
           \A r \in Req : req'[r] = req[r] \/ LogoutFresh(r)'
    PROVE  SessionInv'
  BY DEF SessionInv, LogoutFresh

\* A login's write makes nobody inactive and moves no version: no token dies.
LEMMA UpsertKillsNothing ==
    ASSUME TypeOK, NEW r \in Req, Upsert(r, req[r].a), NoteDead, UNCHANGED tokens
    PROVE  version' = version /\ dead' = dead
<1>1. version' = version /\ \A a \in Addr : IsActive(a) => IsActive(a)'
  BY DEF Upsert, Register, Revive, ChangeKey, Backfill, IsActive
<1>2. \A t \in tokens : Validates(t) => Validates(t)'
  BY <1>1 DEF Validates, TypeOK
<1> QED
  BY <1>1, <1>2 DEF NoteDead

\* A row's version goes up by one, at the end of the only request that could have
\* read it for a logout: the tokens of its identity are left behind.
LEMMA BumpInv ==
    ASSUME LogoutsApart, TypeOK, SessionInv, NEW r \in Req, req[r].a \in Addr,
           version' = [version EXCEPT ![req[r].a] = @ + 1],
           \A a \in Addr \ {req[r].a} : IsActive(a) => IsActive(a)',
           NoteDead, UNCHANGED tokens, Finish(r)
    PROVE  SessionInv'
<1>1. \A a \in Addr : version[a] \in Nat /\ version'[a] =
          IF a = req[r].a THEN version[a] + 1 ELSE version[a]
  BY DEF TypeOK
<1>2. \A t \in tokens : t[1] \in Addr /\ t[2] \in Nat
  BY DEF TypeOK
<1>3. ASSUME NEW t \in tokens PROVE t[2] <= version'[t[1]]
  BY <1>1, <1>2 DEF SessionInv
<1>4. ASSUME NEW t \in dead' PROVE t[2] < version'[t[1]]
  <2>1. CASE t \in dead
    BY <1>1, <1>2, <2>1 DEF SessionInv, TypeOK
  <2>2. CASE t \in tokens /\ Validates(t) /\ ~ Validates(t)'
    <3>1. t[1] = req[r].a
      BY <1>1, <1>2, <2>2 DEF Validates
    <3> QED
      BY <1>1, <1>2, <2>2, <3>1 DEF Validates
  <2> QED
    BY <2>1, <2>2 DEF NoteDead
<1>5. ASSUME NEW q \in Req PROVE LogoutFresh(q)'
  <2>1. CASE q = r
    BY <2>1, FinishTyped DEF LogoutFresh
  <2>2. CASE q # r
    BY <2>2, FinishTyped DEF SessionInv, LogoutFresh, LogoutsApart
  <2> QED
    BY <2>1, <2>2
<1> QED
  BY <1>3, <1>4, <1>5 DEF SessionInv

\* The session invariant is inductive where no logout meets another request.
LEMMA NextSessionInv ==
    ASSUME LogoutsApart
    PROVE  TypeOK /\ SessionInv /\ [Next]_vars => SessionInv'
<1> SUFFICES ASSUME TypeOK, SessionInv, [Next]_vars PROVE SessionInv'
  OBVIOUS
<1>1. CASE UNCHANGED vars
  BY <1>1, SessionKept DEF vars, identity
<1>2. ASSUME NEW n \in Nonce, NonceExpires(n) \/ \E a \in Addr : GetNonce(a, n)
      PROVE  SessionInv'
  BY <1>2, SessionKept DEF GetNonce, NonceExpires, identity
<1>3. ASSUME NEW c \in Code, CreateInvite(c) \/ InviteExpires(c) PROVE SessionInv'
  BY <1>3, SessionKept DEF CreateInvite, InviteExpires, identity
<1>4. ASSUME NEW r \in Req, NEW next, Advance(r, next),
             \/ next.pc = "idle" \/ next.op # "logout"
             \/ "logout" \in Offered /\ next.seenVersion = version[next.a],
             UNCHANGED <<tokens, version, dead>>
      PROVE  SessionInv'
  <2>1. req'[r] = next /\ \A q \in Req \ {r} : req'[q] = req[q]
    BY <1>4 DEF Advance, TypeOK
  <2> QED
    BY <1>4, <2>1, SessionKept DEF LogoutFresh
<1>5. ASSUME NEW r \in Req, Finish(r), UNCHANGED <<tokens, version, dead>>
      PROVE  SessionInv'
  BY <1>4, <1>5 DEF Finish, Idle
<1>6. ASSUME NEW r \in Req, NEW a \in Addr, NEW n \in Nonce,
             NEW k \in Key \cup {NoKey}, NEW c \in Code \cup {NoCode},
             LoginArrive(r, a, n, k, c)
      PROVE  SessionInv'
  <2>1. [Fresh("claim", "login", a) EXCEPT !.n = n, !.key = k, !.code = c].op = "login"
    BY DEF Fresh
  <2> QED
    BY <1>4, <1>6, <2>1 DEF LoginArrive, identity
<1>7. ASSUME NEW r \in Req, NEW a \in Addr, NEW n \in Nonce, NEW op \in Ops,
             DeleteArrive(r, op, a, n)
      PROVE  SessionInv'
  <2>1. [Fresh("claim", op, a) EXCEPT !.n = n].op = op /\ op # "logout"
    BY <1>7 DEF Fresh, DeleteArrive
  <2> QED
    BY <1>4, <1>7, <2>1 DEF DeleteArrive, identity
<1>8. ASSUME NEW r \in Req, NEW a \in Addr, LogoutArrive(r, a) PROVE SessionInv'
  <2> DEFINE new == [Fresh("write", "logout", a) EXCEPT !.seenVersion = version[a]]
  <2>1. new.a = a /\ new.seenVersion = version[a]
    BY DEF Fresh
  <2>2. Advance(r, new) /\ "logout" \in Offered /\ UNCHANGED <<tokens, version, dead>>
    BY <1>8 DEF LogoutArrive, identity
  <2> HIDE DEF new
  <2> QED
    BY <1>4, <2>1, <2>2
<1>9. ASSUME NEW r \in Req, NEW a \in Addr, NEW from \in Key, NEW k \in Key,
             RotateArrive(r, a, from, k)
      PROVE  SessionInv'
  <2>1. [Fresh("locked", "rotate", a) EXCEPT !.key = k, !.from = from].op = "rotate"
    BY DEF Fresh
  <2> QED
    BY <1>4, <1>9, <2>1 DEF RotateArrive, identity
<1>10. ASSUME NEW r \in Req, Claim(r) PROVE SessionInv'
  <2> DEFINE new == [req[r] EXCEPT !.pc = IF req[r].op = "login" THEN "read" ELSE "locked"]
  <2>1. /\ new.op = req[r].op /\ new.a = req[r].a /\ new.seenVersion = req[r].seenVersion
        /\ LogoutFresh(r) /\ req[r].pc # "idle"
    BY <1>10, BusyRequests DEF Claim, Busy, SessionInv
  <2>2. (Advance(r, new) \/ Finish(r)) /\ UNCHANGED <<tokens, version, dead>>
    BY <1>10 DEF Claim, identity
  <2> HIDE DEF new
  <2> QED
    BY <1>4, <1>5, <2>1, <2>2 DEF LogoutFresh
<1>11. ASSUME NEW r \in Req, LoginRead(r) PROVE SessionInv'
  <2> DEFINE a == req[r].a
             new == [req[r] EXCEPT
                  !.pc = IF LoginKind(a, req[r].key) = "login" THEN "mint" ELSE "write",
                  !.kind = LoginKind(a, req[r].key),
                  !.seenKey = encKey[a], !.seenAtt = attest[a]]
  <2>1. /\ new.op = req[r].op /\ new.a = req[r].a /\ new.seenVersion = req[r].seenVersion
        /\ LogoutFresh(r) /\ req[r].pc # "idle"
    BY <1>11, BusyRequests DEF LoginRead, Busy, SessionInv
  <2>2. (Advance(r, new) \/ Finish(r)) /\ UNCHANGED <<tokens, version, dead>>
    BY <1>11 DEF LoginRead, identity
  <2> HIDE DEF new
  <2> QED
    BY <1>4, <1>5, <2>1, <2>2 DEF LogoutFresh
<1>12. ASSUME NEW r \in Req, LoginWrite(r) PROVE SessionInv'
  <2>1. [req[r] EXCEPT !.pc = "mint"].op # "logout"
    BY <1>12, BusyRequests DEF LoginWrite, Busy
  <2> QED
    BY <1>4, <1>12, <2>1, UpsertKillsNothing DEF LoginWrite
<1>13. ASSUME NEW r \in Req, LoginMint(r) PROVE SessionInv'
  <2>1. req[r].a \in Addr
    BY <1>13, BusyRequests DEF LoginMint, Busy
  <2>2. \A t \in tokens' : t[2] <= version'[t[1]]
    BY <1>13, <2>1 DEF LoginMint, identity, SessionInv, TypeOK
  <2>3. \A q \in Req : LogoutFresh(q)'
    BY <1>13, FinishTyped DEF LoginMint, identity, SessionInv, LogoutFresh
  <2> QED
    BY <1>13, <2>2, <2>3 DEF LoginMint, identity, SessionInv
<1>14. ASSUME NEW r \in Req, DeleteCommit(r) PROVE SessionInv'
  <2>1. req[r].a \in Addr
    BY <1>14, BusyRequests DEF DeleteCommit, Busy
  <2>2. CASE StripIdentity(r, req[r].a) /\ NoteDead
    <3>1. version' = [version EXCEPT ![req[r].a] = @ + 1]
      BY <2>2 DEF StripIdentity
    <3>2. \A a \in Addr \ {req[r].a} : IsActive(a) => IsActive(a)'
      BY <2>2 DEF StripIdentity, IsActive
    <3> QED
      BY <1>14, <2>1, <2>2, <3>1, <3>2, BumpInv DEF DeleteCommit
  <2>3. CASE UNCHANGED <<identity, dead>>
    BY <1>5, <1>14, <2>3 DEF DeleteCommit, identity
  <2> QED
    BY <1>14, <2>2, <2>3 DEF DeleteCommit
<1>15. ASSUME NEW r \in Req, LogoutCommit(r) PROVE SessionInv'
  <2>1. req[r].a \in Addr
    BY <1>15, BusyRequests DEF LogoutCommit, Busy
  <2>2. req[r].seenVersion = version[req[r].a]
    BY <1>15 DEF LogoutCommit, SessionInv, LogoutFresh
  <2>3. version' = [version EXCEPT ![req[r].a] = @ + 1]
    BY <1>15, <2>1, <2>2 DEF LogoutCommit, BumpedVersion, TypeOK
  <2>4. \A a \in Addr \ {req[r].a} : IsActive(a) => IsActive(a)'
    BY <1>15 DEF LogoutCommit, IsActive
  <2> QED
    BY <1>15, <2>1, <2>3, <2>4, BumpInv DEF LogoutCommit
<1>16. ASSUME NEW r \in Req, RotateCommit(r) PROVE SessionInv'
  BY <1>5, <1>16 DEF RotateCommit
<1>17. ASSUME NEW r \in Req, Abort(r) PROVE SessionInv'
  BY <1>5, <1>17 DEF Abort, identity
<1> QED
  BY <1>1, <1>2, <1>3, <1>6, <1>7, <1>8, <1>9, <1>10, <1>11, <1>12, <1>13, <1>14,
     <1>15, <1>16, <1>17 DEF Next

\* A session that ended, by a logout or a deletion, never comes back, not even when
\* the identity does (_strip_identity bumps token_version under the lock, /logout one
\* more than it read): unless a logout overlaps another request.
THEOREM EndedSessionsStayEnded ==
    ASSUME LogoutsApart
    PROVE  Spec => []DeadTokensStayDead
<1>1. Init => SessionInv
  <2> SUFFICES ASSUME Init PROVE SessionInv
    OBVIOUS
  <2>1. tokens = {} /\ dead = {}
    BY DEF Init
  <2>2. \A r \in Req : req[r].pc = "idle"
    BY DEF Init, Idle
  <2> QED
    BY <2>1, <2>2 DEF SessionInv, LogoutFresh
<1>2. TypeOK /\ SessionInv => DeadTokensStayDead
  BY DEF TypeOK, SessionInv, DeadTokensStayDead, Validates
<1> QED
  BY <1>1, <1>2, TypeCorrect, NextSessionInv, PTL DEF Spec

----------------------------------------------------------------------------
(***************************************************************************)
(* One request at a time.  Then the row a login read is the row it writes, *)
(* and the directory keeps its promises; requests that overlap break each  *)
(* of them (see the README).                                               *)
(***************************************************************************)

\* A step that leaves the user rows alone, and makes no login ready to write.
LEMMA SerialKept ==
    ASSUME SerialInv, UNCHANGED identity,
           \A r \in Req : req'[r] = req[r] \/ req'[r].pc # "write" \/ req'[r].op # "login"
    PROVE  SerialInv'
<1>1. ASSUME NEW r \in Req, req'[r].pc = "write", req'[r].op = "login"
      PROVE  SnapshotFresh(r)'
  BY <1>1 DEF SerialInv, SnapshotFresh, LoginKind, MayRegister, IsActive, identity
<1>2. (ErasedIsFinal /\ DeletedIsKeyless /\ AttestationMatches)'
  BY DEF SerialInv, ErasedIsFinal, DeletedIsKeyless, AttestationMatches, IsActive, identity
<1> QED
  BY <1>1, <1>2 DEF SerialInv

\* On the row it read, a login writes its key and the attestation of that key.
LEMMA FreshKeyWrite ==
    ASSUME TypeOK, NEW r \in Req, NEW a \in Addr, SetEncryptionKey(r, a),
           req[r].seenKey = encKey[a], req[r].seenAtt = attest[a]
    PROVE  /\ encKey' = [encKey EXCEPT ![a] = req[r].key]
           /\ attest' = [attest EXCEPT ![a] = req[r].key]
<1>1. encKey' = [encKey EXCEPT ![a] = req[r].key]
  BY DEF SetEncryptionKey, Written, TypeOK
<1>2. attest' = [attest EXCEPT ![a] = req[r].key]
  BY DEF SetEncryptionKey, Written, TypeOK
<1> QED
  BY <1>1, <1>2

\* The write of a login whose snapshot is fresh keeps the three promises.
LEMMA FreshUpsert ==
    ASSUME TypeOK, SerialInv, NEW r \in Req, NEW a \in Addr, a = req[r].a,
           SnapshotFresh(r), Upsert(r, a)
    PROVE  (ErasedIsFinal /\ DeletedIsKeyless /\ AttestationMatches)'
<1>1. /\ req[r].seenKey = encKey[a] /\ req[r].seenAtt = attest[a]
      /\ req[r].kind = LoginKind(a, req[r].key) /\ MayRegister(a)
  BY DEF SnapshotFresh
<1>2. CASE req[r].kind = "register" /\ Register(r, a)
  BY <1>1, <1>2 DEF Register, SerialInv, ErasedIsFinal, DeletedIsKeyless,
     AttestationMatches, IsActive, TypeOK
<1>3. CASE req[r].kind = "return" /\ Revive(r, a)
  <2>1. a \notin blocked \/ a \notin rows
    BY <1>1 DEF MayRegister
  <2>2. /\ encKey' = [encKey EXCEPT ![a] = req[r].key]
        /\ attest' = [attest EXCEPT ![a] = req[r].key]
    BY <1>1, <1>3, FreshKeyWrite DEF Revive
  <2> QED
    BY <1>3, <2>1, <2>2 DEF Revive, SerialInv, ErasedIsFinal, DeletedIsKeyless,
       AttestationMatches, IsActive, TypeOK
<1>4. CASE req[r].kind = "key_changed" /\ ChangeKey(r, a)
  <2>1. a \notin deleted
    BY <1>1, <1>4 DEF LoginKind, IsActive, TypeOK
  <2>2. /\ encKey' = [encKey EXCEPT ![a] = req[r].key]
        /\ attest' = [attest EXCEPT ![a] = req[r].key]
    BY <1>1, <1>4, FreshKeyWrite DEF ChangeKey
  <2> QED
    BY <1>4, <2>1, <2>2 DEF ChangeKey, SerialInv, ErasedIsFinal, DeletedIsKeyless,
       AttestationMatches, IsActive, TypeOK
<1>5. CASE req[r].kind = "backfill" /\ Backfill(r, a)
  <2>1. req[r].key = encKey[a]
    BY <1>1, <1>5 DEF LoginKind, IsActive
  <2> QED
    BY <1>5, <2>1 DEF Backfill, SerialInv, ErasedIsFinal, DeletedIsKeyless,
       AttestationMatches, IsActive, TypeOK
<1> QED
  BY <1>2, <1>3, <1>4, <1>5 DEF Upsert

\* With one request at a time the serial invariant is inductive.
LEMMA NextSerialInv ==
    ASSUME \A r, q \in Req : r = q
    PROVE  TypeOK /\ SerialInv /\ [Next]_vars => SerialInv'
<1> SUFFICES ASSUME TypeOK, SerialInv, [Next]_vars PROVE SerialInv'
  OBVIOUS
<1>1. CASE UNCHANGED vars
  BY <1>1, SerialKept DEF vars
<1>2. ASSUME NEW n \in Nonce, NonceExpires(n) \/ \E a \in Addr : GetNonce(a, n)
      PROVE  SerialInv'
  BY <1>2, SerialKept DEF GetNonce, NonceExpires
<1>3. ASSUME NEW c \in Code, CreateInvite(c) \/ InviteExpires(c) PROVE SerialInv'
  BY <1>3, SerialKept DEF CreateInvite, InviteExpires
<1>4. ASSUME NEW r \in Req, NEW next, Advance(r, next),
             next.pc # "write" \/ next.op # "login", UNCHANGED identity
      PROVE  SerialInv'
  BY <1>4, SerialKept DEF Advance, TypeOK
<1>5. ASSUME NEW r \in Req, Finish(r), UNCHANGED identity PROVE SerialInv'
  BY <1>4, <1>5 DEF Finish, Idle
<1>6. ASSUME NEW r \in Req, NEW a \in Addr, NEW n \in Nonce,
             NEW k \in Key \cup {NoKey}, NEW c \in Code \cup {NoCode},
             LoginArrive(r, a, n, k, c)
      PROVE  SerialInv'
  <2>1. [Fresh("claim", "login", a) EXCEPT !.n = n, !.key = k, !.code = c].pc = "claim"
    BY DEF Fresh
  <2> QED
    BY <1>4, <1>6, <2>1 DEF LoginArrive
<1>7. ASSUME NEW r \in Req, NEW a \in Addr, NEW n \in Nonce, NEW op \in Ops,
             DeleteArrive(r, op, a, n)
      PROVE  SerialInv'
  <2>1. [Fresh("claim", op, a) EXCEPT !.n = n].pc = "claim"
    BY DEF Fresh
  <2> QED
    BY <1>4, <1>7, <2>1 DEF DeleteArrive
<1>8. ASSUME NEW r \in Req, NEW a \in Addr, LogoutArrive(r, a) PROVE SerialInv'
  <2>1. [Fresh("write", "logout", a) EXCEPT !.seenVersion = version[a]].op = "logout"
    BY DEF Fresh
  <2> QED
    BY <1>4, <1>8, <2>1 DEF LogoutArrive
<1>9. ASSUME NEW r \in Req, NEW a \in Addr, NEW from \in Key, NEW k \in Key,
             RotateArrive(r, a, from, k)
      PROVE  SerialInv'
  <2>1. [Fresh("locked", "rotate", a) EXCEPT !.key = k, !.from = from].pc = "locked"
    BY DEF Fresh
  <2> QED
    BY <1>4, <1>9, <2>1 DEF RotateArrive
<1>10. ASSUME NEW r \in Req, Claim(r) PROVE SerialInv'
  <2>1. \A pc : [req[r] EXCEPT !.pc = pc].pc = pc
    BY <1>10, BusyRequests DEF Claim, Busy
  <2> QED
    BY <1>4, <1>5, <1>10, <2>1 DEF Claim
<1>11. ASSUME NEW r \in Req, LoginRead(r) PROVE SerialInv'
  <2> DEFINE a == req[r].a
             kind == LoginKind(a, req[r].key)
             new == [req[r] EXCEPT
                  !.pc = IF kind = "login" THEN "mint" ELSE "write", !.kind = kind,
                  !.seenKey = encKey[a], !.seenAtt = attest[a]]
  <2>1. UNCHANGED identity
    BY <1>11 DEF LoginRead
  <2>2. CASE Finish(r)
    BY <1>5, <2>1, <2>2
  <2>3. CASE Advance(r, new) /\ MayRegister(a)
    <3>1. /\ new.a = a /\ new.key = req[r].key /\ new.kind = kind
          /\ new.seenKey = encKey[a] /\ new.seenAtt = attest[a]
      BY <1>11, BusyRequests DEF LoginRead, Busy
    <3>2. req'[r] = new
      BY <2>3 DEF Advance, TypeOK
    <3> HIDE DEF new, kind
    <3>3. SnapshotFresh(r)'
      BY <2>1, <2>3, <3>1, <3>2
         DEF SnapshotFresh, identity, LoginKind, MayRegister, IsActive, kind
    <3>4. (ErasedIsFinal /\ DeletedIsKeyless /\ AttestationMatches)'
      BY <2>1 DEF SerialInv, ErasedIsFinal, DeletedIsKeyless, AttestationMatches,
         IsActive, identity
    <3> QED
      BY <3>3, <3>4 DEF SerialInv
  <2>4. (a \in deleted => MayRegister(a)) => MayRegister(a)
    BY DEF SerialInv, ErasedIsFinal, MayRegister, IsActive
  <2> QED
    BY <1>11, <2>2, <2>3, <2>4 DEF LoginRead
<1>12. ASSUME NEW r \in Req, LoginWrite(r) PROVE SerialInv'
  <2>1. req[r].a \in Addr /\ [req[r] EXCEPT !.pc = "mint"].pc = "mint"
    BY <1>12, BusyRequests DEF LoginWrite, Busy
  <2>2. req'[r].pc = "mint"
    BY <1>12, <2>1 DEF LoginWrite, Advance, TypeOK
  <2>3. SnapshotFresh(r)
    BY <1>12 DEF LoginWrite, SerialInv
  <2>4. (ErasedIsFinal /\ DeletedIsKeyless /\ AttestationMatches)'
    BY <1>12, <2>1, <2>3, FreshUpsert DEF LoginWrite
  <2> QED
    BY <2>2, <2>4 DEF SerialInv
<1>13. ASSUME NEW r \in Req, LoginMint(r) PROVE SerialInv'
  BY <1>5, <1>13 DEF LoginMint
<1>14. ASSUME NEW r \in Req, DeleteCommit(r) PROVE SerialInv'
  <2>1. req[r].a \in Addr
    BY <1>14, BusyRequests DEF DeleteCommit, Busy
  <2>2. CASE StripIdentity(r, req[r].a)
    <3>1. \A q \in Req : req'[q].pc = "idle"
      BY <1>14, FinishTyped DEF DeleteCommit
    <3>2. (ErasedIsFinal /\ DeletedIsKeyless /\ AttestationMatches)'
      BY <2>1, <2>2 DEF StripIdentity, SerialInv, ErasedIsFinal, DeletedIsKeyless,
         AttestationMatches, IsActive, TypeOK
    <3> QED
      BY <3>1, <3>2 DEF SerialInv
  <2>3. CASE UNCHANGED identity
    BY <1>5, <1>14, <2>3 DEF DeleteCommit
  <2> QED
    BY <1>14, <2>2, <2>3 DEF DeleteCommit
<1>15. ASSUME NEW r \in Req, LogoutCommit(r) PROVE SerialInv'
  <2>1. \A q \in Req : req'[q].pc = "idle"
    BY <1>15, FinishTyped DEF LogoutCommit
  <2>2. (ErasedIsFinal /\ DeletedIsKeyless /\ AttestationMatches)'
    BY <1>15 DEF LogoutCommit, SerialInv, ErasedIsFinal, DeletedIsKeyless,
       AttestationMatches, IsActive
  <2> QED
    BY <2>1, <2>2 DEF SerialInv
<1>16. ASSUME NEW r \in Req, RotateCommit(r) PROVE SerialInv'
  <2>1. \A q \in Req : req'[q].pc = "idle"
    BY <1>16, FinishTyped DEF RotateCommit
  <2>2. req[r].a \in Addr
    BY <1>16, BusyRequests DEF RotateCommit, Busy
  <2>3. (ErasedIsFinal /\ DeletedIsKeyless /\ AttestationMatches)'
    BY <1>16, <2>2 DEF RotateCommit, SerialInv, ErasedIsFinal, DeletedIsKeyless,
       AttestationMatches, IsActive, TypeOK
  <2> QED
    BY <2>1, <2>3 DEF SerialInv
<1>17. ASSUME NEW r \in Req, Abort(r) PROVE SerialInv'
  BY <1>5, <1>17 DEF Abort
<1> QED
  BY <1>1, <1>2, <1>3, <1>6, <1>7, <1>8, <1>9, <1>10, <1>11, <1>12, <1>13, <1>14,
     <1>15, <1>16, <1>17 DEF Next

\* With requests one at a time the directory keeps its promises, for any number of
\* identities, keys and invite codes: an erased identity never comes back, a
\* deleted one holds no key, no key is served with another's attestation, and the row
\* a login writes is the row it read.
THEOREM SerialContract ==
    ASSUME \A r, q \in Req : r = q
    PROVE  Spec => []SerialInv
<1>1. Init => SerialInv
  <2> SUFFICES ASSUME Init PROVE SerialInv
    OBVIOUS
  <2>1. \A r \in Req : req[r].pc = "idle"
    BY DEF Init, Idle
  <2>2. ErasedIsFinal /\ DeletedIsKeyless
    BY DEF Init, ErasedIsFinal, DeletedIsKeyless
  <2>3. AttestationMatches
    BY DEF Init, AttestationMatches
  <2> QED
    BY <2>1, <2>2, <2>3 DEF SerialInv
<1> QED
  BY <1>1, TypeCorrect, NextSerialInv, PTL DEF Spec
=============================================================================
