--------------------------- MODULE MultisigProofs ---------------------------
(***************************************************************************)
(* Proofs about Multisig, for any sets of users, workflows and requests.   *)
(***************************************************************************)
EXTENDS Multisig, FiniteSetTheorems, TLAPS

\* Sets of users are finite, so their cardinalities are natural numbers.
LEMMA UserSetsCounted ==
    ASSUME NEW S \in SUBSET User
    PROVE  IsFiniteSet(S) /\ Cardinality(S) \in Nat
  BY UserFinite, FS_Subset, FS_CardinalityType

\* A new signature adds exactly one to the count.
LEMMA OneMoreSignature ==
    ASSUME NEW S \in SUBSET User, NEW u \in User, u \notin S
    PROVE  Cardinality(S \cup {u}) = Cardinality(S) + 1
  BY UserSetsCounted, FS_AddElement

\* A request that is past its arrival is a full request record.
LEMMA BusyRequests ==
    ASSUME TypeOK, NEW r \in Req, req[r].pc # "idle"
    PROVE  /\ req[r] \in Busy
           /\ req[r].u \in User /\ req[r].w \in Wf /\ req[r].op \in Ops
           /\ req[r].completing \in BOOLEAN
           /\ req[r].writes \subseteq User
           /\ req[r].targets \subseteq Wf /\ req[r].drops \subseteq Wf
  BY DEF TypeOK, Idle, Busy

\* Advancing a request keeps the request table well typed, and touches it alone.
LEMMA AdvanceTyped ==
    ASSUME TypeOK, NEW r \in Req, NEW next \in {Idle} \cup Busy, Advance(r, next)
    PROVE  /\ req' \in [Req -> {Idle} \cup Busy]
           /\ req'[r] = next
           /\ \A q \in Req \ {r} : req'[q] = req[q]
  BY DEF TypeOK, Advance

\* A handler's answer keeps the request table well typed: its request is idle again.
LEMMA FinishTyped ==
    ASSUME TypeOK, NEW r \in Req, Finish(r)
    PROVE  /\ req' \in [Req -> {Idle} \cup Busy]
           /\ req'[r] = Idle
           /\ \A q \in Req \ {r} : req'[q] = req[q]
  BY AdvanceTyped DEF Finish

\* A deduplicated list of users is a set of users.
LEMMA ListedUsers ==
    ASSUME NEW listed \in SubmittedLists
    PROVE  Range(listed) \subseteq User
  BY ListsOfUsers DEF Range

\* The rows the database starts with (legacy workflows only) are well typed.
LEMMA InitTypeOK == Init => TypeOK
  BY LegacySubset DEF Init, TypeOK, Status, Idle

\* create_multisig_workflow writes well-typed rows.
LEMMA CreateTypeOK ==
    ASSUME TypeOK, NEW w \in Wf, NEW u \in User, Create(w, u)
    PROVE  TypeOK'
<1>1. PICK listed \in SubmittedLists, t \in 0..Cardinality(User) + 1, rc \in SUBSET User :
         /\ \E keys \in SUBSET rc :
              keyFrom' = [keyFrom EXCEPT ![w] =
                            [v \in User |-> IF v \in keys THEN u ELSE NoUser]]
         /\ threshold' = [threshold EXCEPT ![w] = t]
         /\ signers' = [signers EXCEPT ![w] = Range(listed)]
         /\ recipients' = [recipients EXCEPT ![w] = rc]
  BY DEF Create
<1>2. keyFrom' \in [Wf -> [User -> User \cup {NoUser}]]
  BY <1>1 DEF TypeOK
<1>3. threshold' \in [Wf -> Nat]
  BY <1>1 DEF TypeOK
<1>4. signers' \in [Wf -> SUBSET User] /\ recipients' \in [Wf -> SUBSET User]
  BY <1>1, ListedUsers DEF TypeOK
<1>5. /\ active' \subseteq User /\ stored' \subseteq Wf /\ status' \in [Wf -> Status]
      /\ owner' \in [Wf -> User \cup {NoUser}] /\ signed' \in [Wf -> SUBSET User]
      /\ req' \in [Req -> {Idle} \cup Busy] /\ opened' \subseteq Wf \X User
  BY DEF TypeOK, Create, Status
<1> QED
  BY <1>2, <1>3, <1>4, <1>5 DEF TypeOK

\* Typing of the steps of one request.
LEMMA RequestTypeOK ==
    ASSUME TypeOK, NEW r \in Req,
           \/ \E op \in Offered, u \in User, w \in Wf : Arrive(r, op, u, w)
           \/ SignDecide(r) \/ SignCommit(r) \/ Reject(r)
           \/ DeleteCheck(r) \/ EraseCheck(r) \/ DeleteChildren(r)
           \/ EraseDrop(r) \/ DeleteCommit(r) \/ Abort(r)
    PROVE  TypeOK'
<1>1. CASE \E op \in Offered, u \in User, w \in Wf : Arrive(r, op, u, w)
  <2>1. PICK op \in Offered, u \in User, w \in Wf : Arrive(r, op, u, w)
    BY <1>1
  <2>2. [pc |-> "arrived", op |-> op, u |-> u, w |-> w, completing |-> FALSE,
         writes |-> {}, targets |-> {}, drops |-> {}] \in Busy
    BY OfferedOps DEF Busy, Ops
  <2>3. req' \in [Req -> {Idle} \cup Busy]
    BY <2>1, <2>2, AdvanceTyped DEF Arrive
  <2> QED
    BY <2>1, <2>3 DEF Arrive, TypeOK, columns
<1>2. CASE SignDecide(r)
  <2>1. req[r] \in Busy
    BY <1>2, BusyRequests DEF SignDecide
  <2>2. PICK valid \in BOOLEAN, keys \in SUBSET User :
          \/ Advance(r, [req[r] EXCEPT !.pc = "flush",
                           !.completing = IsCompletingSignature(req[r].w),
                           !.writes = keys \cap recipients[req[r].w]])
          \/ Finish(r)
    BY <1>2 DEF SignDecide
  <2>3. [req[r] EXCEPT !.pc = "flush",
            !.completing = IsCompletingSignature(req[r].w),
            !.writes = keys \cap recipients[req[r].w]] \in Busy
    <3>1. IsCompletingSignature(req[r].w) \in BOOLEAN
      BY DEF IsCompletingSignature
    <3> QED
      BY <2>1, <3>1 DEF Busy
  <2>4. req' \in [Req -> {Idle} \cup Busy]
    BY <2>2, <2>3, AdvanceTyped, FinishTyped
  <2> QED
    BY <1>2, <2>4 DEF SignDecide, TypeOK, columns
<1>3. CASE SignCommit(r)
  <2> DEFINE w == req[r].w
             u == req[r].u
             fresh == [v \in User |-> IF v \in req[r].writes THEN u ELSE keyFrom[w][v]]
             verdict == IF req[r].completing THEN "completed" ELSE status[w]
  <2>1. u \in User /\ w \in Wf
    BY <1>3, BusyRequests DEF SignCommit
  <2>2. /\ signed' = [signed EXCEPT ![w] = signed[w] \cup {u}] \/ UNCHANGED signed
        /\ keyFrom' = [keyFrom EXCEPT ![w] = fresh] \/ UNCHANGED keyFrom
        /\ status' = [status EXCEPT ![w] = verdict] \/ UNCHANGED status
    BY <1>3 DEF SignCommit, RecordSignature
  <2>3. fresh \in [User -> User \cup {NoUser}] /\ verdict \in Status
    BY <2>1 DEF TypeOK, Status
  <2> HIDE DEF fresh, verdict, w, u
  <2>4. signed' \in [Wf -> SUBSET User]
    BY <2>1, <2>2 DEF TypeOK
  <2>5. keyFrom' \in [Wf -> [User -> User \cup {NoUser}]]
    BY <2>2, <2>3 DEF TypeOK
  <2>6. status' \in [Wf -> Status]
    BY <2>2, <2>3 DEF TypeOK
  <2> QED
    BY <1>3, <2>4, <2>5, <2>6, FinishTyped DEF SignCommit, TypeOK
<1>4. CASE Reject(r)
  BY <1>4, FinishTyped DEF Reject, TypeOK, Status
<1>5. CASE DeleteCheck(r)
  <2>1. req[r] \in Busy
    BY <1>5, BusyRequests DEF DeleteCheck
  <2>2. [req[r] EXCEPT !.pc = "checked", !.targets = {req[r].w}] \in Busy
    BY <2>1 DEF Busy
  <2>3. req' \in [Req -> {Idle} \cup Busy]
    BY <1>5, <2>2, AdvanceTyped, FinishTyped DEF DeleteCheck
  <2> QED
    BY <1>5, <2>3 DEF DeleteCheck, TypeOK, columns
<1>6. CASE EraseCheck(r)
  <2>1. req[r] \in Busy
    BY <1>6, BusyRequests DEF EraseCheck
  <2>2. [req[r] EXCEPT !.pc = "checked",
            !.targets = {w \in stored : owner[w] = req[r].u /\ WorkflowIsDeletable(w)}]
        \in Busy
    BY <2>1 DEF TypeOK, Busy
  <2>3. req' \in [Req -> {Idle} \cup Busy]
    BY <1>6, <2>2, AdvanceTyped, FinishTyped DEF EraseCheck
  <2> QED
    BY <1>6, <2>3 DEF EraseCheck, TypeOK, columns
<1>7. CASE DeleteChildren(r)
  <2>1. req[r] \in Busy
    BY <1>7, BusyRequests DEF DeleteChildren
  <2>2. req' \in [Req -> {Idle} \cup Busy]
    <3>1. [req[r] EXCEPT !.pc = "children"] \in Busy
      BY <2>1 DEF Busy
    <3> QED
      BY <1>7, <3>1, AdvanceTyped DEF DeleteChildren
  <2> QED
    BY <1>7, <2>2 DEF DeleteChildren, TypeOK, columns
<1>8. CASE EraseDrop(r)
  <2>1. req[r] \in Busy
    BY <1>8, BusyRequests DEF EraseDrop
  <2>2. [req[r] EXCEPT !.pc = "dropped",
            !.drops = {w \in stored \ req[r].targets :
                         req[r].u \in recipients[w] /\ status[w] # "completed"}]
        \in Busy
    BY <2>1 DEF TypeOK, Busy
  <2>3. req' \in [Req -> {Idle} \cup Busy]
    BY <1>8, <2>2, AdvanceTyped DEF EraseDrop
  <2> QED
    BY <1>8, <2>3 DEF EraseDrop, TypeOK, columns
<1>9. CASE DeleteCommit(r)
  <2>1. recipients' \in [Wf -> SUBSET User]
    BY <1>9 DEF DeleteCommit, TypeOK
  <2> QED
    BY <1>9, <2>1, FinishTyped DEF DeleteCommit, TypeOK
<1>10. CASE Abort(r)
  BY <1>10, FinishTyped DEF Abort, TypeOK, columns
<1> QED
  BY <1>1, <1>2, <1>3, <1>4, <1>5, <1>6, <1>7, <1>8, <1>9, <1>10

\* Every step of every handler keeps the columns and the request table well typed.
LEMMA NextTypeOK == TypeOK /\ [Next]_vars => TypeOK'
<1> SUFFICES ASSUME TypeOK, [Next]_vars PROVE TypeOK'
  OBVIOUS
<1>1. CASE \E w \in Wf, u \in User : Create(w, u)
  BY <1>1, CreateTypeOK
<1>2. CASE \E w \in Wf, u \in User : Read(w, u)
  BY <1>2 DEF Read, TypeOK, columns
<1>3. CASE \E w \in Wf, u \in User : Rewrap(w, u)
  <2>1. PICK w \in Wf, u \in User : Rewrap(w, u)
    BY <1>3
  <2>2. keyFrom' \in [Wf -> [User -> User \cup {NoUser}]]
    BY <2>1 DEF Rewrap, TypeOK
  <2> QED
    BY <2>1, <2>2 DEF Rewrap, TypeOK
<1>4. CASE UNCHANGED vars
  BY <1>4 DEF vars, columns, TypeOK
<1> QED
  BY <1>1, <1>2, <1>3, <1>4, RequestTypeOK DEF Next

\* Every reachable state is well typed, whatever the sets of users, workflows
\* and requests (the columns, and the records of the handlers in flight).
THEOREM TypeCorrect == Spec => []TypeOK
  BY InitTypeOK, NextTypeOK, PTL DEF Spec

----------------------------------------------------------------------------
(***************************************************************************)
(* The inductive invariant.  StatusMatchesSignatures alone is not          *)
(* inductive: a signer decides before it commits, so the invariant must    *)
(* say that its decision is still valid at the commit, which in turn needs *)
(* the row lock to exclude every other signer, rejecter and deleter.       *)
(***************************************************************************)

\* The quorum of an existing workflow is a positive number its signers can reach.
LEMMA QuorumRange ==
    ASSUME TypeOK, RowsWellFormed, NEW w \in Wf, status[w] # "none"
    PROVE  Quorum(w) \in 1..Cardinality(signers[w])
<1>1. Cardinality(signers[w]) \in Nat
  BY UserSetsCounted DEF TypeOK
<1>2. Cardinality(signers[w]) # 0
  BY UserSetsCounted, FS_EmptySet DEF TypeOK, RowsWellFormed
<1> QED
  BY <1>1, <1>2 DEF Quorum, TypeOK, RowsWellFormed

\* The initial rows satisfy the inductive invariant: nobody has signed, nothing is released.
LEMMA InitInv == Init => Inv
<1> SUFFICES ASSUME Init PROVE Inv
  OBVIOUS
<1>1. TypeOK
  BY InitTypeOK
<1>2. RowsWellFormed
  <2>1. \A w \in Wf : Cardinality(signers[w]) \in Nat
    BY <1>1, UserSetsCounted DEF TypeOK
  <2> QED
    BY <2>1 DEF Init, RowsWellFormed
<1>3. StatusMatchesSignatures
  <2>1. Cardinality({}) = 0
    BY FS_EmptySet
  <2>2. \A w \in Wf : status[w] # "none" => Quorum(w) \in Nat \ {0}
    <3>1. \A w \in Wf : Cardinality(signers[w]) \in Nat
      BY <1>1, UserSetsCounted DEF TypeOK
    <3> QED
      BY <1>1, <1>2, <3>1, QuorumRange
  <2>3. \A w \in Wf : signed[w] = {} /\ status[w] \in {"none", "pending"}
    BY DEF Init
  <2> QED
    BY <2>1, <2>2, <2>3 DEF StatusMatchesSignatures
<1>4. ReleasedRecipientsKeyed
  BY DEF Init, ReleasedRecipientsKeyed
<1>5. DecisionStillValid
  BY DEF Init, DecisionStillValid, Idle
<1> QED
  BY <1>1, <1>2, <1>3, <1>4, <1>5 DEF Inv

\* A step that writes no row and leaves no new signer behind keeps the invariant.
LEMMA ReaderStep ==
    ASSUME Inv, TypeOK', NEW r \in Req, UNCHANGED <<stored, columns>>,
           \A q \in Req \ {r} : req'[q] = req[q],
           req'[r].pc # "flush"
    PROVE  Inv'
<1>1. RowsWellFormed' /\ StatusMatchesSignatures' /\ ReleasedRecipientsKeyed'
  BY DEF Inv, columns, RowsWellFormed, StatusMatchesSignatures, Quorum,
         ReleasedRecipientsKeyed
<1>2. DecisionStillValid'
  <2> SUFFICES ASSUME NEW q \in Req, req'[q].pc = "flush"
               PROVE  DecisionValid(q)'
    BY DEF DecisionStillValid
  <2>1. q # r /\ req'[q] = req[q] /\ DecisionValid(q)
    BY DEF Inv, DecisionStillValid
  <2>2. \A p \in Req \ {q} : ~ LocksWorkflow(p, req[q].w)'
    BY <2>1 DEF DecisionValid, LocksWorkflow
  <2> QED
    BY <2>1, <2>2 DEF DecisionValid, columns, IsCompletingSignature, Quorum, LocksWorkflow
<1> QED
  BY <1>1, <1>2 DEF Inv

\* A workflow somebody is signing is not being signed by anybody else.
LEMMA SoleSigner ==
    ASSUME Inv, NEW r \in Req, NEW q \in Req, q # r,
           req[r].pc = "flush", req[q].pc = "flush"
    PROVE  req[q].w # req[r].w
  BY DEF Inv, DecisionStillValid, DecisionValid, LocksWorkflow

\* A step that rewrites the rows of workflows nobody is signing afterwards keeps
\* every decision in flight valid.
LEMMA OtherDecisionsKept ==
    ASSUME Inv, NEW q \in Req, req[q].pc = "flush", req'[q] = req[q],
           \A p \in Req : req'[p] = req[p] \/ req'[p].pc # "flush",
           req[q].w \in stored',
           LET w == req[q].w
           IN  /\ status'[w] = status[w] /\ threshold'[w] = threshold[w]
               /\ signers'[w] = signers[w] /\ signed'[w] = signed[w]
               /\ recipients'[w] \subseteq recipients[w]
               /\ \A v \in recipients'[w] : keyFrom[w][v] # NoUser => keyFrom'[w][v] # NoUser
    PROVE  DecisionValid(q)'
<1>1. DecisionValid(q)
  BY DEF Inv, DecisionStillValid
<1>2. \A p \in Req \ {q} : ~ LocksWorkflow(p, req[q].w)'
  BY <1>1 DEF DecisionValid, LocksWorkflow
<1>3. IsCompletingSignature(req[q].w)' <=> IsCompletingSignature(req[q].w)
  BY DEF IsCompletingSignature, Quorum
<1> QED
  BY <1>1, <1>2, <1>3 DEF DecisionValid

\* What sign_multisig_workflow checks under the row lock makes its decision valid.
LEMMA SignDecideInv ==
    ASSUME Inv, TypeOK', NEW r \in Req, SignDecide(r)
    PROVE  Inv'
<1> DEFINE w == req[r].w
           u == req[r].u
<1>0. TypeOK /\ req[r].pc # "idle"
  BY DEF Inv, SignDecide
<1>1. u \in User /\ w \in Wf /\ req[r] \in Busy
  BY <1>0, BusyRequests
<1>2. UNCHANGED <<stored, columns>>
  BY DEF SignDecide, columns
<1>3. PICK valid \in BOOLEAN, keys \in SUBSET User :
         \/ /\ w \in stored /\ SignAccepted(w, u, valid, keys)
            /\ Advance(r, [req[r] EXCEPT !.pc = "flush",
                             !.completing = IsCompletingSignature(w),
                             !.writes = keys \cap recipients[w]])
         \/ Finish(r)
  BY DEF SignDecide
<1>4. CASE Finish(r)
  <2>1. req'[r] = Idle /\ \A q \in Req \ {r} : req'[q] = req[q]
    BY <1>0, <1>4, FinishTyped
  <2> QED
    BY <1>2, <2>1, ReaderStep DEF Idle
<1>5. CASE /\ w \in stored /\ SignAccepted(w, u, valid, keys)
           /\ Advance(r, [req[r] EXCEPT !.pc = "flush",
                            !.completing = IsCompletingSignature(w),
                            !.writes = keys \cap recipients[w]])
  <2> DEFINE next == [req[r] EXCEPT !.pc = "flush",
                         !.completing = IsCompletingSignature(w),
                         !.writes = keys \cap recipients[w]]
  <2>1. /\ next.pc = "flush" /\ next.w = w /\ next.u = u
        /\ next.completing <=> IsCompletingSignature(w)
        /\ next.writes = keys \cap recipients[w]
    <3>1. IsCompletingSignature(w) \in BOOLEAN
      BY DEF IsCompletingSignature
    <3> QED
      BY <1>1, <3>1 DEF Busy
  <2> HIDE DEF next
  <2>2. req'[r] = next /\ \A q \in Req \ {r} : req'[q] = req[q]
    BY <1>0, <1>5 DEF Advance, TypeOK, next
  <2>3. RowsWellFormed' /\ StatusMatchesSignatures' /\ ReleasedRecipientsKeyed'
    BY <1>2 DEF Inv, columns, RowsWellFormed, StatusMatchesSignatures, Quorum,
                ReleasedRecipientsKeyed
  <2>4. \A q \in Req \ {r} : req[q].pc = "flush" => req[q].w # w
    BY DEF SignDecide, WorkflowFree, LocksWorkflow
  <2>5. DecisionValid(r)'
    <3>1. IsCompletingSignature(w) <=> IsCompletingSignature(req[r].w)'
      BY <1>2, <2>1, <2>2 DEF IsCompletingSignature, Quorum, columns
    <3>2. \A q \in Req \ {r} : ~ LocksWorkflow(q, req[r].w)'
      BY <2>1, <2>2, <2>4 DEF LocksWorkflow
    <3>3. /\ w \in stored /\ status[w] = "pending" /\ u \in signers[w] \ signed[w]
          /\ keys # {} => IsCompletingSignature(w)
          /\ IsCompletingSignature(w) =>
                \A v \in recipients[w] : v \in keys \/ keyFrom[w][v] # NoUser
      BY <1>5 DEF SignAccepted, ReleaseAccepted
    <3> HIDE DEF w, u
    <3>4. /\ req'[r].w = w /\ req'[r].u = u
          /\ req'[r].completing <=> IsCompletingSignature(w)
          /\ req'[r].writes = keys \cap recipients[w]
      BY <2>1, <2>2
    <3> QED
      BY <1>2, <3>1, <3>2, <3>3, <3>4 DEF DecisionValid, columns
  <2>6. ASSUME NEW q \in Req \ {r}, req'[q].pc = "flush" PROVE DecisionValid(q)'
    <3>1. req'[q] = req[q] /\ req[q].pc = "flush" /\ DecisionValid(q) /\ req[q].w # w
      BY <2>2, <2>4, <2>6 DEF Inv, DecisionStillValid
    <3>2. \A p \in Req \ {q} : ~ LocksWorkflow(p, req[q].w)'
      BY <2>1, <2>2, <3>1 DEF DecisionValid, LocksWorkflow
    <3>3. IsCompletingSignature(req[q].w)' <=> IsCompletingSignature(req[q].w)
      BY <1>2, <3>1 DEF IsCompletingSignature, Quorum, columns
    <3> QED
      BY <1>2, <3>1, <3>2, <3>3 DEF DecisionValid, columns
  <2> QED
    BY <2>3, <2>5, <2>6 DEF Inv, DecisionStillValid
<1> QED
  BY <1>3, <1>4, <1>5

\* A signature that commits keeps status, signatures and keys in agreement, and
\* disturbs no other signer's decision.
LEMMA SignCommitInv ==
    ASSUME Inv, TypeOK', NEW r \in Req, SignCommit(r)
    PROVE  Inv'
<1> DEFINE w == req[r].w
           u == req[r].u
<1>0. TypeOK /\ req[r].pc = "flush"
  BY DEF Inv, SignCommit
<1>1. u \in User /\ w \in Wf /\ req[r].completing \in BOOLEAN
  BY <1>0, BusyRequests
<1>2. req'[r] = Idle /\ \A q \in Req \ {r} : req'[q] = req[q]
  BY <1>0, FinishTyped DEF SignCommit
<1>3. UNCHANGED <<stored, threshold, owner, signers, recipients>>
  BY DEF SignCommit
<1>4. CASE UNCHANGED <<signed, keyFrom, status>>
  BY <1>2, <1>3, <1>4, ReaderStep DEF columns, Idle
<1>5. CASE RecordSignature(r, w)
  <2>1. DecisionValid(r)
    BY <1>0 DEF Inv, DecisionStillValid
  <2>2. /\ signed'[w] = signed[w] \cup {u}
        /\ status'[w] = IF req[r].completing THEN "completed" ELSE status[w]
        /\ \A v \in User :
             keyFrom'[w][v] = IF v \in req[r].writes THEN u ELSE keyFrom[w][v]
    BY <1>0, <1>1, <1>5 DEF RecordSignature, TypeOK
  <2>3. \A x \in Wf \ {w} : /\ signed'[x] = signed[x] /\ status'[x] = status[x]
                           /\ keyFrom'[x] = keyFrom[x]
    BY <1>0, <1>1, <1>5 DEF RecordSignature, TypeOK
  <2>4. Cardinality(signed[w] \cup {u}) = Cardinality(signed[w]) + 1
    BY <1>0, <1>1, <2>1, OneMoreSignature DEF DecisionValid, TypeOK
  <2>5. \A x \in Wf : Quorum(x)' = Quorum(x)
    BY <1>3 DEF Quorum
  <2>6. RowsWellFormed'
    BY <1>1, <1>3, <2>1, <2>2, <2>3 DEF Inv, RowsWellFormed, DecisionValid
  <2>7. StatusMatchesSignatures'
    <3>1. \A x \in Wf : Cardinality(signed[x]) \in Nat
      BY <1>0, UserSetsCounted DEF TypeOK
    <3>2. Quorum(w) \in Nat
      <4>1. Cardinality(signers[w]) \in Nat
        BY <1>0, <1>1, UserSetsCounted DEF TypeOK
      <4> QED
        BY <1>0, <1>1, <4>1 DEF Quorum, TypeOK
    <3>3. /\ status'[w] = "completed" => Cardinality(signed'[w]) >= Quorum(w)
          /\ status'[w] \in {"pending", "rejected"} => Cardinality(signed'[w]) < Quorum(w)
      BY <1>1, <2>1, <2>2, <2>4, <3>1, <3>2 DEF DecisionValid, IsCompletingSignature
    <3> HIDE DEF w
    <3> QED
      BY <1>1, <2>3, <2>5, <3>3 DEF Inv, StatusMatchesSignatures
  <2>8. ReleasedRecipientsKeyed'
    <3>1. status'[w] = "completed" => \A v \in recipients[w] : keyFrom'[w][v] # NoUser
      BY <1>0, <1>1, <2>1, <2>2, NoUserNotUser DEF DecisionValid, TypeOK
    <3> HIDE DEF w
    <3> QED
      BY <1>1, <1>3, <2>3, <3>1 DEF Inv, ReleasedRecipientsKeyed
  <2>9. ASSUME NEW q \in Req, req'[q].pc = "flush" PROVE DecisionValid(q)'
    <3>1. q # r /\ req'[q] = req[q] /\ req[q].pc = "flush"
      BY <1>2, <2>9 DEF Idle
    <3>2. req[q].w # w /\ req[q].w \in Wf
      BY <1>0, <3>1, SoleSigner, BusyRequests
    <3>3. req[q].w \in stored
      BY <3>1 DEF Inv, DecisionStillValid, DecisionValid
    <3>4. \A p \in Req : req'[p] = req[p] \/ req'[p].pc # "flush"
      BY <1>2 DEF Idle
    <3> QED
      BY <1>3, <2>3, <3>1, <3>2, <3>3, <3>4, OtherDecisionsKept
  <2> QED
    BY <2>6, <2>7, <2>8, <2>9 DEF Inv, DecisionStillValid
<1> QED
  BY <1>4, <1>5 DEF SignCommit

\* A rejection keeps the invariant: it needs the row nobody is signing.
LEMMA RejectInv ==
    ASSUME Inv, TypeOK', NEW r \in Req, Reject(r)
    PROVE  Inv'
<1> DEFINE w == req[r].w
<1>0. TypeOK /\ req[r].pc = "arrived"
  BY DEF Inv, Reject
<1>1. w \in Wf
  BY <1>0, BusyRequests
<1>2. req'[r] = Idle /\ \A q \in Req \ {r} : req'[q] = req[q]
  BY <1>0, FinishTyped DEF Reject
<1>3. UNCHANGED <<stored, threshold, signers, signed, recipients, keyFrom>>
  BY DEF Reject
<1>4. /\ \A x \in Wf \ {w} : status'[x] = status[x]
      /\ \/ status'[w] = status[w]
         \/ status[w] = "pending" /\ status'[w] = "rejected"
  BY <1>0, <1>1 DEF Reject, RejectAccepted, TypeOK
<1>5. RowsWellFormed'
  BY <1>3, <1>4 DEF Inv, RowsWellFormed
<1>6. StatusMatchesSignatures'
  BY <1>3, <1>4 DEF Inv, StatusMatchesSignatures, Quorum
<1>7. ReleasedRecipientsKeyed'
  BY <1>3, <1>4 DEF Inv, ReleasedRecipientsKeyed
<1>8. ASSUME NEW q \in Req, req'[q].pc = "flush" PROVE DecisionValid(q)'
  <2>1. q # r /\ req'[q] = req[q] /\ req[q].pc = "flush"
    BY <1>2, <1>8 DEF Idle
  <2>2. req[q].w # w /\ req[q].w \in Wf
    BY <1>0, <2>1, BusyRequests DEF Reject, WorkflowFree, LocksWorkflow
  <2>3. req[q].w \in stored
    BY <2>1 DEF Inv, DecisionStillValid, DecisionValid
  <2>4. \A p \in Req : req'[p] = req[p] \/ req'[p].pc # "flush"
    BY <1>2 DEF Idle
  <2> QED
    BY <1>3, <1>4, <2>1, <2>2, <2>3, <2>4, OtherDecisionsKept
<1> QED
  BY <1>5, <1>6, <1>7, <1>8 DEF Inv, DecisionStillValid

\* A delete or an erase that commits leaves every signer's decision valid: it waited
\* for the workflow rows that signers hold.
LEMMA DeleteCommitInv ==
    ASSUME Inv, TypeOK', NEW r \in Req, DeleteCommit(r)
    PROVE  Inv'
<1>0. TypeOK /\ req[r].pc \notin {"idle", "flush"}
  BY DEF Inv, DeleteCommit, ReadyToCommit
<1>1. req[r].targets \subseteq Wf
  BY <1>0, BusyRequests
<1>2. req'[r] = Idle /\ \A q \in Req \ {r} : req'[q] = req[q]
  BY <1>0, FinishTyped DEF DeleteCommit
<1>3. UNCHANGED <<status, threshold, signers, signed, keyFrom>>
  BY DEF DeleteCommit
<1>4. stored' = stored \ req[r].targets
  BY DEF DeleteCommit
<1>5. \A w \in Wf : recipients'[w] \subseteq recipients[w]
  BY DEF DeleteCommit
<1>6. RowsWellFormed'
  BY <1>3, <1>4 DEF Inv, RowsWellFormed
<1>7. StatusMatchesSignatures'
  BY <1>3 DEF Inv, StatusMatchesSignatures, Quorum
<1>8. ReleasedRecipientsKeyed'
  BY <1>3, <1>5 DEF Inv, ReleasedRecipientsKeyed
<1>9. ASSUME NEW q \in Req, req'[q].pc = "flush" PROVE DecisionValid(q)'
  <2>1. q # r /\ req'[q] = req[q] /\ req[q].pc = "flush"
    BY <1>2, <1>9 DEF Idle
  <2>2. req[q].w \in Wf
    BY <1>0, <2>1, BusyRequests
  <2>3. req[q].w \in stored
    BY <2>1 DEF Inv, DecisionStillValid, DecisionValid
  <2>4. req[q].w \notin req[r].targets
    BY <2>1, <2>3 DEF DeleteCommit, WorkflowFree, LocksWorkflow
  <2>5. \A p \in Req : req'[p] = req[p] \/ req'[p].pc # "flush"
    BY <1>2 DEF Idle
  <2> QED
    BY <1>3, <1>4, <1>5, <2>1, <2>2, <2>3, <2>4, <2>5, OtherDecisionsKept
<1> QED
  BY <1>6, <1>7, <1>8, <1>9 DEF Inv, DecisionStillValid

\* A new workflow has signers, a threshold they can reach, and no signature yet.
LEMMA CreateInv ==
    ASSUME Inv, TypeOK', NEW w \in Wf, NEW u \in User, Create(w, u)
    PROVE  Inv'
<1>0. TypeOK /\ status[w] = "none" /\ w \notin stored /\ signed[w] = {}
  BY DEF Inv, Create, RowsWellFormed
<1>1. PICK listed \in SubmittedLists, t \in 0..Cardinality(User) + 1 :
         /\ CreationAccepted(listed, t)
         /\ threshold' = [threshold EXCEPT ![w] = t]
         /\ signers' = [signers EXCEPT ![w] = Range(listed)]
  BY DEF Create
<1>2. /\ stored' = stored \cup {w} /\ UNCHANGED <<signed, req>>
      /\ status' = [status EXCEPT ![w] = "pending"]
  BY DEF Create
<1>3. /\ \A x \in Wf \ {w} : /\ status'[x] = status[x] /\ threshold'[x] = threshold[x]
                           /\ signers'[x] = signers[x] /\ recipients'[x] = recipients[x]
                           /\ keyFrom'[x] = keyFrom[x]
      /\ status'[w] = "pending" /\ threshold'[w] = t /\ signers'[w] = Range(listed)
  BY <1>0, <1>1, <1>2 DEF Create, TypeOK
<1>4. t \in 1..Cardinality(Range(listed)) /\ Cardinality(Range(listed)) \in Nat
  BY <1>1, ListedUsers, UserSetsCounted DEF CreationAccepted
<1>5. Range(listed) # {}
  BY <1>4, FS_EmptySet
<1>6. RowsWellFormed'
  BY <1>0, <1>2, <1>3, <1>4, <1>5 DEF Inv, RowsWellFormed
<1>7. StatusMatchesSignatures'
  <2>1. Cardinality({}) = 0
    BY FS_EmptySet
  <2>2. Quorum(w)' = t
    BY <1>3, <1>4 DEF Quorum
  <2>3. \A x \in Wf \ {w} : Quorum(x)' = Quorum(x)
    BY <1>3 DEF Quorum
  <2>4. signed'[w] = {} /\ \A x \in Wf : signed'[x] = signed[x]
    BY <1>0, <1>2
  <2>5. Cardinality(signed'[w]) < Quorum(w)'
    BY <1>4, <2>1, <2>2, <2>4
  <2>6. \A x \in Wf \ {w} : /\ status'[x] = status[x] /\ Quorum(x)' = Quorum(x)
                           /\ Cardinality(signed'[x]) = Cardinality(signed[x])
    BY <1>3, <2>3, <2>4
  <2> QED
    BY <1>3, <2>5, <2>6 DEF Inv, StatusMatchesSignatures
<1>8. ReleasedRecipientsKeyed'
  BY <1>3 DEF Inv, ReleasedRecipientsKeyed
<1>9. ASSUME NEW q \in Req, req'[q].pc = "flush" PROVE DecisionValid(q)'
  <2>1. req'[q] = req[q] /\ req[q].pc = "flush"
    BY <1>2, <1>9
  <2>2. req[q].w \in Wf /\ req[q].w \in stored
    BY <1>0, <2>1, BusyRequests DEF Inv, DecisionStillValid, DecisionValid
  <2>3. req[q].w # w
    BY <1>0, <2>2
  <2> QED
    BY <1>2, <1>3, <2>1, <2>2, <2>3, OtherDecisionsKept
<1> QED
  BY <1>6, <1>7, <1>8, <1>9 DEF Inv, DecisionStillValid

\* Re-wrapping replaces a key by a key, so no recipient loses one.
LEMMA RewrapInv ==
    ASSUME Inv, TypeOK', NEW w \in Wf, NEW u \in User, Rewrap(w, u)
    PROVE  Inv'
<1>0. TypeOK
  BY DEF Inv
<1>1. UNCHANGED <<stored, status, threshold, signers, signed, recipients, req>>
  BY DEF Rewrap
<1>2. \A x \in Wf, v \in User : keyFrom[x][v] # NoUser => keyFrom'[x][v] # NoUser
  <2>1. keyFrom' = [keyFrom EXCEPT ![w] = [keyFrom[w] EXCEPT ![u] = u]]
    BY <1>0 DEF Rewrap, TypeOK
  <2>2. [keyFrom[w] EXCEPT ![u] = u][u] = u
    BY <1>0 DEF TypeOK
  <2> QED
    BY <1>0, <2>1, <2>2, NoUserNotUser DEF TypeOK
<1>3. RowsWellFormed' /\ StatusMatchesSignatures'
  BY <1>1 DEF Inv, RowsWellFormed, StatusMatchesSignatures, Quorum
<1>4. ReleasedRecipientsKeyed'
  BY <1>0, <1>1, <1>2 DEF Inv, ReleasedRecipientsKeyed, TypeOK
<1>5. ASSUME NEW q \in Req, req'[q].pc = "flush" PROVE DecisionValid(q)'
  <2>1. req'[q] = req[q] /\ req[q].pc = "flush"
    BY <1>1, <1>5
  <2>2. req[q].w \in Wf /\ req[q].w \in stored
    BY <1>0, <2>1, BusyRequests DEF Inv, DecisionStillValid, DecisionValid
  <2>3. recipients[req[q].w] \subseteq User
    BY <1>0, <2>2 DEF TypeOK
  <2> QED
    BY <1>1, <1>2, <2>1, <2>2, <2>3, OtherDecisionsKept
<1> QED
  BY <1>3, <1>4, <1>5 DEF Inv, DecisionStillValid

\* The invariant is inductive: every step of every handler keeps it.
LEMMA NextInv == Inv /\ [Next]_vars => Inv'
<1> SUFFICES ASSUME Inv, [Next]_vars PROVE Inv'
  OBVIOUS
<1>0. TypeOK /\ TypeOK'
  BY NextTypeOK DEF Inv
<1>1. CASE \E w \in Wf, u \in User : Create(w, u)
  BY <1>0, <1>1, CreateInv
<1>2. CASE \E w \in Wf, u \in User : Rewrap(w, u)
  BY <1>0, <1>2, RewrapInv
<1>3. CASE UNCHANGED vars \/ \E w \in Wf, u \in User : Read(w, u)
  <2>1. UNCHANGED <<stored, columns, req>>
    BY <1>3 DEF Read, vars, columns
  <2>2. RowsWellFormed' /\ StatusMatchesSignatures' /\ ReleasedRecipientsKeyed'
    BY <2>1 DEF Inv, columns, RowsWellFormed, StatusMatchesSignatures, Quorum,
                ReleasedRecipientsKeyed
  <2>3. DecisionStillValid'
    BY <2>1 DEF Inv, columns, DecisionStillValid, DecisionValid, LocksWorkflow,
                IsCompletingSignature, Quorum
  <2> QED
    BY <1>0, <2>2, <2>3 DEF Inv
<1>4. ASSUME NEW r \in Req, \E op \in Offered, u \in User, w \in Wf : Arrive(r, op, u, w)
      PROVE  Inv'
  <2>1. /\ req'[r].pc = "arrived"
        /\ UNCHANGED <<stored, columns>>
        /\ \A q \in Req \ {r} : req'[q] = req[q]
    BY <1>0, <1>4 DEF Arrive, Advance, TypeOK, columns
  <2> QED
    BY <1>0, <2>1, ReaderStep
<1>5. ASSUME NEW r \in Req,
             DeleteCheck(r) \/ EraseCheck(r) \/ DeleteChildren(r) \/ EraseDrop(r) \/ Abort(r)
      PROVE  Inv'
  <2>1. UNCHANGED <<stored, columns>>
    BY <1>5 DEF DeleteCheck, EraseCheck, DeleteChildren, EraseDrop, Abort, columns
  <2>2. CASE Finish(r)
    BY <1>0, <2>1, <2>2, FinishTyped, ReaderStep DEF Idle
  <2>3. CASE \E next : next.pc # "flush" /\ Advance(r, next)
    BY <1>0, <2>1, <2>3, ReaderStep DEF Advance, TypeOK
  <2>4. \A s : /\ [req[r] EXCEPT !.pc = "checked", !.targets = s].pc # "flush"
              /\ [req[r] EXCEPT !.pc = "dropped", !.drops = s].pc # "flush"
              /\ [req[r] EXCEPT !.pc = "children"].pc # "flush"
    <3>1. req[r] \in Busy
      BY <1>0, <1>5, BusyRequests
         DEF DeleteCheck, EraseCheck, DeleteChildren, EraseDrop, Abort
    <3> QED
      BY <3>1 DEF Busy
  <2>5. CASE DeleteCheck(r)
    BY <2>2, <2>3, <2>4, <2>5 DEF DeleteCheck
  <2>6. CASE EraseCheck(r)
    BY <2>2, <2>3, <2>4, <2>6 DEF EraseCheck
  <2>7. CASE DeleteChildren(r)
    BY <2>3, <2>4, <2>7 DEF DeleteChildren
  <2>8. CASE EraseDrop(r)
    BY <2>3, <2>4, <2>8 DEF EraseDrop
  <2>9. CASE Abort(r)
    BY <2>2, <2>9 DEF Abort
  <2> QED
    BY <1>5, <2>5, <2>6, <2>7, <2>8, <2>9
<1>6. ASSUME NEW r \in Req, SignDecide(r) \/ SignCommit(r) \/ Reject(r) \/ DeleteCommit(r)
      PROVE  Inv'
  BY <1>0, <1>6, SignDecideInv, SignCommitInv, RejectInv, DeleteCommitInv
<1> QED
  BY <1>1, <1>2, <1>3, <1>4, <1>5, <1>6 DEF Next

\* The inductive invariant holds throughout: in particular what a signer checked
\* under the FOR UPDATE lock still holds when its transaction commits.
THEOREM Invariance == Spec => []Inv
  BY InitInv, NextInv, PTL DEF Spec

\* A workflow is completed exactly when its signatures reach the quorum, for any
\* number of concurrent signers, rejecters, deleters and crashes (KRY-005).
THEOREM StatusAgrees == Spec => []StatusMatchesSignatures
<1>1. Inv => StatusMatchesSignatures
  BY DEF Inv
<1> QED
  BY <1>1, Invariance, PTL

\* A completed workflow leaves no remaining recipient without a wrapped key.
THEOREM RecipientsKeyed == Spec => []ReleasedRecipientsKeyed
<1>1. Inv => ReleasedRecipientsKeyed
  BY DEF Inv
<1> QED
  BY <1>1, Invariance, PTL

\* What a signer decided under the row lock is still true at its commit.
THEOREM DecisionsHold == Spec => []DecisionStillValid
<1>1. Inv => DecisionStillValid
  BY DEF Inv
<1> QED
  BY <1>1, Invariance, PTL

\* A pending workflow can always still reach its quorum.
THEOREM QuorumStaysReachable == Spec => []QuorumReachable
<1>1. Inv => QuorumReachable
  <2> SUFFICES ASSUME Inv, NEW w \in Wf, status[w] = "pending"
               PROVE  Quorum(w) <= Cardinality(signers[w])
    BY DEF QuorumReachable
  <2>1. Cardinality(signers[w]) \in Nat
    BY UserSetsCounted DEF Inv, TypeOK
  <2> QED
    BY <2>1, QuorumRange DEF Inv
<1> QED
  BY <1>1, Invariance, PTL

----------------------------------------------------------------------------
(***************************************************************************)
(* What a step may do to the verdict, the keys and the abstract decision.  *)
(***************************************************************************)

\* The steps that can change a status: a creation, an effective signature and an
\* effective rejection, each on a workflow that was not yet decided.
LEMMA StatusSteps ==
    ASSUME Inv, [Next]_vars
    PROVE  \/ UNCHANGED <<status, threshold, signers, signed>>
           \/ \E w \in Wf, u \in User : Create(w, u)
           \/ \E r \in Req : SignCommit(r) /\ RecordSignature(r, req[r].w)
           \/ \E r \in Req : Reject(r)
  BY DEF Next, vars, columns, Read, Rewrap, Arrive, SignDecide, SignCommit, DeleteCheck,
         EraseCheck, DeleteChildren, EraseDrop, DeleteCommit, Abort

\* A verdict outlives every step, those of requests that read before it included.
LEMMA VerdictKept ==
    ASSUME Inv, [Next]_vars, NEW w \in Wf, status[w] \in {"completed", "rejected"}
    PROVE  status'[w] = status[w]
<1>0. TypeOK
  BY DEF Inv
<1>1. CASE UNCHANGED <<status, threshold, signers, signed>>
  BY <1>1
<1>2. CASE \E x \in Wf, u \in User : Create(x, u)
  BY <1>0, <1>2 DEF Create, TypeOK
<1>3. CASE \E r \in Req : SignCommit(r) /\ RecordSignature(r, req[r].w)
  <2>1. PICK r \in Req : SignCommit(r) /\ RecordSignature(r, req[r].w)
    BY <1>3
  <2>2. status[req[r].w] = "pending"
    BY <2>1 DEF Inv, DecisionStillValid, DecisionValid, SignCommit
  <2> QED
    BY <1>0, <2>1, <2>2 DEF RecordSignature, TypeOK
<1>4. CASE \E r \in Req : Reject(r)
  BY <1>0, <1>4 DEF Reject, RejectAccepted, TypeOK
<1> QED
  BY <1>1, <1>2, <1>3, <1>4, StatusSteps

\* Completed and rejected are final for every step of every request.
THEOREM VerdictIsFinal == Spec => DecisionIsFinal
<1> DEFINE Kept == \A w \in Wf :
                     status[w] \in {"completed", "rejected"} => status'[w] = status[w]
<1>1. Inv /\ [Next]_vars => [Kept]_vars
  BY VerdictKept
<1> QED
  BY <1>1, Invariance, PTL DEF Spec, DecisionIsFinal

\* A recipient who is no signer opens the secret after a full quorum only: at the read,
\* and for good, since neither the verdict nor a signature is taken back.
THEOREM OpenedBehindQuorum == Spec => []ReadBehindQuorum
<1> DEFINE Behind == \A w \in Wf, u \in User : <<w, u>> \in opened => status[w] = "completed"
<1>1. Init => Behind
  BY DEF Init
<1>2. Inv /\ Behind /\ [Next]_vars => Behind'
  <2> SUFFICES ASSUME Inv, Behind, [Next]_vars, NEW w \in Wf, NEW u \in User,
                      <<w, u>> \in opened'
               PROVE  status'[w] = "completed"
    OBVIOUS
  <2>1. CASE <<w, u>> \in opened
    BY <2>1, VerdictKept
  <2>2. CASE <<w, u>> \notin opened
    <3>1. PICK x \in Wf, v \in User : Read(x, v)
      BY <2>2 DEF Next, vars, columns, Create, Rewrap, Arrive, SignDecide, SignCommit,
         Reject, DeleteCheck, EraseCheck, DeleteChildren, EraseDrop, DeleteCommit, Abort
    <3>2. x = w /\ v = u /\ status[w] = "completed"
      BY <2>2, <3>1 DEF Read, CanReadWorkflow
    <3> QED
      BY <3>1, <3>2 DEF Read, columns
  <2> QED
    BY <2>1, <2>2
<1>3. Inv /\ Behind => ReadBehindQuorum
  BY DEF Inv, StatusMatchesSignatures, ReadBehindQuorum
<1> QED
  BY <1>1, <1>2, <1>3, Invariance, PTL DEF Spec

\* A recipient's key changes only in the completing step, or by its own holder.
THEOREM KeysChangeAtRelease == Spec => KeysOnlyAtRelease
<1> DEFINE Rule == \A w \in Wf, u \in User :
                     (status[w] # "none" /\ keyFrom'[w][u] # keyFrom[w][u]) =>
                         \/ status[w] = "pending" /\ status'[w] = "completed"
                         \/ keyFrom'[w][u] = u /\ keyFrom[w][u] # NoUser
<1>1. Inv /\ [Next]_vars => Rule
  <2> SUFFICES ASSUME Inv, [Next]_vars, NEW w \in Wf, NEW u \in User,
                      status[w] # "none", keyFrom'[w][u] # keyFrom[w][u]
               PROVE  \/ status[w] = "pending" /\ status'[w] = "completed"
                      \/ keyFrom'[w][u] = u /\ keyFrom[w][u] # NoUser
    OBVIOUS
  <2>0. TypeOK
    BY DEF Inv
  <2>1. CASE \E x \in Wf, v \in User : Create(x, v)
    <3>1. PICK x \in Wf, v \in User : Create(x, v)
      BY <2>1
    <3>2. x # w
      BY <3>1 DEF Create
    <3>3. keyFrom'[w] = keyFrom[w]
      BY <2>0, <3>1, <3>2 DEF Create, TypeOK
    <3> QED
      BY <3>3
  <2>2. CASE \E x \in Wf, v \in User : Rewrap(x, v)
    <3>1. PICK x \in Wf, v \in User : Rewrap(x, v)
      BY <2>2
    <3>2. keyFrom' = [keyFrom EXCEPT ![x] = [keyFrom[x] EXCEPT ![v] = v]]
      BY <2>0, <3>1 DEF Rewrap, TypeOK
    <3>3. w = x /\ u = v
      BY <2>0, <3>2 DEF TypeOK
    <3>4. keyFrom'[w][u] = u
      BY <2>0, <3>2, <3>3 DEF TypeOK
    <3> QED
      BY <3>1, <3>3, <3>4 DEF Rewrap
  <2>3. CASE \E r \in Req : SignCommit(r) /\ RecordSignature(r, req[r].w)
    <3>1. PICK r \in Req : SignCommit(r) /\ RecordSignature(r, req[r].w)
      BY <2>3
    <3>2. DecisionValid(r) /\ req[r].w \in Wf
      BY <2>0, <3>1, BusyRequests DEF Inv, DecisionStillValid, SignCommit
    <3>3. keyFrom' = [keyFrom EXCEPT ![req[r].w] =
                        [v \in User |-> IF v \in req[r].writes THEN req[r].u
                                         ELSE keyFrom[req[r].w][v]]]
      BY <3>1 DEF RecordSignature
    <3>4. w = req[r].w /\ u \in req[r].writes
      BY <2>0, <3>2, <3>3 DEF TypeOK
    <3> QED
      BY <2>0, <3>1, <3>2, <3>4 DEF DecisionValid, RecordSignature, TypeOK
  <2>4. \/ UNCHANGED keyFrom
        \/ \E x \in Wf, v \in User : Create(x, v)
        \/ \E x \in Wf, v \in User : Rewrap(x, v)
        \/ \E r \in Req : SignCommit(r) /\ RecordSignature(r, req[r].w)
    BY DEF Next, vars, columns, Read, Arrive, SignDecide, SignCommit, Reject, DeleteCheck,
           EraseCheck, DeleteChildren, EraseDrop, DeleteCommit, Abort
  <2> QED
    BY <2>1, <2>2, <2>3, <2>4
<1>2. Inv /\ [Next]_vars => [Rule]_vars
  BY <1>1
<1> QED
  BY <1>2, Invariance, PTL DEF Spec, KeysOnlyAtRelease

\* The abstract specification counts with the same operator.
LEMMA SameCount == \A S : Decision!Cardinality(S) = Cardinality(S)
  BY DEF Cardinality, Decision!Cardinality

\* The initial rows are an initial state of the abstract decision.
LEMMA DecisionInit == Init => Decision!Init
<1> SUFFICES ASSUME Init PROVE Decision!Init
  OBVIOUS
<1>1. TypeOK /\ RowsWellFormed
  BY InitInv DEF Inv
<1>2. \A w \in Wf : status[w] = "pending" \/ status[w] = "none"
  BY DEF Init
<1>3. \A w \in Wf : status[w] = "none" => Quorum(w) = 0 /\ signers[w] = {}
  BY <1>1, FS_EmptySet DEF RowsWellFormed, Quorum
<1>4. \A w \in Wf : status[w] = "pending" => Quorum(w) \in 1..Cardinality(signers[w])
  BY <1>1, QuorumRange
<1>5. \A w \in Wf : Quorum(w) \in 0..Cardinality(User)
  <2> SUFFICES ASSUME NEW w \in Wf PROVE Quorum(w) \in 0..Cardinality(User)
    OBVIOUS
  <2>1. Cardinality(User) \in Nat
    BY UserSetsCounted
  <2>2. Cardinality(signers[w]) \in Nat /\ Cardinality(signers[w]) <= Cardinality(User)
    BY <1>1, UserFinite, UserSetsCounted, FS_Subset DEF TypeOK
  <2> QED
    BY <1>2, <1>3, <1>4, <2>1, <2>2
<1> QED
  BY <1>1, <1>2, <1>3, <1>4, <1>5, SameCount
     DEF Decision!Init, Decision!Opened, Decision!Unopened, Init, TypeOK

\* Every step of the handlers is a step of the abstract decision, or changes nothing of it.
LEMMA DecisionNext == Inv /\ [Next]_vars => [Decision!Next]_(Decision!dvars)
<1> SUFFICES ASSUME Inv, [Next]_vars PROVE [Decision!Next]_(Decision!dvars)
  OBVIOUS
<1> DEFINE quorum == [w \in Wf |-> Quorum(w)]
<1>0. TypeOK
  BY DEF Inv
<1>1. CASE UNCHANGED <<status, threshold, signers, signed>>
  <2>1. UNCHANGED quorum
    BY <1>1 DEF Quorum
  <2> QED
    BY <1>1, <2>1 DEF Decision!dvars
<1>2. CASE \E w \in Wf, u \in User : Create(w, u)
  <2>1. PICK w \in Wf, u \in User : Create(w, u)
    BY <1>2
  <2>2. PICK listed \in SubmittedLists, t \in 0..Cardinality(User) + 1 :
           /\ CreationAccepted(listed, t)
           /\ threshold' = [threshold EXCEPT ![w] = t]
           /\ signers' = [signers EXCEPT ![w] = Range(listed)]
    BY <2>1 DEF Create
  <2>3. t \in 1..Cardinality(Range(listed)) /\ Range(listed) \in SUBSET User
    BY <2>2, ListedUsers, UserSetsCounted DEF CreationAccepted
  <2>4. quorum' = [quorum EXCEPT ![w] = t]
    <3>1. Quorum(w)' = t
      BY <1>0, <2>2, <2>3 DEF Quorum, TypeOK
    <3>2. \A x \in Wf \ {w} : Quorum(x)' = Quorum(x)
      BY <1>0, <2>2 DEF Quorum, TypeOK
    <3> QED
      BY <3>1, <3>2
  <2>5. /\ status[w] = "none" /\ UNCHANGED signed
        /\ status' = [status EXCEPT ![w] = "pending"]
    BY <2>1 DEF Create
  <2>6. Decision!Open(w)
    BY <2>2, <2>3, <2>4, <2>5, SameCount DEF Decision!Open
  <2> QED
    BY <2>6 DEF Decision!Next
<1>3. CASE \E r \in Req : SignCommit(r) /\ RecordSignature(r, req[r].w)
  <2>1. PICK r \in Req : SignCommit(r) /\ RecordSignature(r, req[r].w)
    BY <1>3
  <2>2. DecisionValid(r) /\ req[r].w \in Wf /\ req[r].u \in User
    BY <1>0, <2>1, BusyRequests DEF Inv, DecisionStillValid, SignCommit
  <2>3. UNCHANGED quorum
    BY <2>1 DEF SignCommit, Quorum
  <2>4. Decision!Approve(req[r].w, req[r].u)
    BY <1>0, <2>1, <2>2, <2>3, SameCount
       DEF Decision!Approve, DecisionValid, RecordSignature, SignCommit,
           IsCompletingSignature
  <2> QED
    BY <2>2, <2>4 DEF Decision!Next
<1>4. CASE \E r \in Req : Reject(r)
  <2>1. PICK r \in Req : Reject(r)
    BY <1>4
  <2>2. req[r].w \in Wf
    BY <1>0, <2>1, BusyRequests DEF Reject
  <2>3. UNCHANGED <<signers, signed, quorum>>
    BY <2>1 DEF Reject, Quorum
  <2>4. \/ status' = status
        \/ /\ status[req[r].w] = "pending"
           /\ status' = [status EXCEPT ![req[r].w] = "rejected"]
    BY <1>0, <2>1, <2>2 DEF Reject, RejectAccepted, TypeOK
  <2> QED
    BY <2>2, <2>3, <2>4 DEF Decision!Next, Decision!Refuse, Decision!dvars
<1> QED
  BY <1>1, <1>2, <1>3, <1>4, StatusSteps

\* The interleaved, locked, crashing handlers implement the atomic N-of-M decision.
THEOREM Refinement == Spec => ImplementsDecision
  BY DecisionInit, DecisionNext, Invariance, PTL DEF Spec, ImplementsDecision, Decision!Spec
=============================================================================
