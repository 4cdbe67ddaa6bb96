------------------------------ MODULE Multisig ------------------------------
(***************************************************************************)
(* N-of-M approval workflows (backend/routers/multisig.py), the account    *)
(* erase that deletes them (account_deletion._erase_multisig) and the      *)
(* re-wrapping of a released key (security/key_rotation.rewrap).           *)
(*                                                                         *)
(* A request is a process over a PostgreSQL database in READ COMMITTED     *)
(* mode with autoflush off.  A handler is split exactly where another      *)
(* transaction can act: between the unlocked read of a row and the         *)
(* statement that uses it, and between taking a row lock and the commit    *)
(* that writes and releases it.  Nothing a transaction writes is visible   *)
(* before its commit, so its pending writes live in its request record     *)
(* and the row locks it holds are read off that record.                    *)
(*                                                                         *)
(* The columns of a deleted row keep their last value: only `stored' says  *)
(* whether the row exists, and a workflow id is never used twice.          *)
(***************************************************************************)
EXTENDS Naturals, FiniteSets, Sequences, Functions

CONSTANTS
    User,            \* addresses
    NoUser,          \* a NULL wrapped key
    Wf,              \* workflow ids
    LegacyWf,        \* ids of rows that may predate the threshold column
    Req,             \* requests that can be in flight at once
    SubmittedLists,  \* the `signers' lists clients send, duplicates included
    Offered          \* the operations clients send (an instance may leave some out)

ASSUME UserFinite == IsFiniteSet(User)
ASSUME NoUserNotUser == NoUser \notin User
ASSUME LegacySubset == LegacyWf \subseteq Wf
ASSUME ListsOfUsers == SubmittedLists \subseteq Seq(User)
ASSUME OfferedOps == Offered \subseteq {"sign", "reject", "delete", "erase"}

VARIABLES
    active,      \* identities whose row has deleted_at = NULL
    stored,      \* workflow ids whose row exists
    status,      \* "none" until created, then pending / completed / rejected
    threshold,   \* the threshold column; 0 stands for NULL (and for Python's falsy)
    owner,       \* owner_address
    signers,     \* addresses with a signer row
    signed,      \* those whose has_signed is TRUE
    recipients,  \* addresses with a recipient row
    keyFrom,     \* [workflow][recipient]: who supplied encrypted_key, or NoUser
    req,         \* the requests in flight
    opened       \* history: the reads answered to plain recipients, <<workflow, user>>

columns == <<status, threshold, owner, signers, signed, recipients, keyFrom>>
vars == <<active, stored, columns, req, opened>>

Status == {"none", "pending", "completed", "rejected"}
Ops == {"sign", "reject", "delete", "erase"}

(***************************************************************************)
(* A request: which handler, for whom, on which workflow, how far it got,  *)
(* and what its transaction is going to write.                             *)
(***************************************************************************)
Idle == [pc |-> "idle"]

Busy ==
    [pc : {"arrived", "flush", "checked", "children", "dropped"},
     op : Ops, u : User, w : Wf,
     completing : BOOLEAN,        \* sign: is_completing
     writes : SUBSET User,        \* sign: recipient rows given a new key
     targets : SUBSET Wf,         \* delete, erase: workflows to delete
     drops : SUBSET Wf]           \* erase: workflows losing the user's recipient row

\* The request moves on, as the record `next'.
Advance(r, next) == req' = [req EXCEPT ![r] = next]

MutRetryRefused(r) ==
    Advance(r, IF req[r].pc = "arrived" THEN req[r] ELSE Idle)

\* The handler answers: its transaction is over, its locks are released.
Finish(r) == Advance(r, Idle)

----------------------------------------------------------------------------
(* Row locks, read off the requests that hold them. *)

\* SELECT ... FOR UPDATE of the workflow row, kept until the commit.
LocksWorkflow(r, w) ==
    req[r].pc = "flush" /\ req[r].w = w

\* The row locks of an executed, uncommitted DELETE of a workflow's children.
LocksSigners(r, w) ==
    w \in stored /\ req[r].pc \in {"children", "dropped"} /\ w \in req[r].targets

LocksRecipient(r, w, u) ==
    \/ LocksSigners(r, w)
    \/ w \in stored /\ req[r].pc = "dropped" /\ w \in req[r].drops /\ req[r].u = u

\* _perform_deletion holds the user's row from its check to its commit.
LocksUser(r, u) ==
    /\ req[r].pc \in {"checked", "children", "dropped"}
    /\ req[r].op = "erase" /\ req[r].u = u

MutNoForUpdate(r, w) == TRUE

\* Nobody but r itself holds the workflow's row.
WorkflowFree(r, w) == \A q \in Req \ {r} : ~ LocksWorkflow(q, w)

----------------------------------------------------------------------------
(* The rules of security/authorization.py and the helpers of the router. *)

Quorum(w) == IF threshold[w] = 0 THEN Cardinality(signers[w]) ELSE threshold[w]

\* _is_completing_signature: has_signed is still FALSE for the caller.
IsCompletingSignature(w) ==
    Cardinality(signed[w]) + 1 >= Quorum(w)

MutReadPending(w, u) ==
    u = owner[w] \/ u \in signers[w] \/ u \in recipients[w]

\* can_read_workflow and its SQL form readable_workflows.
CanReadWorkflow(w, u) ==
    \/ u = owner[w]
    \/ u \in signers[w]
    \/ status[w] = "completed" /\ u \in recipients[w]

WorkflowIsDeletable(w) == status[w] # "completed"

MutThresholdOfList(listed, t) == listed # <<>> /\ 1 <= t /\ t <= Len(listed)

\* The creation checks: the threshold counts the signers left after dict.fromkeys.
CreationAccepted(listed, t) ==
    listed # <<>> /\ 1 <= t /\ t <= Cardinality(Range(listed))

MutReleaseUnchecked(w, keys) ==
    recipients[w] = {} \/ keys \subseteq recipients[w]

\* _release_recipient_keys: the END state must leave no recipient without a key.
ReleaseAccepted(w, keys) ==
    \/ recipients[w] = {}
    \/ /\ keys \subseteq recipients[w]
       /\ \A u \in recipients[w] : u \in keys \/ keyFrom[w][u] # NoUser

MutAcceptAnyStatus(w, u, valid, keys) ==
    /\ u \in signers[w]
    /\ u \notin signed[w]
    /\ valid
    /\ keys # {} => IsCompletingSignature(w)
    /\ IsCompletingSignature(w) => ReleaseAccepted(w, keys)

MutAcceptEarlyKeys(w, u, valid, keys) ==
    /\ u \in signers[w]
    /\ status[w] = "pending"
    /\ u \notin signed[w]
    /\ valid
    /\ IsCompletingSignature(w) => ReleaseAccepted(w, keys)

\* Every check sign_multisig_workflow makes once it holds the row.
SignAccepted(w, u, valid, keys) ==
    /\ u \in signers[w]
    /\ status[w] = "pending"
    /\ u \notin signed[w]
    /\ valid
    /\ keys # {} => IsCompletingSignature(w)
    /\ IsCompletingSignature(w) => ReleaseAccepted(w, keys)

MutRejectAnyStatus(w, u) == u \in signers[w]

RejectAccepted(w, u) == u \in signers[w] /\ status[w] = "pending"

----------------------------------------------------------------------------
(***************************************************************************)
(* The database holds some legacy workflows, pending and unsigned, with    *)
(* any signers and recipients; everything else is created by requests.     *)
(***************************************************************************)
Init ==
    /\ active = User
    /\ stored \in SUBSET LegacyWf
    /\ status = [w \in Wf |-> IF w \in stored THEN "pending" ELSE "none"]
    /\ threshold = [w \in Wf |-> 0]
    /\ owner \in [Wf -> User \cup {NoUser}]
    /\ signers \in [Wf -> SUBSET User]
    /\ recipients \in [Wf -> SUBSET User]
    /\ \A w \in stored : owner[w] \in User /\ signers[w] # {}
    /\ \A w \in Wf \ stored :
          owner[w] = NoUser /\ signers[w] = {} /\ recipients[w] = {}
    /\ signed = [w \in Wf |-> {}]
    /\ keyFrom = [w \in Wf |-> [u \in User |-> NoUser]]
    /\ req = [r \in Req |-> Idle]
    /\ opened = {}

\* create_multisig_workflow: one transaction, everything validated before it writes.
Create(w, u) ==
    /\ status[w] = "none"
    /\ u \in active
    /\ \E listed \in SubmittedLists, t \in 0..Cardinality(User) + 1,
          rc \in SUBSET User :
         /\ CreationAccepted(listed, t)
         /\ Range(listed) \cup rc \subseteq active
         /\ \E keys \in SUBSET rc :
              keyFrom' = [keyFrom EXCEPT ![w] =
                            [v \in User |-> IF v \in keys THEN u ELSE NoUser]]
         /\ threshold' = [threshold EXCEPT ![w] = t]
         /\ signers' = [signers EXCEPT ![w] = Range(listed)]
         /\ recipients' = [recipients EXCEPT ![w] = rc]
    /\ stored' = stored \cup {w}
    /\ status' = [status EXCEPT ![w] = "pending"]
    /\ owner' = [owner EXCEPT ![w] = u]
    /\ UNCHANGED <<active, signed, req, opened>>

\* get_current_user has passed; the handler has not touched the workflow yet.
Arrive(r, op, u, w) ==
    /\ req[r].pc = "idle"
    /\ u \in active
    /\ op # "erase" => status[w] # "none"
    /\ Advance(r, [pc |-> "arrived", op |-> op, u |-> u, w |-> w, completing |-> FALSE,
                   writes |-> {}, targets |-> {}, drops |-> {}])
    /\ UNCHANGED <<active, stored, columns, opened>>

----------------------------------------------------------------------------
(* POST /workflow/{id}/sign *)

\* _load_workflow_or_404(for_update=True) and every check, under the row lock.
SignDecide(r) ==
    LET w == req[r].w
        u == req[r].u
    IN  /\ req[r].pc = "arrived" /\ req[r].op = "sign"
        /\ WorkflowFree(r, w)
        /\ \E valid \in BOOLEAN, keys \in SUBSET User :
             IF w \in stored /\ SignAccepted(w, u, valid, keys)
             THEN Advance(r, [req[r] EXCEPT
                    !.pc = "flush",
                    !.completing = IsCompletingSignature(w),
                    !.writes = keys \cap recipients[w]])
             ELSE Finish(r)
        /\ UNCHANGED <<active, stored, columns, opened>>

MutFlushKeysOnly(r, w) ==
    /\ signed' = [signed EXCEPT ![w] = @ \cup {req[r].u}]
    /\ keyFrom' = [keyFrom EXCEPT ![w] =
                     [v \in User |-> IF v \in req[r].writes THEN req[r].u ELSE @[v]]]
    /\ UNCHANGED status

\* The one transaction: signature, recipient keys and status together.
RecordSignature(r, w) ==
    /\ signed' = [signed EXCEPT ![w] = @ \cup {req[r].u}]
    /\ keyFrom' = [keyFrom EXCEPT ![w] =
                     [v \in User |-> IF v \in req[r].writes THEN req[r].u ELSE @[v]]]
    /\ status' = [status EXCEPT ![w] = IF req[r].completing THEN "completed" ELSE @]

(***************************************************************************)
(* db.commit(): the UPDATEs wait for the rows other transactions hold.  An *)
(* UPDATE of a recipient row that an erase removed in between matches no   *)
(* row, which SQLAlchemy answers with StaleDataError: nothing is written.  *)
(***************************************************************************)
SignCommit(r) ==
    LET w == req[r].w
    IN  /\ req[r].pc = "flush"
        /\ \A q \in Req : ~ LocksSigners(q, w)
        /\ \A q \in Req, v \in req[r].writes : ~ LocksRecipient(q, w, v)
        /\ IF req[r].writes \subseteq recipients[w]
           THEN RecordSignature(r, w)
           ELSE UNCHANGED <<signed, keyFrom, status>>
        /\ Finish(r)
        /\ UNCHANGED <<active, stored, threshold, owner, signers, recipients, opened>>

\* POST /workflow/{id}/reject: the checks and the single write under the row lock.
Reject(r) ==
    LET w == req[r].w
    IN  /\ req[r].pc = "arrived" /\ req[r].op = "reject"
        /\ WorkflowFree(r, w)
        /\ status' = [status EXCEPT ![w] =
                        IF w \in stored /\ RejectAccepted(w, req[r].u)
                        THEN "rejected" ELSE @]
        /\ Finish(r)
        /\ UNCHANGED <<active, stored, threshold, owner, signers, signed,
                       recipients, keyFrom, opened>>

----------------------------------------------------------------------------
(* DELETE /workflow/{id}, and the erase of an account. *)

\* The row is read WITHOUT a lock; the checks are made on that copy.
DeleteCheck(r) ==
    LET w == req[r].w
    IN  /\ req[r].pc = "arrived" /\ req[r].op = "delete"
        /\ IF w \in stored /\ owner[w] = req[r].u /\ WorkflowIsDeletable(w)
           THEN Advance(r, [req[r] EXCEPT !.pc = "checked", !.targets = {w}])
           ELSE Finish(r)
        /\ UNCHANGED <<active, stored, columns, opened>>

\* _perform_deletion locks the user row and re-checks it; _erase_multisig then
\* reads every owned workflow, again without a lock.
EraseCheck(r) ==
    LET u == req[r].u
    IN  /\ req[r].pc = "arrived" /\ req[r].op = "erase"
        /\ \A q \in Req : ~ LocksUser(q, u)
        /\ IF u \in active
           THEN Advance(r, [req[r] EXCEPT
                  !.pc = "checked",
                  !.targets = {w \in stored : owner[w] = u /\ WorkflowIsDeletable(w)}])
           ELSE Finish(r)
        /\ UNCHANGED <<active, stored, columns, opened>>

\* The DELETE statements on the signer and recipient rows of every target.
DeleteChildren(r) ==
    /\ req[r].pc = "checked"
    /\ \A w \in req[r].targets, q \in Req : ~ LocksSigners(q, w)
    /\ \A w \in req[r].targets, q \in Req : \A u \in recipients[w] :
          ~ LocksRecipient(q, w, u)
    /\ Advance(r, [req[r] EXCEPT !.pc = "children"])
    /\ UNCHANGED <<active, stored, columns, opened>>

\* The departing user's recipient rows on everything not yet released.
EraseDrop(r) ==
    LET u == req[r].u
        unreleased == {w \in stored \ req[r].targets :
                          u \in recipients[w] /\ status[w] # "completed"}
    IN  /\ req[r].pc = "children" /\ req[r].op = "erase"
        /\ \A w \in unreleased, q \in Req : ~ LocksRecipient(q, w, u)
        /\ Advance(r, [req[r] EXCEPT !.pc = "dropped", !.drops = unreleased])
        /\ UNCHANGED <<active, stored, columns, opened>>

\* Every DELETE on a child table has run.
ReadyToCommit(r) ==
    \/ req[r].pc = "children" /\ req[r].op = "delete"
    \/ req[r].pc = "dropped"

\* DELETE of the workflow rows (which waits for a signer holding one), the commit.
DeleteCommit(r) ==
    LET u == req[r].u
    IN  /\ ReadyToCommit(r)
        /\ \A w \in req[r].targets \cap stored : WorkflowFree(r, w)
        /\ stored' = stored \ req[r].targets
        /\ recipients' = [w \in Wf |->
              recipients[w] \ (IF w \in req[r].drops THEN {u} ELSE {})]
        /\ active' = IF req[r].op = "erase" THEN active \ {u} ELSE active
        /\ Finish(r)
        /\ UNCHANGED <<status, threshold, owner, signers, signed, keyFrom, opened>>

----------------------------------------------------------------------------
(* Readers and holders of a released key. *)

\* GET /workflow/{id} (and the listing) answered for u.
Read(w, u) ==
    /\ w \in stored /\ u \in active
    /\ CanReadWorkflow(w, u)
    /\ opened' = IF u = owner[w] \/ u \in signers[w]
                 THEN opened ELSE opened \cup {<<w, u>>}
    /\ UNCHANGED <<active, stored, columns, req>>

\* PUT /wraps: a holder who can read the workflow replaces its own wrapped key.
Rewrap(w, u) ==
    /\ w \in stored /\ u \in active /\ u \in recipients[w]
    /\ keyFrom[w][u] # NoUser
    /\ CanReadWorkflow(w, u)
    /\ \A q \in Req : ~ LocksUser(q, u) /\ ~ LocksRecipient(q, w, u)
    /\ keyFrom' = [keyFrom EXCEPT ![w][u] = u]
    /\ UNCHANGED <<active, stored, status, threshold, owner, signers, signed,
                   recipients, req, opened>>

(***************************************************************************)
(* The transaction is rolled back: the worker died, the connection was     *)
(* lost, or PostgreSQL picked it to break a deadlock.                      *)
(***************************************************************************)
Abort(r) ==
    /\ req[r].pc # "idle"
    /\ Finish(r)
    /\ UNCHANGED <<active, stored, columns, opened>>

\* r waits for a row that q holds.
BlockedBy(r, q) ==
    \/ /\ req[r].pc = "flush"
       /\ \/ LocksSigners(q, req[r].w)
          \/ \E v \in req[r].writes : LocksRecipient(q, req[r].w, v)
    \/ /\ req[r].pc = "checked"
       /\ \E w \in req[r].targets \cap stored :
             LocksSigners(q, w) \/ \E u \in recipients[w] : LocksRecipient(q, w, u)
    \/ /\ req[r].pc = "children" /\ req[r].op = "erase"
       /\ \E w \in stored \ req[r].targets :
             /\ req[r].u \in recipients[w] /\ status[w] # "completed"
             /\ LocksRecipient(q, w, req[r].u)
    \/ /\ ReadyToCommit(r)
       /\ \E w \in req[r].targets \cap stored : LocksWorkflow(q, w)

\* Every member of some set that holds r waits for another member of it.
Deadlocked(r) ==
    \E S \in SUBSET Req :
        r \in S /\ \A x \in S : \E y \in S \ {x} : BlockedBy(x, y)

DeadlockVictim(r) == Deadlocked(r) /\ Abort(r)

Next ==
    \/ \E w \in Wf, u \in User : Create(w, u) \/ Read(w, u) \/ Rewrap(w, u)
    \/ \E r \in Req :
         \/ \E op \in Offered, u \in User, w \in Wf : Arrive(r, op, u, w)
         \/ SignDecide(r)
         \/ SignCommit(r)
         \/ Reject(r)
         \/ DeleteCheck(r)
         \/ EraseCheck(r)
         \/ DeleteChildren(r)
         \/ EraseDrop(r)
         \/ DeleteCommit(r)
         \/ Abort(r)

Spec == Init /\ [][Next]_vars

(***************************************************************************)
(* A handler's own steps run on; one that waits for a row is served, since *)
(* PostgreSQL queues the waiters of a row in order (hence strong           *)
(* fairness), and its deadlock detector ends every cycle.  At any time at  *)
(* most one of these steps of a request is possible.  Clients owe nothing. *)
(***************************************************************************)
Serve(r) ==
    \/ SignDecide(r) \/ SignCommit(r) \/ Reject(r)
    \/ DeleteCheck(r) \/ EraseCheck(r) \/ DeleteChildren(r)
    \/ EraseDrop(r) \/ DeleteCommit(r) \/ DeadlockVictim(r)

Fairness == \A r \in Req : SF_vars(Serve(r))

FairSpec == Spec /\ Fairness

----------------------------------------------------------------------------
(* Properties. *)

TypeOK ==
    /\ active \subseteq User
    /\ stored \subseteq Wf
    /\ status \in [Wf -> Status]
    /\ threshold \in [Wf -> Nat]
    /\ owner \in [Wf -> User \cup {NoUser}]
    /\ signers \in [Wf -> SUBSET User]
    /\ signed \in [Wf -> SUBSET User]
    /\ recipients \in [Wf -> SUBSET User]
    /\ keyFrom \in [Wf -> [User -> User \cup {NoUser}]]
    /\ req \in [Req -> {Idle} \cup Busy]
    /\ opened \subseteq Wf \X User

\* What the rows of a workflow say together: nothing before it is created, and
\* afterwards at least one signer and a threshold they can reach.
RowsWellFormed ==
    \A w \in Wf :
        /\ signed[w] \subseteq signers[w]
        /\ threshold[w] <= Cardinality(signers[w])
        /\ status[w] = "none" =>
              w \notin stored /\ signers[w] = {} /\ threshold[w] = 0
        /\ status[w] # "none" => signers[w] # {}

(***************************************************************************)
(* Everything a signer established under the row lock still holds when it  *)
(* commits: it is the only one deciding, the workflow is still there and   *)
(* pending, its own signature is missing, it completes the workflow exactly *)
(* if it said so, and then every recipient left has a key or is given one. *)
(***************************************************************************)
DecisionValid(r) ==
    LET w == req[r].w
    IN  /\ \A q \in Req \ {r} : ~ LocksWorkflow(q, w)
        /\ w \in stored /\ status[w] = "pending"
        /\ req[r].u \in signers[w] \ signed[w]
        /\ req[r].completing <=> IsCompletingSignature(w)
        /\ req[r].writes # {} => req[r].completing
        /\ req[r].completing =>
              \A v \in recipients[w] : v \in req[r].writes \/ keyFrom[w][v] # NoUser

\* A signature is recorded only on the state it was checked against (KRY-005).
DecisionStillValid ==
    \A r \in Req : req[r].pc = "flush" => DecisionValid(r)

(***************************************************************************)
(* The status and the signatures never disagree (KRY-005): a workflow is   *)
(* completed exactly when its signatures reach the quorum, so no crash and *)
(* no interleaving of signers leaves a fully signed workflow pending, or   *)
(* releases one short of its threshold, or after a rejection.              *)
(***************************************************************************)
StatusMatchesSignatures ==
    \A w \in Wf :
        /\ status[w] = "completed" => Cardinality(signed[w]) >= Quorum(w)
        /\ status[w] \in {"pending", "rejected"} => Cardinality(signed[w]) < Quorum(w)

\* A pending workflow can still be completed: enough distinct identities hold a
\* signer row (audit 2026-09-23 F-2: the threshold counts deduplicated signers).
QuorumReachable ==
    \A w \in Wf : status[w] = "pending" => Quorum(w) <= Cardinality(signers[w])

\* _release_recipient_keys: whoever is still a recipient of a completed workflow
\* holds a key, whatever erases ran between the check and the commit.
ReleasedRecipientsKeyed ==
    \A w \in Wf : status[w] = "completed" =>
        \A u \in recipients[w] : keyFrom[w][u] # NoUser

\* The secret is opened by a plain recipient only behind a full quorum of signers.
ReadBehindQuorum ==
    \A w \in Wf, u \in User : <<w, u>> \in opened =>
        status[w] = "completed" /\ Cardinality(signed[w]) >= Quorum(w)

\* Completed and rejected are final, even against requests that read the
\* workflow while it was pending.
DecisionIsFinal ==
    [][\A w \in Wf : status[w] \in {"completed", "rejected"} => status'[w] = status[w]]_vars

\* A recipient's key changes after creation only in the step that completes the
\* workflow, or by that recipient re-wrapping its own (audit M1).
KeysOnlyAtRelease ==
    [][\A w \in Wf, u \in User :
          (status[w] # "none" /\ keyFrom'[w][u] # keyFrom[w][u]) =>
              \/ status[w] = "pending" /\ status'[w] = "completed"
              \/ keyFrom'[w][u] = u /\ keyFrom[w][u] # NoUser]_vars

\* The inductive invariant of the proofs.
Inv ==
    /\ TypeOK
    /\ RowsWellFormed
    /\ StatusMatchesSignatures
    /\ ReleasedRecipientsKeyed
    /\ DecisionStillValid

Decision == INSTANCE QuorumDecision WITH
    Item <- Wf, phase <- status, voters <- signers, votes <- signed,
    quorum <- [w \in Wf |-> Quorum(w)]

\* The interleaved handlers implement the atomic N-of-M decision: no behaviour of
\* the locked, crashing, colliding requests shows a vote or a verdict it forbids.
ImplementsDecision == Decision!Spec

\* Every request is answered, whatever it queues behind or collides with.
RequestsReturn == \A r \in Req : req[r].pc # "idle" ~> req[r].pc = "idle"

\* delete_multisig_workflow: "A completed workflow stays: the recipients' keys
\* are their only copy."  The code does not guarantee it (see the README).
CompletedIsKept == \A w \in Wf : status[w] = "completed" => w \in stored
=============================================================================
