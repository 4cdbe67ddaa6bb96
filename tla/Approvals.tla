----------------------------- MODULE Approvals -----------------------------
(***************************************************************************)
(* The approval queue of the TrustKeys service worker (trustkeys/src/      *)
(* background/approvals.js, the tracked windows of utils.js, and the       *)
(* handlers that ask: connection.js, crypto.js, rotation.js).              *)
(*                                                                         *)
(* A page asks; the worker queues the request, opens or focuses ONE        *)
(* window, and answers when the user clicks, dismisses the window or lets  *)
(* the request time out.  JavaScript runs to the next await, so a step is  *)
(* what a function does between two awaits.  Everything here is memory: a  *)
(* stopped worker forgets the queue and the window, and Chrome closes the  *)
(* message channels, which the pages see as an error.                      *)
(***************************************************************************)
EXTENDS Naturals, Sequences, FiniteSets, SequencesExt

CONSTANTS
    Req,           \* requests of pages, each used once
    Origin,        \* sites
    Holder,        \* identities in the vault
    NoAccount,     \* no active account
    Window,        \* approval windows, each id used once
    NoWindow,      \* approvalWindowId = null
    Kinds,         \* what pages ask for
    MaxTotal,      \* MAX_PENDING_TOTAL
    MaxPerOrigin,  \* MAX_PENDING_PER_ORIGIN
    MaxRestarts    \* bound: how often the worker is stopped

ApprovalsConstants ==
    /\ IsFiniteSet(Req) /\ IsFiniteSet(Window)
    /\ NoAccount \notin Holder /\ NoWindow \notin Window
    /\ Kinds \subseteq {"connect", "sign", "decrypt", "unwrap", "rotate"}
    /\ MaxTotal \in Nat \ {0} /\ MaxPerOrigin \in Nat \ {0} /\ MaxRestarts \in Nat

VARIABLES
    locked,     \* isLocked; the vault is in memory exactly when it is FALSE
    active,     \* activeAccountId
    connected,  \* origins in vault.permissions
    ask,        \* each request: what is asked, and how far requestApproval got
    queue,      \* pendingRequests, in insertion order
    state,      \* each request's fate
    answers,    \* how often sendResponse was called for it
    slot,       \* approvalWindowId
    shows,      \* [window]: what it displays
    removed,    \* closed windows whose onRemoved event is not handled yet
    rotated,    \* [request]: the account whose key it rotated
    restarts    \* restarts so far

approvalVars == <<locked, active, connected, ask, queue, state, answers, slot, shows,
          removed, rotated, restarts>>
vault == <<locked, active, connected>>
windows == <<slot, shows, removed>>

\* A window before it is opened, open on the dashboard (or about to close
\* itself), and gone; otherwise it displays a request.
Unopened == [at |-> "unopened"]
Dashboard == [at |-> "dashboard"]
ShutWindow == [at |-> "gone"]
Showing(r) == [at |-> "request", r |-> r]
IsUp(w) == shows[w].at \in {"dashboard", "request"}

NotAsked == [pc |-> "new"]
Asked ==
    [pc : {"focus", "create", "surfaced"},   \* inside openTrackedWindow, or past it
     o : Origin, k : Kinds,
     acct : Holder \cup {NoAccount},        \* the account the window names
     target : Window \cup {NoWindow}]        \* the window being focused

Fate == {"new", "pending", "working", "answered", "hung", "lost"}

Pending(r) == Contains(queue, r)
PendingForOrigin(o) == {r \in ToSet(queue) : ask[r].o = o}
Rest(q, r) == RemoveFirst(q, r)

----------------------------------------------------------------------------
ApprovalsInit ==
    /\ locked = FALSE
    /\ active \in Holder
    /\ connected \in SUBSET Origin
    /\ ask = [r \in Req |-> NotAsked]
    /\ queue = <<>>
    /\ state = [r \in Req |-> "new"]
    /\ answers = [r \in Req |-> 0]
    /\ slot = NoWindow
    /\ shows = [w \in Window |-> Unopened]
    /\ removed = {}
    /\ rotated = [r \in Req |-> NoAccount]
    /\ restarts = 0

(***************************************************************************)
(* finish() and the callback of every request of S that is still pending:  *)
(* its timer is cleared, and sendResponse is called.                       *)
(***************************************************************************)
Finish(S) ==
    LET hit == S \cap ToSet(queue)
    IN  /\ state' = [r \in Req |-> IF r \in hit THEN "answered" ELSE state[r]]
        /\ answers' = [r \in Req |-> IF r \in hit THEN answers[r] + 1 ELSE answers[r]]

\* One request is refused, if it is still pending: it leaves the Map.
Reject(r) == queue' = Rest(queue, r) /\ Finish({r})

\* All of them are: clear().
RejectAll == queue' = <<>> /\ Finish(Req)

\* The gates of the handlers, before requestApproval.
MayAsk(o, k) ==
    /\ ~ locked
    /\ k = "connect" => o \notin connected
    /\ k # "connect" => o \in connected
    /\ k \in {"sign", "rotate"} => active # NoAccount

\* The two caps.
HasRoom(o) ==
    /\ Len(queue) < MaxTotal
    /\ Cardinality(PendingForOrigin(o)) < MaxPerOrigin

\* A page's message reaches its handler: refused at once, or queued and on its
\* way to a window (the tracked one if there is one).
Ask(r, o, k) ==
    /\ state[r] = "new"
    /\ ask' = [ask EXCEPT ![r] =
                 [pc |-> IF ~ (MayAsk(o, k) /\ HasRoom(o)) THEN "surfaced"
                         ELSE IF slot # NoWindow THEN "focus" ELSE "create",
                  o |-> o, k |-> k,
                  acct |-> IF k \in {"sign", "rotate"} THEN active ELSE NoAccount,
                  target |-> slot]]
    /\ IF MayAsk(o, k) /\ HasRoom(o)
       THEN /\ queue' = Append(queue, r)
            /\ state' = [state EXCEPT ![r] = "pending"]
            /\ UNCHANGED answers
       ELSE /\ state' = [state EXCEPT ![r] = "answered"]
            /\ answers' = [answers EXCEPT ![r] = @ + 1]
            /\ UNCHANGED queue
    /\ UNCHANGED <<vault, windows, rotated, restarts>>

----------------------------------------------------------------------------
(* openTrackedWindow, for the approval slot. *)

\* chrome.windows.update settles: the window is there, or it is not and the slot
\* is emptied, whatever it holds by now.
Focus(r) ==
    LET w == ask[r].target
    IN  /\ ask[r].pc = "focus"
        /\ ask' = [ask EXCEPT ![r].pc = IF IsUp(w) THEN "surfaced" ELSE "create"]
        /\ slot' = IF IsUp(w) THEN slot ELSE NoWindow
        /\ UNCHANGED <<vault, queue, state, answers, shows, removed, rotated, restarts>>

\* chrome.windows.create settles: a new window that loads the request by its id,
\* and the dashboard if that is settled already.
CreateWindow(r, w) ==
    /\ ask[r].pc = "create"
    /\ shows[w] = Unopened
    /\ shows' = [shows EXCEPT ![w] = IF Pending(r) THEN Showing(r) ELSE Dashboard]
    /\ slot' = w
    /\ ask' = [ask EXCEPT ![r].pc = "surfaced"]
    /\ UNCHANGED <<vault, queue, state, answers, removed, rotated, restarts>>

\* Both attempts are refused: the request is rejected.
CreateFails(r) ==
    /\ ask[r].pc = "create"
    /\ Reject(r)
    /\ ask' = [ask EXCEPT ![r].pc = "surfaced"]
    /\ UNCHANGED <<vault, windows, rotated, restarts>>

----------------------------------------------------------------------------
(* How a request is settled. *)

MutTimeout(r) ==
    /\ state[r] \in {"pending", "answered"} /\ ask[r].pc = "surfaced"
    /\ queue' = Rest(queue, r)
    /\ state' = [state EXCEPT ![r] = "answered"]
    /\ answers' = [answers EXCEPT ![r] = @ + 1]
    /\ UNCHANGED <<vault, ask, windows, rotated, restarts>>

\* APPROVAL_TIMEOUT_MS after it was registered, whatever the user does.
Timeout(r) ==
    /\ Pending(r)
    /\ Reject(r)
    /\ UNCHANGED <<vault, ask, windows, rotated, restarts>>

\* The screen asks for the next queued request, or closes itself.
Advance(w, q) ==
    shows' = [shows EXCEPT ![w] = IF q = <<>> THEN Dashboard ELSE Showing(Head(q))]

\* The user rejects what a window displays (it may be settled already).
ClickReject(w) ==
    LET r == shows[w].r
    IN  /\ shows[w].at = "request"
        /\ Reject(r)
        /\ Advance(w, Rest(queue, r))
        /\ UNCHANGED <<vault, ask, slot, removed, rotated, restarts>>

MutRotateWhoever(r) ==
    CASE locked -> "hung"
      [] ask[r].k = "connect" -> "working"
      [] active = NoAccount -> "answered"
      [] OTHER -> "working"

(***************************************************************************)
(* What onApprove does before its first await.  Nobody is above it to      *)
(* catch an exception: with the vault locked, activeAccount() and          *)
(* vault.permissions read a field of null, and the callback is over.       *)
(***************************************************************************)
Approved(r) ==
    CASE locked -> "hung"
      [] ask[r].k = "connect" -> "working"
      [] active = NoAccount -> "answered"
      [] ask[r].k = "rotate" /\ active # ask[r].acct -> "answered"
      [] OTHER -> "working"

\* The user approves what a window displays; a lock does not change its screen.
ClickApprove(w) ==
    LET r == shows[w].r
    IN  /\ shows[w].at = "request"
        /\ queue' = Rest(queue, r)
        /\ Advance(w, queue')
        /\ IF Pending(r)
           THEN /\ state' = [state EXCEPT ![r] = Approved(r)]
                /\ answers' = [answers EXCEPT ![r] =
                                 IF Approved(r) = "answered" THEN @ + 1 ELSE @]
                /\ connected' = IF Approved(r) = "working" /\ ask[r].k = "connect"
                                THEN connected \cup {ask[r].o} ELSE connected
                /\ rotated' = [rotated EXCEPT ![r] =
                                 IF Approved(r) = "working" /\ ask[r].k = "rotate"
                                 THEN active ELSE @]
           ELSE UNCHANGED <<state, answers, connected, rotated>>
        /\ UNCHANGED <<locked, active, ask, slot, removed, restarts>>

\* The signature, the decryption, the save: awaited, then answered.  What a page
\* hands over may not decrypt, and only handleDecryptAsync has no catch for that
\* (a signature or a storage write that fails is not modelled).
Work(r) ==
    /\ state[r] = "working"
    /\ \E failed \in BOOLEAN :
         /\ state' = [state EXCEPT ![r] =
                        IF failed /\ ask[r].k = "decrypt" THEN "hung" ELSE "answered"]
         /\ answers' = [answers EXCEPT ![r] =
                          IF failed /\ ask[r].k = "decrypt" THEN @ ELSE @ + 1]
    /\ UNCHANGED <<vault, ask, queue, windows, rotated, restarts>>

\* A window goes away: dismissed, or closed by its own script.
CloseWindow(w) ==
    /\ IsUp(w)
    /\ shows' = [shows EXCEPT ![w] = ShutWindow]
    /\ removed' = removed \cup {w}
    /\ UNCHANGED <<vault, ask, queue, state, answers, slot, rotated, restarts>>

\* handleWindowClosed: only the tracked window's dismissal is a refusal.
OnRemoved(w) ==
    /\ w \in removed
    /\ removed' = removed \ {w}
    /\ IF w = slot
       THEN slot' = NoWindow /\ RejectAll
       ELSE UNCHANGED <<slot, queue, state, answers>>
    /\ UNCHANGED <<vault, ask, shows, rotated, restarts>>

----------------------------------------------------------------------------
(* The vault, and the worker itself. *)

\* lock(): the vault leaves memory; the queue is left as it is.
LockVault ==
    /\ ~ locked
    /\ locked' = TRUE
    /\ UNCHANGED <<active, connected, ask, queue, state, answers, windows, rotated, restarts>>

UnlockVault ==
    /\ locked
    /\ locked' = FALSE
    /\ UNCHANGED <<active, connected, ask, queue, state, answers, windows, rotated, restarts>>

\* SET_ACTIVE_ACCOUNT, and DELETE_ACCOUNT of the last one.
SwitchAccount(a) ==
    /\ ~ locked /\ active # a
    /\ active' = a
    /\ UNCHANGED <<locked, connected, ask, queue, state, answers, windows, rotated, restarts>>

(***************************************************************************)
(* Chrome stops the worker: the Map, the slot and every coroutine are      *)
(* gone, the open channels report an error to their pages; the windows     *)
(* stay.  The next event starts it again, unlocked if the session lives.   *)
(***************************************************************************)
Restart ==
    /\ restarts < MaxRestarts
    /\ restarts' = restarts + 1
    /\ \E l \in BOOLEAN : (locked => l) /\ locked' = l
    /\ queue' = <<>>
    /\ slot' = NoWindow
    /\ state' = [r \in Req |-> IF state[r] \in {"pending", "working", "hung"}
                               THEN "lost" ELSE state[r]]
    /\ ask' = [r \in Req |-> IF ask[r].pc \in {"focus", "create"}
                             THEN [ask[r] EXCEPT !.pc = "surfaced"] ELSE ask[r]]
    /\ UNCHANGED <<active, connected, answers, shows, removed, rotated>>

ApprovalsNext ==
    \/ \E r \in Req :
         \/ \E o \in Origin, k \in Kinds : Ask(r, o, k)
         \/ Focus(r)
         \/ \E w \in Window : CreateWindow(r, w)
         \/ CreateFails(r)
         \/ Timeout(r)
         \/ Work(r)
    \/ \E w \in Window :
         ClickApprove(w) \/ ClickReject(w) \/ CloseWindow(w) \/ OnRemoved(w)
    \/ \E a \in Holder \cup {NoAccount} : SwitchAccount(a)
    \/ LockVault
    \/ UnlockVault
    \/ Restart

ApprovalsSpec == ApprovalsInit /\ [][ApprovalsNext]_approvalVars

----------------------------------------------------------------------------
(* Properties. *)

ApprovalsTypeOK ==
    /\ locked \in BOOLEAN
    /\ active \in Holder \cup {NoAccount}
    /\ connected \subseteq Origin
    /\ ask \in [Req -> {NotAsked} \cup Asked]
    /\ queue \in Seq(Req)
    /\ state \in [Req -> Fate]
    /\ answers \in [Req -> Nat]
    /\ slot \in Window \cup {NoWindow}
    /\ shows \in [Window -> {Unopened, Dashboard, ShutWindow} \cup {Showing(r) : r \in Req}]
    /\ removed \subseteq Window
    /\ rotated \in [Req -> Holder \cup {NoAccount}]
    /\ restarts \in 0..MaxRestarts

\* "settles EXACTLY once, whichever path gets there first": the click, the timer,
\* the dismissal and the failed window race, and the page hears of one of them.
AnsweredOnce ==
    \A r \in Req :
        /\ answers[r] = IF state[r] = "answered" THEN 1 ELSE 0
        /\ state[r] = "pending" <=> Pending(r)

\* The two caps hold whatever is being opened, focused or awaited.
QueueBounded ==
    /\ IsInjective(queue) /\ Len(queue) <= MaxTotal
    /\ \A o \in Origin : Cardinality(PendingForOrigin(o)) <= MaxPerOrigin

\* The rotation the user approved is of the account the window named, whatever
\* became active while it was open.
RotatesNamedAccount ==
    \A r \in Req : rotated[r] # NoAccount => rotated[r] = ask[r].acct

\* requestApproval "Always settles ... Callers therefore never need a fallback
\* path": a settled request is answered, or its callback is still at work.  The
\* code does not guarantee it (see the README).
SettledIsAnswered == \A r \in Req : state[r] # "hung"

\* What holds of the requests at every step.
ApprovalsInv == ApprovalsTypeOK /\ AnsweredOnce /\ QueueBounded
=============================================================================
