------------------------------ MODULE Realtime ------------------------------
(***************************************************************************)
(* The sockets of ONE address across the workers of the backend            *)
(* (backend/websocket_manager.py, the /ws endpoint of routers/messenger.py *)
(* and the hang-up that follows a logout or a deletion).                   *)
(*                                                                         *)
(* A worker is one asyncio loop.  A step is what a coroutine does between  *)
(* two awaits: the registry is a plain Python list that other coroutines   *)
(* of the worker change while one of them is awaiting a send.  Workers     *)
(* share Redis pub/sub only, which delivers to whoever is subscribed at    *)
(* that moment and to nobody later.                                        *)
(*                                                                         *)
(* Addresses do not interact: registry, frames and versions are per        *)
(* address.  A token is the token_version it carries; the version only     *)
(* grows here (what concurrent logouts do to it is Identity's subject).    *)
(***************************************************************************)
EXTENDS Naturals, Sequences, FiniteSets, SequencesExt

CONSTANTS
    Worker,     \* backend processes; also the name of each one's listener coroutine
    Socket,     \* WebSocket connections, each used once
    Task,       \* background tasks that send a frame, each used once
    Kinds,      \* the frames they send: "message", "hangup"
    Period,     \* WS_REVALIDATE_SECONDS, in ticks
    MaxFaults   \* bound: lost subscriptions, failed publishes and worker crashes

ASSUME RealtimeAssumption ==
    /\ IsFiniteSet(Worker) /\ IsFiniteSet(Socket) /\ IsFiniteSet(Task)
    /\ Worker \cap Task = {}
    /\ Kinds \subseteq {"message", "hangup"}
    /\ Period \in Nat \ {0} /\ MaxFaults \in Nat

Job == Worker \cup Task

VARIABLES
    version,   \* the committed token_version
    sock,      \* each connection: how far its endpoint got, where, with which token
    conns,     \* [worker]: active_connections[address], a list
    gen,       \* [worker]: which list object that is (an empty one is thrown away)
    focused,   \* focused_connections
    sub,       \* [worker]: "up", "silent" (dead but still _listening), "down"
    inbox,     \* [worker]: frames Redis has sent it and its listener has not read
    job,       \* the coroutines that deliver and close
    faults,    \* faults so far
    missed     \* history: workers that lost a hang-up frame

vars == <<version, sock, conns, gen, focused, sub, inbox, job, faults, missed>>

----------------------------------------------------------------------------
(* Sockets. *)

Fresh == [pc |-> "new"]
Closed == [pc |-> "closed"]
Live == [pc : {"accepted", "validated", "open"}, w : Worker,
         tv : Nat,           \* the version its token carries
         late : BOOLEAN,     \* history: its token was dead when it was registered
         age : 0..Period,    \* ticks since the deadline was armed
         linger : Nat]       \* history: ticks it was open with a dead token

IsOpen(s) == sock[s].pc = "open"
Dead(s) == sock[s].tv # version

MutDisconnect(s) ==
    LET w == sock[s].w
        rest == RemoveFirst(conns[w], s)
    IN  /\ sock' = [sock EXCEPT ![s] = Closed]
        /\ conns' = [conns EXCEPT ![w] = rest]
        /\ gen' = [gen EXCEPT ![w] = IF rest = <<>> THEN @ + 1 ELSE @]
        /\ UNCHANGED focused

\* disconnect: out of the registry, and an empty list is deleted.
Disconnect(s) ==
    LET w == sock[s].w
        rest == RemoveFirst(conns[w], s)
    IN  /\ sock' = [sock EXCEPT ![s] = Closed]
        /\ conns' = [conns EXCEPT ![w] = rest]
        /\ gen' = [gen EXCEPT ![w] = IF rest = <<>> THEN @ + 1 ELSE @]
        /\ focused' = focused \ {s}

----------------------------------------------------------------------------
(***************************************************************************)
(* Coroutines: a background task runs send_personal_message, or            *)
(* close_address, which starts with it; a listener runs _deliver_local.    *)
(***************************************************************************)
Idle == [pc |-> "idle"]
Done == [pc |-> "done"]
Running ==
    [pc : {"publish", "check", "deliver", "close"}, w : Worker, kind : {"message", "hangup"},
     idx : Nat,              \* position of the for loop in the registry list
     gen : Nat,              \* the list object the loop runs over
     owed : SUBSET Socket,   \* history: the sockets registered when the loop began
     left : Seq(Socket),     \* close_address: what is left of its copy of the list
     passes : Nat]           \* close_address: loops still to run

\* What a coroutine becomes when its function returns.
Returned(j) == IF j \in Worker THEN Idle ELSE Done

\* The loop of _deliver_local over the LIVE list of this worker.
Delivering(rec, extra) ==
    [rec EXCEPT !.pc = "deliver", !.idx = 0, !.gen = gen[rec.w],
                !.owed = Range(conns[rec.w]), !.passes = @ + extra]

\* The loop of close_address, over a copy.
Closing(rec) == [rec EXCEPT !.pc = "close", !.left = conns[rec.w]]

\* send_personal_message is over: close_address goes on with its own loop.
Sent(j, rec) == IF rec.passes > 0 THEN Closing(rec) ELSE Returned(j)

MoreToDeliver(rec) ==
    rec.gen = gen[rec.w] /\ rec.idx < Len(conns[rec.w])

----------------------------------------------------------------------------
Init ==
    /\ version = 0
    /\ sock = [s \in Socket |-> Fresh]
    /\ conns = [w \in Worker |-> <<>>]
    /\ gen = [w \in Worker |-> 0]
    /\ focused = {}
    /\ sub = [w \in Worker |-> "up"]
    /\ inbox = [w \in Worker |-> <<>>]
    /\ job = [j \in Job |-> Idle]
    /\ faults = 0
    /\ missed = {}

registry == <<conns, gen, focused>>
fanout == <<sub, inbox, faults, missed>>

\* websocket_endpoint accepts, and the AUTH frame brings a token minted at tv.
Accept(s, w, tv) ==
    /\ sock[s].pc = "new"
    /\ sock' = [sock EXCEPT ![s] = [pc |-> "accepted", w |-> w, tv |-> tv,
                                    late |-> FALSE, age |-> 0, linger |-> 0]]
    /\ UNCHANGED <<version, registry, fanout, job>>

\* _address_for_token, in a thread: the answer comes back to the loop later.
Validate(s) ==
    /\ sock[s].pc = "accepted"
    /\ sock' = [sock EXCEPT ![s] = IF Dead(s) THEN Closed ELSE [@ EXCEPT !.pc = "validated"]]
    /\ UNCHANGED <<version, registry, fanout, job>>

\* manager.connect, and the first deadline of _client_message_loop.
Register(s) ==
    /\ sock[s].pc = "validated"
    /\ sock' = [sock EXCEPT ![s].pc = "open", ![s].late = Dead(s)]
    /\ conns' = [conns EXCEPT ![sock[s].w] = Append(@, s)]
    /\ UNCHANGED <<version, gen, focused, fanout, job>>

\* APP_FOCUSED / APP_BLURRED: the deadline does not move.
ClientFrame(s, front) ==
    /\ IsOpen(s)
    /\ focused' = IF front THEN focused \cup {s} ELSE focused \ {s}
    /\ UNCHANGED <<version, sock, conns, gen, fanout, job>>

\* The client is gone: receive_text raises, and the endpoint disconnects.
Leave(s) ==
    /\ IsOpen(s)
    /\ Disconnect(s)
    /\ UNCHANGED <<version, fanout, job>>

\* The deadline: ask again whether the token is good.  The lookup is shorter
\* than a tick, so asking and acting on the answer are one step.
Revalidate(s) ==
    /\ IsOpen(s) /\ sock[s].age = Period
    /\ IF Dead(s)
       THEN Disconnect(s)
       ELSE sock' = [sock EXCEPT ![s].age = 0] /\ UNCHANGED registry
    /\ UNCHANGED <<version, fanout, job>>

\* Time passes; a deadline that is due is served before the next tick.
Tick ==
    /\ \A s \in Socket : IsOpen(s) => sock[s].age < Period
    /\ \E s \in Socket : IsOpen(s)
    /\ sock' = [s \in Socket |->
          IF IsOpen(s)
          THEN [sock[s] EXCEPT !.age = @ + 1,
                               !.linger = IF Dead(s) THEN @ + 1 ELSE @]
          ELSE sock[s]]
    /\ UNCHANGED <<version, registry, fanout, job>>

----------------------------------------------------------------------------
(* A route on worker w sends a frame. *)

\* For a hang-up, logout (or the deletion) has committed before its task starts.
Post(t, w, kind) ==
    /\ job[t].pc = "idle"
    /\ version' = IF kind = "hangup" THEN version + 1 ELSE version
    /\ job' = [job EXCEPT ![t] = [pc |-> "publish", w |-> w, kind |-> kind, idx |-> 0,
                 gen |-> 0, owed |-> {}, left |-> <<>>,
                 passes |-> IF kind = "hangup" THEN 1 ELSE 0]]
    /\ UNCHANGED <<sock, registry, fanout>>

\* Of the workers that do not get this frame, those that miss a hang-up: the
\* sender closes its own sockets anyway.
Misses(rec, ws) == IF rec.kind = "hangup" THEN ws \ {rec.w} ELSE {}

\* redis.publish: every subscriber of this moment, and only they, get the frame.
Publish(t) ==
    LET rec == job[t]
        heard == {w \in Worker : sub[w] = "up"}
    IN  /\ rec.pc = "publish"
        /\ inbox' = [w \in Worker |->
                       IF w \in heard THEN Append(inbox[w], rec.kind) ELSE inbox[w]]
        /\ missed' = missed \cup Misses(rec, Worker \ heard)
        /\ job' = [job EXCEPT ![t].pc = "check"]
        /\ UNCHANGED <<version, sock, registry, sub, faults>>

\* publish raises: this worker's own sockets only.
PublishFails(t) ==
    LET rec == job[t]
    IN  /\ rec.pc = "publish" /\ faults < MaxFaults
        /\ faults' = faults + 1
        /\ missed' = missed \cup Misses(rec, Worker)
        /\ job' = [job EXCEPT ![t] = Delivering(rec, rec.passes)]
        /\ UNCHANGED <<version, sock, registry, sub, inbox>>

\* Back in send_personal_message: `if self._listening: return'.
CheckListening(t) ==
    LET rec == job[t]
    IN  /\ rec.pc = "check"
        /\ job' = [job EXCEPT ![t] = IF sub[rec.w] # "down"
                                     THEN Sent(t, rec)
                                     ELSE Delivering(rec, rec.passes)]
        /\ UNCHANGED <<version, sock, registry, fanout>>

\* The listener reads a frame that some worker published.
Listen(w) ==
    LET kind == Head(inbox[w])
    IN  /\ job[w].pc = "idle" /\ sub[w] = "up" /\ inbox[w] # <<>>
        /\ inbox' = [inbox EXCEPT ![w] = Tail(@)]
        /\ job' = [job EXCEPT ![w] =
             Delivering([pc |-> "deliver", w |-> w, kind |-> kind, idx |-> 0, gen |-> 0,
                         owed |-> {}, left |-> <<>>, passes |-> 0],
                        IF kind = "hangup" THEN 1 ELSE 0)]
        /\ UNCHANGED <<version, sock, registry, sub, faults, missed>>

\* One send_json of the loop, or its end: a HANGUP frame is turned into a close.
Deliver(j) ==
    LET rec == job[j]
    IN  /\ rec.pc = "deliver"
        /\ job' = [job EXCEPT ![j] =
             IF MoreToDeliver(rec)
             THEN [rec EXCEPT !.idx = @ + 1, !.owed = @ \ {conns[rec.w][rec.idx + 1]}]
             ELSE Sent(j, rec)]
        /\ UNCHANGED <<version, sock, registry, fanout>>

MutCloseLive(j) ==
    LET rec == job[j]
    IN  /\ rec.pc = "close" /\ rec.left # <<>>
        /\ IF IsOpen(Head(rec.left))
           THEN Disconnect(Head(rec.left))
           ELSE UNCHANGED <<sock, registry>>
        /\ job' = [job EXCEPT ![j].left = IF Len(@) > 1 THEN Tail(Tail(@)) ELSE <<>>]
        /\ UNCHANGED <<version, fanout>>

\* One connection.close() and disconnect of the copy; a socket that left since
\* makes close() raise, which is logged.
CloseOne(j) ==
    LET rec == job[j]
    IN  /\ rec.pc = "close" /\ rec.left # <<>>
        /\ IF IsOpen(Head(rec.left))
           THEN Disconnect(Head(rec.left))
           ELSE UNCHANGED <<sock, registry>>
        /\ job' = [job EXCEPT ![j].left = Tail(@)]
        /\ UNCHANGED <<version, fanout>>

\* The copy is used up: the function returns, into a second close_address when
\* the first one ran inside send_personal_message.
CloseEnds(j) ==
    LET rec == [job[j] EXCEPT !.passes = @ - 1]
    IN  /\ job[j].pc = "close" /\ job[j].left = <<>>
        /\ job' = [job EXCEPT ![j] = Sent(j, rec)]
        /\ UNCHANGED <<version, sock, registry, fanout>>

----------------------------------------------------------------------------
(* Failures. *)

\* A half-open connection: _listening stays TRUE and nothing arrives any more.
GoSilent(w) ==
    /\ sub[w] = "up" /\ faults < MaxFaults
    /\ faults' = faults + 1
    /\ sub' = [sub EXCEPT ![w] = "silent"]
    /\ inbox' = [inbox EXCEPT ![w] = <<>>]
    /\ missed' = IF Contains(inbox[w], "hangup") THEN missed \cup {w} ELSE missed
    /\ UNCHANGED <<version, sock, registry, job>>

\* _listen raises (connection lost, or LISTENER_STALE_SECONDS of silence), which
\* it can only while it is reading.
Lose(w) ==
    /\ job[w].pc = "idle" /\ sub[w] # "down"
    /\ sub[w] = "up" => faults < MaxFaults
    /\ faults' = IF sub[w] = "up" THEN faults + 1 ELSE faults
    /\ sub' = [sub EXCEPT ![w] = "down"]
    /\ inbox' = [inbox EXCEPT ![w] = <<>>]
    /\ missed' = IF Contains(inbox[w], "hangup") THEN missed \cup {w} ELSE missed
    /\ UNCHANGED <<version, sock, registry, job>>

\* _supervise subscribes again, from now on.
Resubscribe(w) ==
    /\ sub[w] = "down"
    /\ sub' = [sub EXCEPT ![w] = "up"]
    /\ UNCHANGED <<version, sock, registry, inbox, job, faults, missed>>

\* A worker dies with its sockets, its registry and its coroutines, and starts
\* again: a hang-up it had not published yet reaches nobody.
Crash(w) ==
    /\ faults < MaxFaults
    /\ faults' = faults + 1
    /\ sock' = [s \in Socket |->
                  IF sock[s].pc \in {"accepted", "validated", "open"} /\ sock[s].w = w
                  THEN Closed ELSE sock[s]]
    /\ conns' = [conns EXCEPT ![w] = <<>>]
    /\ gen' = [gen EXCEPT ![w] = 0]
    /\ focused' = {s \in focused : sock[s].w # w}
    /\ sub' = [sub EXCEPT ![w] = "up"]
    /\ inbox' = [inbox EXCEPT ![w] = <<>>]
    /\ job' = [j \in Job |-> IF job[j].pc \notin {"idle", "done"} /\ job[j].w = w
                             THEN Returned(j) ELSE job[j]]
    /\ missed' = missed \cup UNION {Misses(job[t], Worker) :
                    t \in {x \in Task : job[x].pc = "publish" /\ job[x].w = w}}
    /\ UNCHANGED version

Next ==
    \/ \E s \in Socket :
         \/ \E w \in Worker, tv \in 0..version : Accept(s, w, tv)
         \/ Validate(s)
         \/ Register(s)
         \/ \E front \in BOOLEAN : ClientFrame(s, front)
         \/ Leave(s)
         \/ Revalidate(s)
    \/ Tick
    \/ \E t \in Task :
         \/ \E w \in Worker, kind \in Kinds : Post(t, w, kind)
         \/ Publish(t)
         \/ PublishFails(t)
         \/ CheckListening(t)
    \/ \E j \in Job : Deliver(j) \/ CloseOne(j) \/ CloseEnds(j)
    \/ \E w \in Worker :
         Listen(w) \/ GoSilent(w) \/ Lose(w) \/ Resubscribe(w) \/ Crash(w)

Spec == Init /\ [][Next]_vars

----------------------------------------------------------------------------
(* Properties. *)

TypeOK ==
    /\ version \in Nat
    /\ sock \in [Socket -> {Fresh, Closed} \cup Live]
    /\ conns \in [Worker -> Seq(Socket)]
    /\ gen \in [Worker -> Nat]
    /\ focused \subseteq Socket
    /\ sub \in [Worker -> {"up", "silent", "down"}]
    /\ inbox \in [Worker -> Seq({"message", "hangup"})]
    /\ job \in [Job -> {Idle, Done} \cup Running]
    /\ faults \in 0..MaxFaults
    /\ missed \subseteq Worker

\* The registry of a worker holds exactly its open sockets, each once, and only
\* they are focused: nothing is delivered to, or kept in front of, a ghost.
RegistryExact ==
    /\ \A w \in Worker :
         /\ IsInjective(conns[w])
         /\ Range(conns[w]) = {s \in Socket : IsOpen(s) /\ sock[s].w = w}
    /\ \A s \in focused : IsOpen(s)

\* A hang-up is still on its way to worker w.
HangupUnderWay(w) ==
    \/ Contains(inbox[w], "hangup")
    \/ \E t \in Task : job[t].pc = "publish" /\ job[t].kind = "hangup"
    \/ \E j \in Job : /\ job[j].pc \in {"check", "deliver", "close"}
                      /\ job[j].kind = "hangup" /\ job[j].w = w

(***************************************************************************)
(* close_address hangs up on EVERY socket of the address: once no hang-up  *)
(* is under way at a worker, a socket open there with a dead token was     *)
(* either registered after its token died (its handshake was validated     *)
(* before the commit), or the worker lost the frame - which the worker     *)
(* that served the logout cannot blame on its own subscription.            *)
(***************************************************************************)
HangupComplete ==
    \A s \in Socket : (IsOpen(s) /\ Dead(s)) =>
        \/ sock[s].late
        \/ HangupUnderWay(sock[s].w)
        \/ sock[s].w \in missed

(***************************************************************************)
(* The backstop (audit M-1): however it escaped the hang-up - a late       *)
(* registration, a lost frame, a crash - no socket outlives its token by   *)
(* more than WS_REVALIDATE_SECONDS, however busy its client keeps it.      *)
(***************************************************************************)
LingerBounded == \A s \in Socket : IsOpen(s) => sock[s].linger <= Period

(***************************************************************************)
(* "so the event reaches the user's sockets on whichever worker holds      *)
(* them": a delivery loop that ends has sent to every socket that was      *)
(* registered when it began and still is.  The code does not guarantee it  *)
(* (see the README).                                                       *)
(***************************************************************************)
NoneSkipped ==
    \A j \in Job : (job[j].pc = "deliver" /\ ~ MoreToDeliver(job[j])) =>
        job[j].owed \cap Range(conns[job[j].w]) = {}

\* What holds of the sockets at every step.
SocketsInv == TypeOK /\ RegistryExact /\ LingerBounded
=============================================================================
