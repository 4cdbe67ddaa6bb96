------------------------------ MODULE Ceremony ------------------------------
(***************************************************************************)
(* A browser tab taking part in approval workflows: the list and its poll  *)
(* (hooks/useMultisig.js, Dashboard.jsx), the workflow dialog              *)
(* (MultisigWorkflow.jsx, components/multisig/), the creation form         *)
(* (MultisigCreateModal.jsx) and the proof it exports (proof.js,           *)
(* ProofAudit.jsx).  The tab belongs to Me; everyone else acts on the      *)
(* server directly.  Each request to the server is one step here: Multisig *)
(* models what its transactions do to one another.                         *)
(*                                                                         *)
(* A dialog keeps the copy of a workflow it fetched for as long as it is   *)
(* open, a handler keeps the copy it was started with, and neither is      *)
(* stopped when the dialog closes: the handler's answer opens it again.    *)
(***************************************************************************)
EXTENDS Naturals, Sequences, FiniteSets, Functions

CONSTANTS
    User,      \* addresses
    Me,        \* whose tab this is
    Wf,        \* workflow ids: the bound on workflows ever created
    NoWf,      \* no workflow
    Start,     \* what the server may hold to begin with: [wf, key]
    Job,       \* handlers in progress at once
    MaxPolls,  \* bound: list requests in flight
    MaxPeople, \* bound: people on the two lists of the form
    MaxDeeds,  \* bound: dialogs opened, failures, and what other people do
    Offered    \* what they do

ASSUME CeremonyConstants ==
    /\ IsFiniteSet(User) /\ Me \in User /\ NoWf \notin Wf
    /\ MaxPolls \in Nat \ {0} /\ MaxPeople \in Nat \ {0} /\ MaxDeeds \in Nat

VARIABLES
    wf,       \* the server's workflows
    key,      \* what the directory serves of each user's encryption key
    list,     \* the workflows on screen, as the last poll or update left them
    badge,    \* the workflows counted in the "action required" dot
    polls,    \* the lists being answered
    dialog,   \* the workflow dialog
    job,      \* handlers of dialogs, some of them closed since
    form,     \* the creation form
    make,     \* the creation in progress
    deeds     \* deeds done so far

world == <<wf, key>>
page == <<list, badge, polls>>
vars == <<world, page, dialog, job, form, make, deeds>>

Others == User \ {Me}

Spend(deed) == deed \in Offered /\ deeds < MaxDeeds /\ deeds' = deeds + 1

----------------------------------------------------------------------------
(* What the server keeps and what it tells *)

\* t is the threshold, 0 for NULL; author is whose signature the content has
\* inside: the owner's, another's, one that does not verify, or none.
NoRow == [status |-> "unused", owner |-> Me, signers |-> {}, t |-> 0, signed |-> {},
          recips |-> {}, keyed |-> {}, author |-> "none"]

Row == [status : {"unused", "pending", "completed", "rejected", "deleted"}, owner : User,
        signers : SUBSET User, t : Nat, signed : SUBSET User, recips : SUBSET User,
        keyed : SUBSET User, author : {"owner", "other", "bad", "none"}]
KeyState == {"none", "good", "bad", "gone"}

\* Only a signer signs, and a release has a wrap for every recipient (the end
\* state _release_recipient_keys insists on).
Consistent(r) ==
    /\ r.signed \subseteq r.signers /\ r.keyed \subseteq r.recips
    /\ r.status = "completed" => r.recips = r.keyed

ASSUME StartConsistent ==
    \A s \in Start : /\ s.wf \in [Wf -> Row] /\ \A w \in Wf : Consistent(s.wf[w])
                     /\ s.key \in [User -> KeyState]

Unused == {w \in Wf : wf[w].status = "unused"}

Stored(r) == r.status \in {"pending", "completed", "rejected"}

Readable(w) ==
    /\ Stored(wf[w])
    /\ \/ Me = wf[w].owner
       \/ Me \in wf[w].signers
       \/ wf[w].status = "completed" /\ Me \in wf[w].recips

\* A workflow as an answer shows it, with the keys of its recipients.
Copy(w, r) == [w |-> w, status |-> r.status, signed |-> r.signed, recips |-> r.recips,
               keys |-> [u \in r.recips |-> key[u]]]
NoCopy == [w |-> NoWf, status |-> "unused", signed |-> {}, recips |-> {}, keys |-> <<>>]

Now(w) == Copy(w, wf[w])
Listing == {Now(w) : w \in {v \in Wf : Readable(v)}}

Quorum(w) == IF wf[w].t = 0 THEN Cardinality(wf[w].signers) ELSE wf[w].t

\* A signature, and with the final one the recipient keys and the release.
Signed(w, u, sent) ==
    LET final == Cardinality(wf[w].signed) + 1 >= Quorum(w)
    IN  [wf[w] EXCEPT !.signed = @ \cup {u},
                      !.keyed = IF final THEN @ \cup (sent \cap wf[w].recips) ELSE @,
                      !.status = IF final THEN "completed" ELSE @]

\* Why /sign refuses u, with the recipient keys sent, or "ok".
SignVerdict(w, u, sent) ==
    LET final == Cardinality(wf[w].signed) + 1 >= Quorum(w)
    IN  CASE ~ Stored(wf[w]) -> "not found"
          [] wf[w].status # "pending" -> "closed"
          [] u \in wf[w].signed -> "already signed"
          [] sent # {} /\ ~ final -> "early keys"
          [] final /\ wf[w].recips # {} /\ ~ sent \subseteq wf[w].recips -> "unknown recipient"
          [] final /\ ~ wf[w].recips \subseteq wf[w].keyed \cup sent -> "no key"
          [] OTHER -> "ok"

----------------------------------------------------------------------------
(* The list and its badge *)

MutOwed(c) == c.status = "pending" /\ Me \in wf[c.w].signers \ c.signed /\ Me # wf[c.w].owner

\* A signature this user still owes.
Owed(c) == c.status = "pending" /\ Me \in wf[c.w].signers \ c.signed

StartPoll ==
    /\ Cardinality(polls) < MaxPolls
    /\ polls' = polls \cup {Listing}
    /\ UNCHANGED <<world, list, badge, dialog, job, form, make, deeds>>

\* Answers are applied in the order they come.
AnswerPoll(p) ==
    /\ p \in polls
    /\ polls' = polls \ {p}
    /\ list' = p
    /\ badge' = {c.w : c \in {d \in p : Owed(d)}}
    /\ UNCHANGED <<world, dialog, job, form, make, deeds>>

PollFails(p) ==
    /\ p \in polls
    /\ Spend("fail")
    /\ polls' = polls \ {p}
    /\ UNCHANGED <<world, list, badge, dialog, job, form, make>>

----------------------------------------------------------------------------
(* The workflow dialog *)

\* base: the row of the list it was opened with; detail: the workflow fetched
\* since; want: that fetch is in progress; late: fetches for workflows it showed
\* before; shown: whose content is on screen, and the verdict on its signature.
Hidden == [w |-> NoWf, verdict |-> "none"]
NoDialog == [base |-> NoCopy, detail |-> NoCopy, want |-> FALSE, late |-> {}, shown |-> Hidden]

Open == dialog.base.w # NoWf
Ready == dialog.detail.w # NoWf
Current == IF Ready THEN dialog.detail ELSE dialog.base

\* selectedWorkflow becomes c: the dialog opens on it, or moves to it.
Select(c) ==
    CASE ~ Open -> [NoDialog EXCEPT !.base = c, !.want = TRUE]
      [] Open /\ dialog.base.w = c.w -> [dialog EXCEPT !.base = c]
      [] OTHER -> [dialog EXCEPT !.base = c, !.detail = NoCopy, !.want = TRUE,
                                 !.late = IF dialog.want THEN @ \cup {dialog.base.w} ELSE @]

OpenDialog(c) ==
    /\ c \in list /\ ~ Open
    /\ Spend("open")
    /\ dialog' = Select(c)
    /\ UNCHANGED <<world, page, job, form, make>>

Idle == [kind |-> "idle", stage |-> "none", copy |-> NoCopy, mounted |-> FALSE, sent |-> {}]
Unmounted == [j \in Job |-> [job[j] EXCEPT !.mounted = FALSE]]

CloseDialog ==
    /\ Open
    /\ dialog' = NoDialog
    /\ job' = Unmounted
    /\ UNCHANGED <<world, page, form, make, deeds>>

\* The fetch answers with the workflow, or says it may not be read (any more).
DetailArrives ==
    /\ Open /\ dialog.want
    /\ dialog' = [dialog EXCEPT !.want = FALSE,
                                !.detail = IF Readable(dialog.base.w) THEN Now(dialog.base.w) ELSE @]
    /\ UNCHANGED <<world, page, job, form, make, deeds>>

DetailFails ==
    /\ Open /\ dialog.want
    /\ Spend("fail")
    /\ dialog' = [dialog EXCEPT !.want = FALSE]
    /\ UNCHANGED <<world, page, job, form, make>>

\* cancelled: the effect that asked for it has been cleaned up.
Ignore(w) == [dialog EXCEPT !.late = @ \ {w}]

LateDetail(w) ==
    /\ w \in dialog.late
    /\ dialog' = Ignore(w)
    /\ UNCHANGED <<world, page, job, form, make, deeds>>

----------------------------------------------------------------------------
(* Its handlers *)

\* Any handler not in progress will do for a new one.
Free(j) == job[j].kind = "idle" /\ j = CHOOSE i \in Job : job[i].kind = "idle"

Running(kinds) == \E j \in Job : job[j].mounted /\ job[j].kind \in kinds

Begin(j, kind, sent) ==
    job' = [job EXCEPT ![j] = [kind |-> kind, stage |-> "asked", copy |-> Current,
                               mounted |-> TRUE, sent |-> sent]]

MutCompletingAll(c) == Cardinality(c.signed) + 1 >= Cardinality(wf[c.w].signers)

\* isCompletingSigner, as far as the copy knows.
Completing(c) == Cardinality(c.signed) + 1 >= Quorum(c.w)

\* Recipients without a key are skipped, one whose key fails its attestation
\* stops the signature.
KeysSent(c) == IF Completing(c) THEN {u \in c.recips : c.keys[u] = "good"} ELSE {}
ReleaseUnsafe(c) == Completing(c) /\ \E u \in c.recips : c.keys[u] = "bad"

\* The buttons of a signer who has not answered.
MayAnswer == Open /\ Owed(Current) /\ ~ Running({"sign", "reject"})

StartSign(j) ==
    /\ Free(j) /\ MayAnswer /\ Ready
    /\ ~ ReleaseUnsafe(Current)
    /\ Begin(j, "sign", KeysSent(Current))
    /\ UNCHANGED <<world, page, dialog, form, make, deeds>>

\* Rejecting does not wait for the detail.
StartReject(j) ==
    /\ Free(j) /\ MayAnswer
    /\ Begin(j, "reject", {})
    /\ UNCHANGED <<world, page, dialog, form, make, deeds>>

StartDelete(j) ==
    /\ Free(j) /\ Open
    /\ wf[Current.w].owner = Me /\ Current.status = "rejected"
    /\ ~ Running({"delete"})
    /\ Begin(j, "delete", {})
    /\ UNCHANGED <<world, page, dialog, form, make, deeds>>

\* What the server makes of a request: the row it leaves, and why not.
Outcome(j) ==
    LET c == job[j].copy
        w == c.w
    IN  CASE job[j].kind = "sign" ->
               [why |-> SignVerdict(w, Me, job[j].sent), row |-> Signed(w, Me, job[j].sent)]
          [] job[j].kind = "reject" ->
               [why |-> IF ~ Stored(wf[w]) THEN "not found"
                        ELSE IF wf[w].status # "pending" THEN "closed" ELSE "ok",
                row |-> [wf[w] EXCEPT !.status = "rejected"]]
          [] job[j].kind = "delete" ->
               [why |-> IF ~ Stored(wf[w]) THEN "not found"
                        ELSE IF wf[w].status = "completed" THEN "closed" ELSE "ok",
                row |-> [wf[w] EXCEPT !.status = "deleted"]]

\* A refused handler shows the error and keeps the copy it had.
Post(j) ==
    LET c == job[j].copy
        out == Outcome(j)
    IN  /\ job[j].stage = "asked"
        /\ IF out.why = "ok"
           THEN /\ wf' = [wf EXCEPT ![c.w] = out.row]
                /\ job' = [job EXCEPT ![j].stage = "answered", ![j].copy = Copy(c.w, out.row)]
           ELSE /\ job' = [job EXCEPT ![j] = Idle]
                /\ UNCHANGED wf
        /\ UNCHANGED <<key, page, dialog, form, make, deeds>>

JobFails(j) ==
    /\ job[j].kind # "idle"
    /\ Spend("fail")
    /\ job' = [job EXCEPT ![j] = Idle]
    /\ UNCHANGED <<world, page, dialog, form, make>>

\* handleMultisigUpdate, then setDetail on the instance the handler belongs to.
Updated(j) ==
    /\ job[j].kind \in {"sign", "reject"} /\ job[j].stage = "answered"
    /\ LET c == job[j].copy
           moved == Select(c)
       IN  /\ list' = {IF d.w = c.w THEN c ELSE d : d \in list}
           /\ dialog' = IF job[j].mounted /\ dialog.base.w = c.w
                        THEN [moved EXCEPT !.detail = c] ELSE moved
    /\ job' = [job EXCEPT ![j] = Idle]
    /\ UNCHANGED <<world, badge, polls, form, make, deeds>>

\* handleMultisigDelete closes whatever dialog is open.
Deleted(j) ==
    /\ job[j].kind = "delete" /\ job[j].stage = "answered"
    /\ list' = {d \in list : d.w # job[j].copy.w}
    /\ dialog' = NoDialog
    /\ job' = [Unmounted EXCEPT ![j] = Idle]
    /\ UNCHANGED <<world, badge, polls, form, make, deeds>>

\* The creator's signature must verify AND name the owner of the workflow.
Verdict(w) ==
    CASE wf[w].author = "none" -> "unsigned"
      [] wf[w].author = "bad" -> "failed"
      [] wf[w].author = "other" -> "mismatch"
      [] OTHER -> "verified"

\* The owner's wrap, a signer's, or that of a recipient once released.
CanView(c) ==
    \/ wf[c.w].owner = Me
    \/ Me \in wf[c.w].signers
    \/ Me \in c.recips /\ c.status = "completed"

\* fetchAndDecrypt.  It, too, goes on when the dialog moves, and shows then
\* what showing first and moving after shows.
View ==
    /\ Open /\ Ready
    /\ CanView(Current) /\ dialog.shown = Hidden
    /\ dialog' = [dialog EXCEPT !.shown = [w |-> Current.w, verdict |-> Verdict(Current.w)]]
    /\ UNCHANGED <<world, page, job, form, make, deeds>>

Hide ==
    /\ dialog.shown # Hidden
    /\ dialog' = [dialog EXCEPT !.shown = Hidden]
    /\ UNCHANGED <<world, page, job, form, make, deeds>>

----------------------------------------------------------------------------
(* Proofs *)

MutExportable(s) == TRUE

\* A creator's signature that was not verified as the owner's is not exported.
Exportable(s) == s.verdict \in {"verified", "unsigned"}

\* The workflow named, the one whose document is inside, whether it has the
\* hash the approvals are over, and its entries.
Proof == [w |-> Current.w, of |-> dialog.shown.w, ct |-> Ready,
          creator |-> dialog.shown.verdict # "unsigned", signers |-> Current.signed]

\* The download button is shown and does not refuse.
MayExport ==
    /\ dialog.shown # Hidden
    /\ Proof.creator \/ Proof.signers # {}
    /\ Exportable(dialog.shown)

\* verifyMultisigProofSignatures: the creator's over the document and under the
\* key of the owner named, the signers' over the hash of the ciphertext.
Audit(p) ==
    /\ p.creator => wf[p.of].author = "owner" /\ wf[p.of].owner = wf[p.w].owner
    /\ p.signers # {} => p.ct /\ p.signers \subseteq wf[p.w].signed

----------------------------------------------------------------------------
(* The creation form *)

\* A person on a list is the search result clicked: the key it had then.
Person == [who : User, key : KeyState]
Named(people) == {people[i].who : i \in DOMAIN people}

\* found: the results on screen; asked: whom the search in flight will find.
NoForm == [open |-> FALSE, step |-> 0, signers |-> <<>>, recips |-> <<>>, t |-> 1,
           found |-> {}, asked |-> {}]

NotMaking == [stage |-> "idle", signers |-> <<>>, recips |-> <<>>, t |-> 1]
Creating == make.stage \in {"wrapping", "answered"}

OpenForm ==
    /\ ~ form.open /\ Unused # {}
    /\ Spend("form")
    /\ form' = [NoForm EXCEPT !.open = TRUE]
    /\ UNCHANGED <<world, page, dialog, job, make>>

CloseForm ==
    /\ form.open
    /\ form' = NoForm
    /\ UNCHANGED <<world, page, dialog, job, make, deeds>>

\* Leaving the second step takes a signer.  Back is disabled while the creation
\* runs; nobody walks back in the half second the form stays after it.
Step(n) ==
    /\ form.open /\ n \in 0..3
    /\ \/ n = form.step + 1 /\ (form.step = 1 => form.signers # <<>>)
       \/ n = form.step - 1 /\ make.stage = "idle"
    /\ form' = [form EXCEPT !.step = n]
    /\ UNCHANGED <<world, page, dialog, job, make, deeds>>

Listed == IF form.step = 1 THEN form.signers ELSE form.recips

\* A search for u leaves out who is on the list now, not when it is answered.
Search(u) ==
    /\ form.open /\ form.step \in {1, 2} /\ form.asked = {}
    /\ u \in Others \ Named(Listed)
    /\ form' = [form EXCEPT !.asked = {u}]
    /\ UNCHANGED <<world, page, dialog, job, make, deeds>>

Found(u) ==
    /\ u \in form.asked
    /\ form' = [form EXCEPT !.asked = {},
                  !.found = IF key[u] = "gone" THEN {} ELSE {[who |-> u, key |-> key[u]]}]
    /\ UNCHANGED <<world, page, dialog, job, make, deeds>>

\* The effect on signers.length: the previous maximum follows the list, the
\* rest is clamped to it.
Threshold(t, prev, len) ==
    IF t = prev \/ t > len THEN (IF len > 1 THEN len ELSE 1) ELSE t

(***************************************************************************)
(* The effect queues an updater that reads prevSignerCount, then sets it to *)
(* the new count.  React runs an updater at once when nothing is queued on *)
(* the component, else in the next render: before or after the assignment. *)
(***************************************************************************)
WithSigners(people) ==
    LET len == Len(people)
    IN  \E prev \in {Len(form.signers), len} :
          LET t == Threshold(form.t, prev, len)
          IN  form' = [form EXCEPT !.signers = people, !.t = t, !.found = {}]

Add(p) ==
    /\ form.open /\ form.step \in {1, 2} /\ p \in form.found
    /\ Len(form.signers) + Len(form.recips) < MaxPeople
    /\ IF form.step = 1
       THEN WithSigners(Append(form.signers, p))
       ELSE form' = [form EXCEPT !.recips = Append(@, p), !.found = {}]
    /\ UNCHANGED <<world, page, dialog, job, make, deeds>>

\* Everyone else, in the order they were: the n-th of the places that stay.
Without(people, u) ==
    LET stay == {i \in DOMAIN people : people[i].who # u}
    IN  [n \in 1..Cardinality(stay) |->
            people[CHOOSE i \in stay : Cardinality({j \in stay : j <= i}) = n]]

RemovePerson(u) ==
    /\ form.open /\ form.step \in {1, 2} /\ u \in Named(Listed)
    /\ IF form.step = 1
       THEN WithSigners(Without(form.signers, u))
       ELSE form' = [form EXCEPT !.recips = Without(@, u)]
    /\ UNCHANGED <<world, page, dialog, job, make, deeds>>

SetThreshold(t) ==
    /\ form.open /\ form.step = 1 /\ t \in 1..Len(form.signers)
    /\ form' = [form EXCEPT !.t = t]
    /\ UNCHANGED <<world, page, dialog, job, make, deeds>>

\* handleCreate, with the lists and the threshold of the render it started in.
StartCreate ==
    /\ form.open /\ form.step = 3 /\ form.signers # <<>>
    /\ make.stage \in {"idle", "saved"}
    /\ \A p \in Range(form.signers) \cup Range(form.recips) : p.key # "bad"
    /\ make' = [stage |-> "wrapping", signers |-> form.signers, recips |-> form.recips,
                t |-> form.t]
    /\ UNCHANGED <<world, page, dialog, job, form, deeds>>

KeyedIn(people) == {p.who : p \in {q \in Range(people) : q.key = "good"}}

\* Why POST /workflow refuses the creation, or "ok".
CreateVerdict ==
    LET people == Named(make.signers) \cup Named(make.recips)
    IN  CASE make.t > Cardinality(Named(make.signers)) -> "threshold"
          [] ~ Named(make.signers) \subseteq KeyedIn(make.signers) -> "signer without a key"
          [] \E u \in people : key[u] = "gone" -> "unknown user"
          [] OTHER -> "ok"

Created == [NoRow EXCEPT !.status = "pending", !.owner = Me, !.t = make.t, !.author = "owner",
                         !.signers = Named(make.signers), !.recips = Named(make.recips),
                         !.keyed = KeyedIn(make.recips)]

PostCreate(w) ==
    /\ make.stage = "wrapping" /\ w \in Unused
    /\ IF CreateVerdict = "ok"
       THEN /\ wf' = [wf EXCEPT ![w] = Created]
            /\ make' = [NotMaking EXCEPT !.stage = "answered"]
       ELSE /\ make' = NotMaking
            /\ UNCHANGED wf
    /\ UNCHANGED <<key, page, dialog, job, form, deeds>>

\* The request or, the workflow created, the upload of its files fails.
MakeFails ==
    /\ Creating
    /\ Spend("fail")
    /\ make' = NotMaking
    /\ UNCHANGED <<world, page, dialog, job, form>>

\* Everything uploaded: the form closes half a second later, its button back.
MakeSaved ==
    /\ make.stage = "answered"
    /\ make' = [make EXCEPT !.stage = "saved"]
    /\ UNCHANGED <<world, page, dialog, job, form, deeds>>

\* onCreated: whatever form is open closes, and the list is fetched.
CreatedClosesForm ==
    /\ make.stage = "saved"
    /\ make' = NotMaking
    /\ form' = NoForm
    /\ polls' = IF Cardinality(polls) < MaxPolls THEN polls \cup {Listing} ELSE polls
    /\ UNCHANGED <<world, list, badge, dialog, job, deeds>>

----------------------------------------------------------------------------
(* Everyone else *)

\* Another signer, with a copy just fetched.
OtherSigns(w, u) ==
    LET sent == IF Cardinality(wf[w].signed) + 1 >= Quorum(w)
                THEN {v \in wf[w].recips : key[v] = "good"} ELSE {}
    IN  /\ u \in wf[w].signers \cap Others /\ SignVerdict(w, u, sent) = "ok"
        /\ Spend("others")
        /\ wf' = [wf EXCEPT ![w] = Signed(w, u, sent)]
        /\ UNCHANGED <<key, page, dialog, job, form, make>>

OtherEnds(w, end) ==
    /\ \/ end = "rejected" /\ wf[w].status = "pending" /\ wf[w].signers \cap Others # {}
       \/ end = "deleted" /\ wf[w].status \in {"pending", "rejected"} /\ wf[w].owner # Me
    /\ Spend("others")
    /\ wf' = [wf EXCEPT ![w].status = end]
    /\ UNCHANGED <<key, page, dialog, job, form, make>>

\* _erase_multisig: what u owns and is not released goes, and u leaves the
\* recipients of what is not released.
Erase(u) ==
    /\ u \in Others /\ key[u] # "gone"
    /\ Spend("erase")
    /\ key' = [key EXCEPT ![u] = "gone"]
    /\ wf' = [w \in Wf |->
                IF wf[w].status \notin {"pending", "rejected"} THEN wf[w]
                ELSE IF wf[w].owner = u THEN [wf[w] EXCEPT !.status = "deleted"]
                ELSE [wf[w] EXCEPT !.recips = @ \ {u}, !.keyed = @ \ {u}]]
    /\ UNCHANGED <<page, dialog, job, form, make>>

\* A recipient publishes a key, or the directory serves one that is not theirs.
Publish(u, k) ==
    /\ u \in Others /\ key[u] \notin {k, "gone"}
    /\ \E w \in Wf : u \in wf[w].recips /\ wf[w].status = "pending"
    /\ Spend("publish")
    /\ key' = [key EXCEPT ![u] = k]
    /\ UNCHANGED <<wf, page, dialog, job, form, make>>

----------------------------------------------------------------------------
\* A pending workflow of the server, its quorum not reached; rows written
\* before the threshold column are among them.
Pending(o, s, t, d, r, k) ==
    [NoRow EXCEPT !.status = "pending", !.owner = o, !.signers = s, !.t = t, !.signed = d,
                  !.recips = r, !.keyed = k, !.author = "owner"]

\* One released to nobody; other clients may have put anything inside.
Released(o, author) ==
    [NoRow EXCEPT !.status = "completed", !.owner = o, !.author = author,
                  !.signers = {Me}, !.signed = {Me}, !.t = 1]

Init ==
    /\ \E s \in Start : wf = s.wf /\ key = s.key
    /\ list = Listing
    /\ badge = {c.w : c \in {d \in list : Owed(d)}}
    /\ polls = {}
    /\ dialog = NoDialog
    /\ job = [j \in Job |-> Idle]
    /\ form = NoForm /\ make = NotMaking
    /\ deeds = 0

Dialogs ==
    \/ \E c \in list : OpenDialog(c)
    \/ CloseDialog \/ DetailArrives \/ DetailFails \/ View \/ Hide
    \/ \E w \in Wf : LateDetail(w)

Handlers == \E j \in Job :
    \/ StartSign(j) \/ StartReject(j) \/ StartDelete(j)
    \/ Post(j) \/ JobFails(j) \/ Updated(j) \/ Deleted(j)

Making ==
    \/ OpenForm \/ CloseForm \/ StartCreate \/ MakeFails \/ MakeSaved \/ CreatedClosesForm
    \/ \E n \in 0..3 : Step(n)
    \/ \E u \in Others : Search(u) \/ Found(u)
    \/ \E p \in form.found : Add(p)
    \/ \E u \in Others : RemovePerson(u)
    \/ \E t \in 1..MaxPeople : SetThreshold(t)
    \/ \E w \in Wf : PostCreate(w)

Polling == StartPoll \/ (\E p \in polls : AnswerPoll(p) \/ PollFails(p))

Elsewhere ==
    \/ \E w \in Wf, u \in User : OtherSigns(w, u)
    \/ \E w \in Wf, end \in {"rejected", "deleted"} : OtherEnds(w, end)
    \/ \E u \in User : Erase(u)
    \/ \E u \in User, k \in {"none", "good", "bad"} : Publish(u, k)

Next == Polling \/ Dialogs \/ Handlers \/ Making \/ Elsewhere

Spec == Init /\ [][Next]_vars

\* The ten-second interval keeps asking and a request is answered at last.
FairSpec ==
    /\ Spec
    /\ WF_vars(StartPoll)
    /\ WF_vars(\E p \in polls : AnswerPoll(p))

----------------------------------------------------------------------------
(* Properties *)

\* Every variable stays in its set, and every workflow stays consistent.
TypeOK ==
    /\ wf \in [Wf -> Row] /\ \A w \in Wf : Consistent(wf[w])
    /\ key \in [User -> KeyState]
    /\ badge \subseteq Wf /\ Cardinality(polls) <= MaxPolls
    /\ \A j \in Job : job[j].kind \in {"idle", "sign", "reject", "delete"}
    /\ form.step \in 0..3 /\ Range(form.signers) \cup Range(form.recips) \subseteq Person
    /\ make.stage \in {"idle", "wrapping", "answered", "saved"}

\* "it would hand the wrong ciphertext to the sign button": a fetched workflow
\* is on screen only as the one the dialog shows, however the dialog came to
\* show it and whatever was being fetched before (MultisigWorkflow.jsx:41-59).
DetailIsOfDialog == Ready => dialog.detail.w = dialog.base.w

Signing(j) == job[j].kind = "sign" /\ job[j].stage = "asked"

\* Recipient keys accompany the final signature only: however old the copy the
\* signer took for the last one, no signature is refused for sending them early
\* (signWorkflow.js:88-90 against multisig.py sign_multisig_workflow).
NoEarlyKeys ==
    \A j \in Job : Signing(j) => SignVerdict(job[j].copy.w, Me, job[j].sent) # "early keys"

\* A signature over a copy that is still current is accepted, unless some
\* recipient had no wrap and has no key to make one with: what the client takes
\* for the quorum and sends is what the server takes for it and wants.
CurrentCopySigns ==
    \A j \in Job :
       LET c == job[j].copy
       IN  Signing(j) /\ c = Now(c.w)
           /\ (\A u \in wf[c.w].recips \ wf[c.w].keyed : key[u] = "good")
              => SignVerdict(c.w, Me, job[j].sent) = "ok"

\* An exported proof of the workflow's own document passes the audit: it names
\* the owner as creator only when the owner's signature is inside, and only
\* signers whose approval is on record (proof.js, ProofAudit.jsx).
ProofsHold == MayExport /\ Proof.of = Proof.w /\ Proof.ct => Audit(Proof)

\* Whatever is added, removed and typed, the threshold is one the signers on
\* the list can reach (MultisigCreateModal.jsx:55-62).
ThresholdReachable ==
    form.open => form.t >= 1 /\ (form.signers # <<>> => form.t <= Len(form.signers))

\* "Default is 'all signers' (M-of-M): if the threshold was at the previous max
\* we snap it to the new count" (MultisigCreateModal.jsx:51-54).
AllByDefault ==
    [][form.signers # <<>> /\ form.t = Len(form.signers) /\ form'.signers # <<>>
          /\ Len(form'.signers) # Len(form.signers)
             => form'.t = Len(form'.signers)]_form

Owes(w) == wf[w].status = "pending" /\ Me \in wf[w].signers \ wf[w].signed

\* Whatever order the polls answer in, the dot comes back again and again to
\* exactly the signatures owed: none is missed, none lingers (useMultisig.js:17-52).
DotFollows == []<>(badge = {w \in Wf : Owes(w)})

\* What holds of the dialogs and the form at every step.
CeremonyInv == TypeOK /\ DetailIsOfDialog /\ NoEarlyKeys /\ CurrentCopySigns /\ ThresholdReachable
=============================================================================
