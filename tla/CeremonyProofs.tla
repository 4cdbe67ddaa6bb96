--------------------------- MODULE CeremonyProofs ---------------------------
(***************************************************************************)
(* What a tab believes of a workflow is old, never wrong.                  *)
(*                                                                         *)
(* A dialog, a handler and a list each keep a copy of a workflow, and the  *)
(* properties compare such a copy with what the server holds now.  They    *)
(* hold because every copy is Past: its workflow exists and has at least   *)
(* the signatures the copy has, while what decides a quorum (signers and   *)
(* threshold) and a verdict (owner and author) is fixed at the creation.   *)
(* JobsInv adds what a signature in progress decided from its copy.        *)
(***************************************************************************)
EXTENDS Ceremony, FiniteSetTheorems, FunctionTheorems, WellFoundedInduction, TLAPS

Status == {"unused", "pending", "completed", "rejected", "deleted"}
Copies == [w : Wf \cup {NoWf}, status : Status, signed : SUBSET User, recips : SUBSET User,
           keys : UNION {[R -> KeyState] : R \in SUBSET User}]

\* The server had this copy to give, at some time.
Past(c) ==
    /\ c \in Copies /\ c.w \in Wf
    /\ wf[c.w].status # "unused" /\ c.signed \subseteq wf[c.w].signed

\* No copy, or one the server gave.
PastIfAny(c) == c \in Copies /\ (c.w # NoWf => Past(c))

WorldInv == wf \in [Wf -> Row] /\ (\A w \in Wf : Consistent(wf[w])) /\ key \in [User -> KeyState]

PageInv ==
    /\ \A c \in list : Past(c)
    /\ badge \subseteq Wf
    /\ IsFiniteSet(polls) /\ Cardinality(polls) <= MaxPolls
    /\ \A p \in polls : \A c \in p : Past(c)

Verdicts == {"none", "unsigned", "failed", "mismatch", "verified"}
ShownRecords == [w : Wf \cup {NoWf}, verdict : Verdicts]
Dialogue == [base : Copies, detail : Copies, want : BOOLEAN, late : SUBSET Wf, shown : ShownRecords]

\* What is shown carries the verdict its workflow has.
Judged(s) == s # Hidden => s.w \in Wf /\ wf[s.w].status # "unused" /\ s.verdict = Verdict(s.w)

SoundDialog(d) ==
    /\ d \in Dialogue
    /\ PastIfAny(d.base) /\ PastIfAny(d.detail)
    /\ d.detail.w # NoWf => d.detail.w = d.base.w
    /\ Judged(d.shown)
DialogInv == SoundDialog(dialog)

Handler == [kind : {"idle", "sign", "reject", "delete"}, stage : {"none", "asked", "answered"},
            copy : Copies, mounted : BOOLEAN, sent : SUBSET User]

\* A signature still owed by the copy it was decided on, with the keys due by it.
Due(h) ==
    h.kind = "sign" /\ h.stage = "asked" =>
        /\ h.copy.status = "pending" /\ Me \in wf[h.copy.w].signers \ h.copy.signed
        /\ h.sent = KeysSent(h.copy)

SoundJob(h) ==
    /\ h.kind # "idle" => Past(h.copy)
    /\ h.kind = "idle" => h.stage = "none"
    /\ Due(h)
JobsInv == job \in [Job -> Handler] /\ \A j \in Job : SoundJob(job[j])

FormInv ==
    /\ form \in [open : BOOLEAN, step : 0 .. 3, signers : Seq(Person), recips : Seq(Person),
                 t : Nat, found : SUBSET Person, asked : SUBSET User]
    /\ ThresholdReachable

MakeInv ==
    make \in [stage : {"idle", "wrapping", "answered", "saved"}, signers : Seq(Person),
              recips : Seq(Person), t : Nat]

Inv == WorldInv /\ PageInv /\ DialogInv /\ JobsInv /\ FormInv /\ MakeInv

----------------------------------------------------------------------------
(* Lists of people. *)

\* The least number principle: an induction without a predicate to instantiate.
LEMMA Least == ASSUME NEW T \in SUBSET Nat, T # {} PROVE \E x \in T : \A y \in T : x <= y
<1>1. PICK x \in T : \A y \in T : ~ (<<y, x>> \in OpToRel(<, Nat))
    BY WFMin, NatLessThanWellFounded
<1>2. \A y \in T : ~ (y < x)
    BY <1>1 DEF OpToRel
<1> QED BY <1>2

Below(S, i) == {j \in S : j <= i}

\* Some place of a set of places is its k-th.
LEMMA Ranked ==
    ASSUME NEW n \in Nat, NEW S \in SUBSET (1 .. n), NEW k \in 1 .. Cardinality(S)
    PROVE  \E i \in S : Cardinality(Below(S, i)) = k
<1> DEFINE T == {i \in Nat : Cardinality(Below(S, i)) >= k}
<1>0. \A j \in S : j \in Nat /\ 1 <= j /\ j <= n
    OBVIOUS
<1>1. IsFiniteSet(S) /\ Cardinality(S) \in Nat
    <2>1. IsFiniteSet(1 .. n)
        BY FS_Interval
    <2> QED BY <2>1, FS_Subset, FS_CardinalityType
<1>2. \A i : IsFiniteSet(Below(S, i)) /\ Cardinality(Below(S, i)) \in Nat
    BY <1>1, FS_Subset, FS_CardinalityType DEF Below
<1>3. n \in T
    <2>1. Below(S, n) = S
        BY <1>0 DEF Below
    <2> QED BY <1>1, <2>1
<1>4. PICK i \in T : \A m \in T : i <= m
    BY <1>3, Least
<1> HIDE DEF T
<1>5. i \in Nat /\ i # 0
    <2>1. Below(S, 0) = {}
        <3>1. \A j \in S : ~ (j <= 0)
            BY <1>0
        <3> QED BY <3>1 DEF Below
    <2> QED BY <2>1, <1>1, <1>4, FS_EmptySet DEF T
<1>6. i - 1 \in Nat /\ i - 1 \notin T
    BY <1>4, <1>5
<1>7. Cardinality(Below(S, i - 1)) < k /\ Cardinality(Below(S, i)) >= k
    BY <1>1, <1>2, <1>4, <1>6 DEF T
<1>8. i \in S
    <2>0. SUFFICES ASSUME i \notin S PROVE FALSE
        OBVIOUS
    <2>1. \A j \in S : j <= i <=> j <= i - 1
        BY <1>0, <1>5, <2>0
    <2>2. Below(S, i) = Below(S, i - 1)
        BY <2>1 DEF Below
    <2> QED BY <1>1, <1>2, <1>7, <2>2
<1>9. Cardinality(Below(S, i)) = Cardinality(Below(S, i - 1)) + 1
    <2>1. ~ (i <= i - 1) /\ i <= i /\ \A j \in S : j <= i <=> j <= i - 1 \/ j = i
        BY <1>0, <1>5
    <2>2. Below(S, i) = Below(S, i - 1) \cup {i} /\ i \notin Below(S, i - 1)
        BY <1>8, <2>1 DEF Below
    <2> QED BY <1>2, <2>2, FS_AddElement
<1>10. Cardinality(Below(S, i)) = k
    BY <1>1, <1>2, <1>7, <1>9
<1> QED BY <1>8, <1>10

\* Whoever is left when somebody is taken off a list.
LEMMA WithoutList ==
    ASSUME NEW people \in Seq(Person), NEW u PROVE Without(people, u) \in Seq(Person)
<1> DEFINE stay == {i \in DOMAIN people : people[i].who # u}
           at(n) == CHOOSE i \in stay : Cardinality({j \in stay : j <= i}) = n
<1>1. Len(people) \in Nat /\ stay \in SUBSET (1 .. Len(people)) /\ Cardinality(stay) \in Nat
    <2>1. Len(people) \in Nat /\ stay \in SUBSET (1 .. Len(people))
        OBVIOUS
    <2>2. IsFiniteSet(stay)
        BY <2>1, FS_Interval, FS_Subset
    <2> QED BY <2>1, <2>2, FS_CardinalityType
<1>2. \A n \in 1 .. Cardinality(stay) : at(n) \in stay
    <2> SUFFICES ASSUME NEW n \in 1 .. Cardinality(stay) PROVE at(n) \in stay
        OBVIOUS
    <2> HIDE DEF stay
    <2>1. \E i \in stay : Cardinality({j \in stay : j <= i}) = n
        BY <1>1, Ranked DEF Below
    <2> QED BY <2>1
<1>3. \A i \in stay : people[i] \in Person
    OBVIOUS
<1>4. Without(people, u) = [n \in 1 .. Cardinality(stay) |-> people[at(n)]]
    BY DEF Without
<1> DEFINE m == Cardinality(stay)
<1>5. \A n \in 1 .. m : people[at(n)] \in Person
    BY <1>2, <1>3
<1>6. m \in Nat /\ Without(people, u) = [n \in 1 .. m |-> people[at(n)]]
    BY <1>1, <1>4
<1> HIDE DEF stay, at, m
<1> QED BY <1>5, <1>6

----------------------------------------------------------------------------
(* Copies *)

LEMMA NoCopyIs == ASSUME CeremonyConstants PROVE PastIfAny(NoCopy) /\ NoCopy.w = NoWf
<1>1. <<>> \in [{} -> KeyState]
    OBVIOUS
<1>2. NoCopy \in Copies
    BY <1>1 DEF NoCopy, Copies, Status
<1> QED BY <1>2 DEF PastIfAny, NoCopy

\* A row of the server, as an answer shows it.
LEMMA CopyIs ==
    ASSUME WorldInv, NEW w \in Wf, NEW r \in Row
    PROVE  /\ Copy(w, r) \in Copies
           /\ Copy(w, r).w = w /\ Copy(w, r).signed = r.signed /\ Copy(w, r).status = r.status
<1>1. r.recips \in SUBSET User
    BY DEF Row
<1>2. [u \in r.recips |-> key[u]] \in [r.recips -> KeyState]
    BY <1>1 DEF WorldInv
<1>3. r.status \in Status /\ r.signed \in SUBSET User
    BY DEF Row, Status
<1> QED BY <1>1, <1>2, <1>3 DEF Copy, Copies

LEMMA NowPast == ASSUME WorldInv, NEW w \in Wf, Readable(w) PROVE Past(Now(w)) /\ Now(w).w = w
<1>1. wf[w] \in Row /\ wf[w].status # "unused"
    BY DEF WorldInv, Readable, Stored
<1> QED BY <1>1, CopyIs DEF Past, Now

LEMMA ListingPast == ASSUME WorldInv PROVE \A c \in Listing : Past(c)
BY NowPast DEF Listing

(***************************************************************************)
(* No step undoes a workflow: what it was created with stays, and so does  *)
(* every signature.  Then all that is Past stays so.                       *)
(***************************************************************************)
Kept(w) ==
    wf[w].status # "unused" =>
        /\ wf'[w].status # "unused" /\ wf[w].signed \subseteq wf'[w].signed
        /\ wf'[w].signers = wf[w].signers /\ wf'[w].t = wf[w].t
        /\ wf'[w].owner = wf[w].owner /\ wf'[w].author = wf[w].author

LEMMA KeptSame == ASSUME UNCHANGED wf PROVE \A w \in Wf : Kept(w)
BY DEF Kept

LEMMA PastStays == ASSUME \A w \in Wf : Kept(w), NEW c, Past(c) PROVE Past(c)'
BY DEF Past, Kept

LEMMA AnyStays == ASSUME \A w \in Wf : Kept(w), NEW c, PastIfAny(c) PROVE PastIfAny(c)'
BY PastStays DEF PastIfAny

LEMMA JudgedStays == ASSUME \A w \in Wf : Kept(w), NEW s, Judged(s) PROVE Judged(s)'
BY DEF Judged, Kept, Verdict

LEMMA DueStays ==
    ASSUME \A w \in Wf : Kept(w), NEW h, Due(h), h.kind # "idle" => Past(h.copy) PROVE Due(h)'
<1> SUFFICES ASSUME h.kind = "sign", h.stage = "asked"
             PROVE  /\ h.copy.status = "pending" /\ Me \in wf'[h.copy.w].signers \ h.copy.signed
                    /\ h.sent = KeysSent(h.copy)'
    BY DEF Due
<1>1. /\ h.copy.status = "pending" /\ Me \in wf[h.copy.w].signers \ h.copy.signed
      /\ h.sent = KeysSent(h.copy)
    BY DEF Due
<1>2. wf'[h.copy.w].signers = wf[h.copy.w].signers /\ wf'[h.copy.w].t = wf[h.copy.w].t
    BY DEF Past, Kept
<1>3. Quorum(h.copy.w)' = Quorum(h.copy.w)
    BY <1>2 DEF Quorum
<1>4. KeysSent(h.copy)' = KeysSent(h.copy)
    BY <1>3 DEF KeysSent, Completing
<1> QED BY <1>1, <1>2, <1>4

\* Whatever only the server changes, the page keeps what it had.
LEMMA PageStays == ASSUME PageInv, \A w \in Wf : Kept(w), UNCHANGED page PROVE PageInv'
BY PastStays DEF PageInv, page

LEMMA SoundDialogStays ==
    ASSUME \A w \in Wf : Kept(w), NEW d, SoundDialog(d) PROVE SoundDialog(d)'
<1>1. PastIfAny(d.base)' /\ PastIfAny(d.detail)'
    BY AnyStays DEF SoundDialog
<1>2. Judged(d.shown)'
    BY JudgedStays DEF SoundDialog
<1> QED BY <1>1, <1>2 DEF SoundDialog

LEMMA SoundJobStays == ASSUME \A w \in Wf : Kept(w), NEW h, SoundJob(h) PROVE SoundJob(h)'
BY PastStays, DueStays DEF SoundJob

LEMMA DialogStays == ASSUME DialogInv, \A w \in Wf : Kept(w), UNCHANGED dialog PROVE DialogInv'
BY SoundDialogStays DEF DialogInv

LEMMA DialogMoves ==
    ASSUME UNCHANGED wf, NEW d, SoundDialog(d), dialog' = d PROVE DialogInv'
BY KeptSame, SoundDialogStays DEF DialogInv

LEMMA JobsStay == ASSUME JobsInv, \A w \in Wf : Kept(w), UNCHANGED job PROVE JobsInv'
BY SoundJobStays DEF JobsInv

\* One handler becomes h, the others stay as they were, mounted or not.
LEMMA JobMoves ==
    ASSUME JobsInv, UNCHANGED wf, NEW j \in Job, NEW h \in Handler, SoundJob(h),
           job' = [job EXCEPT ![j] = h]
    PROVE  JobsInv'
<1>1. job' \in [Job -> Handler]
    BY DEF JobsInv
<1>2. ASSUME NEW i \in Job PROVE SoundJob(job[i])'
    <2>1. SoundJob(job'[i])
        BY DEF JobsInv
    <2> QED BY <2>1, KeptSame, SoundJobStays
<1> QED BY <1>1, <1>2 DEF JobsInv

LEMMA IdleIs == ASSUME CeremonyConstants PROVE Idle \in Handler /\ SoundJob(Idle)
<1>1. NoCopy \in Copies
    BY NoCopyIs DEF PastIfAny
<1> QED BY <1>1 DEF Idle, Handler, SoundJob, Due

LEMMA UnmountedIs ==
    ASSUME JobsInv PROVE Unmounted \in [Job -> Handler] /\ \A j \in Job : SoundJob(Unmounted[j])
<1> SUFFICES ASSUME NEW j \in Job PROVE Unmounted[j] \in Handler /\ SoundJob(Unmounted[j])
    BY DEF Unmounted
<1>1. job[j] \in Handler /\ SoundJob(job[j])
    BY DEF JobsInv
<1>2. Unmounted[j] = [job[j] EXCEPT !.mounted = FALSE]
    BY DEF Unmounted
<1> QED BY <1>1, <1>2 DEF Handler, SoundJob, Due

----------------------------------------------------------------------------
(* The list *)

LEMMA PollingStep == ASSUME CeremonyConstants, Inv, Polling PROVE Inv'
<1>1. UNCHANGED <<wf, key, dialog, job, form, make>>
    BY DEF Polling, StartPoll, AnswerPoll, PollFails, world
<1>2. PageInv'
    <2>1. \A c \in Listing : Past(c)
        BY ListingPast DEF Inv
    <2>2. \A c : Past(c) => Past(c)'
        BY <1>1 DEF Past
    <2>3. CASE StartPoll
        <3>1. IsFiniteSet(polls') /\ Cardinality(polls') <= MaxPolls
            <4>1. IsFiniteSet(polls) /\ Cardinality(polls) \in Nat /\ MaxPolls \in Nat
                BY FS_CardinalityType DEF Inv, PageInv, CeremonyConstants
            <4>2. Cardinality(polls \cup {Listing}) <= Cardinality(polls) + 1 /\ IsFiniteSet(polls \cup {Listing})
                  /\ Cardinality(polls \cup {Listing}) \in Nat
                <5>1. CASE Listing \in polls
                    <6>1. polls \cup {Listing} = polls
                        BY <5>1
                    <6> QED BY <4>1, <6>1
                <5>2. CASE Listing \notin polls
                    <6>1. /\ Cardinality(polls \cup {Listing}) = Cardinality(polls) + 1
                          /\ IsFiniteSet(polls \cup {Listing})
                        BY <4>1, <5>2, FS_AddElement
                    <6> QED BY <4>1, <6>1
                <5> QED BY <5>1, <5>2
            <4> QED BY <2>3, <4>1, <4>2 DEF StartPoll
        <3> QED BY <2>1, <2>2, <2>3, <3>1 DEF StartPoll, Inv, PageInv
    <2>4. ASSUME NEW p \in polls, AnswerPoll(p) \/ PollFails(p) PROVE PageInv'
        <3>1. IsFiniteSet(polls') /\ Cardinality(polls') <= MaxPolls
            <4>1. IsFiniteSet(polls) /\ Cardinality(polls) \in Nat /\ MaxPolls \in Nat
                  /\ Cardinality(polls) <= MaxPolls
                BY FS_CardinalityType DEF Inv, PageInv, CeremonyConstants
            <4>2. polls' \subseteq polls
                BY <2>4 DEF AnswerPoll, PollFails
            <4>3. IsFiniteSet(polls') /\ Cardinality(polls') <= Cardinality(polls) /\ Cardinality(polls') \in Nat
                BY <4>1, <4>2, FS_Subset, FS_CardinalityType
            <4> QED BY <4>1, <4>3
        <3>2. badge' \subseteq Wf
            BY <2>4 DEF AnswerPoll, PollFails, Inv, PageInv, Past
        <3> QED BY <2>2, <2>4, <3>1, <3>2 DEF AnswerPoll, PollFails, Inv, PageInv
    <2> QED BY <2>3, <2>4 DEF Polling
<1>3. DialogInv' /\ JobsInv'
    BY <1>1, KeptSame, DialogStays, JobsStay DEF Inv
<1>4. WorldInv' /\ FormInv' /\ MakeInv'
    BY <1>1 DEF Inv, WorldInv, FormInv, MakeInv, ThresholdReachable
<1> QED BY <1>2, <1>3, <1>4 DEF Inv

----------------------------------------------------------------------------
(* The dialog *)

LEMMA NoDialogIs == ASSUME CeremonyConstants PROVE SoundDialog(NoDialog)
<1>1. PastIfAny(NoCopy) /\ NoCopy.w = NoWf /\ NoCopy \in Copies
    BY NoCopyIs DEF PastIfAny
<1>2. Hidden \in ShownRecords
    BY DEF Hidden, ShownRecords, Verdicts
<1> QED BY <1>1, <1>2 DEF SoundDialog, NoDialog, Dialogue, Judged

LEMMA SelectIs ==
    ASSUME CeremonyConstants, DialogInv, NEW c, Past(c)
    PROVE  SoundDialog(Select(c)) /\ Select(c).base = c
<1>1. PastIfAny(c) /\ c \in Copies /\ c.w \in Wf /\ c.w # NoWf
    BY DEF Past, PastIfAny, CeremonyConstants
<1>2. PastIfAny(NoCopy) /\ NoCopy.w = NoWf /\ NoCopy \in Copies
    BY NoCopyIs DEF PastIfAny
<1>3. SoundDialog(NoDialog)
    BY NoDialogIs
<1>4. CASE ~ Open
    <2>1. Select(c) = [NoDialog EXCEPT !.base = c, !.want = TRUE]
        BY <1>4 DEF Select
    <2> QED BY <1>1, <1>2, <1>3, <2>1 DEF SoundDialog, Dialogue, NoDialog
<1>5. CASE Open /\ dialog.base.w = c.w
    <2>1. Select(c) = [dialog EXCEPT !.base = c]
        BY <1>5 DEF Select
    <2> QED BY <1>1, <1>5, <2>1 DEF SoundDialog, Dialogue, DialogInv
<1>6. CASE Open /\ dialog.base.w # c.w
    <2>1. Select(c) = [dialog EXCEPT !.base = c, !.detail = NoCopy, !.want = TRUE,
                           !.late = IF dialog.want THEN @ \cup {dialog.base.w} ELSE @]
        BY <1>6 DEF Select
    <2>2. dialog.base.w \in Wf
        BY <1>6 DEF Open, SoundDialog, DialogInv, PastIfAny, Past
    <2>3. dialog \in Dialogue /\ Judged(dialog.shown)
        BY DEF SoundDialog, DialogInv
    <2> DEFINE d == Select(c)
    <2>4. d.base = c /\ d.detail = NoCopy /\ d.shown = dialog.shown
        BY <2>1, <2>3 DEF Dialogue
    <2>5. (IF dialog.want THEN dialog.late \cup {dialog.base.w} ELSE dialog.late) \in SUBSET Wf
        BY <2>2, <2>3 DEF Dialogue
    <2>6. d \in Dialogue
        BY <1>1, <1>2, <2>1, <2>3, <2>5 DEF Dialogue
    <2> QED BY <1>1, <1>2, <2>3, <2>4, <2>6 DEF SoundDialog
<1> QED BY <1>4, <1>5, <1>6

LEMMA CurrentPast == ASSUME DialogInv, Open PROVE Past(Current)
BY DEF DialogInv, SoundDialog, PastIfAny, Current, Open, Ready

LEMMA ViewShows ==
    ASSUME CeremonyConstants, DialogInv, Open, Ready, UNCHANGED wf,
           dialog' = [dialog EXCEPT !.shown = [w |-> Current.w, verdict |-> Verdict(Current.w)]]
    PROVE  DialogInv'
<1> DEFINE s == [w |-> Current.w, verdict |-> Verdict(Current.w)]
           d == [dialog EXCEPT !.shown = s]
<1>1. Past(Current)
    BY CurrentPast
<1>2. Verdict(Current.w) \in Verdicts
    BY DEF Verdict, Verdicts
<1>3. s \in ShownRecords /\ Judged(s)
    BY <1>1, <1>2 DEF ShownRecords, Judged, Past
<1>4. dialog \in Dialogue
    BY DEF DialogInv, SoundDialog
<1>5. d \in Dialogue /\ d.base = dialog.base /\ d.detail = dialog.detail /\ d.shown = s
    BY <1>3, <1>4 DEF Dialogue
<1>6. SoundDialog(d)
    BY <1>3, <1>5 DEF SoundDialog, DialogInv
<1> QED BY <1>6, DialogMoves

LEMMA DialogsStep == ASSUME CeremonyConstants, Inv, Dialogs PROVE Inv'
<1>1. UNCHANGED <<wf, key, list, badge, polls, form, make>>
    BY DEF Dialogs, OpenDialog, CloseDialog, DetailArrives, DetailFails, View, Hide, LateDetail,
           world, page
<1>2. DialogInv'
    <2>0. dialog \in Dialogue /\ SoundDialog(dialog)
        BY DEF Inv, DialogInv, SoundDialog
    <2>1. ASSUME NEW c \in list, OpenDialog(c) PROVE DialogInv'
        <3>1. Past(c)
            BY DEF Inv, PageInv
        <3>2. SoundDialog(Select(c))
            BY <3>1, SelectIs DEF Inv
        <3> QED BY <1>1, <2>1, <3>2, DialogMoves DEF OpenDialog
    <2>2. CASE CloseDialog
        BY <1>1, <2>2, NoDialogIs, DialogMoves DEF CloseDialog
    <2>3. CASE DetailArrives
        <3> DEFINE d == [dialog EXCEPT !.want = FALSE,
                             !.detail = IF Readable(dialog.base.w) THEN Now(dialog.base.w) ELSE @]
        <3>1. dialog.base.w \in Wf
            BY <2>0, <2>3 DEF DetailArrives, Open, SoundDialog, PastIfAny, Past
        <3>2. CASE Readable(dialog.base.w)
            <4>1. Past(Now(dialog.base.w)) /\ Now(dialog.base.w).w = dialog.base.w
                BY <3>1, <3>2, NowPast DEF Inv
            <4>2. Now(dialog.base.w) \in Copies /\ PastIfAny(Now(dialog.base.w))
                BY <4>1 DEF Past, PastIfAny
            <4> HIDE DEF Now
            <4>3. /\ d \in Dialogue /\ d.base = dialog.base /\ d.shown = dialog.shown
                  /\ d.detail = Now(dialog.base.w)
                BY <2>0, <3>2, <4>2 DEF Dialogue
            <4>4. SoundDialog(d)
                BY <2>0, <4>1, <4>2, <4>3 DEF SoundDialog
            <4> QED BY <1>1, <2>3, <4>4, DialogMoves DEF DetailArrives
        <3>3. CASE ~ Readable(dialog.base.w)
            <4>1. SoundDialog(d)
                BY <2>0, <3>3 DEF SoundDialog, Dialogue
            <4> QED BY <1>1, <2>3, <4>1, DialogMoves DEF DetailArrives
        <3> QED BY <3>2, <3>3
    <2>4. CASE DetailFails
        <3>1. SoundDialog([dialog EXCEPT !.want = FALSE])
            BY <2>0 DEF SoundDialog, Dialogue
        <3> QED BY <1>1, <2>4, <3>1, DialogMoves DEF DetailFails
    <2>5. CASE View
        BY <1>1, <2>5, ViewShows DEF View, Inv
    <2>6. CASE Hide
        <3>1. SoundDialog([dialog EXCEPT !.shown = Hidden])
            BY <2>0 DEF SoundDialog, Dialogue, Judged, Hidden, ShownRecords, Verdicts
        <3> QED BY <1>1, <2>6, <3>1, DialogMoves DEF Hide
    <2>7. ASSUME NEW w \in Wf, LateDetail(w) PROVE DialogInv'
        <3>1. SoundDialog(Ignore(w))
            BY <2>0 DEF SoundDialog, Dialogue, Ignore
        <3> QED BY <1>1, <2>7, <3>1, DialogMoves DEF LateDetail
    <2> QED BY <2>1, <2>2, <2>3, <2>4, <2>5, <2>6, <2>7 DEF Dialogs
<1>3. JobsInv'
    <2>1. job' = Unmounted \/ UNCHANGED job
        BY DEF Dialogs, OpenDialog, CloseDialog, DetailArrives, DetailFails, View, Hide, LateDetail
    <2>2. Unmounted \in [Job -> Handler] /\ \A j \in Job : SoundJob(Unmounted[j])
        BY UnmountedIs DEF Inv
    <2>3. CASE job' = Unmounted
        BY <1>1, <2>2, <2>3, KeptSame, SoundJobStays DEF JobsInv
    <2> QED BY <1>1, <2>1, <2>3, KeptSame, JobsStay DEF Inv
<1>4. PageInv'
    BY <1>1, KeptSame, PageStays DEF Inv, page
<1>5. WorldInv' /\ FormInv' /\ MakeInv'
    BY <1>1 DEF Inv, WorldInv, FormInv, MakeInv, ThresholdReachable
<1> QED BY <1>2, <1>3, <1>4, <1>5 DEF Inv

----------------------------------------------------------------------------
(* Its handlers *)

\* A handler starts with the copy on screen; what it sends is due by that copy.
LEMMA BeginStep ==
    ASSUME CeremonyConstants, Inv, NEW j \in Job, NEW kind \in {"sign", "reject", "delete"},
           NEW sent \in SUBSET User, Open, Begin(j, kind, sent),
           kind = "sign" => Owed(Current) /\ sent = KeysSent(Current),
           UNCHANGED <<world, page, dialog, form, make>>
    PROVE  Inv'
<1> DEFINE h == [kind |-> kind, stage |-> "asked", copy |-> Current, mounted |-> TRUE, sent |-> sent]
<1>1. UNCHANGED <<wf, key, list, badge, polls>>
    BY DEF world, page
<1>2. Past(Current) /\ Current \in Copies
    BY CurrentPast DEF Inv, Past
<1>3. h \in Handler
    BY <1>2 DEF Handler
<1>4. SoundJob(h)
    <2>1. Due(h)
        BY DEF Due, Owed
    <2> QED BY <1>2, <2>1 DEF SoundJob
<1>5. JobsInv'
    <2>1. job' = [job EXCEPT ![j] = h]
        BY DEF Begin
    <2> HIDE DEF h
    <2> QED BY <1>1, <1>3, <1>4, <2>1, JobMoves DEF Inv
<1>6. PageInv' /\ DialogInv'
    BY <1>1, KeptSame, PageStays, DialogStays DEF Inv, page
<1>7. WorldInv' /\ FormInv' /\ MakeInv'
    BY <1>1 DEF Inv, WorldInv, FormInv, MakeInv, ThresholdReachable
<1> QED BY <1>5, <1>6, <1>7 DEF Inv

LEMMA StartStep ==
    ASSUME CeremonyConstants, Inv, NEW j \in Job, StartSign(j) \/ StartReject(j) \/ StartDelete(j)
    PROVE  Inv'
<1>1. CASE StartSign(j)
    <2>1. Open /\ Owed(Current)
        BY <1>1 DEF StartSign, MayAnswer
    <2>2. KeysSent(Current) \in SUBSET User
        <3>1. Current \in Copies
            BY <2>1, CurrentPast DEF Inv, Past
        <3> QED BY <3>1 DEF KeysSent, Copies
    <2> QED BY <1>1, <2>1, <2>2, BeginStep DEF StartSign
<1>2. CASE StartReject(j)
    BY <1>2, BeginStep DEF StartReject, MayAnswer
<1>3. CASE StartDelete(j)
    BY <1>3, BeginStep DEF StartDelete
<1> QED BY <1>1, <1>2, <1>3

\* A row that may follow the one the server has.
Follows(w, r) ==
    /\ r \in Row /\ Consistent(r)
    /\ wf[w].status # "unused" =>
         /\ r.status # "unused" /\ wf[w].signed \subseteq r.signed
         /\ r.signers = wf[w].signers /\ r.t = wf[w].t
         /\ r.owner = wf[w].owner /\ r.author = wf[w].author

LEMMA RowMoves ==
    ASSUME WorldInv, NEW w \in Wf, NEW r, Follows(w, r), wf' = [wf EXCEPT ![w] = r], UNCHANGED key
    PROVE  WorldInv' /\ \A v \in Wf : Kept(v)
BY DEF WorldInv, Follows, Kept

LEMMA SignedFollows ==
    ASSUME WorldInv, NEW w \in Wf, NEW u \in wf[w].signers, NEW sent \in SUBSET User,
           SignVerdict(w, u, sent) = "ok"
    PROVE  Follows(w, Signed(w, u, sent)) /\ Signed(w, u, sent).status # "unused"
<1> DEFINE final == Cardinality(wf[w].signed) + 1 >= Quorum(w)
           r == Signed(w, u, sent)
<1>1. wf[w] \in Row /\ Consistent(wf[w])
    BY DEF WorldInv
<1>2. wf[w].status = "pending" /\ (final => wf[w].recips \subseteq wf[w].keyed \cup sent)
    BY DEF SignVerdict, Stored
<1> HIDE DEF final
<1>3. CASE final
    <2>1. r = [wf[w] EXCEPT !.signed = @ \cup {u}, !.keyed = @ \cup (sent \cap wf[w].recips),
                            !.status = "completed"]
        BY <1>3 DEF Signed, final
    <2>2. /\ r.status = "completed" /\ r.recips = wf[w].recips
          /\ r.keyed = wf[w].keyed \cup (sent \cap wf[w].recips)
          /\ r.signed = wf[w].signed \cup {u} /\ r.signers = wf[w].signers
          /\ r.t = wf[w].t /\ r.owner = wf[w].owner /\ r.author = wf[w].author
        BY <1>1, <2>1 DEF Row
    <2>3. wf[w].signed \cup {u} \in SUBSET User
          /\ wf[w].keyed \cup (sent \cap wf[w].recips) \in SUBSET User
        BY <1>1 DEF Row
    <2>4. r \in Row
        BY <1>1, <2>1, <2>3 DEF Row
    <2>5. Consistent(r)
        BY <1>1, <1>2, <1>3, <2>2 DEF Consistent
    <2> QED BY <2>2, <2>4, <2>5 DEF Follows
<1>4. CASE ~ final
    <2>1. r = [wf[w] EXCEPT !.signed = @ \cup {u}]
        BY <1>1, <1>4 DEF Signed, final, Row
    <2> QED BY <1>1, <1>2, <2>1 DEF Follows, Row, Consistent
<1> QED BY <1>3, <1>4

\* What the server makes of a handler's request.
LEMMA OutcomeFollows ==
    ASSUME Inv, NEW j \in Job, job[j].stage = "asked", Outcome(j).why = "ok"
    PROVE  /\ job[j].copy.w \in Wf
           /\ Follows(job[j].copy.w, Outcome(j).row) /\ Outcome(j).row.status # "unused"
<1> DEFINE w == job[j].copy.w
<1>1. job[j] \in Handler /\ SoundJob(job[j]) /\ WorldInv
    BY DEF Inv, JobsInv
<1>2. job[j].kind \in {"sign", "reject", "delete"} /\ w \in Wf
    BY <1>1 DEF SoundJob, Handler, Past
<1>3. wf[w] \in Row /\ Consistent(wf[w])
    BY <1>1, <1>2 DEF WorldInv
<1>4. CASE job[j].kind = "sign"
    <2>1. Me \in wf[w].signers /\ job[j].sent \in SUBSET User
        BY <1>1, <1>4 DEF SoundJob, Due, Handler
    <2>2. SignVerdict(w, Me, job[j].sent) = "ok" /\ Outcome(j).row = Signed(w, Me, job[j].sent)
        BY <1>4 DEF Outcome
    <2> QED BY <1>1, <1>2, <2>1, <2>2, SignedFollows
<1>5. CASE job[j].kind = "reject"
    <2>1. Outcome(j).row = [wf[w] EXCEPT !.status = "rejected"]
        BY <1>5 DEF Outcome
    <2> QED BY <1>2, <1>3, <2>1 DEF Follows, Row, Consistent
<1>6. CASE job[j].kind = "delete"
    <2>1. Outcome(j).row = [wf[w] EXCEPT !.status = "deleted"]
        BY <1>6 DEF Outcome
    <2> QED BY <1>2, <1>3, <2>1 DEF Follows, Row, Consistent
<1> QED BY <1>2, <1>4, <1>5, <1>6

\* A handler answered with the row the server has now.
LEMMA Answered ==
    ASSUME NEW w \in Wf, NEW r, NEW g, g.kind # "idle", g.stage = "answered",
           g.copy \in Copies, g.copy.w = w, g.copy.signed = r.signed,
           wf'[w] = r, r.status # "unused"
    PROVE  SoundJob(g)'
BY DEF SoundJob, Past, Due

LEMMA PostStep == ASSUME CeremonyConstants, Inv, NEW j \in Job, Post(j) PROVE Inv'
<1> DEFINE w == job[j].copy.w
           r == Outcome(j).row
<1>1. UNCHANGED <<key, list, badge, polls, dialog, form, make>> /\ job[j].stage = "asked"
    BY DEF Post, page
<1>2. job[j] \in Handler /\ SoundJob(job[j]) /\ WorldInv
    BY DEF Inv, JobsInv
<1>3. CASE Outcome(j).why = "ok"
    <2>1. w \in Wf /\ Follows(w, r) /\ r.status # "unused"
        BY <1>1, <1>3, OutcomeFollows
    <2>2. wf' = [wf EXCEPT ![w] = r]
          /\ job' = [job EXCEPT ![j].stage = "answered", ![j].copy = Copy(w, r)]
        BY <1>3 DEF Post
    <2> HIDE DEF r, w
    <2>3. WorldInv' /\ \A v \in Wf : Kept(v)
        BY <1>1, <1>2, <2>1, <2>2, RowMoves
    <2> DEFINE h == [job[j] EXCEPT !.stage = "answered", !.copy = Copy(w, r)]
    <2>4. Copy(w, r) \in Copies /\ Copy(w, r).w = w /\ Copy(w, r).signed = r.signed
        BY <1>2, <2>1, CopyIs DEF Follows
    <2>5. h \in Handler /\ h.copy = Copy(w, r) /\ h.stage = "answered" /\ h.kind = job[j].kind
        BY <1>2, <2>4 DEF Handler
    <2>6. wf'[w] = r
        BY <1>2, <2>1, <2>2 DEF WorldInv
    <2>8. job' \in [Job -> Handler] /\ job' = [job EXCEPT ![j] = h]
        BY <2>2, <2>5 DEF Inv, JobsInv
    <2> HIDE DEF h
    <2>9. ASSUME NEW i \in Job PROVE SoundJob(job[i])'
        <3>1. CASE i = j
            <4>1. job'[j] = h
                BY <2>8 DEF Inv, JobsInv
            <4>2. h.kind # "idle"
                BY <1>1, <1>2, <2>5 DEF SoundJob
            <4>3. /\ job'[j].kind # "idle" /\ job'[j].stage = "answered"
                  /\ job'[j].copy \in Copies /\ job'[j].copy.w = w
                  /\ job'[j].copy.signed = r.signed
                BY <2>4, <2>5, <4>1, <4>2
            <4> QED BY <2>1, <2>6, <3>1, <4>3, Answered
        <3>2. CASE i # j
            <4>1. job'[i] = job[i] /\ SoundJob(job[i])
                BY <2>8, <3>2 DEF Inv, JobsInv
            <4> QED BY <2>3, <4>1, SoundJobStays
        <3> QED BY <3>1, <3>2
    <2>10. JobsInv'
        BY <2>8, <2>9 DEF JobsInv
    <2>11. PageInv' /\ DialogInv'
        BY <1>1, <2>3, PageStays, DialogStays DEF Inv, page
    <2>12. FormInv' /\ MakeInv'
        BY <1>1 DEF Inv, FormInv, MakeInv, ThresholdReachable
    <2> QED BY <2>3, <2>10, <2>11, <2>12 DEF Inv
<1>4. CASE Outcome(j).why # "ok"
    <2>1. UNCHANGED wf /\ job' = [job EXCEPT ![j] = Idle]
        BY <1>4 DEF Post
    <2>2. JobsInv'
        BY <2>1, IdleIs, JobMoves DEF Inv
    <2>3. PageInv' /\ DialogInv'
        BY <1>1, <2>1, KeptSame, PageStays, DialogStays DEF Inv, page
    <2>4. WorldInv' /\ FormInv' /\ MakeInv'
        BY <1>1, <2>1 DEF Inv, WorldInv, FormInv, MakeInv, ThresholdReachable
    <2> QED BY <2>2, <2>3, <2>4 DEF Inv
<1> QED BY <1>3, <1>4

LEMMA JobFailsStep == ASSUME CeremonyConstants, Inv, NEW j \in Job, JobFails(j) PROVE Inv'
<1>1. UNCHANGED <<wf, key, list, badge, polls, dialog, form, make>> /\ job' = [job EXCEPT ![j] = Idle]
    BY DEF JobFails, world, page
<1>2. JobsInv'
    BY <1>1, IdleIs, JobMoves DEF Inv
<1>3. PageInv' /\ DialogInv'
    BY <1>1, KeptSame, PageStays, DialogStays DEF Inv, page
<1>4. WorldInv' /\ FormInv' /\ MakeInv'
    BY <1>1 DEF Inv, WorldInv, FormInv, MakeInv, ThresholdReachable
<1> QED BY <1>2, <1>3, <1>4 DEF Inv

LEMMA UpdatedStep == ASSUME CeremonyConstants, Inv, NEW j \in Job, Updated(j) PROVE Inv'
<1> DEFINE c == job[j].copy
<1>1. UNCHANGED <<wf, key, badge, polls, form, make>> /\ job' = [job EXCEPT ![j] = Idle]
    BY DEF Updated, world
<1>2. Past(c) /\ c \in Copies /\ PastIfAny(c)
    BY DEF Updated, Inv, JobsInv, SoundJob, Past, PastIfAny
<1>3. list' = {IF d.w = c.w THEN c ELSE d : d \in list}
    BY DEF Updated
<1>4. dialog' = IF job[j].mounted /\ dialog.base.w = c.w THEN [Select(c) EXCEPT !.detail = c] ELSE Select(c)
    BY DEF Updated
<1> HIDE DEF c
<1>5. SoundDialog(Select(c)) /\ Select(c).base = c
    BY <1>2, SelectIs DEF Inv
<1>6. DialogInv'
    <2>1. CASE dialog' = Select(c)
        BY <1>1, <1>5, <2>1, DialogMoves
    <2>2. CASE dialog' = [Select(c) EXCEPT !.detail = c]
        <3> DEFINE d == [Select(c) EXCEPT !.detail = c]
        <3>1. Select(c) \in Dialogue
            BY <1>5 DEF SoundDialog
        <3>2. d \in Dialogue /\ d.base = c /\ d.detail = c /\ d.shown = Select(c).shown
            BY <1>2, <1>5, <3>1 DEF Dialogue
        <3>3. SoundDialog(d)
            BY <1>2, <1>5, <3>2 DEF SoundDialog
        <3> QED BY <1>1, <2>2, <3>3, DialogMoves
    <2> QED BY <1>4, <2>1, <2>2
<1>7. PageInv'
    <2>1. \A d : Past(d) => Past(d)'
        BY <1>1 DEF Past
    <2>2. \A d \in list' : Past(d)
        BY <1>2, <1>3 DEF Inv, PageInv
    <2> QED BY <1>1, <2>1, <2>2 DEF Inv, PageInv
<1>8. JobsInv'
    BY <1>1, IdleIs, JobMoves DEF Inv
<1>9. WorldInv' /\ FormInv' /\ MakeInv'
    BY <1>1 DEF Inv, WorldInv, FormInv, MakeInv, ThresholdReachable
<1> QED BY <1>6, <1>7, <1>8, <1>9 DEF Inv

LEMMA DeletedStep == ASSUME CeremonyConstants, Inv, NEW j \in Job, Deleted(j) PROVE Inv'
<1>1. UNCHANGED <<wf, key, badge, polls, form, make>> /\ dialog' = NoDialog
      /\ job' = [Unmounted EXCEPT ![j] = Idle] /\ list' \subseteq list
    BY DEF Deleted, world
<1>2. DialogInv'
    BY <1>1, NoDialogIs, DialogMoves
<1>3. PageInv'
    <2>1. \A d : Past(d) => Past(d)'
        BY <1>1 DEF Past
    <2> QED BY <1>1, <2>1 DEF Inv, PageInv
<1>4. JobsInv'
    <2>1. Unmounted \in [Job -> Handler] /\ \A i \in Job : SoundJob(Unmounted[i])
        BY UnmountedIs DEF Inv
    <2>2. Idle \in Handler /\ SoundJob(Idle)
        BY IdleIs
    <2>3. job' \in [Job -> Handler] /\ \A i \in Job : SoundJob(job'[i])
        BY <1>1, <2>1, <2>2
    <2> QED BY <1>1, <2>3, KeptSame, SoundJobStays DEF JobsInv
<1>5. WorldInv' /\ FormInv' /\ MakeInv'
    BY <1>1 DEF Inv, WorldInv, FormInv, MakeInv, ThresholdReachable
<1> QED BY <1>2, <1>3, <1>4, <1>5 DEF Inv

LEMMA HandlersStep == ASSUME CeremonyConstants, Inv, Handlers PROVE Inv'
BY StartStep, PostStep, JobFailsStep, UpdatedStep, DeletedStep DEF Handlers

----------------------------------------------------------------------------
(* The creation form *)

Shape == [open : BOOLEAN, step : 0 .. 3, signers : Seq(Person), recips : Seq(Person),
          t : Nat, found : SUBSET Person, asked : SUBSET User]

\* A threshold the signers on the list can reach.
Reachable(f) == f.open => f.t >= 1 /\ (f.signers # <<>> => f.t <= Len(f.signers))

LEMMA FormIs == FormInv <=> form \in Shape /\ Reachable(form)
BY DEF FormInv, Shape, Reachable, ThresholdReachable

LEMMA NoFormIs ==
    /\ NoForm \in Shape /\ Reachable(NoForm)
    /\ [NoForm EXCEPT !.open = TRUE] \in Shape /\ Reachable([NoForm EXCEPT !.open = TRUE])
<1>1. <<>> \in Seq(Person)
    OBVIOUS
<1>2. NoForm \in Shape
    BY <1>1 DEF NoForm, Shape
<1> DEFINE f == [NoForm EXCEPT !.open = TRUE]
<1>3. f \in Shape /\ f.t = NoForm.t /\ f.signers = NoForm.signers
    BY <1>2 DEF Shape
<1>4. NoForm.t = 1 /\ NoForm.signers = <<>> /\ ~ NoForm.open
    BY DEF NoForm
<1> QED BY <1>2, <1>3, <1>4 DEF Reachable

LEMMA ThresholdIs ==
    ASSUME NEW t \in Nat, NEW prev \in Nat, NEW len \in Nat, t >= 1
    PROVE  Threshold(t, prev, len) \in Nat /\ Threshold(t, prev, len) >= 1
           /\ (len # 0 => Threshold(t, prev, len) <= len)
BY DEF Threshold

LEMMA SignersMove ==
    ASSUME FormInv, form.open, NEW people \in Seq(Person), WithSigners(people) PROVE FormInv'
<1>1. form \in Shape /\ Reachable(form)
    BY FormIs
<1>2. PICK prev \in {Len(form.signers), Len(people)} :
         form' = [form EXCEPT !.signers = people, !.t = Threshold(form.t, prev, Len(people)), !.found = {}]
    BY DEF WithSigners
<1> DEFINE t == Threshold(form.t, prev, Len(people))
<1>3. form.t \in Nat /\ form.t >= 1 /\ Len(people) \in Nat /\ Len(form.signers) \in Nat
    BY <1>1 DEF Shape, Reachable
<1>4. t \in Nat /\ t >= 1 /\ (Len(people) # 0 => t <= Len(people))
    BY <1>3, ThresholdIs
<1>5. people # <<>> => Len(people) # 0
    OBVIOUS
<1> HIDE DEF t
<1>6. form' = [form EXCEPT !.signers = people, !.t = t, !.found = {}]
    BY <1>2 DEF t
<1>7. form' \in Shape /\ form'.signers = people /\ form'.t = t
    BY <1>1, <1>4, <1>6 DEF Shape
<1>8. Reachable(form')
    BY <1>4, <1>5, <1>7 DEF Reachable
<1> QED BY <1>7, <1>8 DEF FormInv, Shape, Reachable, ThresholdReachable

\* What the user does to the form.
Filling ==
    \/ OpenForm \/ CloseForm
    \/ \E n \in 0 .. 3 : Step(n)
    \/ \E u \in Others : Search(u) \/ Found(u)
    \/ \E p \in form.found : Add(p)
    \/ \E u \in Others : RemovePerson(u)
    \/ \E t \in 1 .. MaxPeople : SetThreshold(t)

LEMMA FillingForm == ASSUME WorldInv, FormInv, Filling PROVE FormInv'
<1>0. form \in Shape /\ Reachable(form) /\ \A u \in Others : u \in User
    BY FormIs DEF Others
<1> SUFFICES (form' \in Shape /\ Reachable(form')) \/ FormInv'
    BY DEF FormInv, Shape, Reachable, ThresholdReachable
<1>1. CASE OpenForm \/ CloseForm
    BY <1>1, NoFormIs DEF OpenForm, CloseForm
<1>2. ASSUME NEW n \in 0 .. 3, Step(n) PROVE form' \in Shape /\ Reachable(form')
    <2>1. form' = [form EXCEPT !.step = n]
        BY <1>2 DEF Step
    <2>2. form' \in Shape /\ form'.open = form.open /\ form'.t = form.t /\ form'.signers = form.signers
        BY <1>0, <2>1 DEF Shape
    <2> QED BY <1>0, <2>2 DEF Reachable
<1>3. ASSUME NEW u \in Others, Search(u) PROVE form' \in Shape /\ Reachable(form')
    <2>1. form' = [form EXCEPT !.asked = {u}]
        BY <1>3 DEF Search
    <2>2. form' \in Shape /\ form'.open = form.open /\ form'.t = form.t /\ form'.signers = form.signers
        BY <1>0, <2>1 DEF Shape
    <2> QED BY <1>0, <2>2 DEF Reachable
<1>4. ASSUME NEW u \in Others, Found(u) PROVE form' \in Shape /\ Reachable(form')
    <2>1. PICK S \in SUBSET Person : form' = [form EXCEPT !.asked = {}, !.found = S]
        <3>1. [who |-> u, key |-> key[u]] \in Person
            BY <1>0 DEF Person, WorldInv
        <3> QED BY <1>4, <3>1 DEF Found
    <2>2. form' \in Shape /\ form'.open = form.open /\ form'.t = form.t /\ form'.signers = form.signers
        BY <1>0, <2>1 DEF Shape
    <2> QED BY <1>0, <2>2 DEF Reachable
<1>5. ASSUME NEW p \in form.found, Add(p) PROVE (form' \in Shape /\ Reachable(form')) \/ FormInv'
    <2>1. p \in Person
        BY <1>0 DEF Shape
    <2>2. CASE form.step = 1
        <3>1. Append(form.signers, p) \in Seq(Person)
            BY <1>0, <2>1 DEF Shape
        <3>2. WithSigners(Append(form.signers, p)) /\ form.open
            BY <1>5, <2>2 DEF Add
        <3> QED BY <3>1, <3>2, SignersMove
    <2>3. CASE form.step # 1
        <3>1. form' = [form EXCEPT !.recips = Append(@, p), !.found = {}]
            BY <1>5, <2>3 DEF Add
        <3>2. Append(form.recips, p) \in Seq(Person)
            BY <1>0, <2>1 DEF Shape
        <3>3. form' \in Shape /\ form'.open = form.open /\ form'.t = form.t /\ form'.signers = form.signers
            BY <1>0, <3>1, <3>2 DEF Shape
        <3> QED BY <1>0, <3>3 DEF Reachable
    <2> QED BY <2>2, <2>3
<1>6. ASSUME NEW u \in Others, RemovePerson(u) PROVE (form' \in Shape /\ Reachable(form')) \/ FormInv'
    <2>1. CASE form.step = 1
        <3>1. Without(form.signers, u) \in Seq(Person)
            BY <1>0, WithoutList DEF Shape
        <3>2. WithSigners(Without(form.signers, u)) /\ form.open
            BY <1>6, <2>1 DEF RemovePerson
        <3> QED BY <3>1, <3>2, SignersMove
    <2>2. CASE form.step # 1
        <3>1. form' = [form EXCEPT !.recips = Without(@, u)]
            BY <1>6, <2>2 DEF RemovePerson
        <3>2. Without(form.recips, u) \in Seq(Person)
            BY <1>0, WithoutList DEF Shape
        <3>3. form' \in Shape /\ form'.open = form.open /\ form'.t = form.t /\ form'.signers = form.signers
            BY <1>0, <3>1, <3>2 DEF Shape
        <3> QED BY <1>0, <3>3 DEF Reachable
    <2> QED BY <2>1, <2>2
<1>7. ASSUME NEW t \in 1 .. MaxPeople, SetThreshold(t) PROVE form' \in Shape /\ Reachable(form')
    <2>1. t \in 1 .. Len(form.signers) /\ form' = [form EXCEPT !.t = t]
        BY <1>7 DEF SetThreshold
    <2>2. t \in Nat /\ t >= 1 /\ t <= Len(form.signers)
        BY <1>0, <2>1 DEF Shape
    <2>3. form' \in Shape /\ form'.t = t /\ form'.signers = form.signers
        BY <1>0, <2>1, <2>2 DEF Shape
    <2> QED BY <2>2, <2>3 DEF Reachable
<1> QED BY <1>1, <1>2, <1>3, <1>4, <1>5, <1>6, <1>7 DEF Filling

LEMMA FillingStep == ASSUME CeremonyConstants, Inv, Filling PROVE Inv'
<1>1. UNCHANGED <<wf, key, list, badge, polls, dialog, job, make>>
    BY DEF Filling, OpenForm, CloseForm, Step, Search, Found, Add, RemovePerson, SetThreshold, world, page
<1>2. FormInv'
    BY FillingForm DEF Inv
<1>3. PageInv' /\ DialogInv' /\ JobsInv'
    BY <1>1, KeptSame, PageStays, DialogStays, JobsStay DEF Inv, page
<1>4. WorldInv' /\ MakeInv'
    BY <1>1 DEF Inv, WorldInv, MakeInv
<1> QED BY <1>2, <1>3, <1>4 DEF Inv

MakeStages == {"idle", "wrapping", "answered", "saved"}
Draft == [stage : MakeStages, signers : Seq(Person), recips : Seq(Person), t : Nat]

LEMMA DraftIs == (MakeInv <=> make \in Draft) /\ NotMaking \in Draft
<1>1. <<>> \in Seq(Person)
    OBVIOUS
<1> QED BY <1>1 DEF MakeInv, Draft, MakeStages, NotMaking

LEMMA NamedAre == ASSUME NEW people \in Seq(Person) PROVE Named(people) \subseteq User
<1>1. \A i \in DOMAIN people : people[i] \in Person
    OBVIOUS
<1>2. \A p \in Person : p.who \in User
    BY DEF Person
<1> QED BY <1>1, <1>2 DEF Named

LEMMA CreatedIs ==
    ASSUME CeremonyConstants, MakeInv
    PROVE  Created \in Row /\ Consistent(Created) /\ Created.status = "pending"
<1>1. make.signers \in Seq(Person) /\ make.recips \in Seq(Person) /\ make.t \in Nat
    BY DEF MakeInv
<1>2. Named(make.signers) \subseteq User /\ Named(make.recips) \subseteq User
    BY <1>1, NamedAre
<1>3. KeyedIn(make.recips) \subseteq Named(make.recips)
    BY <1>1 DEF KeyedIn, Named, Range
<1>4. Created \in Row /\ Consistent(Created) /\ Created.status = "pending"
    <2>1. Me \in User
        BY DEF CeremonyConstants
    <2>2. NoRow \in Row
        BY <2>1 DEF NoRow, Row
    <2>3. Created \in Row
        BY <1>1, <1>2, <1>3, <2>1, <2>2 DEF Created, Row
    <2>4. Created.signed = {} /\ Created.status = "pending" /\ Created.recips = Named(make.recips)
          /\ Created.keyed = KeyedIn(make.recips)
        BY DEF Created, NoRow
    <2> QED BY <1>3, <2>3, <2>4 DEF Consistent
<1> QED BY <1>4

LEMMA MakingStep == ASSUME CeremonyConstants, Inv, Making PROVE Inv'
<1>1. CASE Filling
    BY <1>1, FillingStep
<1>2. CASE StartCreate
    <2>1. UNCHANGED <<wf, key, list, badge, polls, dialog, job, form>>
          /\ make' = [stage |-> "wrapping", signers |-> form.signers, recips |-> form.recips, t |-> form.t]
        BY <1>2 DEF StartCreate, world, page
    <2>2. MakeInv'
        BY <2>1 DEF Inv, FormInv, MakeInv
    <2>3. PageInv' /\ DialogInv' /\ JobsInv'
        BY <2>1, KeptSame, PageStays, DialogStays, JobsStay DEF Inv, page
    <2>4. WorldInv' /\ FormInv'
        BY <2>1 DEF Inv, WorldInv, FormInv, ThresholdReachable
    <2> QED BY <2>2, <2>3, <2>4 DEF Inv
<1>3. CASE MakeFails \/ MakeSaved
    <2>1. UNCHANGED <<wf, key, list, badge, polls, dialog, job, form>>
          /\ (make' = NotMaking \/ make' = [make EXCEPT !.stage = "saved"])
        BY <1>3 DEF MakeFails, MakeSaved, world, page
    <2>2. MakeInv'
        <3>1. make \in Draft /\ NotMaking \in Draft
            BY DraftIs DEF Inv
        <3>2. make' \in Draft
            BY <2>1, <3>1 DEF Draft, MakeStages
        <3> QED BY <3>2 DEF MakeInv, Draft, MakeStages
    <2>3. PageInv' /\ DialogInv' /\ JobsInv'
        BY <2>1, KeptSame, PageStays, DialogStays, JobsStay DEF Inv, page
    <2>4. WorldInv' /\ FormInv'
        BY <2>1 DEF Inv, WorldInv, FormInv, ThresholdReachable
    <2> QED BY <2>2, <2>3, <2>4 DEF Inv
<1>4. CASE CreatedClosesForm
    <2>1. UNCHANGED <<wf, key, list, badge, dialog, job>> /\ make' = NotMaking /\ form' = NoForm
          /\ polls' = IF Cardinality(polls) < MaxPolls THEN polls \cup {Listing} ELSE polls
        BY <1>4 DEF CreatedClosesForm, world
    <2>2. PageInv'
        <3>1. \A c \in Listing : Past(c)
            BY ListingPast DEF Inv
        <3>2. \A c : Past(c) => Past(c)'
            BY <2>1 DEF Past
        <3>3. IsFiniteSet(polls) /\ Cardinality(polls) \in Nat /\ MaxPolls \in Nat
              /\ Cardinality(polls) <= MaxPolls
            BY FS_CardinalityType DEF Inv, PageInv, CeremonyConstants
        <3>4. CASE Listing \notin polls /\ Cardinality(polls) < MaxPolls
            <4>1. Cardinality(polls') = Cardinality(polls) + 1 /\ IsFiniteSet(polls')
                BY <2>1, <3>3, <3>4, FS_AddElement
            <4>2. Cardinality(polls') <= MaxPolls
                BY <3>3, <3>4, <4>1
            <4> QED BY <2>1, <3>1, <3>2, <3>4, <4>1, <4>2 DEF Inv, PageInv
        <3>5. CASE ~ (Listing \notin polls /\ Cardinality(polls) < MaxPolls)
            <4>1. polls' = polls
                BY <2>1, <3>5
            <4> QED BY <2>1, <3>2, <4>1 DEF Inv, PageInv
        <3> QED BY <3>4, <3>5
    <2>3. DialogInv' /\ JobsInv'
        BY <2>1, KeptSame, DialogStays, JobsStay DEF Inv
    <2>4. FormInv'
        BY <2>1, NoFormIs DEF FormInv, Shape, Reachable, ThresholdReachable
    <2>5. WorldInv' /\ MakeInv'
        BY <2>1, DraftIs DEF Inv, WorldInv, MakeInv, Draft, MakeStages
    <2> QED BY <2>2, <2>3, <2>4, <2>5 DEF Inv
<1>5. ASSUME NEW w \in Wf, PostCreate(w) PROVE Inv'
    <2>1. UNCHANGED <<key, list, badge, polls, dialog, job, form>> /\ wf[w].status = "unused"
          /\ \/ wf' = [wf EXCEPT ![w] = Created] /\ make' = [NotMaking EXCEPT !.stage = "answered"]
             \/ UNCHANGED wf /\ make' = NotMaking
        BY <1>5 DEF PostCreate, Unused, page
    <2>2. WorldInv' /\ \A v \in Wf : Kept(v)
        <3>1. CASE wf' = [wf EXCEPT ![w] = Created]
            <4>1. Follows(w, Created)
                BY <2>1, CreatedIs DEF Follows, Inv
            <4> QED BY <2>1, <3>1, <4>1, RowMoves DEF Inv
        <3>2. CASE UNCHANGED wf
            BY <2>1, <3>2, KeptSame DEF Inv, WorldInv
        <3> QED BY <2>1, <3>1, <3>2
    <2>3. PageInv' /\ DialogInv' /\ JobsInv'
        BY <2>1, <2>2, PageStays, DialogStays, JobsStay DEF Inv, page
    <2>4. MakeInv'
        <3>1. make' \in Draft
            BY <2>1, DraftIs DEF Draft, MakeStages
        <3> QED BY <3>1 DEF MakeInv, Draft, MakeStages
    <2>5. FormInv'
        BY <2>1 DEF Inv, FormInv, ThresholdReachable
    <2> QED BY <2>2, <2>3, <2>4, <2>5 DEF Inv
<1> QED BY <1>1, <1>2, <1>3, <1>4, <1>5 DEF Making, Filling

----------------------------------------------------------------------------
(* Everyone else *)

LEMMA OtherSignsStep ==
    ASSUME CeremonyConstants, Inv, NEW w \in Wf, NEW u \in User, OtherSigns(w, u)
    PROVE  WorldInv' /\ \A v \in Wf : Kept(v)
<1>1. PICK sent \in SUBSET User :
         /\ u \in wf[w].signers /\ SignVerdict(w, u, sent) = "ok"
         /\ wf' = [wf EXCEPT ![w] = Signed(w, u, sent)] /\ UNCHANGED key
    <2>1. wf[w].recips \in SUBSET User
        BY DEF Inv, WorldInv, Row
    <2> DEFINE sent == IF Cardinality(wf[w].signed) + 1 >= Quorum(w)
                       THEN {v \in wf[w].recips : key[v] = "good"} ELSE {}
    <2>2. sent \in SUBSET User
        BY <2>1
    <2>3. /\ u \in wf[w].signers /\ SignVerdict(w, u, sent) = "ok"
          /\ wf' = [wf EXCEPT ![w] = Signed(w, u, sent)] /\ UNCHANGED key
        BY DEF OtherSigns
    <2> HIDE DEF sent
    <2> QED BY <2>2, <2>3
<1>2. Follows(w, Signed(w, u, sent))
    BY <1>1, SignedFollows DEF Inv
<1> QED BY <1>1, <1>2, RowMoves DEF Inv

LEMMA OtherEndsStep ==
    ASSUME CeremonyConstants, Inv, NEW w \in Wf, NEW end \in {"rejected", "deleted"}, OtherEnds(w, end)
    PROVE  WorldInv' /\ \A v \in Wf : Kept(v)
<1> DEFINE r == [wf[w] EXCEPT !.status = end]
<1>1. wf[w] \in Row /\ Consistent(wf[w])
    BY DEF Inv, WorldInv
<1>2. wf' = [wf EXCEPT ![w] = r] /\ UNCHANGED key
    BY <1>1 DEF OtherEnds, Inv, WorldInv, Row
<1>3. r \in Row /\ r.status = end /\ r.signed = wf[w].signed /\ r.signers = wf[w].signers
      /\ r.t = wf[w].t /\ r.owner = wf[w].owner /\ r.author = wf[w].author
      /\ r.keyed = wf[w].keyed /\ r.recips = wf[w].recips
    BY <1>1 DEF Row
<1> HIDE DEF r
<1>4. Follows(w, r)
    BY <1>1, <1>3 DEF Follows, Consistent
<1> QED BY <1>2, <1>4, RowMoves DEF Inv

LEMMA EraseStep ==
    ASSUME CeremonyConstants, Inv, NEW u \in User, Erase(u)
    PROVE  WorldInv' /\ \A v \in Wf : Kept(v)
<1> DEFINE Erased(w) == IF wf[w].status \notin {"pending", "rejected"} THEN wf[w]
                       ELSE IF wf[w].owner = u THEN [wf[w] EXCEPT !.status = "deleted"]
                       ELSE [wf[w] EXCEPT !.recips = @ \ {u}, !.keyed = @ \ {u}]
<1>1. wf' = [w \in Wf |-> Erased(w)] /\ key' \in [User -> KeyState]
    BY DEF Erase, Inv, WorldInv, KeyState
<1>2. ASSUME NEW w \in Wf PROVE Follows(w, Erased(w))
    <2>1. wf[w] \in Row /\ Consistent(wf[w])
        BY DEF Inv, WorldInv
    <2>2. CASE wf[w].status \notin {"pending", "rejected"}
        <3>1. Erased(w) = wf[w]
            BY <2>2
        <3> QED BY <2>1, <3>1 DEF Follows
    <2>3. CASE wf[w].status \in {"pending", "rejected"} /\ wf[w].owner = u
        <3>1. Erased(w) = [wf[w] EXCEPT !.status = "deleted"]
            BY <2>3
        <3> QED BY <2>1, <3>1 DEF Follows, Row, Consistent
    <2>4. CASE wf[w].status \in {"pending", "rejected"} /\ wf[w].owner # u
        <3> DEFINE r == [wf[w] EXCEPT !.recips = @ \ {u}, !.keyed = @ \ {u}]
        <3>1. Erased(w) = r
            BY <2>4
        <3>2. /\ r \in Row /\ r.status = wf[w].status /\ r.signed = wf[w].signed
              /\ r.signers = wf[w].signers /\ r.t = wf[w].t /\ r.owner = wf[w].owner
              /\ r.author = wf[w].author
              /\ r.keyed = wf[w].keyed \ {u} /\ r.recips = wf[w].recips \ {u}
            BY <2>1 DEF Row
        <3> HIDE DEF r
        <3>3. Follows(w, r)
            BY <2>1, <2>4, <3>2 DEF Follows, Consistent
        <3> HIDE DEF Erased
        <3> QED BY <3>1, <3>3
    <2> QED BY <2>2, <2>3, <2>4
<1> HIDE DEF Erased
<1>3. \A w \in Wf : Follows(w, wf'[w])
    BY <1>1, <1>2
<1>4. wf' \in [Wf -> Row] /\ \A w \in Wf : Consistent(wf'[w])
    BY <1>1, <1>2 DEF Follows
<1>5. \A w \in Wf : Kept(w)
    BY <1>3 DEF Follows, Kept
<1>6. WorldInv'
    BY <1>1, <1>4 DEF WorldInv, Consistent
<1> QED BY <1>5, <1>6

LEMMA ElsewhereStep == ASSUME CeremonyConstants, Inv, Elsewhere PROVE Inv'
<1>1. UNCHANGED <<page, dialog, job, form, make>>
    BY DEF Elsewhere, OtherSigns, OtherEnds, Erase, Publish
<1>2. WorldInv' /\ \A v \in Wf : Kept(v)
    <2>1. ASSUME NEW u \in User, NEW k \in {"none", "good", "bad"}, Publish(u, k)
          PROVE  WorldInv' /\ \A v \in Wf : Kept(v)
        <3>1. UNCHANGED wf /\ key' \in [User -> KeyState]
            BY <2>1 DEF Publish, Inv, WorldInv, KeyState
        <3> QED BY <3>1, KeptSame DEF Inv, WorldInv
    <2> QED BY <2>1, OtherSignsStep, OtherEndsStep, EraseStep DEF Elsewhere
<1>3. PageInv' /\ DialogInv' /\ JobsInv'
    BY <1>1, <1>2, PageStays, DialogStays, JobsStay DEF Inv
<1>4. FormInv' /\ MakeInv'
    BY <1>1 DEF Inv, FormInv, MakeInv, ThresholdReachable
<1> QED BY <1>2, <1>3, <1>4 DEF Inv

----------------------------------------------------------------------------
(* The invariant *)

LEMMA InitInv == ASSUME CeremonyConstants, StartConsistent, Init PROVE Inv
<1>1. WorldInv
    BY DEF Init, StartConsistent, WorldInv
<1>2. PageInv
    <2>1. \A c \in list : Past(c)
        BY <1>1, ListingPast DEF Init
    <2>2. badge \subseteq Wf
        BY <2>1 DEF Init, Past
    <2>3. IsFiniteSet(polls) /\ Cardinality(polls) <= MaxPolls
        BY FS_EmptySet DEF Init, CeremonyConstants
    <2> QED BY <2>1, <2>2, <2>3 DEF Init, PageInv
<1>3. DialogInv
    BY NoDialogIs DEF Init, DialogInv
<1>4. JobsInv
    BY IdleIs DEF Init, JobsInv
<1>5. FormInv
    BY NoFormIs, FormIs DEF Init
<1>6. MakeInv
    BY DraftIs DEF Init
<1> QED BY <1>1, <1>2, <1>3, <1>4, <1>5, <1>6 DEF Inv

LEMMA InvStays == ASSUME CeremonyConstants, Inv, [Next]_vars PROVE Inv'
<1>1. CASE Next
    BY <1>1, PollingStep, DialogsStep, HandlersStep, MakingStep, ElsewhereStep DEF Next
<1>2. CASE UNCHANGED vars
    <2>1. UNCHANGED <<wf, key, page, dialog, job, form, make>>
        BY <1>2 DEF vars, world
    <2>2. PageInv' /\ DialogInv' /\ JobsInv'
        BY <2>1, KeptSame, PageStays, DialogStays, JobsStay DEF Inv
    <2> QED BY <2>1, <2>2 DEF Inv, WorldInv, FormInv, MakeInv, ThresholdReachable
<1> QED BY <1>1, <1>2

LEMMA Invariant == ASSUME CeremonyConstants, StartConsistent PROVE Spec => []Inv
<1>1. Init => Inv
    BY InitInv
<1>2. Inv /\ [Next]_vars => Inv'
    BY InvStays
<1> QED BY <1>1, <1>2, PTL DEF Spec

----------------------------------------------------------------------------
(* What it makes of the properties *)

LEMMA InvTypes == ASSUME Inv PROVE TypeOK
<1>1. \A j \in Job : job[j].kind \in {"idle", "sign", "reject", "delete"}
    BY DEF Inv, JobsInv, Handler
<1>2. Range(form.signers) \cup Range(form.recips) \subseteq Person
    <2>1. form.signers \in Seq(Person) /\ form.recips \in Seq(Person)
        BY DEF Inv, FormInv
    <2>2. \A s \in Seq(Person) : Range(s) \subseteq Person
        BY DEF Range
    <2> QED BY <2>1, <2>2
<1>3. form.step \in 0 .. 3 /\ make.stage \in {"idle", "wrapping", "answered", "saved"}
    BY DEF Inv, FormInv, MakeInv
<1> QED BY <1>1, <1>2, <1>3 DEF Inv, WorldInv, PageInv, TypeOK

\* The quorum counts signatures that are never taken back: who completes it by
\* an older copy completes it now.
LEMMA StillFinal ==
    ASSUME CeremonyConstants, WorldInv, NEW c, Past(c), Completing(c)
    PROVE  Cardinality(wf[c.w].signed) + 1 >= Quorum(c.w)
<1>1. wf[c.w].signers \in SUBSET User /\ wf[c.w].signed \in SUBSET User /\ wf[c.w].t \in Nat
    BY DEF WorldInv, Past, Row
<1>2. c.signed \subseteq wf[c.w].signed /\ IsFiniteSet(wf[c.w].signed) /\ IsFiniteSet(wf[c.w].signers)
    BY <1>1, FS_Subset DEF Past, CeremonyConstants
<1>3. Cardinality(c.signed) \in Nat /\ Cardinality(wf[c.w].signed) \in Nat
      /\ Cardinality(c.signed) <= Cardinality(wf[c.w].signed)
    BY <1>2, FS_Subset, FS_CardinalityType
<1>4. Quorum(c.w) \in Nat
    BY <1>1, <1>2, FS_CardinalityType DEF Quorum
<1> QED BY <1>3, <1>4 DEF Completing

LEMMA InvNoEarlyKeys == ASSUME CeremonyConstants, Inv PROVE NoEarlyKeys
<1> SUFFICES ASSUME NEW j \in Job, Signing(j), SignVerdict(job[j].copy.w, Me, job[j].sent) = "early keys"
             PROVE  FALSE
    BY DEF NoEarlyKeys
<1> DEFINE c == job[j].copy
<1>1. Past(c) /\ job[j].sent = KeysSent(c)
    BY DEF Signing, Inv, JobsInv, SoundJob, Due
<1>2. job[j].sent # {} /\ ~ (Cardinality(wf[c.w].signed) + 1 >= Quorum(c.w))
    BY DEF SignVerdict
<1>3. Completing(c)
    BY <1>1, <1>2 DEF KeysSent
<1> QED BY <1>1, <1>2, <1>3, StillFinal DEF Inv

LEMMA InvCurrentCopySigns == ASSUME CeremonyConstants, Inv PROVE CurrentCopySigns
<1> DEFINE c(j) == job[j].copy
<1> SUFFICES ASSUME NEW j \in Job, Signing(j), c(j) = Now(c(j).w),
                    \A u \in wf[c(j).w].recips \ wf[c(j).w].keyed : key[u] = "good"
             PROVE  SignVerdict(c(j).w, Me, job[j].sent) = "ok"
    BY DEF CurrentCopySigns
<1> DEFINE w == c(j).w
           final == Cardinality(wf[w].signed) + 1 >= Quorum(w)
<1>1. /\ w \in Wf /\ c(j).status = "pending" /\ Me \in wf[w].signers \ c(j).signed
      /\ job[j].sent = KeysSent(c(j))
    BY DEF Signing, Inv, JobsInv, SoundJob, Due, Past
<1>2. /\ c(j).status = wf[w].status /\ c(j).signed = wf[w].signed /\ c(j).recips = wf[w].recips
      /\ c(j).keys = [u \in wf[w].recips |-> key[u]]
    BY DEF Now, Copy
<1>3. Completing(c(j)) <=> final
    BY <1>2 DEF Completing
<1>4. job[j].sent = IF final THEN {u \in wf[w].recips : key[u] = "good"} ELSE {}
    BY <1>1, <1>2, <1>3 DEF KeysSent
<1>5. wf[w].status = "pending" /\ Me \notin wf[w].signed
    BY <1>1, <1>2
<1> HIDE DEF c, w, final
<1>6. /\ wf[w].status = "pending" /\ Me \notin wf[w].signed
      /\ (job[j].sent # {} => final) /\ job[j].sent \subseteq wf[w].recips
      /\ (final => wf[w].recips \subseteq wf[w].keyed \cup job[j].sent)
    BY <1>4, <1>5 DEF w
<1> QED BY <1>6 DEF SignVerdict, Stored, final, w, c

LEMMA InvCeremony == ASSUME CeremonyConstants, Inv PROVE CeremonyInv
<1>1. DetailIsOfDialog
    BY DEF Inv, DialogInv, SoundDialog, DetailIsOfDialog, Ready
<1> QED BY <1>1, InvTypes, InvNoEarlyKeys, InvCurrentCopySigns DEF CeremonyInv, Inv, FormInv

LEMMA InvProofsHold == ASSUME CeremonyConstants, Inv PROVE ProofsHold
<1> SUFFICES ASSUME MayExport, Proof.of = Proof.w, Proof.ct PROVE Audit(Proof)
    BY DEF ProofsHold
<1>1. Ready /\ Current = dialog.detail /\ dialog.shown.w = dialog.detail.w
    BY DEF Proof, Current
<1>2. Past(dialog.detail)
    BY <1>1 DEF Inv, DialogInv, SoundDialog, PastIfAny, Ready
<1>3. dialog.shown.verdict = Verdict(dialog.shown.w)
    BY DEF MayExport, Inv, DialogInv, SoundDialog, Judged
<1>4. dialog.shown.verdict # "unsigned" => wf[dialog.shown.w].author = "owner"
    <2>1. dialog.shown.verdict \in {"verified", "unsigned"}
        BY DEF MayExport, Exportable
    <2> QED BY <1>2, <1>3, <2>1, <1>1 DEF Verdict, Inv, WorldInv, Row, Past
<1> QED BY <1>1, <1>2, <1>4 DEF Audit, Proof, Past

(***************************************************************************)
(* At every step of a tab and of everyone else, for any number of users,   *)
(* workflows, handlers and polls: the dialog shows a fetched workflow only *)
(* as its own, recipient keys are sent with the final signature only, a    *)
(* signature over a current copy is accepted, and the form's threshold can *)
(* be reached (MultisigWorkflow.jsx, signWorkflow.js, useMultisig.js,      *)
(* MultisigCreateModal.jsx, multisig.py sign_multisig_workflow).           *)
(***************************************************************************)
THEOREM CopiesNeverMislead == ASSUME CeremonyConstants, StartConsistent PROVE Spec => []CeremonyInv
<1>1. Inv => CeremonyInv
    BY InvCeremony
<1> QED BY <1>1, Invariant, PTL

\* Every proof the dialog exports of a workflow's own document passes the
\* audit, whoever signed, deleted or erased what meanwhile (proof.js,
\* ProofAudit.jsx verifyMultisigProofSignatures).
THEOREM ExportedProofsHold == ASSUME CeremonyConstants, StartConsistent PROVE Spec => []ProofsHold
<1>1. Inv => ProofsHold
    BY InvProofsHold
<1> QED BY <1>1, Invariant, PTL
=============================================================================
