------------------------------ MODULE Secrets ------------------------------
(***************************************************************************)
(* The secrets page of one account: its lists, opened secrets, creations   *)
(* and shares (hooks/useSecrets.js, utils/fileChunks.js, secretPayload.js, *)
(* paging.js, dashboard/ShareModal.jsx), and the loop that moves what the  *)
(* account holds to a new encryption key (PQCContext.jsx rewrapStaleKeys), *)
(* over the rows the server keeps (routers/secrets.py,                     *)
(* security/key_rotation.py).  Other people, other devices and expiry add  *)
(* and remove rows meanwhile.                                              *)
(*                                                                         *)
(* A row stands for a secret together with this account's wrap of its key. *)
(* Content is its shape: <<>> is text, <<2, 0>> a file of two chunks and   *)
(* an empty one.  Vault models what a rotation does to the vault itself.   *)
(***************************************************************************)
EXTENDS Naturals, Sequences, FiniteSets, SequencesExt

CONSTANTS
    MaxRow,     \* bound: rows ever created
    MaxKey,     \* bound: encryption keys of this account
    PageSize,   \* PAGE_SIZE of the lists, PAGE of the loop, and the server's cap
    Shapes,     \* the contents created
    Recipient,  \* the people one may share with
    NoOne,      \* no recipient
    Unsafe,     \* those whose key fails its attestation
    Op,         \* operations in progress at once
    MaxDeeds,   \* bound: things users, other people and clocks do
    Offered     \* what they do

ASSUME SecretsConstants ==
    /\ MaxRow \in Nat \ 0..4 /\ MaxKey \in Nat \ 0..1 /\ PageSize \in Nat \ {0}
    /\ Unsafe \subseteq Recipient /\ NoOne \notin Recipient
    /\ MaxDeeds \in Nat

VARIABLES
    row,     \* the server's rows
    keys,    \* the key the server serves for the account, those this browser holds
    view,    \* the two lists on screen, and whether news of a share has come
    shown,   \* what is on screen of each row's content
    modal,   \* the share dialog
    op,      \* each operation in progress
    deeds,   \* things done so far
    saved    \* history: the rows whose creation was reported saved

vars == <<row, keys, view, shown, modal, op, deeds, saved>>

Id == 1..MaxRow
Kid == 0..MaxKey

\* kid: the key it is sealed to (0: one this browser does not hold);
\* of: the row whose file key is inside; has: which of the two wrap formats.
NoWrap == [kid |-> 0, of |-> 0, has |-> "content"]
Seal(k, n, has) == [kid |-> k, of |-> n, has |-> has]

NoRow == [who |-> "none", wrap |-> NoWrap, shape |-> <<>>, chunks |-> <<>>, grant |-> 0]
Live == {n \in Id : row[n].who \in {"own", "shared", "signer"}}
Unused == {n \in Id : row[n].who = "none"}
Next1 == CHOOSE n \in Unused : \A m \in Unused : n <= m

----------------------------------------------------------------------------
(* Files and their chunks *)

\* The chunks of a content in the order they are uploaded, as (file, part).
Parts(shape) == FlattenSeq([f \in DOMAIN shape |-> [p \in 1..shape[f] |-> <<f, p>>]])

\* The global index each file's chunks start at, as its descriptor says.
Offset(shape, f) == FoldLeft(LAMBDA sum, size : sum + size, 0, SubSeq(shape, 1, f - 1))

AllChunks(shape) == [i \in 0..(Len(Parts(shape)) - 1) |-> Parts(shape)[i + 1]]
FilesOf(shape) == [f \in DOMAIN shape |-> [p \in 1..shape[f] |-> <<f, p>>]]

\* Downloading file f: one chunk missing fails it.
ChunksFrom(shape, f) == Offset(shape, f)..(Offset(shape, f) + shape[f] - 1)
Downloads(n, f) == n \in Live /\ ChunksFrom(row[n].shape, f) \subseteq DOMAIN row[n].chunks
Downloaded(n, f) ==
    [p \in 1..row[n].shape[f] |-> row[n].chunks[Offset(row[n].shape, f) + p - 1]]

\* A single file is downloaded only when it says it has chunks, several always.
HasDownload(shape) == Len(shape) > 1 \/ (Len(shape) = 1 /\ shape[1] > 0)

----------------------------------------------------------------------------
(* Rows in the server's order *)

\* The lists are newest first.
Listed(kind) == {n \in Id : row[n].who = kind}
Newer(m, n) == m > n

\* Grants before signers' wraps, oldest first.
Stale == {n \in Live : row[n].wrap.kid # keys.cur}
Sooner(m, n) ==
    \/ row[m].who # "signer" /\ row[n].who = "signer"
    \/ (row[m].who = "signer" <=> row[n].who = "signer") /\ m < n

\* LIMIT size OFFSET at: a row is at the place that so many rows come before.
Snapshot(n) == [id |-> n, wrap |-> row[n].wrap]
Slice(rows, Before(_, _), at, size) ==
    [i \in {j \in 1..size : at + j <= Cardinality(rows)} |->
        Snapshot(CHOOSE n \in rows : Cardinality({m \in rows : Before(m, n)}) = at + i - 1)]
PageOf(kind, at) == Slice(Listed(kind), Newer, at, PageSize)
StalePage(at) == Slice(Stale, Sooner, at, PageSize)
Shown(kind) == Slice(Listed(kind), Newer, 0, MaxRow)
IdsOf(list) == {list[i].id : i \in DOMAIN list}

Opens(wrap) == wrap.kid \in keys.held

----------------------------------------------------------------------------
(* Operations *)

Hidden == [as |-> "hidden", files |-> <<>>]
Idle == [kind |-> "idle", stage |-> "none", id |-> 0, at |-> 0, key |-> 0,
         got |-> <<>>, start |-> {}, cut |-> FALSE]
Finished == [Idle EXCEPT !.stage = "done"]
\* Any operation not in progress will do for a new one.
Free(o) == op[o].kind = "idle" /\ o = CHOOSE p \in Op : op[p].kind = "idle"

\* fetchSecrets, fetchSharedSecrets: a walk remembers what it ought to find.
Walk(kind, n) == [Idle EXCEPT !.kind = kind, !.stage = "page", !.id = n,
                              !.start = {m \in Live : row[m].who = kind}]
NoModal == [open |-> FALSE, to |-> NoOne, pending |-> {}, verdict |-> NoOne]

Row(who, k, n, shape) ==
    [NoRow EXCEPT !.who = who, !.wrap = Seal(k, n, "content"), !.shape = shape, !.chunks = AllChunks(shape)]

\* An account in use, its lists on screen: it owns rows, some were shared with
\* it, it signs a workflow.  It may hold wraps sealed to a key destroyed since,
\* or have rotated before without moving anything.
Held0 == <<"own", "shared", "shared", "own", "signer">>
Init ==
    /\ \E lost \in SUBSET {2, 3, 5}, shape \in Shapes, k \in {1, 2} :
          /\ (lost = {} /\ k = 1) \/ shape = <<>>
          /\ keys = [cur |-> k, held |-> 1..k]
          /\ row = [n \in Id |-> IF n \in DOMAIN Held0
                                 THEN Row(Held0[n], IF n \in lost THEN 0 ELSE 1, n, shape) ELSE NoRow]
    /\ view = [own |-> Shown("own"), shared |-> Shown("shared"), news |-> FALSE]
    /\ shown = [n \in Id |-> Hidden]
    /\ modal = NoModal
    /\ op = [o \in Op |-> Idle]
    /\ deeds = 0 /\ saved = {}

Spend(deed) == deed \in Offered /\ deeds < MaxDeeds /\ deeds' = deeds + 1

----------------------------------------------------------------------------
(* Listing: pages until one comes back short *)

MutLastPage(page) == Len(page) <= PageSize
LastPage(page) == Len(page) < PageSize

FetchPage(o) ==
    /\ op[o].stage = "page"
    /\ LET page == PageOf(op[o].kind, op[o].at)
       IN op' = [op EXCEPT ![o].got = @ \o page, ![o].at = @ + PageSize,
                           ![o].stage = IF LastPage(page) THEN "titles" ELSE @]
    /\ UNCHANGED <<row, keys, view, shown, modal, deeds, saved>>

\* Titles are opened in one approval, then the list replaces the one on screen.
ShowList(o) ==
    /\ op[o].stage = "titles"
    /\ view' = [view EXCEPT ![op[o].kind] = op[o].got]
    /\ op' = [op EXCEPT ![o] = Idle]
    /\ UNCHANGED <<row, keys, shown, modal, deeds, saved>>

\* A request that fails leaves the list as it was.
WalkFails(o) ==
    /\ op[o].stage = "page"
    /\ Spend("fail")
    /\ op' = [op EXCEPT ![o] = Idle]
    /\ UNCHANGED <<row, keys, view, shown, modal, saved>>

\* A new token lists anew.
Reload(o) ==
    /\ Free(o) /\ Spend("reload")
    /\ \E kind \in {"own", "shared"} : op' = [op EXCEPT ![o] = Walk(kind, 0)]
    /\ UNCHANGED <<row, keys, view, shown, modal, saved>>

\* News of a share: handleRefreshSecrets.
Refresh(o) ==
    /\ Free(o) /\ view.news
    /\ view' = [view EXCEPT !.news = FALSE]
    /\ op' = [op EXCEPT ![o] = Walk("shared", 0)]
    /\ UNCHANGED <<row, keys, shown, modal, deeds, saved>>

----------------------------------------------------------------------------
(* Opening: handleDecrypt *)

StartOpen(o) ==
    /\ Free(o) /\ Spend("open")
    /\ \E kind \in {"own", "shared"} : \E i \in DOMAIN view[kind] :
          op' = [op EXCEPT ![o] = [Idle EXCEPT !.kind = "open", !.stage = "key", !.id = view[kind][i].id,
                                               !.start = {view[kind][i].wrap}]]
    /\ UNCHANGED <<row, keys, view, shown, modal, saved>>

WrapOf(o) == CHOOSE w \in op[o].start : TRUE

\* The key, then the content.  Either failing, an error is all there is.
OpenKey(o) ==
    /\ op[o].stage = "key" /\ op[o].kind = "open"
    /\ op' = [op EXCEPT ![o] = IF Opens(WrapOf(o)) THEN [op[o] EXCEPT !.stage = "content"] ELSE Idle]
    /\ UNCHANGED <<row, keys, view, shown, modal, deeds, saved>>

\* Text, and the descriptor of a single empty file, show as they are.
OpenContent(o) ==
    LET n == op[o].id
    IN /\ op[o].stage = "content"
       /\ IF n \in Live /\ HasDownload(row[n].shape)
          THEN op' = [op EXCEPT ![o].stage = "download"] /\ UNCHANGED shown
          ELSE /\ op' = [op EXCEPT ![o] = Idle]
               /\ shown' = IF n \in Live
                           THEN [shown EXCEPT ![n] = [as |-> IF row[n].shape = <<>> THEN "text" ELSE "descriptor",
                                                      files |-> <<>>]]
                           ELSE shown
       /\ UNCHANGED <<row, keys, view, modal, deeds, saved>>

\* File after file.  A download that fails is caught with the parse errors, and
\* the descriptor is shown for the content.
Download(o) ==
    LET n == op[o].id
        got == Append(op[o].got, Downloaded(n, Len(op[o].got) + 1))
    IN /\ op[o].stage = "download"
       /\ IF ~Downloads(n, Len(op[o].got) + 1)
          THEN /\ shown' = [shown EXCEPT ![n] = [as |-> "descriptor", files |-> <<>>]]
               /\ op' = [op EXCEPT ![o] = Idle]
          ELSE IF Len(got) = Len(row[n].shape)
          THEN /\ shown' = [shown EXCEPT ![n] = [as |-> "files", files |-> got]]
               /\ op' = [op EXCEPT ![o] = Idle]
          ELSE op' = [op EXCEPT ![o].got = got] /\ UNCHANGED shown
       /\ UNCHANGED <<row, keys, view, modal, deeds, saved>>

Lock(n) ==
    /\ shown[n] # Hidden /\ Spend("lock")
    /\ shown' = [shown EXCEPT ![n] = Hidden]
    /\ UNCHANGED <<row, keys, view, modal, op, saved>>

----------------------------------------------------------------------------
(* Creating: the row, its chunks one by one, the list *)

\* The key sealed to is the one this page last knew, retired elsewhere or not.
StartCreate(o) ==
    /\ Free(o) /\ Unused # {} /\ Spend("create")
    /\ \E k \in keys.held, shape \in Shapes :
          op' = [op EXCEPT ![o] = [Idle EXCEPT !.kind = "create", !.stage = "post", !.key = k, !.got = shape]]
    /\ UNCHANGED <<row, keys, view, shown, modal, saved>>

Made(o) == [row EXCEPT ![Next1] = [Row("own", op[o].key, Next1, op[o].got) EXCEPT !.chunks = <<>>]]
Stored(o, n) ==
    /\ op' = [op EXCEPT ![o] = Walk("own", n)]
    /\ saved' = saved \cup {n}

PostCreate(o) ==
    /\ op[o].stage = "post" /\ op[o].kind = "create"
    /\ IF Unused = {} THEN op' = [op EXCEPT ![o] = Idle] /\ UNCHANGED <<row, saved>>
       ELSE /\ row' = Made(o)
            /\ IF Parts(op[o].got) = <<>> THEN Stored(o, Next1)
               ELSE op' = [op EXCEPT ![o].stage = "upload", ![o].id = Next1] /\ UNCHANGED saved
    /\ UNCHANGED <<keys, view, shown, modal, deeds>>

\* Chunk at of the secret, under its global index, until the last; a secret
\* deleted meanwhile takes none.
MutUpload(o) ==
    LET n == op[o].id
    IN /\ op[o].stage = "upload"
       /\ row' = IF n \notin Live THEN row
                 ELSE [row EXCEPT ![n].chunks = [i \in DOMAIN @ \cup {op[o].at} |->
                           IF i = op[o].at THEN Parts(row[n].shape)[i + 1] ELSE @[i]]]
       /\ \/ op[o].at + 1 < Len(Parts(row[n].shape)) - 1
             /\ op' = [op EXCEPT ![o].at = @ + 1] /\ UNCHANGED saved
          \/ op[o].at + 1 >= Len(Parts(row[n].shape)) - 1 /\ Stored(o, n)
       /\ UNCHANGED <<keys, view, shown, modal, deeds>>
Upload(o) ==
    LET n == op[o].id
    IN /\ op[o].stage = "upload"
       /\ IF n \notin Live THEN op' = [op EXCEPT ![o] = Idle] /\ UNCHANGED <<row, saved>>
          ELSE /\ row' = [row EXCEPT ![n].chunks = [i \in DOMAIN @ \cup {op[o].at} |->
                              IF i = op[o].at THEN Parts(row[n].shape)[i + 1] ELSE @[i]]]
               /\ IF op[o].at + 1 < Len(Parts(row[n].shape))
                  THEN op' = [op EXCEPT ![o].at = @ + 1] /\ UNCHANGED saved
                  ELSE Stored(o, n)
       /\ UNCHANGED <<keys, view, shown, modal, deeds>>

\* A request lost or refused (over quota) ends the creation: the row it made,
\* and the chunks it sent, stay.
CreateFails(o) ==
    /\ op[o].stage \in {"post", "upload"} /\ op[o].kind = "create" /\ Spend("fail")
    /\ row' \in {row} \cup {Made(o) : i \in IF op[o].stage = "post" /\ Unused # {} THEN {o} ELSE {}}
    /\ op' = [op EXCEPT ![o] = Idle]
    /\ UNCHANGED <<keys, view, shown, modal, saved>>

----------------------------------------------------------------------------
(* Removing, here or elsewhere *)

\* A walk that loses a row of its list is no longer promised anything: its
\* offsets now skip rows.  Nor is a loop that loses a row its offset may have
\* counted: one it could not open, or one that arrived while it ran, which can
\* push what was counted into a page and be counted with it.
Skews(o, n) == op[o].kind = "rewrap" /\ n \in Stale /\ n \notin op[o].start
Cut(n) == [o \in Op |-> [op[o] EXCEPT !.cut = @ \/ op[o].kind = row[n].who \/ Skews(o, n)]]

\* The numbers of a set from the least, each at its rank.
InOrder(S) == [k \in 1..Cardinality(S) |-> CHOOSE i \in S : Cardinality({j \in S : j <= i}) = k]

\* The list without row n.
Without(list, n) ==
    LET places == InOrder({i \in DOMAIN list : list[i].id # n})
    IN [k \in DOMAIN places |-> list[places[k]]]

\* deleteSecret, revokeGrant, and what expires, is revoked or deleted elsewhere.
TakeAway(n) ==
    /\ n \in Live /\ Spend("remove")
    /\ row' = [row EXCEPT ![n].who = "gone", ![n].chunks = <<>>, ![n].grant = 0]
    /\ view' \in {view, [view EXCEPT !.own = Without(@, n), !.shared = Without(@, n)]}
    /\ op' = Cut(n)
    /\ UNCHANGED <<keys, shown, modal, saved>>

----------------------------------------------------------------------------
(* Sharing *)

Blank == [NoModal EXCEPT !.verdict = modal.verdict]

OpenModal ==
    /\ ~modal.open /\ view.own # <<>> /\ Spend("share")
    /\ modal' = [Blank EXCEPT !.open = TRUE]
    /\ UNCHANGED <<row, keys, view, shown, op, saved>>
Sharing == \E o \in Op : op[o].kind = "share"

\* Picking a recipient asks for the verdict on their key; picking another, or
\* closing, cancels the answer to come but leaves the last verdict standing.
Pick(r) ==
    /\ modal.open /\ r # modal.to
    /\ modal' = [modal EXCEPT !.to = r, !.pending = {r}]
    /\ UNCHANGED <<row, keys, view, shown, op, deeds, saved>>

Verdict(r) ==
    /\ r \in modal.pending
    /\ modal' = [modal EXCEPT !.pending = @ \ {r}, !.verdict = r]
    /\ UNCHANGED <<row, keys, view, shown, op, deeds, saved>>

CloseModal ==
    /\ modal.open /\ modal' = Blank
    /\ UNCHANGED <<row, keys, view, shown, op, deeds, saved>>

StartShare(o) ==
    /\ Free(o) /\ modal.to # NoOne /\ modal.verdict \notin Unsafe /\ ~Sharing
    /\ \E i \in DOMAIN view.own :
          op' = [op EXCEPT ![o] = [Idle EXCEPT !.kind = "share", !.stage = "key", !.id = view.own[i].id,
                                               !.start = {view.own[i].wrap}]]
    /\ UNCHANGED <<row, keys, view, shown, modal, deeds, saved>>

\* shareSecret: the file key comes from the listed wrap, which may be old.
Share(o) ==
    LET n == op[o].id
    IN /\ op[o].stage = "key" /\ op[o].kind = "share"
       /\ op' = [op EXCEPT ![o] = Idle]
       /\ IF Opens(WrapOf(o)) /\ n \in Live
          THEN row' = [row EXCEPT ![n].grant = WrapOf(o).of] /\ modal' = Blank
          ELSE modal' = Blank /\ UNCHANGED row
       /\ UNCHANGED <<keys, view, shown, deeds, saved>>

----------------------------------------------------------------------------
(* Moving to a new encryption key: rotateEncryptionKey, rewrapStaleKeys *)

Rotate(o) ==
    /\ Free(o) /\ keys.cur < MaxKey /\ Spend("rotate")
    /\ keys' = [cur |-> keys.cur + 1, held |-> keys.held \cup {keys.cur + 1}]
    /\ op' = [op EXCEPT ![o] = [Idle EXCEPT !.kind = "rewrap", !.stage = "stale", !.key = keys.cur + 1,
                                            !.start = {n \in Live : Opens(row[n].wrap)}]]
    /\ UNCHANGED <<row, view, shown, modal, saved>>

\* A retired key is destroyed: what was sealed to it is lost.
Destroy(k) ==
    /\ k \in keys.held \ {keys.cur} /\ Spend("destroy")
    /\ keys' = [keys EXCEPT !.held = @ \ {k}]
    /\ op' = [o \in Op |-> [op[o] EXCEPT !.cut = @ \/ op[o].kind = "rewrap"]]
    /\ UNCHANGED <<row, view, shown, modal, saved>>

\* The stale rows past those already found unreadable.
FetchStale(o) ==
    /\ op[o].stage = "stale"
    /\ LET page == StalePage(op[o].at)
       IN op' = [op EXCEPT ![o] = IF page = <<>> THEN Finished ELSE [op[o] EXCEPT !.stage = "open", !.got = page]]
    /\ UNCHANGED <<row, keys, view, shown, modal, deeds, saved>>

\* Each wrap format is opened in a batch of its own, answered in order; an
\* answer finds its row through its place in the batch.
Batched(page, has) == {i \in DOMAIN page : page[i].wrap.has = has}
Place(page, i) == Cardinality({j \in Batched(page, page[i].wrap.has) : j <= i})
Answer(wrap) == IF Opens(wrap) THEN wrap.of ELSE 0
Batch(page, has) ==
    [p \in 1..Cardinality(Batched(page, has)) |->
        Answer(page[CHOOSE i \in Batched(page, has) : Place(page, i) = p].wrap)]
MutOpened(page, i) == (Batch(page, "content") \o Batch(page, "encKey"))[i]
Opened(page, i) == Batch(page, page[i].wrap.has)[Place(page, i)]

Readable(page) == {i \in DOMAIN page : Opened(page, i) # 0}
Resealed(page, k) ==
    [p \in 1..Cardinality(Readable(page)) |->
        LET i == InOrder(Readable(page))[p] IN [id |-> page[i].id, wrap |-> Seal(k, Opened(page, i), page[i].wrap.has)]]

\* Unreadable rows are counted and stepped past; a short page of nothing else
\* is the last one.
MutOpenPage(o) ==
    LET page == op[o].got
        readable == Readable(page)
    IN /\ op[o].stage = "open"
       /\ op' = [op EXCEPT ![o] =
                    IF readable = {} /\ LastPage(page) THEN Finished
                    ELSE [op[o] EXCEPT !.stage = IF readable = {} THEN "stale" ELSE "put",
                                       !.got = Resealed(page, op[o].key)]]
       /\ UNCHANGED <<row, keys, view, shown, modal, deeds, saved>>
MutOpenPage2(o) ==
    LET page == op[o].got
        readable == Readable(page)
    IN /\ op[o].stage = "open"
       /\ op' = [op EXCEPT ![o] =
                    IF readable = {} THEN Finished
                    ELSE [op[o] EXCEPT !.stage = "put", !.got = Resealed(page, op[o].key),
                                       !.at = @ + Cardinality(DOMAIN page \ readable)]]
       /\ UNCHANGED <<row, keys, view, shown, modal, deeds, saved>>
OpenPage(o) ==
    LET page == op[o].got
        readable == Readable(page)
    IN /\ op[o].stage = "open"
       /\ op' = [op EXCEPT ![o] =
                    IF readable = {} /\ LastPage(page) THEN Finished
                    ELSE [op[o] EXCEPT !.stage = IF readable = {} THEN "stale" ELSE "put",
                                       !.got = Resealed(page, op[o].key),
                                       !.at = @ + Cardinality(DOMAIN page \ readable)]]
       /\ UNCHANGED <<row, keys, view, shown, modal, deeds, saved>>

\* All or nothing: every row still the account's, every wrap to the key served.
Rewraps(o) ==
    [n \in Id |-> IF n \in IdsOf(op[o].got)
                  THEN [row[n] EXCEPT !.wrap = op[o].got[CHOOSE i \in DOMAIN op[o].got : op[o].got[i].id = n].wrap]
                  ELSE row[n]]
Takes(o) == IdsOf(op[o].got) \subseteq Live /\ op[o].key = keys.cur

PutWraps(o) ==
    /\ op[o].stage = "put"
    /\ IF Takes(o) THEN row' = Rewraps(o) /\ op' = [op EXCEPT ![o].stage = "stale", ![o].got = <<>>]
       ELSE op' = [op EXCEPT ![o] = Idle] /\ UNCHANGED row
    /\ UNCHANGED <<keys, view, shown, modal, deeds, saved>>

\* A request lost, or an approval refused, ends the loop for good.
LoopFails(o) ==
    /\ op[o].kind = "rewrap" /\ Spend("fail")
    /\ row' \in {row} \cup {Rewraps(o) : i \in IF op[o].stage = "put" /\ Takes(o) THEN {o} ELSE {}}
    /\ op' = [op EXCEPT ![o] = Idle]
    /\ UNCHANGED <<keys, view, shown, modal, saved>>

----------------------------------------------------------------------------
(* Other people and other devices *)

\* A sharer seals to the key they last saw served, in either wrap format.
Arrive(who) ==
    /\ Unused # {} /\ Spend("arrive")
    /\ \E k \in IF who = "own" THEN {keys.cur} ELSE {1, keys.cur},
          has \in IF who = "shared" THEN {"content", "encKey"} ELSE {"content"} :
          row' = [row EXCEPT ![Next1] = [Row(who, k, Next1, <<>>) EXCEPT !.wrap.has = has]]
    /\ view' = [view EXCEPT !.news = @ \/ who = "shared"]
    /\ UNCHANGED <<keys, shown, modal, op, saved>>

\* Sharing again replaces the wrap in place.
Reshare(n) ==
    /\ n \in Live /\ row[n].who = "shared" /\ Spend("arrive")
    /\ row' = [row EXCEPT ![n].wrap = Seal(keys.cur, n, "content")]
    /\ op' = [o \in Op |-> [op[o] EXCEPT !.cut = @ \/ Skews(o, n)]]
    /\ UNCHANGED <<keys, view, shown, modal, saved>>

----------------------------------------------------------------------------
Loop(o) == FetchStale(o) \/ OpenPage(o) \/ PutWraps(o)

Next ==
    \/ \E o \in Op :
          FetchPage(o) \/ ShowList(o) \/ WalkFails(o) \/ Reload(o) \/ Refresh(o)
          \/ StartOpen(o) \/ OpenKey(o) \/ OpenContent(o) \/ Download(o)
          \/ StartCreate(o) \/ PostCreate(o) \/ Upload(o) \/ CreateFails(o)
          \/ StartShare(o) \/ Share(o) \/ Rotate(o) \/ Loop(o) \/ LoopFails(o)
    \/ \E n \in Id : Lock(n) \/ TakeAway(n) \/ Reshare(n)
    \/ \E r \in Recipient : Pick(r) \/ Verdict(r)
    \/ OpenModal \/ CloseModal
    \/ \E k \in keys.held : Destroy(k)
    \/ \E who \in {"own", "shared", "signer"} : Arrive(who)

Spec == Init /\ [][Next]_vars

\* Requests are answered or fail, and the owner answers the approvals they are
\* asked for: the loop keeps going.
FairSpec == Spec /\ \A o \in Op : WF_vars(Loop(o))

----------------------------------------------------------------------------
(* Properties *)

Stages == {"none", "done", "page", "titles", "key", "content", "download", "post", "upload", "stale", "open", "put"}
Kinds == {"idle", "own", "shared", "open", "create", "share", "rewrap"}

\* The state has its shape: lists of snapshots, one verdict pending at most,
\* operations at one of the stages of their kind.
TypeOK ==
    /\ keys.cur \in Kid /\ keys.held \subseteq Kid /\ keys.cur \in keys.held
    /\ \A n \in Id : row[n].who \in {"none", "own", "shared", "signer", "gone"} /\ row[n].wrap.kid \in Kid
    /\ IdsOf(view.own) \cup IdsOf(view.shared) \subseteq Id /\ view.news \in BOOLEAN
    /\ \A n \in Id : shown[n].as \in {"hidden", "text", "descriptor", "files"}
    /\ modal.to \in Recipient \cup {NoOne} /\ modal.pending \subseteq Recipient
    /\ \A o \in Op : op[o].stage \in Stages /\ op[o].kind \in Kinds /\ op[o].at \in Nat
    /\ deeds \in 0..MaxDeeds /\ saved \subseteq Id

\* A finished walk lists every row that was there when it began and still is,
\* whatever was added between its pages; only a removal may make it skip one
\* (fetchAllPages: "a caller that reads only the first response would silently
\* hide a user's own secrets").
NothingHidden ==
    \A o \in Op : op[o].stage = "titles" /\ ~op[o].cut => op[o].start \cap Live \subseteq IdsOf(op[o].got)

\* What a creation reported saved is whole on the server: each file comes back
\* from the range its descriptor gives, until it is removed (useSecrets
\* createSecret after uploadChunkedFile, uploadMultipleChunkedFiles).
SavedWhole ==
    \A n \in saved \cap Live : \A f \in DOMAIN row[n].shape :
        Downloads(n, f) /\ Downloaded(n, f) = FilesOf(row[n].shape)[f]

\* Files on screen are this row's own, complete, each chunk in its place
\* (fileChunks.js: a wrong chunk must not silently corrupt the file).
ShownWhole == \A n \in Id : shown[n].as = "files" => shown[n].files = FilesOf(row[n].shape)

\* Every wrap, moved to a new key or given to a recipient, still contains the
\* file key of its own row (rewrapStaleKeys' two batches, shareSecret).
SealedRight == \A n \in Live : row[n].wrap.of = n /\ row[n].grant \in {0, n}

\* Once no verdict is awaited, the one the dialog goes by is that of the
\* recipient picked (ShareModal's cancelled flag).
VerdictOfPicked == modal.to # NoOne /\ modal.pending = {} => modal.verdict = modal.to

\* A loop that ends by itself leaves nothing behind: every row this browser
\* could open when it began, and still could, is on the key it moved to, as
\* long as that is the one served (rewrapStaleKeys steps past the unreadable).
RewrapComplete ==
    [][\A o \in Op :
        op[o].kind = "rewrap" /\ op'[o] = Finished /\ ~op[o].cut /\ op[o].key = keys.cur =>
            \A n \in op[o].start \cap Live : Opens(row[n].wrap) => row[n].wrap.kid = keys.cur]_vars

\* The loop ends: unreadable rows are not handed to it forever, and what
\* arrives meanwhile does not keep it going (key_rotation.stale_wraps).
RewrapEnds == \A o \in Op : (op[o].kind = "rewrap") ~> (op[o].kind # "rewrap")

\* A file is shown as its files, or not at all (downloadChunkedFile:
\* "Deliberately uncaught: a wrong chunk must fail the download").  The code does
\* not guarantee it (see the README).
FilesNotDescriptor ==
    \A n \in Id : row[n].shape # <<>> => shown[n].as # "descriptor"

\* What holds of files, and what holds of the keys they are sealed to.
ChunksInv == SavedWhole /\ ShownWhole
SecretsInv == TypeOK /\ SealedRight /\ VerdictOfPicked
=============================================================================
