------------------------------ MODULE Extension ------------------------------
(***************************************************************************)
(* The TrustKeys service worker beyond its approval queue (modelled in     *)
(* Approvals): the vault it holds in memory and stores encrypted, the      *)
(* session that survives a stopped worker, the identities and their key    *)
(* rotations, and the sites a vault trusts against the permissions and     *)
(* scripts Chrome holds for them (trustkeys/src/background: session.js,    *)
(* utils.js, handlers/auth.js, accounts.js, rotation.js, connection.js,    *)
(* and the popup that drives them, components/Dashboard.jsx).              *)
(*                                                                         *)
(* A handler changes the vault in memory and asks for a save in one        *)
(* synchronous run; the save stores the vault as it was then.  Saves, and  *)
(* the changes to the scripts that follow them, are not ordered by the     *)
(* code: SaveFree keeps one in flight, as a person's clicks do, since they *)
(* take milliseconds.                                                      *)
(***************************************************************************)
EXTENDS Naturals, Sequences, FiniteSets, SequencesExt

CONSTANTS
    Id, NoId,    \* identities; none
    Site,        \* production origins (https)
    NoSite,      \* none
    Op,          \* handlers in progress at once
    MaxKey,      \* bound: encryption keys ever generated
    MaxRetired,  \* MAX_RETIRED_ENCRYPTION_KEYS
    MaxDeeds,    \* bound: things users, pages and Chrome start
    Offered      \* which of them

ASSUME ExtensionConstants ==
    /\ Id # {} /\ NoId \notin Id /\ NoSite \notin Site
    /\ MaxKey \in Nat \ {0} /\ MaxRetired \in Nat \ {0} /\ MaxDeeds \in Nat

VARIABLES
    disk,     \* vaultData in storage.local
    mem,      \* state.vault and whether the session is unlocked
    session,  \* storage.session holds the vault key
    idle,     \* no user activity for IDLE_TIMEOUT_MS
    undo,     \* state.pendingRotation
    grant,    \* tk_pending_site_grant, in storage.session
    host,     \* sites Chrome granted the extension access to
    scripts,  \* sites its content scripts are registered for
    popup,    \* the toolbar popup, and Chrome's permission dialog
    sync,     \* syncDynamicScripts in progress
    op,       \* each handler in progress
    server,   \* the key the server serves for each identity
    file,     \* accounts of a backup file
    lastKey, born, deeds,
    forgone,  \* history: the keys of each identity its owner destroyed or deleted
    unsure,   \* history: its keys whose publication is open, or was not undone
    stray     \* history: identities published by a vault that could not be saved

vars == <<disk, mem, session, idle, undo, grant, host, scripts, popup, sync, op,
          server, file, lastKey, born, deeds, forgone, unsure, stray>>
keys == <<server, file, lastKey, born, forgone, unsure, stray>>
chrome == <<grant, host, scripts, popup>>

Kid == 1..MaxKey
Held(a) == {a.cur} \cup ToSet(a.old)
HeldIn(v, i) == IF i \in DOMAIN v.acc THEN Held(v.acc[i]) ELSE {}

Empty == [acc |-> <<>>, active |-> NoId, trust |-> {}, auto |-> {}]
\* What lock() leaves in memory, and an unlocked vault.
Locked == [open |-> FALSE, key |-> FALSE, v |-> Empty]
Unlocked(v) == [open |-> TRUE, key |-> TRUE, v |-> v]

NoUndo == [site |-> NoSite, key |-> 0]
NoSync == [stage |-> "idle", todo |-> {}, changed |-> FALSE, boot |-> FALSE, snap |-> Empty]
Resting == [kind |-> "none", stage |-> "idle", id |-> NoId, key |-> 0, from |-> 0,
            site |-> NoSite, snap |-> Empty]

NewAccount(k) == [cur |-> k, old |-> <<>>]

\* A new extension, one beside a backup the web app made, or one in use: with a
\* published identity, at a trusted site or not.
Init ==
    /\ mem = Locked /\ session = FALSE /\ idle = FALSE
    /\ undo = NoUndo /\ grant = NoSite
    /\ popup = [at |-> "closed", dialog |-> FALSE, site |-> NoSite]
    /\ sync = NoSync
    /\ op = [o \in Op |-> Resting]
    /\ deeds = 0 /\ forgone = [i \in Id |-> {}] /\ unsure = forgone /\ stray = {}
    /\ \/ /\ disk = [made |-> FALSE, v |-> Empty] /\ host = {} /\ file = <<>>
          /\ born = {} /\ lastKey = 0 /\ server = [i \in Id |-> 0]
       \/ LET i == CHOOSE j \in Id : TRUE IN    \* identities are alike
            /\ born = {i} /\ lastKey = 1
            /\ server = [j \in Id |-> IF j = i THEN 1 ELSE 0]
            /\ \/ /\ disk = [made |-> FALSE, v |-> Empty] /\ host = {}
                  /\ file = [j \in {i} |-> NewAccount(1)]
               \/ /\ host \in SUBSET Site /\ file = <<>>
                  /\ disk = [made |-> TRUE, v |-> [acc |-> [j \in {i} |-> NewAccount(1)],
                                                   active |-> i, trust |-> host, auto |-> {}]]
    /\ scripts = host

----------------------------------------------------------------------------
(* Saving *)

SaveFree == sync.stage # "saving" /\ \A o \in Op : op[o].stage \notin {"saving", "after"}

\* saveVaultWithSessionKey, called right after the change: without the key of
\* the session it throws, and the change stays in memory.
Saving(o, r, v) ==
    /\ SaveFree
    /\ mem' = [mem EXCEPT !.v = v]
    /\ op' = [op EXCEPT ![o] = IF mem.key THEN [r EXCEPT !.stage = "saving", !.snap = v] ELSE Resting]

Quiet == sync.stage = "idle" /\ \A o \in Op : op[o].stage \in {"idle", "asked", "sent"}

\* Every message waits for the worker's start-up; a user's is activity.
Ready == ~sync.boot
Deed(kind) == kind \in Offered /\ deeds < MaxDeeds /\ deeds' = deeds + 1
ByUser(o, kind) == Deed(kind) /\ Ready /\ op[o] = Resting /\ mem.open /\ idle' = FALSE
ByPage(o, kind) == Deed(kind) /\ Ready /\ op[o] = Resting /\ mem.open /\ UNCHANGED idle
Did(kind) == [Resting EXCEPT !.kind = kind]

----------------------------------------------------------------------------
(* Setting up, unlocking, locking *)

\* setupPassword, then unlockWithSession: nothing else passes while it is locked.
Setup ==
    /\ ~disk.made /\ Ready
    /\ disk' = [made |-> TRUE, v |-> Empty]
    /\ mem' = Unlocked(Empty) /\ session' = TRUE /\ idle' = FALSE
    /\ UNCHANGED <<undo, chrome, sync, op, keys, deeds>>

Reconcile(v, boot) ==
    [NoSync EXCEPT !.stage = "check", !.todo = v.trust, !.boot = boot]

Unlock ==
    /\ disk.made /\ ~mem.open /\ sync.stage = "idle" /\ Ready
    /\ SaveFree                             \* deriving the key outlasts any write
    /\ mem' = Unlocked(disk.v) /\ session' = TRUE /\ idle' = FALSE
    /\ sync' = Reconcile(disk.v, FALSE)
    /\ UNCHANGED <<disk, undo, chrome, op, keys, deeds>>

\* lockWithSession; saves on their way carry their own copy.
LockNow == mem' = Locked /\ undo' = NoUndo /\ session' = FALSE

Lock ==
    /\ mem.open /\ Ready /\ LockNow /\ idle' = FALSE
    /\ UNCHANGED <<disk, chrome, sync, op, keys, deeds>>

\* The alarm locks what nobody used for an hour, or what left no session at all.
IdleAlarm ==
    /\ mem.open /\ (idle \/ ~session)
    /\ LockNow
    /\ UNCHANGED <<disk, idle, chrome, sync, op, keys, deeds>>

HourPasses ==
    /\ mem.open /\ idle' = TRUE
    /\ UNCHANGED <<disk, mem, session, undo, chrome, sync, op, keys, deeds>>

(***************************************************************************)
(* Chrome stops an idle worker and the next event starts it again: memory  *)
(* is gone, questions are lost, the session restores the vault unless it   *)
(* expired.  A handler at work, or an event, keeps the worker alive.       *)
(***************************************************************************)
StopWorker ==
    /\ disk.made /\ sync.stage = "idle"
    /\ \A o \in Op : op[o].stage \in {"idle", "asked", "sent"}
    /\ op' = [o \in Op |-> IF op[o].stage = "asked" THEN Resting ELSE op[o]]
    /\ undo' = NoUndo
    /\ session' = (session /\ ~idle)
    /\ IF session /\ ~idle
       THEN mem' = Unlocked(disk.v) /\ sync' = Reconcile(disk.v, TRUE)
       ELSE mem' = Locked /\ UNCHANGED sync
    /\ UNCHANGED <<disk, idle, chrome, keys, deeds>>

\* The browser exits or crashes: what landed on disk stays, and what Chrome holds.
BrowserExit ==
    /\ Deed("exit")
    /\ mem' = Locked /\ session' = FALSE /\ idle' = FALSE /\ undo' = NoUndo /\ grant' = NoSite
    /\ popup' = [at |-> "closed", dialog |-> FALSE, site |-> NoSite]
    /\ sync' = NoSync /\ op' = [o \in Op |-> Resting]
    /\ UNCHANGED <<disk, host, scripts, keys>>

----------------------------------------------------------------------------
(* Accounts *)

Active(v) == v.active \in DOMAIN v.acc

Create(o) ==
    /\ ByUser(o, "create") /\ lastKey < MaxKey
    /\ \E i \in Id \ born :
        /\ Saving(o, Did("create"),
                  [mem.v EXCEPT !.acc = [j \in DOMAIN mem.v.acc \cup {i} |->
                                            IF j = i THEN NewAccount(lastKey + 1)
                                            ELSE mem.v.acc[j]],
                                !.active = IF @ = NoId THEN i ELSE @])
        /\ born' = born \cup {i}
    /\ lastKey' = lastKey + 1
    /\ UNCHANGED <<disk, session, undo, chrome, sync, server, file, forgone, unsure, stray>>

\* The popup sends an id of the list it shows; nothing checks it is still there.
Select(o) ==
    /\ ByUser(o, "select")
    /\ \E i \in born : Saving(o, Did("select"), [mem.v EXCEPT !.active = i])
    /\ UNCHANGED <<disk, session, undo, chrome, sync, keys>>

Delete(o) ==
    /\ ByUser(o, "delete")
    /\ \E i \in DOMAIN mem.v.acc :
        LET left == DOMAIN mem.v.acc \ {i} IN
        /\ \E a \in IF mem.v.active # i THEN {mem.v.active} ELSE IF left = {} THEN {NoId} ELSE left :
             Saving(o, Did("delete"),
                    [mem.v EXCEPT !.acc = [j \in left |-> mem.v.acc[j]], !.active = a])
        /\ forgone' = [forgone EXCEPT ![i] = @ \cup Held(mem.v.acc[i])]
    /\ UNCHANGED <<disk, session, undo, chrome, sync, server, file, lastKey, born, unsure, stray>>

Export ==
    /\ Deed("export") /\ Ready /\ mem.open /\ DOMAIN mem.v.acc # {}
    /\ idle' = FALSE
    /\ \E i \in IF Active(mem.v) THEN {mem.v.active} ELSE DOMAIN mem.v.acc :
         file' = [j \in {i} |-> mem.v.acc[i]]
    /\ SaveFree
    /\ UNCHANGED <<disk, mem, session, undo, chrome, sync, op, server, lastKey, born, forgone, unsure, stray>>

\* The backup is opened under its passphrase, which takes a while.
ImportStart(o) ==
    /\ ByUser(o, "import") /\ file # <<>>
    /\ op' = [op EXCEPT ![o] = [Did("import") EXCEPT !.stage = "opening"]]
    /\ UNCHANGED <<disk, mem, session, undo, chrome, sync, keys>>

MutMerged(acc) == [j \in DOMAIN acc \cup DOMAIN file |-> IF j \in DOMAIN file THEN file[j] ELSE acc[j]]
\* What is here already is kept, whatever the backup holds of it.
Merged(acc) == [j \in DOMAIN acc \cup DOMAIN file |-> IF j \in DOMAIN acc THEN acc[j] ELSE file[j]]

\* Locked meanwhile, the imported accounts alone become an unlocked vault that
\* has no key to be saved with.
ImportMerge(o) ==
    /\ op[o].kind = "import" /\ op[o].stage = "opening"
    /\ \/ /\ mem.open
          /\ Saving(o, op[o], [mem.v EXCEPT !.acc = Merged(mem.v.acc)])
          /\ unsure' = [i \in Id |-> unsure[i] \cup
                            {file[j].cur : j \in {i} \cap (DOMAIN file \ DOMAIN mem.v.acc)}]
       \/ /\ ~mem.open
          /\ \E i \in DOMAIN file :
               mem' = [open |-> TRUE, key |-> FALSE, v |-> [Empty EXCEPT !.acc = file, !.active = i]]
          /\ op' = [op EXCEPT ![o] = Resting]
          /\ UNCHANGED unsure
    /\ UNCHANGED <<disk, session, idle, undo, chrome, sync, server, file, lastKey, born, deeds,
                   forgone, stray>>

\* The others stay in the order they were: the n-th of the places left.
Destroyed(old, k) ==
    LET stay == {i \in DOMAIN old : old[i] # k}
    IN  [n \in 1..Cardinality(stay) |->
            old[CHOOSE i \in stay : Cardinality({j \in stay : j <= i}) = n]]

Destroy(o) ==
    /\ ByUser(o, "destroy") /\ Active(mem.v)
    /\ LET a == mem.v.active IN
       \E k \in ToSet(mem.v.acc[a].old) :
         /\ Saving(o, Did("destroy"),
                   [mem.v EXCEPT !.acc[a].old = Destroyed(@, k)])
         /\ forgone' = [forgone EXCEPT ![a] = @ \cup {k}]
    /\ UNCHANGED <<disk, session, undo, chrome, sync, server, file, lastKey, born, unsure, stray>>

----------------------------------------------------------------------------
(* What a page asks the user for: to be connected, a login, a rotation.  The
   window, the queue and their races are in Approvals. *)

Ask(o) ==
    \E kind \in {"connect", "login", "rotate"}, s \in Site :
        /\ ByPage(o, kind)
        /\ IF kind = "connect" THEN s \notin mem.v.trust ELSE s \in mem.v.trust /\ Active(mem.v)
        /\ op' = [op EXCEPT ![o] = [Did(kind) EXCEPT !.stage = "asked", !.site = s, !.id = mem.v.active,
                          !.key = IF Active(mem.v) THEN mem.v.acc[mem.v.active].cur ELSE 0]]
        /\ UNCHANGED <<disk, mem, session, undo, chrome, sync, keys>>

\* Rejected, timed out, or the callback throws since the vault was locked.
Refuse(o) ==
    /\ op[o].stage = "asked"
    /\ op' = [op EXCEPT ![o] = Resting]
    /\ UNCHANGED <<disk, mem, session, idle, undo, chrome, sync, keys, deeds>>

Approvable(o, kind) ==
    /\ op[o].stage = "asked" /\ op[o].kind = kind /\ mem.open /\ Ready
    /\ idle' = FALSE

Connect(o) ==
    /\ Approvable(o, "connect")
    /\ Saving(o, op[o], [mem.v EXCEPT !.trust = @ \cup {op[o].site}])
    /\ UNCHANGED <<disk, session, undo, chrome, sync, keys, deeds>>

\* Keys a published one leaves behind.
Upto(i, k) == {x \in HeldIn(disk.v, i) : x <= k}

\* The body names the key asked with; the attestation, fetched once the login is
\* signed, the current one.  The server takes them only together, signed by the
\* identity the page named.  A rotation still on its way to the server stays
\* open: refused, since its key is the current one now, it would be undone.
Login(o) ==
    LET r == op[o] IN
    /\ Approvable(o, "login") /\ SaveFree
    /\ r.id = mem.v.active /\ Active(mem.v) /\ mem.v.acc[r.id].cur = r.key
    /\ server' = [server EXCEPT ![r.id] = r.key]
    /\ unsure' = [unsure EXCEPT ![r.id] =
                     @ \ (Upto(r.id, r.key) \ {op[x].key : x \in {y \in Op : op[y].stage = "sent"}})]
    /\ stray' = IF mem.key THEN stray ELSE stray \cup {r.id}
    /\ op' = [op EXCEPT ![o] = Resting]
    /\ UNCHANGED <<disk, mem, session, undo, chrome, sync, file, lastKey, born, deeds, forgone>>

Rotated(a, k) == [cur |-> k, old |-> <<a.cur>> \o a.old]

Rotate(o) ==
    LET r == op[o] IN
    /\ Approvable(o, "rotate") /\ lastKey < MaxKey
    /\ r.id = mem.v.active /\ Active(mem.v) /\ Len(mem.v.acc[r.id].old) < MaxRetired
    /\ Saving(o, [r EXCEPT !.key = lastKey + 1, !.from = mem.v.acc[r.id].cur],
              [mem.v EXCEPT !.acc[r.id] = Rotated(@, lastKey + 1)])
    /\ lastKey' = lastKey + 1
    /\ unsure' = [unsure EXCEPT ![r.id] = @ \cup {lastKey'}]
    /\ UNCHANGED <<disk, session, undo, chrome, sync, server, file, born, deeds, forgone, stray>>

\* The page publishes what it was handed; the answer may be lost.
Publish(o) ==
    LET r == op[o] IN
    /\ r.stage = "sent" /\ server[r.id] = r.from
    /\ server' = [server EXCEPT ![r.id] = r.key]
    /\ op' = [op EXCEPT ![o] = Resting]
    /\ \/ unsure' = [unsure EXCEPT ![r.id] = @ \ Upto(r.id, r.key)]
       \/ UNCHANGED unsure
    /\ UNCHANGED <<disk, mem, session, idle, undo, chrome, sync, file, lastKey, born, deeds, forgone, stray>>

Unanswered(o) ==
    /\ op[o].stage = "sent"
    /\ op' = [op EXCEPT ![o] = Resting]
    /\ UNCHANGED <<disk, mem, session, idle, undo, chrome, sync, keys, deeds>>

MutReverted(a) == [cur |-> Last(a.old), old |-> <<a.cur>> \o Front(a.old)]
Reverted(a) == [cur |-> Head(a.old), old |-> <<a.cur>> \o Tail(a.old)]

\* Refused by the server: the page asks to undo.  Only the rotation just made,
\* for its page, for a few minutes; used up even when another account is active.
Revert(o) ==
    LET r == op[o] IN
    /\ r.stage = "sent" /\ mem.open /\ Ready
    /\ undo = [site |-> r.site, key |-> r.key]
    /\ undo' = NoUndo
    /\ IF /\ Active(mem.v) /\ mem.v.active = r.id
          /\ mem.v.acc[r.id].cur = r.key /\ mem.v.acc[r.id].old # <<>>
       THEN Saving(o, [r EXCEPT !.kind = "revert"], [mem.v EXCEPT !.acc[r.id] = Reverted(@)])
       ELSE op' = [op EXCEPT ![o] = Resting] /\ UNCHANGED mem
    /\ UNCHANGED <<disk, session, idle, chrome, sync, keys, deeds>>

----------------------------------------------------------------------------
(* Sites *)

\* handleAddTrustedSite, past its first checks: Chrome is asked whether the
\* extension may be there.  Trusted already, there is nothing to do.
Adding(s) == [Did("add") EXCEPT !.stage = "opening", !.site = s]
StartAdd(o, s) == op' = [op EXCEPT ![o] = IF mem.open /\ s \notin mem.v.trust THEN Adding(s) ELSE Resting]

\* The settings screen asks Chrome itself, under the user's click.
AddSite(o) ==
    \E s \in Site :
        /\ ByUser(o, "add") /\ popup.at # "closed"
        /\ host' = host \cup {s}
        /\ op' = [op EXCEPT ![o] = Adding(s)]
        /\ UNCHANGED <<disk, mem, session, undo, grant, scripts, popup, sync, keys>>

AddCheck(o) ==
    LET s == op[o].site IN
    /\ op[o].kind = "add" /\ op[o].stage = "opening"
    /\ IF mem.open /\ s \in host
       THEN Saving(o, op[o], [mem.v EXCEPT !.trust = @ \cup {s}])
       ELSE op' = [op EXCEPT ![o] = Resting] /\ UNCHANGED mem
    /\ UNCHANGED <<disk, session, idle, undo, chrome, sync, keys, deeds>>

RemoveSite(o) ==
    \E s \in Site :
        /\ ByUser(o, "remove")
        /\ Saving(o, [Did("remove") EXCEPT !.site = s],
                  [mem.v EXCEPT !.trust = @ \ {s}, !.auto = @ \ {s}])
        /\ UNCHANGED <<disk, session, undo, chrome, sync, keys>>

SetAutoSign(o) ==
    \E s \in mem.v.trust :
        /\ ByUser(o, "autosign")
        /\ Saving(o, Did("autosign"), [mem.v EXCEPT !.auto = IF s \in @ THEN @ \ {s} ELSE @ \cup {s}])
        /\ UNCHANGED <<disk, session, undo, chrome, sync, keys>>

\* A save lands; the rotated key is handed over, scripts follow the trust.
Land(o) ==
    LET r == op[o] IN
    /\ r.stage = "saving"
    /\ disk' = [made |-> TRUE, v |-> r.snap]
    /\ op' = [op EXCEPT ![o] =
                 IF r.kind = "rotate" THEN [r EXCEPT !.stage = "sent", !.snap = Empty]
                 ELSE IF r.kind \in {"add", "remove"} THEN [r EXCEPT !.stage = "after", !.snap = Empty]
                 ELSE Resting]
    /\ undo' = IF r.kind = "rotate" THEN [site |-> r.site, key |-> r.key] ELSE undo
    /\ unsure' = IF r.kind = "revert" /\ r.key \notin forgone[r.id] \cup {server[r.id]}
                 THEN [unsure EXCEPT ![r.id] = @ \ {r.key}] ELSE unsure
    /\ UNCHANGED <<mem, session, idle, chrome, sync, server, file, lastKey, born, deeds, forgone, stray>>

Withdraw(s) == scripts' = scripts \ {s} /\ host' = host \ {s}

After(o) ==
    LET s == op[o].site IN
    /\ op[o].stage = "after"
    /\ IF op[o].kind = "add"
       THEN scripts' = scripts \cup ({s} \cap host) /\ UNCHANGED host
       ELSE Withdraw(s)
    /\ op' = [op EXCEPT ![o] = Resting]
    /\ UNCHANGED <<disk, mem, session, idle, undo, grant, popup, sync, keys, deeds>>

----------------------------------------------------------------------------
(* Authorizing the site of the current tab from the popup, which Chrome's own
   dialog closes *)

OpenPopup(s) ==
    /\ popup.at = "closed" /\ ~popup.dialog
    /\ popup' = [popup EXCEPT !.at = "open", !.site = s]
    /\ UNCHANGED <<disk, mem, session, idle, undo, grant, host, scripts, sync, op, keys, deeds>>

PopupCloses ==
    /\ popup.at # "closed"
    /\ popup' = [popup EXCEPT !.at = "closed"]
    /\ UNCHANGED <<disk, mem, session, idle, undo, grant, host, scripts, sync, op, keys, deeds>>

\* EXPECT_SITE_GRANT and Chrome's question in one tick; the announcement is taken
\* before a person can answer the dialog.
Authorize ==
    /\ Deed("authorize") /\ Ready /\ mem.open /\ popup.at = "open"
    /\ idle' = FALSE
    /\ grant' = popup.site
    /\ popup' = IF popup.site \in host THEN [popup EXCEPT !.at = "granted"]
                ELSE [popup EXCEPT !.at = "waiting", !.dialog = TRUE]
    /\ UNCHANGED <<disk, mem, session, undo, host, scripts, sync, op, keys>>

Event(s) == [Resting EXCEPT !.kind = "granted", !.stage = "event", !.site = s]

Granted(o) ==
    /\ popup.dialog /\ op[o] = Resting
    /\ host' = host \cup {popup.site}
    /\ op' = [op EXCEPT ![o] = Event(popup.site)]
    /\ popup' = [popup EXCEPT !.dialog = FALSE, !.at = IF @ = "waiting" THEN "granted" ELSE @]
    /\ UNCHANGED <<disk, mem, session, idle, undo, grant, scripts, sync, keys, deeds>>

Denied ==
    /\ popup.dialog
    /\ popup' = [popup EXCEPT !.dialog = FALSE, !.at = IF @ = "waiting" THEN "open" ELSE @]
    /\ UNCHANGED <<disk, mem, session, idle, undo, grant, host, scripts, sync, op, keys, deeds>>

\* The popup's own completion, if it is still there.
Finish(o) ==
    /\ popup.at = "granted" /\ op[o] = Resting /\ Ready
    /\ popup' = [popup EXCEPT !.at = "open"]
    /\ grant' = NoSite
    /\ StartAdd(o, popup.site)
    /\ idle' = FALSE
    /\ UNCHANGED <<disk, mem, session, undo, host, scripts, sync, keys, deeds>>

MutOnAdded(o) ==
    /\ op[o].stage = "event" /\ Ready /\ op' = [op EXCEPT ![o] = Resting]
    /\ UNCHANGED <<disk, mem, session, idle, undo, grant, host, scripts, popup, sync, keys, deeds>>
\* permissions.onAdded completes what the popup announced, and nothing else.
OnAdded(o) ==
    LET s == op[o].site IN
    /\ op[o].stage = "event" /\ Ready
    /\ IF grant = s
       THEN grant' = NoSite /\ StartAdd(o, s)
       ELSE op' = [op EXCEPT ![o] = Resting] /\ UNCHANGED grant
    /\ UNCHANGED <<disk, mem, session, idle, undo, host, scripts, popup, sync, keys, deeds>>

\* PENDING_GRANT_TTL_MS; an event is handled long before that.
GrantExpires ==
    /\ grant # NoSite /\ \A o \in Op : op[o].stage # "event"
    /\ grant' = NoSite
    /\ UNCHANGED <<disk, mem, session, idle, undo, host, scripts, popup, sync, op, keys, deeds>>

\* The user changes the extension's site access in Chrome's own pages.
SiteAccess(o) ==
    \E s \in Site :
        /\ Deed("access") /\ op[o] = Resting /\ Quiet    \* a visit there outlasts any handler
        /\ IF s \in host
           THEN host' = host \ {s} /\ UNCHANGED op
           ELSE host' = host \cup {s} /\ op' = [op EXCEPT ![o] = Event(s)]
        /\ UNCHANGED <<disk, mem, session, idle, undo, grant, scripts, popup, sync, keys>>

----------------------------------------------------------------------------
(* syncDynamicScripts, after an unlock and at every start of the worker *)

\* A vault locked meanwhile ends it with an exception.
SyncEnds == sync' = NoSync

\* Registers what is missing and clears what is stale, by the trust it finds; no
\* person is fast enough to change the trust during that.
SyncRegister ==
    /\ SyncEnds
    /\ scripts' = (scripts \cup host) \cap mem.v.trust

SyncCheck ==
    /\ sync.stage = "check"
    /\ \/ ~mem.open /\ SyncEnds /\ UNCHANGED <<mem, scripts>>
       \/ /\ mem.open
          /\ \E s \in sync.todo :
               LET gone == s \in mem.v.trust /\ s \notin host IN
               /\ sync' = [sync EXCEPT !.todo = @ \ {s}, !.changed = @ \/ gone]
               /\ mem' = IF gone THEN [mem EXCEPT !.v.trust = @ \ {s}, !.v.auto = @ \ {s}] ELSE mem
          /\ UNCHANGED scripts
       \/ /\ mem.open /\ sync.todo = {} /\ SaveFree /\ UNCHANGED mem
          /\ IF ~sync.changed THEN SyncRegister
             ELSE /\ UNCHANGED scripts
                  /\ IF mem.key THEN sync' = [sync EXCEPT !.stage = "saving", !.snap = mem.v]
                     ELSE SyncEnds
    /\ UNCHANGED <<disk, session, idle, undo, grant, host, popup, op, keys, deeds>>

SyncLand ==
    /\ sync.stage = "saving"
    /\ disk' = [disk EXCEPT !.v = sync.snap]
    /\ IF mem.open THEN SyncRegister ELSE SyncEnds /\ UNCHANGED scripts
    /\ UNCHANGED <<mem, session, idle, undo, grant, host, popup, op, keys, deeds>>

Next ==
    \/ Setup \/ Unlock \/ Lock \/ IdleAlarm \/ HourPasses \/ StopWorker \/ BrowserExit
    \/ Export \/ PopupCloses \/ Authorize \/ Denied \/ GrantExpires
    \/ SyncCheck \/ SyncLand
    \/ \E s \in Site : OpenPopup(s)
    \/ \E o \in Op : \/ Create(o) \/ Select(o) \/ Delete(o) \/ ImportStart(o) \/ ImportMerge(o)
                     \/ Destroy(o) \/ Ask(o) \/ Refuse(o) \/ Connect(o) \/ Login(o) \/ Rotate(o)
                     \/ Publish(o) \/ Unanswered(o) \/ Revert(o) \/ AddSite(o) \/ AddCheck(o)
                     \/ RemoveSite(o) \/ SetAutoSign(o) \/ Land(o) \/ After(o) \/ Granted(o)
                     \/ Finish(o) \/ OnAdded(o) \/ SiteAccess(o)

\* The worker's own steps, once a handler started, and Chrome's alarm.
Fairness ==
    /\ WF_vars(IdleAlarm) /\ WF_vars(SyncCheck) /\ WF_vars(SyncLand)
    /\ \A o \in Op : WF_vars(OnAdded(o)) /\ WF_vars(AddCheck(o)) /\ WF_vars(Land(o)) /\ WF_vars(After(o))
                     /\ WF_vars(ImportMerge(o))

Spec == Init /\ [][Next]_vars /\ Fairness

----------------------------------------------------------------------------
(* Properties *)

VaultTyped(v) ==
    /\ DOMAIN v.acc \subseteq Id /\ \A i \in DOMAIN v.acc : v.acc[i] \in [cur : Kid, old : Seq(Kid)]
    /\ v.active \in Id \cup {NoId} /\ v.trust \cup v.auto \subseteq Site

\* Every variable has its type; a silent signature is granted to trusted sites
\* only, and a locked worker holds no vault and leaves no session to resume.
TypeOK ==
    /\ VaultTyped(disk.v) /\ VaultTyped(mem.v)
    /\ mem.v.auto \subseteq mem.v.trust /\ disk.v.auto \subseteq disk.v.trust
    /\ ~mem.open => mem = Locked /\ ~session
    /\ mem.key => mem.open /\ session
    /\ grant \in Site \cup {NoSite} /\ host \cup scripts \subseteq Site
    /\ server \in [Id -> 0..MaxKey] /\ lastKey \in 0..MaxKey /\ deeds \in 0..MaxDeeds

\* The server never serves a key this vault could lose (rotation.js): whatever is
\* stopped, lost, locked or switched on the way, the published key is on disk
\* unless its owner gave it up.
PublishedHeld ==
    \A i \in DOMAIN disk.v.acc \ stray :
        server[i] # 0 => server[i] \in Held(disk.v.acc[i]) \cup forgone[i]

\* A rotation the server refused is undone: unless a publication is still open,
\* the current key is the one the server serves.
RefusedUndone ==
    \A i \in DOMAIN disk.v.acc \ stray :
        server[i] # 0 /\ server[i] \notin forgone[i]
        /\ (Held(disk.v.acc[i]) \cup forgone[i]) \cap unsure[i] = {}
            => disk.v.acc[i].cur = server[i]

\* A stored key leaves the disk only when its owner destroys it or deletes its
\* account; no import, rotation, undo, restart or late save drops one.
KeysKept == [][\A i \in Id : HeldIn(disk.v, i) \ HeldIn(disk'.v, i) \subseteq forgone'[i]]_vars

\* Once nothing is in progress, no site gets the extension's page API without
\* being trusted (connection.js reconciles them in both directions).
InjectedIsTrusted == mem.open /\ mem.key /\ Quiet => scripts \cap host \subseteq mem.v.trust

\* Authorizing is completed when Chrome reports the grant, whether the popup
\* survived its dialog or not (connection.js, "found in production").
GrantCompletes ==
    \A s \in Site :
        ((\E o \in Op : op[o] = Event(s)) /\ grant = s /\ mem.key)
            ~> (s \in disk.v.trust \/ ~mem.key \/ s \notin host)

\* Nobody using it for an hour locks the vault, however pages behave and whether
\* or not the worker is restarted.
IdleLocks == (mem.open /\ idle) ~> (~mem.open \/ ~idle)

\* What holds of the worker and its disk at every step.
WorkerInv == TypeOK /\ PublishedHeld /\ RefusedUndone /\ InjectedIsTrusted

\* What is begun is completed: the grant, and the lock.
Responsive == GrantCompletes /\ IdleLocks
=============================================================================
