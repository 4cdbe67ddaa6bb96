------------------------------- MODULE Vault -------------------------------
(***************************************************************************)
(* One device's key vault: the encrypted blob in localStorage, the tabs    *)
(* that unlock it (services/vault.js, vaultBackup.js, vaultBiometrics.js,  *)
(* vaultRotation.js), the password prompt the tab's operations share       *)
(* (context/PQCContext.jsx), and the server as far as it knows identities  *)
(* by their encryption key (modelled in full in Identity).                 *)
(*                                                                         *)
(* Every change to the vault is a read of the whole blob, a change of the  *)
(* copy and a write of the whole blob, with awaits between; nothing locks  *)
(* it, within a tab or across tabs.  MaxWriters bounds how many operations *)
(* may stand between their read and their write, and how many rotations    *)
(* may be under way: the page's busy flag keeps those to one in a tab.     *)
(***************************************************************************)
EXTENDS Naturals, Sequences, FiniteSets, SequencesExt

CONSTANTS
    Id,          \* the identities (addresses) a vault may come to hold
    ExtId,       \* the identity the browser extension holds
    NoId,        \* no identity
    Tab,         \* tabs of one browser profile: they share localStorage
    Op,          \* operations in progress at once
    MaxKey,      \* bound: encryption keys ever generated
    MaxRetired,  \* MAX_RETIRED_ENCRYPTION_KEYS: retired keys an account keeps
    MaxWriters,  \* bound: operations between their read and their write
    MaxDeeds,    \* bound: operations started
    Offered      \* the operations users start

ASSUME VaultConstants ==
    /\ IsFiniteSet(Id) /\ IsFiniteSet(Tab) /\ IsFiniteSet(Op)
    /\ ExtId \notin Id /\ NoId \notin Id \cup {ExtId}
    /\ MaxKey \in Nat \ {0} /\ MaxRetired \in Nat \ {0}
    /\ MaxWriters \in Nat \ {0} /\ MaxDeeds \in Nat

VARIABLES
    blob,     \* the stored vault: accounts, active account, and what seals it
    file,     \* the last backup exported (its accounts), also what a transfer carries
    bio,      \* the password a biometric registration wraps: "none", "right" or "wrong"
    tab,      \* each tab: its view of the vault, caches, prompt and session
    op,       \* each operation in progress
    server,   \* the key the server serves for each identity, the identities it erased
    lastKey,  \* encryption keys generated so far
    born,     \* identities generated so far
    deeds,    \* operations started
    forgone,  \* history: the keys of each identity its owner destroyed, deleted or overwrote
    unsure    \* history: its keys whose publication is open, or that a backup brought,
              \* since a publication was last confirmed

vars == <<blob, file, bio, tab, op, server, lastKey, born, deeds, forgone, unsure>>

Kid == 1..MaxKey

\* An account: its current encryption key and the retired ones, newest first.
Held(a) == {a.cur} \cup ToSet(a.old)
HeldIn(acc, i) == IF i \in DOMAIN acc THEN Held(acc[i]) ELSE {}

\* A vault always holds an account, so none stored is no accounts.
NoSeal == [salt |-> 0, typo |-> FALSE]
NoAccounts == [i \in {} |-> [cur |-> 0, old |-> <<>>]]
NoVault == [acc |-> NoAccounts, active |-> NoId, seal |-> NoSeal]
HasVault == DOMAIN blob.acc # {}
NoDrop == [i \in Id |-> {}]

\* What this tab shows of the vault, without keys; locked shows nothing.
Locked == [ids |-> {}, active |-> NoId]
View(v) == [ids |-> DOMAIN v.acc, active |-> v.active]

NewTab == [mem |-> Locked, cached |-> NoSeal, ttl |-> FALSE, prompt |-> "none", waiters |-> {},
           who |-> NoId, session |-> NoId, ext |-> FALSE, sees |-> FALSE, blocked |-> FALSE]

Idle == [stage |-> "idle", tab |-> NoId, kind |-> "none", id |-> NoId, key |-> 0, pw |-> "null",
         me |-> NoId, token |-> NoId, from |-> 0, full |-> NoVault, drop |-> NoDrop, forget |-> FALSE]

Writers == {"add", "switch", "delete", "forget", "rotate", "revert", "destroy", "import"}
\* The operations that prompt even when a derived key is cached.
Forced == {"rotate", "destroy", "erase", "leave", "enable"}
\* The stages at which an operation acts on what it read of the vault.
Holding == {"write", "login"}

\* A clean device, or one that was handed a backup of an identity registered
\* elsewhere; a browser with or without the extension, caching keys or not.
Init ==
    /\ blob = NoVault /\ bio = "none"
    /\ \E b, e \in BOOLEAN : tab = [t \in Tab |-> [NewTab EXCEPT !.ttl = b, !.ext = e]]
    /\ op = [o \in Op |-> Idle]
    /\ \/ /\ file = NoAccounts /\ born = {} /\ lastKey = 0
          /\ server = [key |-> [i \in Id |-> 0], gone |-> {}]
       \/ \E i \in Id :
          /\ file = [j \in {i} |-> [cur |-> 1, old |-> <<>>]] /\ born = {i} /\ lastKey = 1
          /\ server = [key |-> [j \in Id |-> IF j = i THEN 1 ELSE 0], gone |-> {}]
    /\ deeds = 0
    /\ forgone = NoDrop /\ unsure = NoDrop

----------------------------------------------------------------------------
(* Opening and sealing *)

\* A seal is the key a password and a salt derive.  The tab's cached one opens
\* the blob it was derived for; a typed password opens what it sealed.
\* A tab whose view is locked reads nothing.
Verified(t, pw) == pw = "right" /\ ~blob.seal.typo
Reads(t) == HasVault /\ tab[t].mem # Locked
Opens(t, pw) == Reads(t) /\ (tab[t].cached = blob.seal \/ Verified(t, pw))

\* What reading leaves cached: a key that no longer opens the blob is dropped.
CachedByRead(t, pw) ==
    IF ~Reads(t) \/ tab[t].cached = blob.seal THEN tab[t].cached
    ELSE IF Verified(t, pw) /\ tab[t].ttl THEN blob.seal ELSE NoSeal

\* Each save under a password draws a new salt; any unused one will do.
FreshSalt ==
    CHOOSE s \in 1..(Cardinality(Tab) + 2) :
        s \notin {blob.seal.salt} \cup {tab[t].cached.salt : t \in Tab}

\* A save seals with the cached key, or else with whatever password it was given.
CanSave(t, pw) == tab[t].cached # NoSeal \/ pw # "null"
SealOf(t, pw) ==
    IF tab[t].cached # NoSeal THEN tab[t].cached
    ELSE [salt |-> FreshSalt, typo |-> pw = "wrong"]
CachedBySave(t, pw) == IF tab[t].ttl THEN SealOf(t, pw) ELSE tab[t].cached

Sealed(t, pw, v) == [acc |-> v.acc, active |-> v.active, seal |-> SealOf(t, pw)]

----------------------------------------------------------------------------
(* The changes, on the whole decrypted vault: the vaults each may leave, none
   when it is refused. *)

Added(v, id, k) ==
    {[v EXCEPT !.acc = [i \in DOMAIN v.acc \cup {id} |->
                            IF i = id THEN [cur |-> k, old |-> <<>>] ELSE v.acc[i]]]}

Switched(v, id) == {[v EXCEPT !.active = id] : i \in DOMAIN v.acc \cap {id}}

Removed(v, id) ==
    LET left == DOMAIN v.acc \ {id}
    IN IF Cardinality(DOMAIN v.acc) <= 1 THEN {}
       ELSE {[v EXCEPT !.acc = [i \in left |-> v.acc[i]], !.active = a] :
                 a \in IF v.active = id THEN left ELSE {v.active}}

\* rotateAccountEncryptionKey: the old key is retired, and never dropped for room.
MutRotated(v, k) ==
    {[v EXCEPT !.acc[v.active] = [cur |-> k, old |-> <<v.acc[v.active].cur>>]]}
Rotated(v, k) ==
    LET a == v.acc[v.active]
    IN IF Len(a.old) >= MaxRetired THEN {}
       ELSE {[v EXCEPT !.acc[v.active] = [cur |-> k, old |-> <<a.cur>> \o a.old]]}

\* revertAccountEncryptionKeyRotation: the undone key is retired, not dropped.
Reverted(v, k) ==
    LET a == v.acc[v.active]
    IN IF a.cur # k \/ a.old = <<>> THEN {}
       ELSE {[v EXCEPT !.acc[v.active] = [cur |-> Head(a.old), old |-> <<a.cur>> \o Tail(a.old)]]}

Destroyed(v, k) ==
    LET a == v.acc[v.active]
    IN {[v EXCEPT !.acc[v.active].old = RemoveFirst(a.old, k)] : x \in ToSet(a.old) \cap {k}}

\* importVault: an account already here is replaced by the backup's.
Merged(v) ==
    {[v EXCEPT !.acc = [i \in DOMAIN v.acc \cup DOMAIN file |->
                            IF i \in DOMAIN file THEN file[i] ELSE v.acc[i]]]}

Results(r, v) ==
    IF r.kind = "add" THEN Added(v, r.id, r.key)
    ELSE IF r.kind = "switch" THEN Switched(v, r.id)
    ELSE IF r.kind \in {"delete", "forget"} THEN Removed(v, r.id)
    ELSE IF r.kind = "rotate" THEN Rotated(v, r.key)
    ELSE IF r.kind = "revert" THEN Reverted(v, r.key)
    ELSE IF r.kind = "destroy" THEN Destroyed(v, r.key)
    ELSE Merged(v)

----------------------------------------------------------------------------
(* Asking for the password: one prompt in flight per tab, shared. *)

\* requestPassword for operation o, whose record becomes r.
Joined(t, o) == tab[t].waiters \cup {o}
Asks(o, r, forced) ==
    LET t == r.tab
    IN IF ~forced /\ tab[t].cached # NoSeal
       THEN /\ op' = [op EXCEPT ![o] = [r EXCEPT !.stage = "read", !.pw = "null"]]
            /\ UNCHANGED tab
       ELSE /\ op' = [op EXCEPT ![o] = [r EXCEPT !.stage = "ask"]]
            /\ tab' = [tab EXCEPT
                  ![t].waiters = Joined(t, o),
                  ![t].prompt = IF @ # "none" THEN @
                                ELSE IF bio # "none" /\ ~forced THEN "bio" ELSE "modal"]

\* Everyone waiting gets the same answer; the next request starts over.
Answer(t, pw) ==
    /\ op' = [o \in Op |-> IF o \in tab[t].waiters
                           THEN [op[o] EXCEPT !.stage = "read", !.pw = pw] ELSE op[o]]
    /\ tab' = [tab EXCEPT ![t].prompt = "none", ![t].waiters = {}]

\* The password box: a password, right or wrong, or the biometric button in it.
Submit(t) ==
    /\ tab[t].prompt = "modal"
    /\ \E pw \in {"right", "wrong"} : Answer(t, pw)
    /\ UNCHANGED <<blob, file, bio, server, lastKey, born, deeds, forgone, unsure>>

Cancel(t) ==
    /\ tab[t].prompt = "modal"
    /\ op' = [o \in Op |-> IF o \in tab[t].waiters THEN Idle ELSE op[o]]
    /\ tab' = [tab EXCEPT ![t].prompt = "none", ![t].waiters = {}]
    /\ UNCHANGED <<blob, file, bio, server, lastKey, born, deeds, forgone, unsure>>

\* The ceremony recovers the wrapped password, or falls back to the box.
BioAnswers(t) ==
    /\ tab[t].prompt = "bio"
    /\ \/ bio # "none" /\ Answer(t, bio)
       \/ tab' = [tab EXCEPT ![t].prompt = "modal"] /\ UNCHANGED op
    /\ UNCHANGED <<blob, file, bio, server, lastKey, born, deeds, forgone, unsure>>

----------------------------------------------------------------------------
(* Operations a signed-in user starts *)

\* It keeps the identity and the token of the render that started it.
NewOp(t, kind) ==
    [Idle EXCEPT !.tab = t, !.kind = kind, !.me = tab[t].who, !.token = tab[t].session]

Free(o, t, kind) ==
    /\ kind \in Offered /\ deeds < MaxDeeds /\ op[o] = Idle
    /\ deeds' = deeds + 1
    /\ tab[t].mem # Locked /\ tab[t].session # NoId

\* Through the vault: addVaultAccount, switchVaultAccount, deleteVaultAccount,
\* importVault, exportVault, and what withCustody does not hand the extension.
Start(o, t) ==
    /\ \E kind \in {"add", "switch", "delete", "import", "export", "rotate", "destroy", "enable"} :
        /\ Free(o, t, kind)
        /\ kind \in {"rotate", "destroy"} => ~tab[t].ext
        /\ kind = "import" => DOMAIN file # {}
        /\ \E id \in IF kind \in {"switch", "delete"} THEN tab[t].mem.ids ELSE {NoId},
              k \in IF kind = "destroy" THEN 1..lastKey ELSE {0} :
              Asks(o, [NewOp(t, kind) EXCEPT !.id = id, !.key = k], kind \in Forced)
    /\ UNCHANGED <<blob, file, bio, server, lastKey, born, forgone, unsure>>

\* deleteServerAccount: the extension shows its own window, the vault prompts.
StartErase(o, t) ==
    /\ \E kind \in {"erase", "leave"}, f \in BOOLEAN :
        /\ kind \in Offered /\ deeds < MaxDeeds /\ op[o] = Idle /\ tab[t].session # NoId
        /\ LET r == [NewOp(t, kind) EXCEPT !.forget = f]
           IN IF tab[t].ext
              THEN /\ op' = [op EXCEPT ![o] = [r EXCEPT !.stage = "submit", !.id = ExtId]]
                   /\ UNCHANGED tab
              ELSE tab[t].mem # Locked /\ Asks(o, r, TRUE)
    /\ deeds' = deeds + 1
    /\ UNCHANGED <<blob, file, bio, server, lastKey, born, forgone, unsure>>

\* The read fails: no vault, or neither the cached key nor the password opens it.
ReadFails(o) ==
    /\ op[o].stage = "read" /\ ~Opens(op[o].tab, op[o].pw)
    /\ op' = [op EXCEPT ![o] = Idle]
    /\ tab' = [tab EXCEPT ![op[o].tab].cached = CachedByRead(op[o].tab, op[o].pw)]
    /\ UNCHANGED <<blob, file, bio, server, lastKey, born, deeds, forgone, unsure>>

\* The operation with the identity and key it generates for its change.
Fresh(r) ==
    IF r.kind = "add"
    THEN {[r EXCEPT !.id = i, !.key = lastKey + 1] : i \in {j \in Id \ born : lastKey < MaxKey}}
    ELSE IF r.kind = "rotate"
    THEN {[r EXCEPT !.id = blob.active, !.key = lastKey + 1] : j \in {x \in {1} : lastKey < MaxKey}}
    ELSE {r}

\* deleteAccount moves the view's active account before it saves.
ViewAtRead(r, v) ==
    IF r.kind \in {"delete", "forget"} /\ blob.active = r.id
    THEN [tab[r.tab].mem EXCEPT !.active = v.active] ELSE tab[r.tab].mem

Room(kind) ==
    /\ Cardinality({p \in Op : op[p].stage \in Holding}) < MaxWriters
    /\ kind = "rotate" =>
          Cardinality({p \in Op : op[p].kind = "revert" \/ op[p].stage = "send"}) < MaxWriters

ReadToWrite(o) ==
    /\ op[o].stage = "read" /\ op[o].kind \in Writers
    /\ Opens(op[o].tab, op[o].pw) /\ Room(op[o].kind)
    /\ \E r \in Fresh(op[o]) :
        LET out == Results(r, blob) IN
        /\ \/ /\ out = {}
              /\ op' = [op EXCEPT ![o] = Idle]
              /\ tab' = [tab EXCEPT ![r.tab].cached = CachedByRead(r.tab, r.pw)]
           \/ \E v \in out :
              /\ op' = [op EXCEPT ![o] = [r EXCEPT !.stage = "write", !.full = v,
                                                   !.from = blob.acc[blob.active].cur,
                                                   !.drop = [i \in Id |-> HeldIn(blob.acc, i) \ HeldIn(v.acc, i)]]]
              /\ tab' = [tab EXCEPT ![r.tab].cached = CachedByRead(r.tab, r.pw),
                                    ![r.tab].mem = ViewAtRead(r, v)]
        /\ lastKey' = IF out # {} /\ r.kind \in {"add", "rotate"} THEN lastKey + 1 ELSE lastKey
        /\ born' = IF r.kind = "add" THEN born \cup {r.id} ELSE born
    /\ UNCHANGED <<blob, file, bio, server, deeds, forgone, unsure>>

\* enableBiometrics wraps the password it verified, not one a cached key excused.
Wrapped(t, pw) == IF Verified(t, pw) THEN pw ELSE bio

\* The reads that write nothing back: an export, a biometric registration, and
\* the signature an account deletion carries.
ReadOnly(o) ==
    LET r == op[o] IN
    /\ r.stage = "read" /\ r.kind \notin Writers
    /\ Opens(r.tab, r.pw)
    /\ tab' = [tab EXCEPT ![r.tab].cached = CachedByRead(r.tab, r.pw)]
    /\ \/ /\ r.kind = "export" /\ file' = blob.acc
          /\ op' = [op EXCEPT ![o] = Idle] /\ UNCHANGED bio
       \/ /\ r.kind = "enable"
          /\ bio' = Wrapped(r.tab, r.pw)
          /\ op' = [op EXCEPT ![o] = Idle] /\ UNCHANGED file
       \/ /\ r.kind \in {"erase", "leave"}
          /\ op' = [op EXCEPT ![o] = [r EXCEPT !.stage = "submit", !.id = blob.active]]
          /\ UNCHANGED <<file, bio>>
    /\ UNCHANGED <<blob, server, lastKey, born, deeds, forgone, unsure>>

----------------------------------------------------------------------------
(* Writing back, and what each operation does next *)

SignedOut(r) == [r EXCEPT !.session = NoId, !.who = NoId, !.cached = NoSeal]

\* The tab after a write: the view follows, an identity switched to is adopted and
\* signed out of, one deleted or forgotten leaves the active one adopted, when the
\* view still has it.  A view wiped meanwhile stays locked.
Adopts(m, who) == IF m.active \in m.ids THEN m.active ELSE who
AfterWrite(r, v) ==
    LET s == [tab[r.tab] EXCEPT !.cached = CachedBySave(r.tab, r.pw)]
        m == [s.mem EXCEPT !.ids = @ \ {r.id}]
    IN IF s.mem = Locked THEN s
       ELSE IF r.kind = "add" THEN [s EXCEPT !.mem.ids = @ \cup {r.id}]
       ELSE IF r.kind = "switch" THEN SignedOut([s EXCEPT !.mem.active = r.id])
       ELSE IF r.kind = "import" THEN [s EXCEPT !.mem = View(v)]
       ELSE IF r.kind = "delete" THEN [s EXCEPT !.mem = m, !.who = Adopts(m, s.who)]
       ELSE IF r.kind = "forget"
            THEN [SignedOut([s EXCEPT !.mem = m]) EXCEPT
                     !.blocked = FALSE, !.who = IF s.session = NoId THEN Adopts(m, s.who) ELSE NoId]
       ELSE s

\* What the history says of a write: keys given up on purpose, keys whose
\* publication is now open or settled.
Purposeful == {"destroy", "delete", "forget", "import"}
ForgoneAfter(r) ==
    IF r.kind \in Purposeful THEN [i \in Id |-> forgone[i] \cup r.drop[i]] ELSE forgone

\* The identities whose account an import replaces.
Brought(v, i) == i \in DOMAIN v.acc /\ (i \in DOMAIN blob.acc => blob.acc[i] # v.acc[i])
UnsureAfter(r) ==
    IF r.kind = "rotate" THEN [unsure EXCEPT ![r.id] = @ \cup {r.key}]
    ELSE IF r.kind = "revert"
         THEN [unsure EXCEPT ![r.full.active] =
                  IF server.key[r.full.active] = r.key THEN @ \cup {r.key} ELSE @ \ {r.key}]
    ELSE IF r.kind = "import"
         THEN [i \in Id |-> unsure[i] \cup IF Brought(r.full, i) THEN Held(r.full.acc[i]) ELSE {}]
    ELSE unsure

\* A rotation is on disk before it is sent, by a tab that still shows its vault.
Goes(r) == r.kind = "rotate" /\ tab[r.tab].mem # Locked
Write(o) ==
    LET r == op[o] IN
    /\ r.stage = "write"
    /\ IF CanSave(r.tab, r.pw)
       THEN /\ blob' = Sealed(r.tab, r.pw, r.full)
            /\ tab' = [tab EXCEPT ![r.tab] = AfterWrite(r, r.full)]
            /\ op' = [op EXCEPT ![o] = IF Goes(r)
                         THEN [r EXCEPT !.stage = "send", !.full = NoVault, !.drop = NoDrop, !.pw = "null"]
                         ELSE Idle]
            /\ forgone' = ForgoneAfter(r)
            /\ unsure' = UnsureAfter(r)
       ELSE /\ op' = [op EXCEPT ![o] = Idle]
            /\ UNCHANGED <<blob, tab, forgone, unsure>>
    /\ UNCHANGED <<file, bio, server, lastKey, born, deeds>>

\* A publication that is confirmed settles what was in doubt of that identity.
Settled(i) == [unsure EXCEPT ![i] = {}]

\* POST /account/encryption-key/rotate: taken only for the session's identity
\* and from the key the server serves.
Takes(r) ==
    /\ r.id = r.token /\ r.id \notin server.gone
    /\ server.key[r.id] = r.from

Publish(o) ==
    LET r == op[o] IN
    /\ r.stage = "send" /\ Takes(r)
    /\ server' = [server EXCEPT !.key[r.id] = r.key]
    /\ op' = [op EXCEPT ![o] = Idle]
    /\ \/ unsure' = Settled(r.id)
       \/ UNCHANGED unsure                     \* taken, and the answer lost
    /\ UNCHANGED <<blob, file, bio, tab, lastKey, born, deeds, forgone>>

\* Refused (4xx, a rate limit included): the rotation is undone, which may
\* prompt.  A network failure or a 5xx undoes nothing.
Refused(o) ==
    LET r == op[o] IN
    /\ r.stage = "send"
    /\ Asks(o, [NewOp(r.tab, "revert") EXCEPT !.key = r.key], FALSE)
    /\ UNCHANGED <<blob, file, bio, server, lastKey, born, deeds, forgone, unsure>>

Unanswered(o) ==
    /\ op[o].stage = "send"
    /\ op' = [op EXCEPT ![o] = Idle]
    /\ UNCHANGED <<blob, file, bio, tab, server, lastKey, born, deeds, forgone, unsure>>

----------------------------------------------------------------------------
(* Signing in *)

\* The tab takes on the vault's active identity and sends it to the server.
Opened(o, t, v, pw, cached) ==
    /\ tab' = [tab EXCEPT ![t].mem = View(v), ![t].who = v.active, ![t].cached = cached,
                          ![t].sees = TRUE]
    /\ op' = [op EXCEPT ![o] = [NewOp(t, "login") EXCEPT
                  !.stage = "login", !.pw = pw, !.id = v.active, !.key = v.acc[v.active].cur]]

AtSignIn(o, t) ==
    /\ op[o] = Idle /\ tab[t].session = NoId /\ \A p \in Op : op[p].tab # t
    /\ Room("login")

\* loginLocalVault: the typed password, never the cache, opens the blob.
Unlock(o, t) ==
    /\ AtSignIn(o, t) /\ HasVault /\ ~tab[t].ext /\ Verified(t, "right")
    /\ Opened(o, t, blob, "right", IF tab[t].ttl THEN blob.seal ELSE tab[t].cached)
    /\ UNCHANGED <<blob, file, bio, server, lastKey, born, deeds, forgone, unsure>>

\* unlockWithBiometrics: a registration the vault refuses is dropped.
UnlockWithBiometrics(o, t) ==
    /\ AtSignIn(o, t) /\ HasVault /\ ~tab[t].ext /\ bio # "none"
    /\ IF Verified(t, bio)
       THEN /\ Opened(o, t, blob, bio, IF tab[t].ttl THEN blob.seal ELSE tab[t].cached)
            /\ UNCHANGED bio
       ELSE bio' = "none" /\ UNCHANGED <<tab, op>>
    /\ UNCHANGED <<blob, file, server, lastKey, born, deeds, forgone, unsure>>

\* setup, importNewVault and importEncryptedBlob: stored before the server is
\* asked anything; whatever a previous vault's registration wrapped is cleared.
NewVault(o, t, v) ==
    /\ AtSignIn(o, t) /\ ~HasVault
    /\ blob' = Sealed(t, "right", v)
    /\ bio' = "none"
    /\ Opened(o, t, v, "right", CachedBySave(t, "right"))

Create(o, t) ==
    /\ lastKey < MaxKey /\ ~tab[t].ext /\ ~tab[t].sees
    /\ \E i \in Id \ born :
        /\ NewVault(o, t, [acc |-> [j \in {i} |-> [cur |-> lastKey + 1, old |-> <<>>]], active |-> i])
        /\ born' = born \cup {i}
    /\ lastKey' = lastKey + 1
    /\ UNCHANGED <<file, server, deeds, forgone, unsure>>

Receive(o, t) ==
    /\ DOMAIN file # {} /\ ~tab[t].blocked        \* another page: the sign-in screen is gone
    /\ \E i \in DOMAIN file : NewVault(o, t, [acc |-> file, active |-> i])
    /\ unsure' = [i \in Id |-> unsure[i] \cup HeldIn(file, i)]
    /\ UNCHANGED <<file, server, lastKey, born, deeds, forgone>>

\* performServerLogin's answer.  The challenge is signed by whichever account
\* the stored vault holds active when it is signed.
Admitted(o) ==
    LET r == op[o] IN
    /\ r.stage = "login" /\ Opens(r.tab, r.pw) /\ blob.active = r.id
    /\ r.id \notin server.gone
    /\ server' = [server EXCEPT !.key[r.id] = r.key]
    /\ op' = [op EXCEPT ![o] = Idle]
    /\ \/ /\ tab' = [tab EXCEPT ![r.tab].session = r.id,
                                ![r.tab].cached = CachedByRead(r.tab, r.pw)]
          /\ unsure' = Settled(r.id)
       \/ UNCHANGED <<tab, unsure>>            \* registered, and the answer lost
    /\ UNCHANGED <<blob, file, bio, lastKey, born, deeds, forgone>>

\* Refused or failed; 410 offers to remove the identity the tab now shows.
Turned(o) ==
    LET r == op[o] IN
    /\ r.stage = "login"
    /\ op' = [op EXCEPT ![o] = Idle]
    /\ tab' = [tab EXCEPT ![r.tab].blocked = @ \/ r.id \in server.gone]
    /\ UNCHANGED <<blob, file, bio, server, lastKey, born, deeds, forgone, unsure>>

LoginTrustKeys(t) ==
    /\ tab[t].ext /\ tab[t].session = NoId /\ ExtId \notin server.gone
    /\ tab' = [tab EXCEPT ![t].who = ExtId, ![t].session = ExtId]
    /\ UNCHANGED <<blob, file, bio, op, server, lastKey, born, deeds, forgone, unsure>>

\* Logging out, an expired token, a 401: the vault stays unlocked.
Logout(t) ==
    /\ tab[t].session # NoId
    /\ tab' = [tab EXCEPT ![t] = SignedOut(tab[t])]
    /\ UNCHANGED <<blob, file, bio, op, server, lastKey, born, deeds, forgone, unsure>>

----------------------------------------------------------------------------
(* Deleting the server account, and forgetting the identity it leaves *)

\* The server checks the session's identity signed it, for its own nonce.
Submitted(o) ==
    LET r == op[o]
    IN /\ r.stage = "submit"
       /\ IF r.id = r.token /\ r.me = r.token /\ r.id \notin server.gone
          THEN /\ server' = IF r.kind = "erase"
                            THEN [server EXCEPT !.gone = @ \cup {r.id}] ELSE server
               /\ op' = [op EXCEPT ![o].stage = "forget"]
          ELSE op' = [op EXCEPT ![o] = Idle] /\ UNCHANGED server
       /\ UNCHANGED <<blob, file, bio, tab, lastKey, born, deeds, forgone, unsure>>

SubmitFails(o) ==
    /\ op[o].stage = "submit"
    /\ op' = [op EXCEPT ![o] = Idle]
    /\ UNCHANGED <<blob, file, bio, tab, server, lastKey, born, deeds, forgone, unsure>>

\* vaultHoldsCurrentIdentity: the identity of this session, not just any.
MutHolds(t, me) == tab[t].mem # Locked
Holds(t, me) == me \in tab[t].mem.ids /\ tab[t].mem.active = me

\* Only an erase forgets, and only when asked.
Forgets(r) == r.forget /\ r.kind = "erase"

\* wipeVault: this device's vault and biometrics go, this tab forgets its view.
Emptied(s) == [s EXCEPT !.mem = Locked, !.cached = NoSeal, !.sees = FALSE, !.blocked = FALSE]
Wiped ==
    /\ blob' = NoVault /\ bio' = "none"
    /\ forgone' = [i \in Id |-> forgone[i] \cup HeldIn(blob.acc, i)]

ForgetLast(o) ==
    LET r == op[o]
        t == r.tab
    IN /\ r.stage = "forget" /\ Forgets(r) /\ Holds(t, r.me)
       /\ Cardinality(tab[t].mem.ids) = 1
       /\ Wiped
       /\ tab' = [tab EXCEPT ![t] = SignedOut(Emptied(@))]
       /\ op' = [op EXCEPT ![o] = Idle]
       /\ UNCHANGED <<file, server, lastKey, born, deeds, unsure>>

ForgetOne(o) ==
    LET r == op[o]
        t == r.tab
    IN /\ r.stage = "forget" /\ Forgets(r) /\ Holds(t, r.me)
       /\ Cardinality(tab[t].mem.ids) > 1
       /\ Asks(o, [NewOp(t, "forget") EXCEPT !.id = tab[t].mem.active, !.forget = TRUE], FALSE)
       /\ UNCHANGED <<blob, file, bio, server, lastKey, born, deeds, forgone, unsure>>

ForgetNone(o) ==
    LET r == op[o] IN
    /\ r.stage = "forget" /\ ~(Forgets(r) /\ Holds(r.tab, r.me))
    /\ op' = [op EXCEPT ![o] = Idle]
    /\ tab' = [tab EXCEPT ![r.tab] = SignedOut(@)]
    /\ UNCHANGED <<blob, file, bio, server, lastKey, born, deeds, forgone, unsure>>

\* The sign-in screen, after a 410: the password just typed is used again.
ForgetAtLogin(o, t) ==
    /\ op[o] = Idle /\ tab[t].session = NoId /\ tab[t].blocked /\ Holds(t, tab[t].who)
    /\ \A p \in Op : op[p].tab # t
    /\ \/ /\ Cardinality(tab[t].mem.ids) = 1
          /\ Wiped /\ tab' = [tab EXCEPT ![t] = Emptied(@)]
          /\ UNCHANGED op
       \/ /\ Cardinality(tab[t].mem.ids) > 1
          /\ op' = [op EXCEPT ![o] = [NewOp(t, "forget") EXCEPT !.stage = "read", !.pw = "right",
                                                                 !.id = tab[t].mem.active]]
          /\ UNCHANGED <<blob, bio, tab, forgone>>
    /\ UNCHANGED <<file, server, lastKey, born, deeds, unsure>>

----------------------------------------------------------------------------
(* What else happens to a tab *)

\* The tab is hidden, or the cache timer fires.
DropCache(t) ==
    /\ tab[t].cached # NoSeal
    /\ tab' = [tab EXCEPT ![t].cached = NoSeal]
    /\ UNCHANGED <<blob, file, bio, op, server, lastKey, born, deeds, forgone, unsure>>

DisableBiometrics(t) ==
    /\ bio # "none" /\ tab[t].session # NoId
    /\ bio' = "none"
    /\ UNCHANGED <<blob, file, tab, op, server, lastKey, born, deeds, forgone, unsure>>

\* A reload or a crash: only what is stored stays.
Reload(t) ==
    /\ tab' = [tab EXCEPT ![t] = [NewTab EXCEPT !.ttl = tab[t].ttl, !.ext = tab[t].ext, !.sees = HasVault]]
    /\ op' = [o \in Op |-> IF op[o].tab = t THEN Idle ELSE op[o]]
    /\ UNCHANGED <<blob, file, bio, server, lastKey, born, deeds, forgone, unsure>>

Next ==
    \/ \E t \in Tab : \/ Submit(t) \/ Cancel(t) \/ BioAnswers(t) \/ LoginTrustKeys(t) \/ Logout(t)
                      \/ DropCache(t) \/ DisableBiometrics(t) \/ Reload(t)
    \/ \E o \in Op : \/ ReadFails(o) \/ ReadToWrite(o) \/ ReadOnly(o) \/ Write(o)
                     \/ Publish(o) \/ Refused(o) \/ Unanswered(o) \/ Admitted(o) \/ Turned(o)
                     \/ Submitted(o) \/ SubmitFails(o) \/ ForgetLast(o) \/ ForgetOne(o) \/ ForgetNone(o)
    \/ \E o \in Op, t \in Tab : \/ Start(o, t) \/ StartErase(o, t) \/ Unlock(o, t)
                                \/ UnlockWithBiometrics(o, t) \/ Create(o, t) \/ Receive(o, t)
                                \/ ForgetAtLogin(o, t)

Spec == Init /\ [][Next]_vars

----------------------------------------------------------------------------
(* Properties *)

\* Every variable has its type, and a stored vault always has its active account.
Account == [cur : Kid, old : Seq(Kid)]
TypeOK ==
    /\ DOMAIN blob.acc \subseteq Id /\ \A i \in DOMAIN blob.acc : blob.acc[i] \in Account
    /\ HasVault => blob.active \in DOMAIN blob.acc
    /\ bio \in {"none", "right", "wrong"}
    /\ \A t \in Tab : /\ tab[t].mem.ids \subseteq Id /\ tab[t].prompt \in {"none", "bio", "modal"}
                      /\ tab[t].waiters \subseteq Op
    /\ server.key \in [Id -> 0..MaxKey] /\ server.gone \subseteq Id \cup {ExtId}
    /\ lastKey \in 0..MaxKey /\ born \subseteq Id /\ deeds \in 0..MaxDeeds
    /\ forgone \in [Id -> SUBSET Kid] /\ unsure \in [Id -> SUBSET Kid]

\* The key contacts are served opens on this device: whatever failed, crashed or
\* raced on the way to publishing it, it is among the account's keys, unless its
\* owner gave that key up (vaultRotation.js: saved before it is published).
PublishedHeld ==
    \A i \in DOMAIN blob.acc :
        server.key[i] # 0 => server.key[i] \in Held(blob.acc[i]) \cup forgone[i]

\* A rotation the server refused leaves no trace in what is current: unless a
\* publication is still open, the current key is the one the server serves.
RefusedUndone ==
    \A i \in DOMAIN blob.acc :
        server.key[i] # 0 /\ server.key[i] \notin forgone[i] /\ unsure[i] = {}
            => blob.acc[i].cur = server.key[i]

\* A fingerprint always unlocks: what a registration wraps is the password,
\* even when a warm key cache would have excused a wrong one.
BioWrapsPassword == bio # "wrong"

\* No operation is left behind a prompt nobody will answer.
AskersWait ==
    \A o \in Op : op[o].stage = "ask" =>
        o \in tab[op[o].tab].waiters /\ tab[op[o].tab].prompt # "none"

\* Deleting the account forgets, of the identities the tab shows, only the one
\* the server erased: never another one's keys, and never after merely leaving
\* (PQCContext.jsx forgetLocalIdentity).
Forgetting(o) == op[o].stage = "forget" \/ (op[o].kind = "forget" /\ op[o].stage = "write")
Gone == DOMAIN blob.acc \ DOMAIN blob'.acc
ForgetsOnlyErased ==
    [][\A o \in Op : Forgetting(o) /\ op'[o] # op[o] /\ op[o].forget
          => Gone \cap tab[op[o].tab].mem.ids \subseteq server.gone]_vars

\* "Only this identity is removed - any others in the vault are untouched"
\* (Login.jsx), whichever screen removes it and whoever added the others.  The code
\* does not guarantee it (see the README).
OthersUntouched ==
    [][blob' = NoVault \/ (\E o \in Op : Forgetting(o) /\ op'[o] # op[o])
          => Gone \subseteq server.gone]_vars

\* What holds of the vault and its tabs at every step.
VaultInv == TypeOK /\ PublishedHeld /\ RefusedUndone /\ BioWrapsPassword /\ AskersWait
=============================================================================
