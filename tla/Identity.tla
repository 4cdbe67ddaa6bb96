------------------------------ MODULE Identity ------------------------------
(***************************************************************************)
(* The life of an identity on the server: login challenges and their       *)
(* claim, registration, return, key change, invites and session tokens     *)
(* (backend/routers/auth.py, invites.py, dependencies.py), the rotation of *)
(* an encryption key (routers/encryption_keys.py) and the two deletions of *)
(* an account (routers/account.py, account_deletion._strip_identity).      *)
(*                                                                         *)
(* A request is a process over PostgreSQL in READ COMMITTED mode.  A       *)
(* handler is split at every point where what it read can grow stale: the  *)
(* claim of the challenge (which commits), the unlocked read of the user   *)
(* row, the flush that writes it, and the refresh behind the token.  A     *)
(* section that holds the row's lock from its read to its commit is one    *)
(* step, as is a flush together with the commit that follows it: nothing   *)
(* another transaction does to the row fits in between.                    *)
(*                                                                         *)
(* SQLAlchemy writes the columns whose value differs from the one it       *)
(* loaded, and no others: see Written.                                     *)
(***************************************************************************)
EXTENDS Naturals

CONSTANTS
    Addr,              \* addresses
    Key, NoKey,        \* encryption keys; NoKey is NULL
    Nonce, NoNonce,    \* challenges, never drawn twice; NoNonce: the request has none
    Code, NoCode,      \* invite codes; NoCode: the login sends none
    MaxUses,           \* [Code -> Nat]: max_uses
    InvitesRequired,   \* config.invites_required()
    Unattested,        \* addresses whose account predates key attestations
    Req,               \* requests that can be in flight at once
    Offered,           \* the operations clients send (an instance may leave some out)
    MaxVersion         \* bound: no request that bumps token_version past it arrives

Ops == {"login", "leave", "erase", "logout", "rotate"}

ASSUME NullKey == NoKey \notin Key
ASSUME NullNonce == NoNonce \notin Nonce
ASSUME NullCode == NoCode \notin Code
ASSUME UsesCounted == MaxUses \in [Code -> Nat]
ASSUME OfferedOps == Offered \subseteq Ops
ASSUME VersionBound == MaxVersion \in Nat

VARIABLES
    rows,       \* addresses with a row in users
    deleted,    \* those whose deleted_at is set
    blocked,    \* those whose blocked flag is set
    version,    \* token_version
    encKey,     \* encryption_public_key (with its id and alg), or NoKey
    attest,     \* the key that encryption_key_attestation signs, or NoKey
    challenge,  \* [nonce]: the identity it was issued to and where it stands
    uses,       \* [code]: how often it was redeemed
    minted,     \* the codes that exist
    lapsed,     \* the codes past their expires_at
    tokens,     \* the session tokens handed out: <<address, tv>>
    dead,       \* history: tokens that validated once and then stopped to
    effects,    \* history, [nonce]: what was authorised by this challenge
    req         \* the requests in flight

identity == <<rows, deleted, blocked, version, encKey, attest>>
invites == <<uses, minted, lapsed>>
vars == <<identity, challenge, invites, tokens, dead, effects, req>>

Kinds == {"none", "register", "return", "key_changed", "backfill", "login"}
Idle == [pc |-> "idle"]

Busy ==
    [pc : {"claim", "read", "write", "mint", "locked"}, op : Ops, a : Addr,
     n : Nonce \cup {NoNonce},
     key : Key \cup {NoKey},        \* login, rotate: the key submitted
     from : Key \cup {NoKey},       \* rotate: the key the signed body names as current
     code : Code \cup {NoCode},     \* login: the invite code
     kind : Kinds,                  \* login: what _upsert_identity decided
     seenKey : Key \cup {NoKey},    \* the columns as the unlocked read loaded them
     seenAtt : Key \cup {NoKey},
     seenVersion : Nat]

Advance(r, next) == req' = [req EXCEPT ![r] = next]
Finish(r) == Advance(r, Idle)

\* A request as it arrives, with what the client sent.
Fresh(pc, op, a) ==
    [pc |-> pc, op |-> op, a |-> a, n |-> NoNonce, key |-> NoKey, from |-> NoKey,
     code |-> NoCode, kind |-> "none", seenKey |-> NoKey, seenAtt |-> NoKey,
     seenVersion |-> 0]

----------------------------------------------------------------------------
(* The rules the handlers share. *)

IsActive(a) == a \in rows \ deleted

\* authorization.may_register
MayRegister(a) == a \notin rows \/ a \notin blocked

MutVersionIgnored(t) == IsActive(t[1])

\* user_for_token
Validates(t) == IsActive(t[1]) /\ version[t[1]] = t[2]

\* A token that validates now and does not after the step has died.
NoteDead == dead' = dead \cup {t \in tokens : Validates(t) /\ ~ Validates(t)'}

\* What the ORM leaves in a column: `new' was assigned to an attribute loaded as
\* `seen', and the row now holds `current'.
Written(new, seen, current) == IF new = seen THEN current ELSE new

MutClaimKeeps(r) == UNCHANGED challenge

\* claim_nonce: the DELETE is the guard, and it commits at once.
SpendChallenge(r) == challenge' = [challenge EXCEPT ![req[r].n].at = "gone"]

ClaimWins(r) ==
    challenge[req[r].n] = [of |-> req[r].a, at |-> "live"]

MutSpendable(c) == c \in minted \ lapsed

\* The WHERE clause of consume_invite.
Spendable(c) == c \in minted \ lapsed /\ uses[c] < MaxUses[c]

\* _consume_invite_or_403, given that it succeeds.
Admit(c) ==
    IF InvitesRequired
    THEN Spendable(c) /\ uses' = [uses EXCEPT ![c] = @ + 1]
    ELSE UNCHANGED uses

----------------------------------------------------------------------------
(***************************************************************************)
(* The server starts over an existing directory: every address is absent,  *)
(* active (with or without a key) or has left, which bumped its version.   *)
(***************************************************************************)
Init ==
    /\ rows \in SUBSET Addr
    /\ deleted \in SUBSET rows
    /\ blocked = {}
    /\ version = [a \in Addr |-> IF a \in deleted THEN 1 ELSE 0]
    /\ encKey \in [Addr -> Key \cup {NoKey}]
    /\ \A a \in Addr : encKey[a] # NoKey => a \in rows \ deleted
    /\ attest = [a \in Addr |-> IF a \in Unattested THEN NoKey ELSE encKey[a]]
    /\ challenge = [n \in Nonce |-> [at |-> "unissued"]]
    /\ uses = [c \in Code |-> 0]
    /\ minted = {} /\ lapsed = {}
    /\ tokens = {} /\ dead = {}
    /\ effects = [n \in Nonce |-> 0]
    /\ req = [r \in Req |-> Idle]

\* get_nonce: the expired challenges are purged, then a fresh one is inserted.
GetNonce(a, n) ==
    /\ challenge[n].at = "unissued"
    /\ challenge' = [m \in Nonce |->
          IF m = n THEN [of |-> a, at |-> "live"]
          ELSE IF challenge[m].at = "expired" THEN [challenge[m] EXCEPT !.at = "gone"]
          ELSE challenge[m]]
    /\ UNCHANGED <<identity, invites, tokens, dead, effects, req>>

\* Five minutes pass.
NonceExpires(n) ==
    /\ challenge[n].at = "live"
    /\ challenge' = [challenge EXCEPT ![n].at = "expired"]
    /\ UNCHANGED <<identity, invites, tokens, dead, effects, req>>

\* create_invites
CreateInvite(c) ==
    /\ c \notin minted
    /\ minted' = minted \cup {c}
    /\ UNCHANGED <<identity, challenge, uses, lapsed, tokens, dead, effects, req>>

InviteExpires(c) ==
    /\ c \in minted \ lapsed
    /\ lapsed' = lapsed \cup {c}
    /\ UNCHANGED <<identity, challenge, uses, minted, tokens, dead, effects, req>>

----------------------------------------------------------------------------
(* POST /auth/login *)

LoginArrive(r, a, n, k, c) ==
    /\ req[r].pc = "idle" /\ "login" \in Offered
    /\ challenge[n].at # "unissued"
    /\ Advance(r, [Fresh("claim", "login", a) EXCEPT !.n = n, !.key = k, !.code = c])
    /\ UNCHANGED <<identity, challenge, invites, tokens, dead, effects>>

\* claim_nonce, for a login and for a deletion: only then is anything verified.
Claim(r) ==
    /\ req[r].pc = "claim"
    /\ \/ /\ ClaimWins(r)
          /\ SpendChallenge(r)
          /\ \/ Advance(r, [req[r] EXCEPT
                    !.pc = IF req[r].op = "login" THEN "read" ELSE "locked"])
             \/ Finish(r)      \* the login payload is refused; the challenge stays spent
       \/ ~ ClaimWins(r) /\ Finish(r) /\ UNCHANGED challenge
    /\ UNCHANGED <<identity, invites, tokens, dead, effects>>

\* What _upsert_identity decides from the row as it stands.
LoginKind(a, k) ==
    CASE a \notin rows -> "register"
      [] a \in deleted -> "return"
      [] IsActive(a) /\ k # NoKey /\ k # encKey[a] -> "key_changed"
      [] IsActive(a) /\ k # NoKey /\ k = encKey[a] /\ attest[a] = NoKey -> "backfill"
      [] OTHER -> "login"

\* The unlocked SELECT of the user row; a deleted and blocked one is answered 410.
LoginRead(r) ==
    LET a == req[r].a
    IN  /\ req[r].pc = "read"
        /\ IF a \in deleted => MayRegister(a)
           THEN Advance(r, [req[r] EXCEPT
                  !.pc = IF LoginKind(a, req[r].key) = "login" THEN "mint" ELSE "write",
                  !.kind = LoginKind(a, req[r].key),
                  !.seenKey = encKey[a], !.seenAtt = attest[a]])
           ELSE Finish(r)
        /\ UNCHANGED <<identity, challenge, invites, tokens, dead, effects>>

(***************************************************************************)
(* set_encryption_key and the flush.  The suite column is set exactly with *)
(* the key, and the CHECK ck_users_encryption_key refuses a row that has   *)
(* one of them: KeyRowAccepted.  Signatures are hedged, so an attestation  *)
(* of the same key is usually other bytes, and is written.                 *)
(***************************************************************************)
KeyRowAccepted(r, a) ==
    LET suite(k) == k # NoKey
    IN  suite(Written(req[r].key, req[r].seenKey, encKey[a]))
          <=> Written(suite(req[r].key), suite(req[r].seenKey), suite(encKey[a]))

MutSetKeyOnly(r, a) ==
    /\ KeyRowAccepted(r, a)
    /\ encKey' = [encKey EXCEPT ![a] = Written(req[r].key, req[r].seenKey, @)]
    /\ UNCHANGED attest

SetEncryptionKey(r, a) ==
    /\ KeyRowAccepted(r, a)
    /\ encKey' = [encKey EXCEPT ![a] = Written(req[r].key, req[r].seenKey, @)]
    /\ \/ attest' = [attest EXCEPT ![a] = Written(req[r].key, req[r].seenAtt, @)]
       \/ req[r].key # NoKey /\ attest' = [attest EXCEPT ![a] = req[r].key]

\* _register_user: the INSERT fails on a row that has appeared meanwhile.
Register(r, a) ==
    /\ a \notin rows
    /\ rows' = rows \cup {a}
    /\ encKey' = [encKey EXCEPT ![a] = req[r].key]
    /\ attest' = [attest EXCEPT ![a] = req[r].key]
    /\ UNCHANGED <<deleted, blocked, version>>
    /\ Admit(req[r].code)

\* _revive_user: written by address, whatever the row has become.
Revive(r, a) ==
    /\ SetEncryptionKey(r, a)
    /\ deleted' = deleted \ {a}
    /\ UNCHANGED <<rows, blocked, version>>
    /\ Admit(req[r].code)

ChangeKey(r, a) ==
    /\ SetEncryptionKey(r, a)
    /\ UNCHANGED <<rows, deleted, blocked, version, uses>>

Backfill(r, a) ==
    /\ attest' = [attest EXCEPT ![a] = req[r].key]
    /\ UNCHANGED <<rows, deleted, blocked, version, encKey, uses>>

\* The writing half of _upsert_identity, up to its commit.
Upsert(r, a) ==
    \/ req[r].kind = "register" /\ Register(r, a)
    \/ req[r].kind = "return" /\ Revive(r, a)
    \/ req[r].kind = "key_changed" /\ ChangeKey(r, a)
    \/ req[r].kind = "backfill" /\ Backfill(r, a)

LoginWrite(r) ==
    /\ req[r].pc = "write" /\ req[r].op = "login"
    /\ Upsert(r, req[r].a)
    /\ Advance(r, [req[r] EXCEPT !.pc = "mint"])
    /\ NoteDead
    /\ UNCHANGED <<challenge, minted, lapsed, tokens, effects>>

\* db.refresh, then a token carrying the version read there.
LoginMint(r) ==
    /\ req[r].pc = "mint"
    /\ tokens' = tokens \cup {<<req[r].a, version[req[r].a]>>}
    /\ effects' = [effects EXCEPT ![req[r].n] = @ + 1]
    /\ Finish(r)
    /\ UNCHANGED <<identity, challenge, invites, dead>>

----------------------------------------------------------------------------
(* The routes behind get_current_user. *)

\* A session: a token handed out that validates when the request arrives.
Session(a) == \E t \in tokens : t[1] = a /\ Validates(t)

\* POST /account/delete: authenticated now, authorised by a challenge of its own.
DeleteArrive(r, op, a, n) ==
    /\ req[r].pc = "idle" /\ op \in Offered \cap {"leave", "erase"}
    /\ Session(a) /\ version[a] < MaxVersion
    /\ challenge[n].at # "unissued"
    /\ Advance(r, [Fresh("claim", op, a) EXCEPT !.n = n])
    /\ UNCHANGED <<identity, challenge, invites, tokens, dead, effects>>

MutStripVersion(r, a) ==
    /\ encKey' = [encKey EXCEPT ![a] = NoKey]
    /\ attest' = [attest EXCEPT ![a] = NoKey]
    /\ deleted' = deleted \cup {a}
    /\ blocked' = IF req[r].op = "erase" THEN blocked \cup {a} ELSE blocked
    /\ UNCHANGED <<rows, version>>

\* _strip_identity
StripIdentity(r, a) ==
    /\ encKey' = [encKey EXCEPT ![a] = NoKey]
    /\ attest' = [attest EXCEPT ![a] = NoKey]
    /\ version' = [version EXCEPT ![a] = @ + 1]
    /\ deleted' = deleted \cup {a}
    /\ blocked' = IF req[r].op = "erase" THEN blocked \cup {a} ELSE blocked
    /\ UNCHANGED rows

\* _perform_deletion from its FOR UPDATE refresh to its commit.  An erase with
\* messages still to redact commits that round and leaves the account alone.
DeleteCommit(r) ==
    LET a == req[r].a
    IN  /\ req[r].pc = "locked" /\ req[r].op \in {"leave", "erase"}
        /\ \/ /\ IsActive(a)
              /\ StripIdentity(r, a)
              /\ challenge' = [n \in Nonce |->
                    IF challenge[n].at # "unissued" /\ challenge[n].of = a
                    THEN [challenge[n] EXCEPT !.at = "gone"] ELSE challenge[n]]
              /\ NoteDead
              /\ effects' = [effects EXCEPT ![req[r].n] = @ + 1]
           \/ /\ IsActive(a) /\ req[r].op = "erase"
              /\ effects' = [effects EXCEPT ![req[r].n] = @ + 1]
              /\ UNCHANGED <<identity, challenge, dead>>
           \/ UNCHANGED <<identity, challenge, dead, effects>>    \* refused
        /\ Finish(r)
        /\ UNCHANGED <<invites, tokens>>

\* POST /auth/logout: token_version as loaded by get_current_user ...
LogoutArrive(r, a) ==
    /\ req[r].pc = "idle" /\ "logout" \in Offered
    /\ Session(a) /\ version[a] < MaxVersion
    /\ Advance(r, [Fresh("write", "logout", a) EXCEPT !.seenVersion = version[a]])
    /\ UNCHANGED <<identity, challenge, invites, tokens, dead, effects>>

\* ... plus one, is what the UPDATE writes.
BumpedVersion(r) == [version EXCEPT ![req[r].a] = req[r].seenVersion + 1]

LogoutCommit(r) ==
    /\ req[r].pc = "write" /\ req[r].op = "logout"
    /\ version' = BumpedVersion(r)
    /\ Finish(r)
    /\ UNCHANGED <<rows, deleted, blocked, encKey, attest, challenge, invites,
                   tokens, effects>>
    /\ NoteDead

\* POST /account/encryption-key/rotate
RotateArrive(r, a, from, k) ==
    /\ req[r].pc = "idle" /\ "rotate" \in Offered
    /\ Session(a)
    /\ Advance(r, [Fresh("locked", "rotate", a) EXCEPT !.key = k, !.from = from])
    /\ UNCHANGED <<identity, challenge, invites, tokens, dead, effects>>

\* _locked_active and key_rotation.rotate: the signed body names the current key.
RotateCommit(r) ==
    LET a == req[r].a
        k == req[r].key
    IN  /\ req[r].pc = "locked" /\ req[r].op = "rotate"
        /\ IF IsActive(a) /\ encKey[a] # NoKey /\ k # encKey[a] /\ req[r].from = encKey[a]
           THEN /\ encKey' = [encKey EXCEPT ![a] = k]
                /\ attest' = [attest EXCEPT ![a] = k]
           ELSE UNCHANGED <<encKey, attest>>
        /\ Finish(r)
        /\ UNCHANGED <<rows, deleted, blocked, version, challenge, invites,
                       tokens, dead, effects>>

(***************************************************************************)
(* The transaction is rolled back and the request answered with an error:  *)
(* a username clash, an invite that is not spendable, a unique or CHECK    *)
(* constraint, a lost connection, a worker that died.                      *)
(***************************************************************************)
Abort(r) ==
    /\ req[r].pc # "idle"
    /\ Finish(r)
    /\ UNCHANGED <<identity, challenge, invites, tokens, dead, effects>>

Next ==
    \/ \E a \in Addr, n \in Nonce : GetNonce(a, n)
    \/ \E n \in Nonce : NonceExpires(n)
    \/ \E c \in Code : CreateInvite(c) \/ InviteExpires(c)
    \/ \E r \in Req :
         \/ \E a \in Addr, n \in Nonce, k \in Key \cup {NoKey}, c \in Code \cup {NoCode} :
              LoginArrive(r, a, n, k, c)
         \/ \E a \in Addr, n \in Nonce, op \in Ops : DeleteArrive(r, op, a, n)
         \/ \E a \in Addr : LogoutArrive(r, a)
         \/ \E a \in Addr, from \in Key, k \in Key : RotateArrive(r, a, from, k)
         \/ Claim(r)
         \/ LoginRead(r)
         \/ LoginWrite(r)
         \/ LoginMint(r)
         \/ DeleteCommit(r)
         \/ LogoutCommit(r)
         \/ RotateCommit(r)
         \/ Abort(r)

Spec == Init /\ [][Next]_vars

----------------------------------------------------------------------------
(* Properties. *)

Challenge ==
    [at : {"unissued"}] \cup [of : Addr, at : {"live", "expired", "gone"}]

TypeOK ==
    /\ rows \subseteq Addr
    /\ deleted \subseteq rows
    /\ blocked \subseteq rows
    /\ version \in [Addr -> Nat]
    /\ encKey \in [Addr -> Key \cup {NoKey}]
    /\ attest \in [Addr -> Key \cup {NoKey}]
    /\ challenge \in [Nonce -> Challenge]
    /\ uses \in [Code -> Nat]
    /\ minted \subseteq Code
    /\ lapsed \subseteq Code
    /\ tokens \subseteq Addr \X Nat
    /\ dead \subseteq tokens
    /\ effects \in [Nonce -> Nat]
    /\ req \in [Req -> {Idle} \cup Busy]

\* A challenge authorises one thing: one session, one deletion or one round of
\* redactions, however many requests carry it at once (KRY-004).
OneEffectPerChallenge == \A n \in Nonce : effects[n] <= 1

\* An identity enters the server - created, or back from a leave - only in a step
\* that spends one use of a code that still had one (audit section 5).
AdmissionIsPaid ==
    [][InvitesRequired =>
         \A a \in Addr : (~ IsActive(a) /\ IsActive(a)') =>
             \E c \in Code : uses'[c] = uses[c] + 1 /\ uses'[c] <= MaxUses[c]]_vars

\* A session that ended stays ended: no return, login or deletion revives a token.
DeadTokensStayDead == \A t \in dead : ~ Validates(t)

\* An erase is final: the key can never be used again (authorization.may_register).
ErasedIsFinal == \A a \in blocked : ~ IsActive(a)

\* A deleted identity holds no key that somebody could still wrap to.
DeletedIsKeyless == \A a \in deleted : encKey[a] = NoKey

\* The directory never serves a key with the attestation of another key.
AttestationMatches == \A a \in Addr : attest[a] \in {NoKey, encKey[a]}

----------------------------------------------------------------------------
(* The inductive invariants of the proofs. *)

\* Request r has won the claim of challenge n and not answered yet.
Holds(r, n) == req[r].pc \in {"read", "write", "mint", "locked"} /\ req[r].n = n

\* A challenge somebody holds is spent, held by nobody else and without effect so
\* far; one that is not spent yet is without effect, too.
ChallengeInv ==
    \A n \in Nonce :
        /\ effects[n] <= 1
        /\ challenge[n].at # "gone" => effects[n] = 0
        /\ \A r \in Req : Holds(r, n) =>
              /\ challenge[n].at = "gone"
              /\ effects[n] = 0
              /\ \A q \in Req \ {r} : ~ Holds(q, n)

\* Versions only grow: a token is never ahead of its row, a dead one is behind it,
\* and a logout under way adds one to the version as it still stands.
LogoutFresh(r) ==
    req[r].pc # "idle" /\ req[r].op = "logout" =>
        "logout" \in Offered /\ req[r].seenVersion = version[req[r].a]

SessionInv ==
    /\ \A t \in tokens : t[2] <= version[t[1]]
    /\ \A t \in dead : t[2] < version[t[1]]
    /\ \A r \in Req : LogoutFresh(r)

\* Where requests come one at a time, a login that is about to write decided on
\* the row as it still stands.
SnapshotFresh(r) ==
    LET a == req[r].a
    IN  /\ req[r].seenKey = encKey[a] /\ req[r].seenAtt = attest[a]
        /\ req[r].kind = LoginKind(a, req[r].key)
        /\ MayRegister(a)

SerialInv ==
    /\ ErasedIsFinal
    /\ DeletedIsKeyless
    /\ AttestationMatches
    /\ \A r \in Req : req[r].pc = "write" /\ req[r].op = "login" => SnapshotFresh(r)
=============================================================================
