----------------------------- MODULE Transfers -----------------------------
(***************************************************************************)
(* The relay that carries a vault to another device (backend/routers/      *)
(* transfers.py, frontend/src/services/transfer.js and the two pages of    *)
(* components/transfer): parked for a while, handed out once.              *)
(***************************************************************************)
EXTENDS Naturals

CONSTANTS
    Code,      \* what generateTransferCode and token_urlsafe make: id and passphrase
    NoCode,    \* nothing on screen, nothing claimed
    Sender,    \* send modals
    Claim,     \* receiving pages, each with one request at most
    Ttl,       \* KEY_TRANSFER_TTL_MINUTES, in ticks
    MaxTime    \* bound: ticks

VARIABLES
    now,     \* the servers' clock
    row,     \* key_transfers: [code -> when it expires, or 0]
    used,    \* codes made so far
    sender,  \* each modal: its stage and its code
    claim,   \* each page: its stage, its code, what its request read, whether it succeeded
    got      \* history: [page -> codes whose vault the server gave it]

transferVars == <<now, row, used, sender, claim, got>>

TransfersConstants == NoCode \notin Code /\ Ttl \in Nat \ {0} /\ MaxTime \in Nat

Waiting == [stage |-> "idle", code |-> NoCode, until |-> 0, mine |-> FALSE]

TransfersInit ==
    /\ now = 1 /\ row = [c \in Code |-> 0] /\ used = {}
    /\ sender = [s \in Sender |-> [stage |-> "choose", code |-> NoCode]]
    /\ claim = [d \in Claim |-> Waiting]
    /\ got = [d \in Claim |-> {}]

TimePasses ==
    /\ now < MaxTime /\ now' = now + 1
    /\ UNCHANGED <<row, used, sender, claim, got>>

Parked(c, t) == row[c] > t

----------------------------------------------------------------------------
(* The sending device. *)

\* The effect of the mode: one upload at a time, and none while a code is shown.
StartRelay(s) ==
    /\ sender[s] = [stage |-> "choose", code |-> NoCode]
    /\ sender' = [sender EXCEPT ![s].stage = "upload"]
    /\ UNCHANGED <<now, row, used, claim, got>>

MutPurged(t) == [c \in Code |-> IF row[c] < t + Ttl THEN 0 ELSE row[c]]
\* Rows past their time go with every upload.
Purged(t) == [c \in Code |-> IF Parked(c, t) THEN row[c] ELSE 0]

\* create_transfer; the answer may be lost, and with it the code.
Upload(s) ==
    /\ sender[s].stage = "upload"
    /\ \E c \in Code \ used, heard \in BOOLEAN :
        /\ used' = used \cup {c}
        /\ row' = [Purged(now) EXCEPT ![c] = now + Ttl]
        /\ sender' = [sender EXCEPT ![s] = IF heard THEN [stage |-> "shown", code |-> c]
                                           ELSE [stage |-> "choose", code |-> NoCode]]
    /\ UNCHANGED <<now, claim, got>>

UploadFails(s) ==
    /\ sender[s].stage = "upload"
    /\ sender' = [sender EXCEPT ![s].stage = "choose"]
    /\ UNCHANGED <<now, row, used, claim, got>>

----------------------------------------------------------------------------
(* The receiving device. *)

\* A code is typed or scanned, from a modal that shows it.
Submit(d, c) ==
    /\ claim[d].stage = "idle"
    /\ \E s \in Sender : sender[s].code = c
    /\ claim' = [claim EXCEPT ![d] = [Waiting EXCEPT !.stage = "asked", !.code = c]]
    /\ UNCHANGED <<now, row, used, sender, got>>

\* claim_transfer reads a candidate, or there is none.
Read(d) ==
    /\ claim[d].stage = "asked"
    /\ claim' = [claim EXCEPT ![d].stage = IF row[claim[d].code] = 0 THEN "denied" ELSE "read",
                              ![d].until = row[claim[d].code]]
    /\ UNCHANGED <<now, row, used, sender, got>>

\* Its clock is taken before the DELETE that decides.
Clock(d) ==
    /\ claim[d].stage = "read"
    /\ claim' = [claim EXCEPT ![d].stage = "delete", ![d].mine = claim[d].until > now]
    /\ UNCHANGED <<now, row, used, sender, got>>

MutTakes(d) == claim[d].mine
\* rowcount = 1: the row is there, and live by that clock.
Takes(d) == row[claim[d].code] # 0 /\ claim[d].mine

Delete(d) ==
    /\ claim[d].stage = "delete"
    /\ row' = IF claim[d].mine THEN [row EXCEPT ![claim[d].code] = 0] ELSE row
    /\ got' = [got EXCEPT ![d] = IF Takes(d) THEN @ \cup {claim[d].code} ELSE @]
    /\ claim' = [claim EXCEPT ![d].stage = IF Takes(d) THEN "answer"
                                           ELSE IF claim[d].mine THEN "denied" ELSE "clear"]
    /\ UNCHANGED <<now, used, sender>>

\* A row that was past its time is cleared out.
Clear(d) ==
    /\ claim[d].stage = "clear"
    /\ row' = [row EXCEPT ![claim[d].code] = 0]
    /\ claim' = [claim EXCEPT ![d].stage = "denied"]
    /\ UNCHANGED <<now, used, sender, got>>

\* The vault opens and is stored; or the answer is lost, the passphrase was
\* mistyped or the page is left, and the code is spent.
Answer(d) ==
    /\ claim[d].stage \in {"answer", "denied"}
    /\ \E end \in IF claim[d].stage = "answer" THEN {"idle", "stored"} ELSE {"idle"} :
        claim' = [claim EXCEPT ![d] = [Waiting EXCEPT !.stage = end]]
    /\ UNCHANGED <<now, row, used, sender, got>>

TransfersNext ==
    \/ TimePasses
    \/ \E s \in Sender : StartRelay(s) \/ Upload(s) \/ UploadFails(s)
    \/ \E d \in Claim : (\E c \in Code : Submit(d, c)) \/ Read(d) \/ Clock(d) \/ Delete(d)
                            \/ Clear(d) \/ Answer(d)

TransfersSpec == TransfersInit /\ [][TransfersNext]_transferVars

----------------------------------------------------------------------------
(* Properties. *)

\* "Claim a transfer exactly once": of any claims that race for a code, one at
\* most is given its vault.
ClaimedOnce == \A d, e \in Claim : d # e => got[d] \cap got[e] = {}

\* A vault that is waiting goes to a claim or waits out its time: no purge, and
\* no claim that is refused, takes it away.
WaitsItsTime ==
    [][\A c \in Code : Parked(c, now) /\ row'[c] = 0 => \E d \in Claim : c \in got'[d] \ got[d]]_transferVars
=============================================================================
