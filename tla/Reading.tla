------------------------------ MODULE Reading ------------------------------
(***************************************************************************)
(* How one tab reads messages (frontend/src/context/messenger:             *)
(* useMessageSessions.js, verifyMessage.js, sessionScope.js, and the load  *)
(* and frame handlers of MessengerContext.jsx): histories processed,       *)
(* frames heard and messages decrypted by hand, all sharing one cache of   *)
(* session keys.                                                           *)
(*                                                                         *)
(* The cache is React state with a ref that an effect brings up to date    *)
(* later.  Handlers read the ref, and every await of theirs ends a step.   *)
(***************************************************************************)
EXTENDS Naturals

CONSTANTS
    Me, User,    \* this user; the others
    Group,       \* channels
    Nil,         \* no conversation, key, content or signature
    Sid,         \* sessions; a session's key goes by its name
    Session,     \* who minted each, and for whom: [by, to]
    Fresh,       \* sessions this tab is to mint
    Row,         \* messages the server may deliver
    Job,         \* handlers in progress at once
    MaxReads     \* bound: conversations opened, frames, presses and mints

VARIABLES
    keys,    \* sessionKeys: <<conversation, session>> -> key
    ref,     \* sessionKeysRef.current
    screen,  \* activeConversation and activeGroupConversation
    job,     \* each handler in progress
    born,    \* sessions minted here
    dead,    \* an updater or a render threw: the page is blank
    deeds

readingVars == <<keys, ref, screen, job, born, dead, deeds>>

Kind == {"dm", "group"}
Chat == User \cup Group

\* The conversation a session was minted for, as this user names it.
Home(s) ==
    LET m == Session[s]
    IN  IF m.to \in Group \/ m.by = Me THEN m.to ELSE IF m.to = Me THEN m.by ELSE Nil

\* What an author signs: the envelope carries the session's key or nothing, and
\* the content is under that key, or was removed.
Statement(s, w, c) ==
    [by |-> Session[s].by, conv |-> Session[s].to,
     gid |-> IF Session[s].to \in Group THEN Session[s].to ELSE Nil,
     sid |-> s, wrap |-> w, ct |-> c]
Signed(g) == \E s \in Sid : \E w, c \in {s, Nil} : g = Statement(s, w, c)

\* The delivery is the server's word: kind, from and to; the rest is content.
\* Nobody writes to themselves: the search leaves the user out.
ReadingConstants ==
    /\ Me \notin User \cup Group /\ User \cap Group = {} /\ Nil \notin Chat \cup Sid \cup {Me}
    /\ Session \in [Sid -> [by : User \cup {Me}, to : Chat \cup {Me}]]
    /\ \A s \in Sid : Session[s].by # Session[s].to
    /\ \A s \in Fresh : s \in Sid /\ Session[s].by = Me
    /\ \A r \in Row :
        /\ r.kind \in Kind /\ r.from \in User \cup {Me} /\ r.from # r.to
        /\ r.to \in IF r.kind = "group" THEN Group ELSE User \cup {Me}
        /\ r.sid \in Sid /\ r.wrap \in Sid \cup {Nil}
        /\ r.sig = Nil \/ Signed(r.sig)

----------------------------------------------------------------------------
(* One message. *)

\* conversationIdForMessage.
ConvOf(r) == IF r.kind = "group" \/ r.from = Me THEN r.to ELSE r.from
KeyId(r) == <<ConvOf(r), r.sid>>

\* verifyMessageAuthenticity: the signature is its sender's, on this content, for
\* the conversation it was delivered in.
Verified(r) ==
    /\ r.sig # Nil
    /\ r.gid = IF r.kind = "group" THEN r.to ELSE Nil
    /\ r.sig = [by |-> r.from, conv |-> r.to, gid |-> r.gid, sid |-> r.sid,
                wrap |-> r.wrap, ct |-> r.ct]

MutAdoptable(r, good) == r.kind = "group" \/ Me \in {r.from, r.to}
\* mayAdoptSession; the key of its sender may not have been had.
Adoptable(r, good) == r \in good /\ (r.kind = "group" \/ Me \in {r.from, r.to})

\* decryptWithSessionKey succeeds under the key the content was sealed with.
Opens(f, r) == r.ct # Nil /\ KeyId(r) \in DOMAIN f /\ f[KeyId(r)] = r.ct

MutAdopt(new, old) == new
\* The cache with some keys put in.
Adopt(new, old) ==
    [i \in DOMAIN new \cup DOMAIN old |-> IF i \in DOMAIN new THEN new[i] ELSE old[i]]

----------------------------------------------------------------------------
NoScreen == [conv |-> Nil, rows |-> {}, clear |-> {}]
Resting == [stage |-> "idle", kind |-> "dm", conv |-> Nil, rows |-> {}, good |-> {},
            clear |-> {}, want |-> <<>>]

ReadingInit ==
    /\ keys = <<>> /\ ref = <<>>
    /\ screen = [k \in Kind |-> NoScreen]
    /\ job = [j \in Job |-> Resting]
    /\ born = {} /\ dead = FALSE /\ deeds = 0

ReaderDeed == deeds < MaxReads /\ deeds' = deeds + 1
To(j, r) == job' = [job EXCEPT ![j] = r]

\* The effect that follows a render.
Sync ==
    /\ ref # keys /\ ref' = keys
    /\ UNCHANGED <<keys, screen, job, born, dead, deeds>>

\* A send mints a session.
MintHere(s) ==
    /\ s \in Fresh \ born /\ ReaderDeed
    /\ born' = born \cup {s}
    /\ keys' = Adopt([i \in {<<Home(s), s>>} |-> s], keys)
    /\ UNCHANGED <<ref, screen, job, dead>>

\* The chat is left; nothing in progress is told.
Close ==
    /\ \E k \in Kind : screen[k] # NoScreen
    /\ screen' = [k \in Kind |-> NoScreen]
    /\ UNCHANGED <<keys, ref, job, born, dead, deeds>>

----------------------------------------------------------------------------
(* processMessages, from the opening of a conversation to its screen. *)

Delivered(k, c) ==
    {r \in Row : r.kind = k /\ ConvOf(r) = c /\ (r.sid \in Fresh => r.sid \in born)}

Open(j, k, c) ==
    /\ job[j] = Resting /\ ReaderDeed
    /\ (k = "group") = (c \in Group)
    /\ To(j, [Resting EXCEPT !.stage = "history", !.kind = k, !.conv = c])
    /\ screen' = [x \in Kind |-> IF x = k THEN [NoScreen EXCEPT !.conv = c] ELSE NoScreen]
    /\ UNCHANGED <<keys, ref, born, dead>>

\* A page of the history, verified message by message.
History(j) ==
    /\ job[j].stage = "history"
    /\ \E rows \in SUBSET Delivered(job[j].kind, job[j].conv) :
        \E good \in SUBSET {r \in rows : Verified(r)} :
            To(j, [job[j] EXCEPT !.stage = "cached", !.rows = rows, !.good = good])
    /\ UNCHANGED <<keys, ref, screen, born, dead, deeds>>

HistoryFails(j) ==
    /\ job[j].stage = "history"
    /\ To(j, Resting)
    /\ UNCHANGED <<keys, ref, screen, born, dead, deeds>>

\* Step 2: what the cache covers.
FromCache(j) ==
    /\ job[j].stage = "cached"
    /\ To(j, [job[j] EXCEPT !.stage = "collect", !.clear = {r \in job[j].rows : Opens(ref, r)}])
    /\ UNCHANGED <<keys, ref, screen, born, dead, deeds>>

\* Messages that may seed the cache with a key it lacks.
Seeds(r) == {m \in r.rows : m.wrap # Nil /\ Adoptable(m, r.good) /\ KeyId(m) \notin DOMAIN ref}

\* Step 3, after the decryptions: one envelope for each missing key.
Collect(j) ==
    /\ job[j].stage = "collect"
    /\ \E first \in [{KeyId(m) : m \in Seeds(job[j])} -> Seeds(job[j])] :
        /\ \A i \in DOMAIN first : KeyId(first[i]) = i
        /\ To(j, [job[j] EXCEPT !.stage = IF DOMAIN first = {} THEN "show" ELSE "unwrap",
                                !.want = [i \in DOMAIN first |-> first[i].wrap]])
    /\ UNCHANGED <<keys, ref, screen, born, dead, deeds>>

\* Step 4: what was unwrapped joins the ref's copy, which replaces the state.
Unwrap(j) ==
    /\ job[j].stage = "unwrap"
    /\ \E got \in SUBSET DOMAIN job[j].want :
        /\ keys' = Adopt([i \in got |-> job[j].want[i]], ref)
        /\ To(j, [job[j] EXCEPT !.stage = "show",
                                !.clear = @ \cup {r \in job[j].rows : Opens(keys', r)}])
    /\ UNCHANGED <<ref, screen, born, dead, deeds>>

UnwrapFails(j) ==
    /\ job[j].stage = "unwrap"
    /\ To(j, [job[j] EXCEPT !.stage = "show"])
    /\ UNCHANGED <<keys, ref, screen, born, dead, deeds>>

\* The screen of that kind is replaced, whatever it shows by now.
ShowHistory(j) ==
    /\ job[j].stage = "show"
    /\ screen' = [screen EXCEPT ![job[j].kind] =
                    [conv |-> job[j].conv, rows |-> job[j].rows, clear |-> job[j].clear]]
    /\ To(j, Resting)
    /\ UNCHANGED <<keys, ref, born, dead, deeds>>

----------------------------------------------------------------------------
(* A frame: it opens only under a key the cache has already. *)

Hear(j, r) ==
    /\ job[j] = Resting /\ r \in Delivered(r.kind, ConvOf(r)) /\ ReaderDeed
    /\ To(j, [Resting EXCEPT !.stage = "frame", !.kind = r.kind, !.conv = ConvOf(r), !.rows = {r},
                             !.clear = {m \in {r} : Opens(ref, m)}])
    /\ UNCHANGED <<keys, ref, screen, born, dead>>

FrameShown(j) ==
    LET r == job[j]
        s == screen[r.kind]
    IN  /\ r.stage = "frame"
        /\ screen' = IF s.conv # r.conv \/ r.rows \subseteq s.rows THEN screen
                     ELSE [screen EXCEPT ![r.kind].rows = @ \cup r.rows,
                                         ![r.kind].clear = @ \cup r.clear]
        /\ To(j, Resting)
        /\ UNCHANGED <<keys, ref, born, dead, deeds>>

----------------------------------------------------------------------------
(* handleManualDecrypt. *)

Press(j, k, r) ==
    /\ job[j] = Resting /\ ReaderDeed
    /\ r \in screen[k].rows \ screen[k].clear
    /\ \/ /\ Opens(ref, r)
          /\ To(j, [Resting EXCEPT !.stage = "mark", !.kind = k, !.rows = {r}])
       \/ /\ KeyId(r) \notin DOMAIN ref
          /\ To(j, [Resting EXCEPT !.stage = "press", !.kind = k, !.rows = {r}])
    /\ UNCHANGED <<keys, ref, screen, born, dead>>

\* The updater maps over the messages of whatever is open; of nothing, it throws.
Mark(j) ==
    LET k == job[j].kind
    IN  /\ job[j].stage = "mark"
        /\ dead' = (screen[k] = NoScreen)
        /\ screen' = [screen EXCEPT ![k].clear = @ \cup (job[j].rows \cap screen[k].rows)]
        /\ To(j, Resting)
        /\ UNCHANGED <<keys, ref, born, deeds>>

\* Verified and unwrapped, the key opens the messages on screen at that moment.
PressUnwraps(j) ==
    LET k == job[j].kind
    IN  /\ job[j].stage = "press"
        /\ \E r \in {m \in job[j].rows : Verified(m) /\ m.wrap # Nil} :
            /\ Adoptable(r, job[j].rows)
            /\ keys' = Adopt([i \in {KeyId(r)} |-> r.wrap], keys)
            /\ To(j, [job[j] EXCEPT !.stage = "replace", !.rows = screen[k].rows,
                        !.clear = screen[k].clear \cup
                            {m \in screen[k].rows :
                                KeyId(m) = KeyId(r) /\ Opens([i \in {KeyId(r)} |-> r.wrap], m)}])
        /\ UNCHANGED <<ref, screen, born, dead, deeds>>

\* Not its sender's, not for this user, or the unwrapping failed.
PressRefused(j) ==
    /\ job[j].stage = "press"
    /\ To(j, Resting)
    /\ UNCHANGED <<keys, ref, screen, born, dead, deeds>>

\* The list computed before the decryptions becomes the open conversation's.
Replace(j) ==
    LET k == job[j].kind
    IN  /\ job[j].stage = "replace"
        /\ dead' = (screen[k] = NoScreen)
        /\ screen' = IF dead' THEN screen
                     ELSE [screen EXCEPT ![k].rows = job[j].rows, ![k].clear = job[j].clear]
        /\ To(j, Resting)
        /\ UNCHANGED <<keys, ref, born, deeds>>

----------------------------------------------------------------------------
Step(j) ==
    \/ \E k \in Kind, c \in Chat : Open(j, k, c)
    \/ History(j) \/ HistoryFails(j) \/ FromCache(j) \/ Collect(j)
    \/ Unwrap(j) \/ UnwrapFails(j) \/ ShowHistory(j)
    \/ \E r \in Row : Hear(j, r) \/ \E k \in Kind : Press(j, k, r)
    \/ FrameShown(j) \/ Mark(j)
    \/ PressUnwraps(j) \/ PressRefused(j) \/ Replace(j)

ReadingNext ==
    /\ ~ dead
    /\ Sync \/ Close \/ (\E s \in Fresh : MintHere(s)) \/ \E j \in Job : Step(j)

ReadingSpec == ReadingInit /\ [][ReadingNext]_readingVars

----------------------------------------------------------------------------
(* Properties. *)

IsCache(f) == DOMAIN f \subseteq Chat \X Sid /\ f \in [DOMAIN f -> Sid]
Stages == {"idle", "history", "cached", "collect", "unwrap", "show", "frame", "mark", "press", "replace"}

ReadingTypeOK ==
    /\ IsCache(keys) /\ IsCache(ref)
    /\ \A k \in Kind : screen[k].conv \in Chat \cup {Nil} /\ screen[k].clear \subseteq screen[k].rows
    /\ \A j \in Job : job[j].stage \in Stages /\ job[j].rows \subseteq Row
                      /\ job[j].clear \subseteq job[j].rows
    /\ born \subseteq Fresh /\ dead \in BOOLEAN

\* A key kept for a session in a conversation is the one that session was minted
\* with, for that conversation.
Truthful(f) == \A i \in DOMAIN f : f[i] = i[2] /\ Home(i[2]) = i[1]

\* "A session adopted here is unreachable from any other conversation", and a key
\* enters the cache only from what its author signed: every key cached for a
\* conversation is that session's own, whatever altered, unsigned or stray
\* messages a history holds and however loads, presses and sends interleave.
TrueKeys == Truthful(keys) /\ Truthful(ref)

\* A key the handlers could see stays, though a load replaces the whole cache by
\* a copy of its own: neither of two loads drops what the other adopted.
SeenKeysStay ==
    [][\A i \in DOMAIN ref : i \in DOMAIN ref' /\ ref'[i] = ref[i]]_readingVars
=============================================================================
