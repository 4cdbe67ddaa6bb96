----------------------------- MODULE Freshness -----------------------------
(***************************************************************************)
(* The replay, order and gap check of frontend/src/context/messenger/      *)
(* freshness.js.  A message is [id, by, at, ts, seq]: `by` stands for the  *)
(* (conversation, session, sender) it is judged in, `at` is the server's   *)
(* time and `ts` the one its sender signed.  Messages that are not         *)
(* verified or sign no position are not judged and are left out.           *)
(***************************************************************************)
EXTENDS Integers, Sequences, FiniteSets, SequencesExt

CONSTANT MaxSkew    \* MAX_CLOCK_SKEW_MS

\* What earlier messages of one session left behind: the id first seen under
\* each position, the highest position, and the time it was delivered.
Untouched == [ids |-> [q \in {} |-> 0], maxSeq |-> -1, maxAt |-> -1]
NothingSeen == [b \in {} |-> Untouched]

Before(seen, b) == IF b \in DOMAIN seen THEN seen[b] ELSE Untouched

Replayed(s, m) == m.seq \in DOMAIN s.ids /\ s.ids[m.seq] # m.id
Skewed(m) == m.ts - m.at > MaxSkew \/ m.at - m.ts > MaxSkew
Newest(s, m) == m.at >= s.maxAt
Reordered(s, m) ==
    Newest(s, m) /\ s.maxSeq >= 0 /\ m.seq <= s.maxSeq /\ m.seq \notin DOMAIN s.ids
Gapped(s, m) == Newest(s, m) /\ s.maxSeq >= 0 /\ m.seq > s.maxSeq + 1

\* The verdict of one message, the first that applies.
Verdict(s, m) ==
    CASE Replayed(s, m) -> "replayed"
      [] Skewed(m) /\ ~ Replayed(s, m) -> "skew"
      [] Reordered(s, m) /\ ~ Replayed(s, m) /\ ~ Skewed(m) -> "reordered"
      [] Gapped(s, m) /\ ~ Replayed(s, m) /\ ~ Skewed(m) -> "gap"
      [] OTHER -> "fine"

\* What it leaves behind; a replayed one leaves nothing.
After(s, m) ==
    IF Replayed(s, m) THEN s
    ELSE [ids |-> [q \in DOMAIN s.ids \cup {m.seq} |-> IF q = m.seq THEN m.id ELSE s.ids[q]],
          maxSeq |-> IF Newest(s, m) /\ m.seq > s.maxSeq THEN m.seq ELSE s.maxSeq,
          maxAt |-> IF Newest(s, m) THEN m.at ELSE s.maxAt]

\* assessFreshness over a list, from what was seen before it.
Judge(acc, m) ==
    LET s == Before(acc.seen, m.by)
    IN  [seen |-> [b \in DOMAIN acc.seen \cup {m.by} |->
                      IF b = m.by THEN After(s, m) ELSE acc.seen[b]],
         verdicts |-> Append(acc.verdicts, Verdict(s, m))]

Assess(seen, msgs) == FoldLeft(Judge, [seen |-> seen, verdicts |-> <<>>], msgs)
=============================================================================
