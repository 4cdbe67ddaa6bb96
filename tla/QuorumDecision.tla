--------------------------- MODULE QuorumDecision ---------------------------
(***************************************************************************)
(* What an N-of-M workflow promises, without requests, locks or rows: each *)
(* item is opened once with its voters and its quorum, every voter adds at *)
(* most one vote while it is pending, the vote that reaches the quorum     *)
(* completes it in the same step, and one voter's refusal rejects it for   *)
(* good.  Multisig implements this specification.                          *)
(***************************************************************************)
EXTENDS Naturals, FiniteSets

CONSTANTS User, Item

VARIABLES phase, voters, votes, quorum

dvars == <<phase, voters, votes, quorum>>

Opened(i) ==
    phase[i] = "pending" /\ votes[i] = {} /\ quorum[i] \in 1..Cardinality(voters[i])

Unopened(i) ==
    phase[i] = "none" /\ voters[i] = {} /\ votes[i] = {} /\ quorum[i] = 0

Init ==
    /\ phase \in [Item -> {"none", "pending"}]
    /\ voters \in [Item -> SUBSET User]
    /\ votes = [i \in Item |-> {}]
    /\ quorum \in [Item -> 0..Cardinality(User)]
    /\ \A i \in Item : Opened(i) \/ Unopened(i)

Open(i) ==
    /\ phase[i] = "none"
    /\ \E vs \in SUBSET User : \E n \in 1..Cardinality(vs) :
         /\ voters' = [voters EXCEPT ![i] = vs]
         /\ quorum' = [quorum EXCEPT ![i] = n]
    /\ phase' = [phase EXCEPT ![i] = "pending"]
    /\ UNCHANGED votes

Approve(i, u) ==
    /\ phase[i] = "pending"
    /\ u \in voters[i] \ votes[i]
    /\ votes' = [votes EXCEPT ![i] = @ \cup {u}]
    /\ phase' = [phase EXCEPT ![i] =
                   IF Cardinality(votes[i]) + 1 >= quorum[i] THEN "completed" ELSE @]
    /\ UNCHANGED <<voters, quorum>>

Refuse(i) ==
    /\ phase[i] = "pending"
    /\ phase' = [phase EXCEPT ![i] = "rejected"]
    /\ UNCHANGED <<voters, votes, quorum>>

Next ==
    \E i \in Item : Open(i) \/ Refuse(i) \/ \E u \in User : Approve(i, u)

Spec == Init /\ [][Next]_dvars
=============================================================================
