----------------------------- MODULE MCMultisig -----------------------------
(* Small instances of Multisig for TLC. *)
EXTENDS Multisig, TLC

\* The list of two signers, in one order: users are alike.
TwoSigners == {CHOOSE l \in [1..2 -> User] : l[1] # l[2]}

\* Up to three, so that 2-of-3 and 3-of-3 workflows are created.
AllLists == UNION {[1..n -> User] : n \in 0..3}

\* Requests and users are interchangeable: every input set is closed under both.
Symmetric == Permutations(User) \cup Permutations(Req)
=============================================================================
