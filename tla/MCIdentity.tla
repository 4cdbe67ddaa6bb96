----------------------------- MODULE MCIdentity -----------------------------
(* Small instances of Identity for TLC. *)
EXTENDS Identity, TLC

\* Single-use codes, the default of create_invites.
SingleUse == [c \in Code |-> 1]

\* Every set below enters the specification only as a set of inputs.
Symmetric ==
    Permutations(Addr) \cup Permutations(Key) \cup Permutations(Nonce)
        \cup Permutations(Code) \cup Permutations(Req)
=============================================================================
