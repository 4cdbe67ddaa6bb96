------------------------------ MODULE MCVault ------------------------------
(* Small instances of Vault and Approvals for TLC.  They share no state, so a *)
(* behaviour is one of the two, never their product.                          *)
EXTENDS Vault, Approvals, TLC

VARIABLE half

ASSUME ApprovalsInstance == ApprovalsConstants

\* The half that is not played stays in one of its initial states.
KeysInit ==
    /\ Init /\ ApprovalsInit
    /\ \/ half = "vault" /\ active = (CHOOSE a \in Holder : TRUE) /\ connected = {}
       \/ half = "approvals" /\ file = NoAccounts /\ \A t \in Tab : ~ tab[t].ttl /\ ~ tab[t].ext

KeysNext ==
    /\ UNCHANGED half
    /\ \/ half = "vault" /\ Next /\ UNCHANGED approvalVars
       \/ half = "approvals" /\ ApprovalsNext /\ UNCHANGED vars

KeysSpec == KeysInit /\ [][KeysNext]_<<half, vars, approvalVars>>

\* No action names a tab, an operation or an identity.
Symmetric == Permutations(Tab) \cup Permutations(Op) \cup Permutations(Id)
=============================================================================
