------------------------------ MODULE MCServer ------------------------------
(* Small instances of Realtime, Groups and Transfers for TLC.  They share no *)
(* state, so a behaviour is one of the three, never their product.           *)
EXTENDS Realtime, Groups, Transfers, TLC

VARIABLE part

ASSUME GroupsInstance == GroupsConstants
ASSUME TransfersInstance == TransfersConstants

ServerInit ==
    Init /\ GroupsInit /\ TransfersInit /\ part \in {"sockets", "group", "relay"}

ServerNext ==
    /\ UNCHANGED part
    /\ \/ part = "sockets" /\ Next /\ UNCHANGED <<groupVars, transferVars>>
       \/ part = "group" /\ GroupsNext /\ UNCHANGED <<vars, transferVars>>
       \/ part = "relay" /\ TransfersNext /\ UNCHANGED <<vars, groupVars>>

ServerSpec == ServerInit /\ [][ServerNext]_<<part, vars, groupVars, transferVars>>

\* Workers, sockets and tasks are interchangeable: no action names one.
Symmetric == Permutations(Worker) \cup Permutations(Socket) \cup Permutations(Task)
=============================================================================
