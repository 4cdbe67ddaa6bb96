---------------------------- MODULE MCMessenger ----------------------------
(* Small instances of Reading and Messenger for TLC: one tab that reads, or  *)
(* one that writes.  The two share no state in the model, so a behaviour is  *)
(* one of them or the other, never their product.                            *)
EXTENDS Reading, Messenger, TLC

CONSTANTS
    Writer,        \* the peer with a direct conversation
    s1, s2, s3     \* sessions: the writer's, the writer's in the group, this tab's

VARIABLE half

ASSUME ReadingInstance == ReadingConstants
ASSUME MessengerInstance == MessengerConstants

TheSession ==
    (s1 :> [by |-> Writer, to |-> Me]) @@ (s2 :> [by |-> Writer, to |-> Grp])
        @@ (s3 :> [by |-> Me, to |-> Writer])

\* A message of session s as its author sent it, its envelope carrying w.
AsSent(s, w) ==
    LET to == TheSession[s].to
        gid == IF to = Grp THEN Grp ELSE Nil
    IN  [kind |-> IF to = Grp THEN "group" ELSE "dm",
         from |-> TheSession[s].by, to |-> to, gid |-> gid, sid |-> s, wrap |-> w, ct |-> s,
         sig |-> [by |-> TheSession[s].by, conv |-> to, gid |-> gid, sid |-> s,
                  wrap |-> w, ct |-> s]]

\* First and later messages, one damaged and one unsigned.
Mailbox ==
    {AsSent(s1, s1), AsSent(s1, Nil), [AsSent(s1, s1) EXCEPT !.wrap = s2, !.ct = s2],
     AsSent(s2, s2), [AsSent(s2, s2) EXCEPT !.sig = Nil], AsSent(s3, s3)}

\* The half that is not played stays in one of its initial states.
TabInit ==
    /\ ReadingInit /\ Init
    /\ \/ half = "writes"
       \/ half = "reads" /\ members = {} /\ row[Writer] = NoRow /\ pin[Writer] = None

TabNext ==
    /\ UNCHANGED half
    /\ \/ half = "writes" /\ Next /\ UNCHANGED readingVars
       \/ half = "reads" /\ ReadingNext /\ UNCHANGED vars

TabSpec == TabInit /\ [][TabNext]_<<half, vars, readingVars>>
=============================================================================
