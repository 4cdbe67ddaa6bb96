----------------------------- MODULE MCCeremony -----------------------------
(* Ceremony on a small instance: Me, a co-signer, a recipient. *)
EXTENDS Ceremony

CONSTANTS CoSigner, Recipient, First

AnyKey == {"none", "good", "bad"}

\* Signed by Me alone or with the co-signer, who may have signed already; the
\* quorum is all of them, one of them, or all by the NULL of a legacy row.
Quorums == {<<{Me}, 1, {}>>, <<{Me, CoSigner}, 1, {}>>, <<{Me, CoSigner}, 2, {}>>,
            <<{Me, CoSigner}, 0, {}>>, <<{Me, CoSigner}, 0, {CoSigner}>>}

\* No recipient, or one whose wrap was or was not made at creation, and its key.
Releases == {<<{}, {}, "good">>} \cup ({{Recipient}} \X {{}, {Recipient}} \X AnyKey)

Rows(first, other) == [w \in Wf |-> IF w = First THEN first ELSE other]
Keys(k) == [u \in User |-> IF u = Recipient THEN k ELSE "good"]
Of(o, q, r) == Pending(o, q[1], q[2], q[3], r[1], r[2])

\* Nothing there and one id unused, or both in use: one workflow pending, of Me
\* or of the co-signer, one released.
Worlds ==
    {[wf |-> Rows(NoRow, [NoRow EXCEPT !.status = "deleted"]), key |-> Keys("good")]}
    \cup
    {[wf |-> Rows(Of(Me, q, r), Released(Me, "owner")), key |-> Keys(r[3])] :
        q \in Quorums, r \in Releases}
    \cup
    {[wf |-> Rows(Pending(CoSigner, {Me, CoSigner}, 2, {}, {}, {}), Released(Me, author)),
      key |-> Keys("good")] : author \in {"owner", "other", "bad", "none"}}
=============================================================================
