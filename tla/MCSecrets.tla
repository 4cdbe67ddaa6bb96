----------------------------- MODULE MCSecrets -----------------------------
(* Secrets on a small instance. *)
EXTENDS Secrets

\* One file of two chunks, and three files of which the second is empty.
FileShapes == {<<2>>, <<1, 0, 1>>}
\* Text, a single empty file, and those.
AllShapes == {<<>>, <<0>>} \cup FileShapes
=============================================================================
