----------------------------- MODULE MCExtension -----------------------------
(* Two identities, one site; the keys that can still be made are bounded. *)
EXTENDS Extension
=============================================================================
