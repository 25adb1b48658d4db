----------------------------- MODULE MCLogFollow -----------------------------
(* Small instances of LogFollow. *)
EXTENDS LogFollow
=============================================================================
