----------------------------- MODULE MCConsole -----------------------------
(* Instance of Console for TLC: two lines of two characters. *)
EXTENDS Console
=============================================================================
