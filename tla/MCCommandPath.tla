----------------------------- MODULE MCCommandPath -----------------------------
(* CommandPath for TLC: the configurations give the constants their values. *)
EXTENDS CommandPath
=============================================================================
