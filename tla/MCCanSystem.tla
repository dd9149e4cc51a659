----------------------------- MODULE MCCanSystem -----------------------------
(* CanSystem for TLC. *)
EXTENDS CanSystem
==============================================================================
