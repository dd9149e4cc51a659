----------------------------- MODULE MCTickExt -----------------------------
(* Instances of TickExt for TLC. *)
EXTENDS TickExt

ClockSteps == {-30, -3}
============================================================================
