--------------------------- MODULE MCCallbackList ---------------------------
(* Instances of CallbackList for TLC. *)
EXTENDS CallbackList, TLC

\* Nodes are interchangeable, and nothing that is checked here is a liveness property.
SessionSymmetry == Permutations(Session)
=============================================================================
