----------------------------- MODULE MCCanAgent -----------------------------
(***************************************************************************)
(* Instances of CanAgent for TLC.  One Session object is always waiting    *)
(* for the next client, so n objects allow n - 1 clients at one time.      *)
(***************************************************************************)
EXTENDS CanAgent, TLC

\* Session objects are interchangeable; used for invariants only.
SessionSymmetry == Permutations(Session)
=============================================================================
