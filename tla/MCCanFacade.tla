----------------------------- MODULE MCCanFacade -----------------------------
(* Instances of CanFacade for TLC. *)
EXTENDS CanFacade, TLC

\* Device types are interchangeable.
TypesSymmetry == Permutations(Types)
==============================================================================
