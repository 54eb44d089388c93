----------------------------- MODULE MCObjects ------------------------------
(***************************************************************************)
(* Objects for TLC.                                                        *)
(***************************************************************************)
EXTENDS ObjectsInv, TLC

Symmetry == Permutations(Messages)

=============================================================================
