----------------------------- MODULE MCHalTag ------------------------------
(***************************************************************************)
(* HalTag for TLC: tags are interchangeable.                               *)
(***************************************************************************)
EXTENDS HalTagInv, TLC

Symmetry == Permutations(Tags)

=============================================================================
