----------------------------- MODULE MCHandover -----------------------------
(***************************************************************************)
(* Handover for TLC: clients, paths and memory cells are interchangeable.  *)
(***************************************************************************)
EXTENDS HandoverInv, TLC

Symmetry == Permutations(Clients) \cup Permutations(Paths) \cup Permutations(Cells)

=============================================================================
