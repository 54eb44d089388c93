----------------------------- MODULE MCTagRefs ------------------------------
(***************************************************************************)
(* TagRefs for TLC: threads, memory cells and references are each          *)
(* interchangeable.                                                        *)
(***************************************************************************)
EXTENDS TagRefsInv, TLC

Symmetry == Permutations(Threads) \cup Permutations(Cells) \cup Permutations(Tokens)

=============================================================================
