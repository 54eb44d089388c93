----------------------------- MODULE MCDiscLoop -----------------------------
(***************************************************************************)
(* DiscLoop for TLC: three cards of one technology (a tag, a peer target   *)
(* and one that is both), a tag and a peer target of another one, a card of*)
(* a technology the program does not know and a peer that polls itself.    *)
(***************************************************************************)
EXTENDS DiscLoopInv, TLC

CONSTANTS a2, ad, am, f3, fd, b, p

MCTechOf ==
  a2 :> "A" @@ ad :> "A" @@ am :> "A" @@ f3 :> "F212" @@ fd :> "F212" @@ b :> "B" @@ p :> "peer"

MCKindOf ==
  a2 :> "t2" @@ ad :> "dep" @@ am :> "dep4a" @@ f3 :> "t3" @@ fd :> "dep" @@
  b :> "other" @@ p :> "other"

=============================================================================
