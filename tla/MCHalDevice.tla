---------------------------- MODULE MCHalDevice -----------------------------
(***************************************************************************)
(* HalDevice for TLC: devices are interchangeable, and so are messages.    *)
(***************************************************************************)
EXTENDS HalDeviceInv, TLC

Symmetry == Permutations(Devices) \cup Permutations(Texts)

=============================================================================
