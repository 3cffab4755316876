--------------------------- MODULE MCAofPipeline ---------------------------
(* Small instances of AofPipeline for TLC. *)
EXTENDS AofPipeline, TLC

SlotSymmetry == Permutations(Slots)
=============================================================================
