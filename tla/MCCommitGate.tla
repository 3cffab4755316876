---------------------------- MODULE MCCommitGate ----------------------------
(* Instances of CommitGate for model checking.                             *)
EXTENDS CommitGate, TLC

\* Writes are interchangeable.
WriteSymmetry == Permutations(Writes)
=============================================================================
