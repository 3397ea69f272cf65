------------------------------ MODULE MCRuntime ------------------------------
(* Small instances of OfficialRuntime for TLC. *)
EXTENDS OfficialRuntime, TLC

WorkerSymmetry == Permutations(Workers)
=============================================================================
