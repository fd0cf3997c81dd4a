----------------------------- MODULE MCFileDump -----------------------------
(* Callers of Dump differ in their names only. *)
EXTENDS FileDump, TLC

MCSymmetry == Permutations(Callers)
=============================================================================
