---------------------------- MODULE MCRreqTblSmp ---------------------------
(* A small instance of RreqTblSmp for TLC. *)
EXTENDS RreqTblSmp, TLC

\* Cells and CPUs are interchangeable.
SmpSymmetry == Permutations(Cells) \cup Permutations(Cpus)
=============================================================================
