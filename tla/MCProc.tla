------------------------------- MODULE MCProc -------------------------------
(* Small process tables for Proc. *)
EXTENDS Proc, TLC

CpuSymmetry == Permutations(CPUs)
=============================================================================
