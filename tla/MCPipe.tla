------------------------------- MODULE MCPipe -------------------------------
(* Two-byte pipes with counters that wrap at 4. *)
EXTENDS Pipe, TLC

Symmetry == Permutations(Procs) \union Permutations(Bytes)
=============================================================================
