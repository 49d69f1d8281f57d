------------------------------- MODULE MCBio -------------------------------
(* More blocks than buffers; the pins and one user take all the buffers.    *)
EXTENDS Bio, TLC

Symmetry == Permutations(Users) \union Permutations(Blocks)
=============================================================================
