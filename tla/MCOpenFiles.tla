----------------------------- MODULE MCOpenFiles -----------------------------
(* OpenFiles for TLC: two open files of one file.                          *)
EXTENDS OpenFiles, TLC

CONSTANTS h1, h2

MCHandles == {h1, h2}
Symmetry  == Permutations(MCHandles)
=============================================================================
