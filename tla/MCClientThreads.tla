-------------------------- MODULE MCClientThreads --------------------------
(* Instances of ClientThreads for TLC.                                     *)
EXTENDS ClientThreads, TLC

Symmetry == Permutations(Publishers)
=============================================================================
