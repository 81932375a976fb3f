--------------------------- MODULE MCStateEngine ----------------------------
(* StateEngine for TLC: packet identifiers are interchangeable, and what a *)
(* call does never depends on the result of the one before.                *)
EXTENDS StateEngine, TLC

Symmetry == Permutations(PacketIds)

Tables == <<outgoing, incoming>>
=============================================================================
