---------------------------- MODULE MCPrepared ----------------------------
(***************************************************************************)
(* Two prepared statements, so that an id may be mistaken for the other's, *)
(* two runs and two closes, which may all be of the same one.              *)
(***************************************************************************)
EXTENDS Prepared, TLC

Symmetry ==
  Permutations(Prepareds) \cup Permutations(Runs) \cup Permutations(Closes)
=============================================================================
