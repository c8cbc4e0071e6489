------------------------------ MODULE MCStream ------------------------------
(***************************************************************************)
(* One stream of three or four batches through a queue of two, so that the *)
(* queue is full with a batch left over; one or two reads in flight and a  *)
(* cancel.  A program may stop using a stream at any point, so a behavior  *)
(* may end with its thread parked: deadlock is not checked.                *)
(***************************************************************************)
EXTENDS Stream, TLC

Symmetry == Permutations(Readers)
=============================================================================
