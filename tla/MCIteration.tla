---------------------------- MODULE MCIteration -----------------------------
(***************************************************************************)
(* A loop over three batches through a queue of one, so that the           *)
(* statement's thread waits with a batch in its hand and one in the queue, *)
(* and a pool of one thread, so that a read that waits for a batch has it. *)
(* A program may stop reading at any point: deadlock is not checked.       *)
(***************************************************************************)
EXTENDS Iteration
=============================================================================
