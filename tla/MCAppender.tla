---------------------------- MODULE MCAppender ----------------------------
(***************************************************************************)
(* Two columns, which is enough for a row to be half in; rows and flushes  *)
(* enough for a batch, a refusal and a discard to leave something behind,  *)
(* for a flush to fail and be tried again, and for one to be refused       *)
(* while another is in flight.                                             *)
(***************************************************************************)
EXTENDS Appender, TLC
=============================================================================
