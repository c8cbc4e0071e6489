--------------------------- MODULE MCTransaction ---------------------------
(***************************************************************************)
(* Two handles, so that one may be stale while the other is open, and two  *)
(* calls, which may race for one handle or come one after the other, with  *)
(* the same statements written by hand in between.                         *)
(***************************************************************************)
EXTENDS Transaction
=============================================================================
