------------------------------ MODULE MCCancel ------------------------------
(***************************************************************************)
(* Three statements on one connection, so that a listener can be late for  *)
(* one that has ended and early for one that has not begun; one of them    *)
(* has no signal.                                                          *)
(***************************************************************************)
EXTENDS Cancel

\* The statements are used once each, so a behavior ends when all are done.
Finished == \A s \in Statements : pc[s] = "done"
MCNext == Next \/ (Finished /\ UNCHANGED vars)
MCSpec == Init /\ [][MCNext]_vars /\ Fairness
=============================================================================
