---------------------------- MODULE MCConnection ----------------------------
(***************************************************************************)
(* A statement, two streams, a close() and a dispose() of one connection:  *)
(* enough for a stream and a close to cross in either order, a second      *)
(* stream to be refused, and a statement to come before or after any.      *)
(***************************************************************************)
EXTENDS Connection

\* The actors are used once each, so a behavior ends when all of them have.
Finished == \A a \in Actors : pc[a] = "done"
MCNext == Next \/ (Finished /\ UNCHANGED vars)
MCSpec == Init /\ [][MCNext]_vars /\ Fairness
=============================================================================
