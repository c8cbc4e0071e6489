---------------------------- MODULE BatchStream ----------------------------
(***************************************************************************)
(* What a stream of one statement promises whoever reads it: the batches   *)
(* are handed out one at a time and in order, none is skipped unless the   *)
(* reader gave up, the statement is never more than Ahead batches ahead of *)
(* its reader, it starts at most once, and the connection is lent to it    *)
(* for exactly as long as it runs.  Stream.tla implements this.            *)
(***************************************************************************)
EXTENDS Naturals

CONSTANT Ahead   \* how many batches may wait for the reader, at least one

VARIABLES
  phase,    \* "unread", "running" or "over"
  lent,     \* whether the statement has the connection
  made,     \* how many batches were made available
  given,    \* how many of them are with the reader, or thrown away
  given_up  \* whether the reader wants no more

vars == <<phase, lent, made, given, given_up>>

Init ==
  /\ phase \in {"unread", "over"}   \* a refused statement is over at once
  /\ lent = FALSE
  /\ made = 0
  /\ given = 0
  /\ given_up = FALSE

Begin ==
  /\ phase = "unread"
  /\ phase' = "running"
  /\ lent' = TRUE
  /\ UNCHANGED <<made, given, given_up>>

\* Cancelled before it began, or not to be had a thread or a connection.
Skip ==
  /\ phase = "unread"
  /\ phase' = "over"
  /\ UNCHANGED <<lent, made, given, given_up>>

Make ==
  /\ phase = "running"
  /\ made - given < Ahead
  /\ made' = made + 1
  /\ UNCHANGED <<phase, lent, given, given_up>>

Give ==
  /\ given < made
  /\ given' = given + 1
  /\ UNCHANGED <<phase, lent, made, given_up>>

End ==
  /\ phase = "running"
  /\ phase' = "over"
  /\ lent' = FALSE
  /\ UNCHANGED <<made, given, given_up>>

\* The reader gives up, and what waits for it may be thrown away.
GiveUp ==
  /\ given_up' = TRUE
  /\ given' \in {given, made}
  /\ UNCHANGED <<phase, lent, made>>

Next == Begin \/ Skip \/ Make \/ Give \/ End \/ GiveUp

Spec == Init /\ [][Next]_vars
=============================================================================
