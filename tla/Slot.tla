-------------------------------- MODULE Slot --------------------------------
(***************************************************************************)
(* What a Connection promises the objects made from it, which is all that  *)
(* a transaction, a prepared statement or an appender can see of it: the   *)
(* engine connection is in its slot, lent to a stream, or gone for good.   *)
(* A statement runs, whole, while it is in the slot.  Connection           *)
(* implements this (`ImplementsSlot`).                                     *)
(***************************************************************************)

VARIABLES
  alive,   \* whether no close has come
  place    \* where the engine connection is: "slot", "lent" or "gone"

SlotInit ==
  /\ alive = TRUE
  /\ place = "slot"

\* A stream takes it out of the slot.
TakenOut ==
  /\ place = "slot"
  /\ place' = "lent"
  /\ UNCHANGED alive

\* A stream puts it back, or drops it when a close came in the meantime.
GivenBack ==
  /\ place = "lent"
  /\ place' = IF alive THEN "slot" ELSE "gone"
  /\ UNCHANGED alive

\* A close turns the connection off, once.
TurnedOff ==
  /\ alive
  /\ alive' = FALSE
  /\ UNCHANGED place

\* The close that turned it off drops what it finds in the slot.
Emptied ==
  /\ ~alive
  /\ place = "slot"
  /\ place' = "gone"
  /\ UNCHANGED alive

\* What `with` answers a statement that finds the slot empty.
NotHere == IF alive THEN "streaming" ELSE "closed"

SlotNext == TakenOut \/ GivenBack \/ TurnedOff \/ Emptied

SlotSpec == SlotInit /\ [][SlotNext]_<<alive, place>>
=============================================================================
