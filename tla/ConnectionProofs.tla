-------------------------- MODULE ConnectionProofs --------------------------
(***************************************************************************)
(* The safety invariants of Connection, for any number of statements,      *)
(* streams, closes and disposals, and wherever the engine may panic.       *)
(*                                                                         *)
(* None of them is inductive alone.  What carries them is who holds the    *)
(* mutex (`LockHeld`), that the slot keeps its connection while a          *)
(* statement is inside it, and what a poisoned mutex implies: it poisons   *)
(* with the connection in the slot, and nobody gets to move it after.      *)
(***************************************************************************)
EXTENDS Connection, TLAPS

Critical == {"holding", "ran", "replacing", "taking"}

\* Whoever is between taking the mutex and letting go of it is its holder.
LockHeld == \A a \in Actors : pc[a] \in Critical <=> lock = a

\* Each kind of actor has its own places.
Kinds ==
  /\ \A t \in Statements : pc[t] \in {"new", "queued", "holding", "ran", "done"}
  /\ \A s \in Streams : pc[s] \notin {"ran", "closing", "taking"}
  /\ \A c \in Closers : pc[c] \in {"new", "queued", "closing", "taking", "done"}

\* A statement that ran found the connection in the slot and it is still there.
RunsInSlot == \A t \in Statements : pc[t] = "ran" => slot

\* The mutex is poisoned with the connection in the slot and nobody inside.
PoisonedInSlot == poisoned => slot /\ lock = NoOne

\* Whoever is emptying the slot has turned `alive` off first.
ClosingIsOff == Closing => ~alive

\* A mutex is poisoned by a panic of the engine and by nothing else.
PoisonedIsBroken == poisoned => broken

(***************************************************************************)
(* `in_txn` lags behind the session only from the end of a statement or a  *)
(* scan to its publication.                                                *)
(***************************************************************************)
Published ==
  \/ broken
  \/ inTxn = session
  \/ \E t \in Statements : pc[t] = "ran"
  \/ \E s \in Streams : pc[s] = "scanned"

IInv ==
  /\ TypeOK
  /\ Kinds
  /\ LockHeld
  /\ RunsInSlot
  /\ PoisonedInSlot
  /\ PoisonedIsBroken
  /\ ClosingIsOff
  /\ OnePlace
  /\ ClosedStaysClosed
  /\ Published

-----------------------------------------------------------------------------
LEMMA InitIInv == Init => IInv
  BY ActorsAssumption DEF Init, IInv, TypeOK, Kinds, LockHeld, RunsInSlot,
     PoisonedInSlot, PoisonedIsBroken, ClosingIsOff, OnePlace,
     ClosedStaysClosed, Published, Has, Lent, Closing, Critical, Actors,
     Closers, Places, Answers

LEMMA NextIInv == IInv /\ [Next]_vars => IInv'
<1> SUFFICES ASSUME IInv, [Next]_vars PROVE IInv'
  OBVIOUS
<1> USE ActorsAssumption DEF Actors, Closers, Goto, Settle, Places, Answers,
        Critical, Has, Lent, Closing, IInv, TypeOK, Kinds, LockHeld,
        RunsInSlot, PoisonedInSlot, PoisonedIsBroken, ClosingIsOff, OnePlace,
        ClosedStaysClosed, Published
<1>1. ASSUME NEW t \in Statements, Call(t) PROVE IInv'
  BY <1>1 DEF Call
<1>2. ASSUME NEW t \in Statements, Lock(t) PROVE IInv'
  BY <1>2 DEF Lock
<1>3. ASSUME NEW t \in Statements, FindEmpty(t) PROVE IInv'
  BY <1>3 DEF FindEmpty
<1>4. ASSUME NEW t \in Statements, Run(t) PROVE IInv'
  BY <1>4 DEF Run
<1>5. ASSUME NEW t \in Statements, Publish(t) PROVE IInv'
  BY <1>5 DEF Publish
<1>6. ASSUME NEW t \in Statements, PanicStatement(t) PROVE IInv'
  BY <1>6 DEF PanicStatement
<1>7. ASSUME NEW s \in Streams, Open(s) PROVE IInv'
  BY <1>7 DEF Open
<1>8. ASSUME NEW s \in Streams, Read(s) PROVE IInv'
  BY <1>8 DEF Read
<1>9. ASSUME NEW s \in Streams, Lock(s) PROVE IInv'
  BY <1>9 DEF Lock
<1>10. ASSUME NEW s \in Streams, FindEmpty(s) PROVE IInv'
  BY <1>10 DEF FindEmpty
<1>11. ASSUME NEW s \in Streams, Take(s) PROVE IInv'
  <2> USE <1>11 DEF Take
  <2>1. TypeOK'
    OBVIOUS
  <2>1a. Kinds' /\ LockHeld'
    OBVIOUS
  <2>2. RunsInSlot' /\ PoisonedInSlot' /\ PoisonedIsBroken' /\ ClosingIsOff'
    OBVIOUS
  <2>3. ~Lent
    OBVIOUS
  <2>4. Has(s)'
    OBVIOUS
  <2>5. OnePlace' /\ ClosedStaysClosed'
    BY <2>3, <2>4
  <2>6. Published'
    OBVIOUS
  <2> QED
    BY <2>1, <2>1a, <2>2, <2>5, <2>6
<1>12. ASSUME NEW s \in Streams, Scan(s) PROVE IInv'
  <2> USE <1>12 DEF Scan
  <2>1. TypeOK' /\ Kinds' /\ LockHeld'
    OBVIOUS
  <2>2. RunsInSlot' /\ PoisonedInSlot' /\ PoisonedIsBroken' /\ ClosingIsOff'
    OBVIOUS
  <2>3. \A s1 \in Streams : Has(s1)' = Has(s1)
    OBVIOUS
  <2>4. OnePlace' /\ ClosedStaysClosed'
    BY <2>3
  <2>5. Published'
    <3>1. pc'[s] = "scanned"
      OBVIOUS
    <3> QED
      BY <3>1
  <2> QED
    BY <2>1, <2>2, <2>4, <2>5
<1>13. ASSUME NEW s \in Streams, SkipScan(s) PROVE IInv'
  BY <1>13 DEF SkipScan
<1>14. ASSUME NEW s \in Streams, PublishScan(s) PROVE IInv'
  BY <1>14 DEF PublishScan
<1>15. ASSUME NEW s \in Streams, PanicScan(s) PROVE IInv'
  BY <1>15 DEF PanicScan
<1>16. ASSUME NEW s \in Streams, LockReturn(s) PROVE IInv'
  BY <1>16 DEF LockReturn
<1>17. ASSUME NEW s \in Streams, PutBack(s) PROVE IInv'
  BY <1>17 DEF PutBack
<1>18. ASSUME NEW c \in Closes, SwapClose(c) PROVE IInv'
  <2> USE <1>18 DEF SwapClose, Swap
  <2>1. TypeOK'
    OBVIOUS
  <2>1a. Kinds'
    OBVIOUS
  <2>1b. LockHeld'
    OBVIOUS
  <2>2. RunsInSlot' /\ PoisonedInSlot' /\ PoisonedIsBroken' /\ ClosingIsOff'
    OBVIOUS
  <2>3. OnePlace' /\ Published'
    OBVIOUS
  <2>4. ClosedStaysClosed'
    <3>1. CASE alive
      <4>1. pc'[c] = "closing"
        BY <3>1
      <4> QED
        BY <4>1
    <3>2. CASE ~alive
      BY <3>2
    <3> QED
      BY <3>1, <3>2
  <2> QED
    BY <2>1, <2>1a, <2>1b, <2>2, <2>3, <2>4
<1>19. ASSUME NEW c \in Disposals, Dispose(c) PROVE IInv'
  BY <1>19 DEF Dispose
<1>20. ASSUME NEW c \in Disposals, SwapDisposal(c) PROVE IInv'
  <2> USE <1>20 DEF SwapDisposal, Swap
  <2>1. TypeOK'
    OBVIOUS
  <2>1a. Kinds'
    OBVIOUS
  <2>1b. LockHeld'
    OBVIOUS
  <2>2. RunsInSlot' /\ PoisonedInSlot' /\ PoisonedIsBroken' /\ ClosingIsOff'
    OBVIOUS
  <2>3. OnePlace' /\ Published'
    OBVIOUS
  <2>4. ClosedStaysClosed'
    <3>1. CASE alive
      <4>1. pc'[c] = "closing"
        BY <3>1
      <4> QED
        BY <4>1
    <3>2. CASE ~alive
      BY <3>2
    <3> QED
      BY <3>1, <3>2
  <2> QED
    BY <2>1, <2>1a, <2>1b, <2>2, <2>3, <2>4
<1>21. ASSUME NEW c \in Closers, LockClose(c) PROVE IInv'
  BY <1>21 DEF LockClose, Unblock
<1>22. ASSUME NEW c \in Closers, TakeOut(c) PROVE IInv'
  <2> USE <1>22 DEF TakeOut, Unblock
  <2>1. TypeOK'
    OBVIOUS
  <2>2. Kinds'
    OBVIOUS
  <2>3. LockHeld'
    OBVIOUS
  <2>4. ~poisoned /\ ~alive
    OBVIOUS
  <2>5. RunsInSlot' /\ PoisonedInSlot' /\ PoisonedIsBroken' /\ ClosingIsOff'
    BY <2>4
  <2>6. OnePlace' /\ ClosedStaysClosed' /\ Published'
    BY <2>4
  <2> QED
    BY <2>1, <2>2, <2>3, <2>5, <2>6
<1>23. CASE UNCHANGED vars
  BY <1>23 DEF vars
<1> QED
  BY <1>1, <1>2, <1>3, <1>4, <1>5, <1>6, <1>7, <1>8, <1>9, <1>10, <1>11, <1>12,
     <1>13, <1>14, <1>15, <1>16, <1>17, <1>18, <1>19, <1>20, <1>21, <1>22, <1>23
     DEF Next, StatementStep, StreamStep, CloserStep

-----------------------------------------------------------------------------
(***************************************************************************)
(* The inductive invariant holds in every reachable state, so `with`,      *)
(* `Borrowed` and the two closes keep it between them.                     *)
(***************************************************************************)
THEOREM InductiveInvariant == Spec => []IInv
  BY InitIInv, NextIInv, PTL DEF Spec

(***************************************************************************)
(* Every word beside the lock, every place and every answer stay what they *)
(* are meant to be.                                                        *)
(***************************************************************************)
THEOREM TypeCorrect == Spec => []TypeOK
<1>1. IInv => TypeOK
  BY DEF IInv
<1> QED
  BY InductiveInvariant, <1>1, PTL

(***************************************************************************)
(* The engine connection is in one place: `Borrowed::take`, its drop and   *)
(* the closes never leave it in the slot and in a stream's hands at once,  *)
(* nor with two streams, nor, while the connection is open, nowhere, which *)
(* is what makes STREAMING the right answer of `with` to an empty slot.    *)
(***************************************************************************)
THEOREM ConnectionInOnePlace == Spec => []OnePlace
<1>1. IInv => OnePlace
  BY DEF IInv
<1> QED
  BY InductiveInvariant, <1>1, PTL

(***************************************************************************)
(* No drop of `Borrowed` puts the connection back after a close.           *)
(***************************************************************************)
THEOREM CloseIsFinal == Spec => []ClosedStaysClosed
<1>1. IInv => ClosedStaysClosed
  BY DEF IInv
<1> QED
  BY InductiveInvariant, <1>1, PTL

(***************************************************************************)
(* Nobody holding the mutex and the connection in its slot, no statement   *)
(* and no scan is short of publishing, so `in_txn` is the session's word.  *)
(***************************************************************************)
THEOREM TransactionWord == Spec => []TxnWord
<1>1. IInv => TxnWord
  <2> SUFFICES ASSUME IInv, slot, lock = NoOne, ~broken PROVE inTxn = session
    BY DEF TxnWord
  <2>1. \A t \in Statements : pc[t] # "ran"
    BY ActorsAssumption DEF IInv, LockHeld, Critical, Actors
  <2>2. \A s \in Streams : pc[s] # "scanned"
    BY DEF IInv, OnePlace, Lent, Has
  <2> QED
    BY <2>1, <2>2 DEF IInv, Published
<1> QED
  BY InductiveInvariant, <1>1, PTL

(***************************************************************************)
(* A mutex is poisoned with the connection in its slot and nobody inside,  *)
(* so no statement and no stream is running on what a panic left there.    *)
(***************************************************************************)
THEOREM NothingAfterPanic == Spec => []PanicIsTheLast
<1>1. IInv => PanicIsTheLast
  <2> SUFFICES ASSUME IInv, poisoned
               PROVE  /\ \A t \in Statements : pc[t] # "ran"
                      /\ \A s \in Streams : pc[s] \notin {"scanning", "scanned"}
    BY DEF PanicIsTheLast
  <2>1. slot /\ lock = NoOne
    BY DEF IInv, PoisonedInSlot
  <2>2. \A t \in Statements : pc[t] # "ran"
    BY <2>1, ActorsAssumption DEF IInv, LockHeld, Critical, Actors
  <2>3. \A s \in Streams : ~Has(s)
    BY <2>1 DEF IInv, OnePlace, Lent
  <2> QED
    BY <2>2, <2>3 DEF Has
<1> QED
  BY InductiveInvariant, <1>1, PTL

(***************************************************************************)
(* While a statement is inside `with` nothing empties the slot under it: a *)
(* close and a stream both need the mutex the statement holds.             *)
(***************************************************************************)
THEOREM StatementKeepsConnection == Spec => NeverFromUnder
<1> DEFINE Inside(t) == pc[t] \in {"holding", "ran"}
           Kept == \A t \in Statements : Inside(t) /\ slot => slot'
<1>1. ASSUME IInv, Next PROVE Kept
  <2> SUFFICES ASSUME NEW t \in Statements, Inside(t), slot PROVE slot'
    OBVIOUS
  <2>1. lock = t
    BY <1>1 DEF IInv, LockHeld, Critical, Actors
  <2> USE ActorsAssumption, <2>1 DEF Actors, Closers
  <2>2. \A s \in Streams : ~Take(s) /\ ~PutBack(s)
    BY <1>1 DEF Take, PutBack, IInv, LockHeld, Critical
  <2>3. \A c \in Closers : ~TakeOut(c)
    BY <1>1 DEF TakeOut, IInv, LockHeld, Critical
  <2> QED
    BY <1>1, <2>2, <2>3 DEF Next, StatementStep, StreamStep, CloserStep,
       Call, Lock, FindEmpty, Run, Publish, PanicStatement, Open, Read, Scan,
       SkipScan, PublishScan, PanicScan, LockReturn, Dispose, SwapClose,
       SwapDisposal, Swap, LockClose
<1>2. IInv /\ [Next]_vars => [Kept]_vars
  BY <1>1
<1> QED
  BY InductiveInvariant, <1>2, PTL DEF Spec, NeverFromUnder

-----------------------------------------------------------------------------
(***************************************************************************)
(* A connection implements Slot: the engine connection only moves from the *)
(* slot to a stream and back, or away for good after a close, whatever     *)
(* `with`, `Borrowed` and the two closes do at once.                       *)
(***************************************************************************)
THEOREM ConnectionImplementsSlot == Spec => ImplementsSlot
<1> DEFINE Place == IF slot THEN "slot" ELSE IF Lent THEN "lent" ELSE "gone"
           Quiet == UNCHANGED <<alive, slot>> /\ Lent' = Lent
           Moves == [Promise!SlotNext]_<<alive, Place>>
<1>1. Init => Promise!SlotInit
  BY DEF Init, Promise!SlotInit
<1>2. ASSUME Quiet PROVE Moves
  BY <1>2
<1> USE ActorsAssumption DEF Actors, Closers, Goto, Settle
<1>3. ASSUME IInv, NEW s \in Streams, Take(s) PROVE Moves
  <2>1. Has(s)' /\ slot /\ ~slot' /\ alive' = alive
    BY <1>3 DEF Take, Has, IInv, TypeOK
  <2> QED
    BY <2>1 DEF Promise!SlotNext, Promise!TakenOut, Lent
<1>4. ASSUME IInv, NEW s \in Streams, PutBack(s) PROVE Moves
  <2>1. Has(s) /\ ~slot
    BY <1>4 DEF PutBack, Has, IInv, OnePlace, Lent
  <2>2. ~Lent' /\ slot' = alive /\ alive' = alive
    BY <1>4, <2>1 DEF PutBack, Has, Lent, IInv, TypeOK, OnePlace
  <2> QED
    BY <2>1, <2>2 DEF Promise!SlotNext, Promise!GivenBack, Lent, IInv, TypeOK
<1>5. ASSUME IInv, NEW c \in Closers, Swap(c), pc[c] \in {"new", "queued"}
      PROVE Moves
  <2>1. Lent' = Lent
    BY <1>5 DEF Swap, Lent, Has, IInv, TypeOK, Places
  <2>2. alive' = FALSE /\ slot' = slot
    BY <1>5 DEF Swap
  <2> QED
    BY <1>5, <2>1, <2>2 DEF Promise!SlotNext, Promise!TurnedOff, IInv, TypeOK
<1>6. ASSUME IInv, NEW c \in Closers, TakeOut(c) PROVE Moves
  <2>1. Lent' = Lent
    BY <1>6 DEF TakeOut, Lent, Has, IInv, TypeOK, Places
  <2>2. ~alive /\ ~slot' /\ alive' = alive
    BY <1>6 DEF TakeOut, IInv, ClosingIsOff, Closing
  <2>3. slot => ~Lent
    BY <1>6 DEF IInv, OnePlace
  <2> QED
    BY <2>1, <2>2, <2>3 DEF Promise!SlotNext, Promise!Emptied
<1>7. ASSUME IInv, NEW a \in Actors, Lock(a) \/ FindEmpty(a) PROVE Quiet
  BY <1>7 DEF Lock, FindEmpty, Lent, Has, IInv, TypeOK, Places
<1>8. ASSUME IInv, NEW t \in Statements,
             Call(t) \/ Run(t) \/ Publish(t) \/ PanicStatement(t)
      PROVE Quiet
  BY <1>8 DEF Call, Run, Publish, PanicStatement, Lent, Has, IInv, TypeOK, Places
<1>9. ASSUME IInv, NEW s \in Streams,
             \/ Open(s) \/ Read(s) \/ Scan(s) \/ SkipScan(s)
             \/ PublishScan(s) \/ PanicScan(s)
      PROVE Quiet
  <2>1. UNCHANGED <<alive, slot>>
    BY <1>9 DEF Open, Read, Scan, SkipScan, PublishScan, PanicScan
  <2>2. \A x \in Streams : Has(x)' = Has(x)
    BY <1>9 DEF Open, Read, Scan, SkipScan, PublishScan, PanicScan, Has, IInv,
       TypeOK
  <2> QED
    BY <2>1, <2>2 DEF Lent
<1>10. ASSUME IInv, NEW s \in Streams, LockReturn(s) PROVE Quiet
  <2>1. Has(s) /\ ~poisoned
    BY <1>10 DEF LockReturn, Has, IInv, OnePlace, Lent, PoisonedInSlot
  <2>2. \A x \in Streams : Has(x)' = Has(x)
    BY <1>10, <2>1 DEF LockReturn, Has, IInv, TypeOK
  <2> QED
    BY <1>10, <2>2 DEF LockReturn, Lent
<1>11. ASSUME IInv, NEW c \in Closers, LockClose(c) PROVE Quiet
  BY <1>11 DEF LockClose, Lent, Has, IInv, TypeOK, Places
<1>12. ASSUME IInv, NEW c \in Disposals, Dispose(c) PROVE Quiet
  BY <1>12 DEF Dispose, Lent, Has, IInv, TypeOK, Places
<1>13. ASSUME UNCHANGED vars PROVE Quiet
  BY <1>13 DEF vars, Lent, Has
<1>14. IInv /\ [Next]_vars => Moves
  <2> SUFFICES ASSUME IInv, [Next]_vars PROVE Moves
    OBVIOUS
  <2> USE <1>2
  <2>1. CASE \E t \in Statements : Call(t) \/ StatementStep(t)
    BY <2>1, <1>7, <1>8 DEF StatementStep
  <2>2. CASE \E s \in Streams : Open(s) \/ Read(s) \/ StreamStep(s)
    BY <2>2, <1>3, <1>4, <1>7, <1>9, <1>10 DEF StreamStep
  <2>3. CASE \E c \in Closes : SwapClose(c)
    BY <2>3, <1>5 DEF SwapClose
  <2>4. CASE \E c \in Disposals : Dispose(c) \/ SwapDisposal(c)
    BY <2>4, <1>5, <1>12 DEF SwapDisposal
  <2>5. CASE \E c \in Closers : CloserStep(c)
    BY <2>5, <1>6, <1>11 DEF CloserStep
  <2>6. CASE UNCHANGED vars
    BY <2>6, <1>13
  <2> QED
    BY <2>1, <2>2, <2>3, <2>4, <2>5, <2>6 DEF Next
<1> QED
  BY <1>1, <1>14, InductiveInvariant, PTL
     DEF Spec, ImplementsSlot, Promise!SlotSpec
=============================================================================
