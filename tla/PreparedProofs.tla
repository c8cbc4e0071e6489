--------------------------- MODULE PreparedProofs ---------------------------
(***************************************************************************)
(* Proofs about Prepared, for any number of statements, runs and closes: a *)
(* statement that says it is open is pinned, and one that is closed is     *)
(* not, unless the close said `ok` without having reached the session.     *)
(*                                                                         *)
(* What makes them inductive: a call is always on a statement that was     *)
(* made, whose word never comes back up; a close that is giving the id     *)
(* back has already turned the word off; and an id that is pinned under a  *)
(* word that is down has a close on its way to it, or one that missed it.  *)
(***************************************************************************)
EXTENDS Prepared, TLAPS

\* A call is made on a statement that was made, and is settled once answered.
OnMade ==
  \A c \in Calls :
    /\ pc[c] # "new" => on[c] \in Prepareds /\ made[on[c]] = "made"
    /\ answer[c] # "none" => pc[c] = "settled"

\* A statement is open, or pinned, only once it has been made.
MadeFirst ==
  \A p \in Prepareds : open[p] \/ p \in pinned => made[p] = "made"

\* The close that gives an id back has turned the word off before.
OffBeforeGiving ==
  \A c \in Closes : pc[c] = "giving" => ~open[on[c]]

\* The session is gone with its connection, and the ids with it.
GoneWithIt == place = "gone" => pinned = {}

\* A pinned id whose word is down has a close coming, or one that missed it.
PinnedHasClose ==
  \A p \in pinned :
    open[p] \/ \E c \in Closes : /\ on[c] = p
                                 /\ pc[c] = "giving" \/ answer[c] = "missed"

\* The inductive invariant.
IInv ==
  /\ TypeOK
  /\ OnMade
  /\ MadeFirst
  /\ OffBeforeGiving
  /\ GoneWithIt
  /\ OpenIsPinned
  /\ PinnedHasClose

\* It holds at first.
LEMMA InitIInv == Init => IInv
  BY DEF Init, SlotInit, IInv, TypeOK, OnMade, MadeFirst, OffBeforeGiving,
     GoneWithIt, OpenIsPinned, PinnedHasClose, Made, Places, Answers, Calls

\* Every step keeps it.
LEMMA StepIInv == IInv /\ [Next]_vars => IInv'
  <1> SUFFICES ASSUME IInv, [Next]_vars
               PROVE  IInv'
    OBVIOUS
  <1> USE PreparedAssumption DEF IInv, TypeOK, OnMade, MadeFirst,
        OffBeforeGiving, GoneWithIt, OpenIsPinned, Made, Places, Answers,
        Calls, Settle, calls
  <1>1. CASE UNCHANGED vars
    BY <1>1 DEF vars, PinnedHasClose
  <1>2. ASSUME NEW p \in Prepareds, Prepare(p)
        PROVE  IInv'
    BY <1>2 DEF Prepare, PinnedHasClose
  <1>3. ASSUME NEW p \in Prepareds, Compile(p)
        PROVE  IInv'
    <2>1. TypeOK'
      BY <1>3 DEF Compile
    <2>2. OnMade'
      BY <1>3 DEF Compile
    <2>3. MadeFirst'
      BY <1>3 DEF Compile
    <2>4. OffBeforeGiving'
      BY <1>3 DEF Compile
    <2>5. GoneWithIt'
      BY <1>3 DEF Compile
    <2>6. OpenIsPinned'
      BY <1>3 DEF Compile
    <2>7. PinnedHasClose'
      BY <1>3 DEF Compile, PinnedHasClose
    <2> QED
      BY <2>1, <2>2, <2>3, <2>4, <2>5, <2>6, <2>7
  <1>4. ASSUME NEW r \in Runs, NEW p \in Prepareds, Issue(r, p)
        PROVE  IInv'
    BY <1>4 DEF Issue, PinnedHasClose
  <1>5. ASSUME NEW r \in Runs, Run(r)
        PROVE  IInv'
    BY <1>5 DEF Run, NotHere, PinnedHasClose
  <1>6. ASSUME NEW c \in Closes, NEW p \in Prepareds, IssueClose(c, p)
        PROVE  IInv'
    BY <1>6 DEF IssueClose, PinnedHasClose
  <1>7. ASSUME NEW c \in Closes, TurnWordOff(c)
        PROVE  IInv'
    <2>1. TypeOK'
      BY <1>7 DEF TurnWordOff
    <2>2. OnMade'
      BY <1>7 DEF TurnWordOff
    <2>3. MadeFirst'
      BY <1>7 DEF TurnWordOff
    <2>4. OffBeforeGiving'
      BY <1>7 DEF TurnWordOff
    <2>5. GoneWithIt'
      BY <1>7 DEF TurnWordOff
    <2>6. OpenIsPinned'
      BY <1>7 DEF TurnWordOff
    <2>7. PinnedHasClose'
      BY <1>7 DEF TurnWordOff, PinnedHasClose
    <2> QED
      BY <2>1, <2>2, <2>3, <2>4, <2>5, <2>6, <2>7
  <1>8. ASSUME NEW c \in Closes, Unpin(c)
        PROVE  IInv'
    BY <1>8 DEF Unpin, PinnedHasClose
  <1>9. CASE Lend \/ TurnOff
    <2>1. TypeOK'
      BY <1>9 DEF Lend, TakenOut, TurnOff, TurnedOff
    <2>2. OnMade'
      BY <1>9 DEF Lend, TakenOut, TurnOff, TurnedOff
    <2>3. MadeFirst'
      BY <1>9 DEF Lend, TakenOut, TurnOff, TurnedOff
    <2>4. OffBeforeGiving'
      BY <1>9 DEF Lend, TakenOut, TurnOff, TurnedOff
    <2>5. GoneWithIt'
      BY <1>9 DEF Lend, TakenOut, TurnOff, TurnedOff
    <2>6. OpenIsPinned'
      BY <1>9 DEF Lend, TakenOut, TurnOff, TurnedOff
    <2>7. PinnedHasClose'
      BY <1>9 DEF Lend, TakenOut, TurnOff, TurnedOff, PinnedHasClose
    <2> QED
      BY <2>1, <2>2, <2>3, <2>4, <2>5, <2>6, <2>7
  <1>10. CASE Return
    BY <1>10 DEF Return, GivenBack, Dropped, PinnedHasClose
  <1>11. CASE Empty
    BY <1>11 DEF Empty, Emptied, Dropped, PinnedHasClose
  <1> QED
    BY <1>1, <1>2, <1>3, <1>4, <1>5, <1>6, <1>7, <1>8, <1>9, <1>10, <1>11
    DEF Next

\* What is always true of prepared statements and the calls on them.
THEOREM InductiveInvariant == Spec => []IInv
  BY InitIInv, StepIInv, PTL DEF Spec

\* A statement that is open is pinned while its connection lives, and a run is
\* told `unknown` only of one that a close overtook (src/prepared.rs).
THEOREM OpenStaysPinned == Spec => []OpenIsPinned
  <1>1. IInv => OpenIsPinned
    BY DEF IInv
  <1> QED
    BY <1>1, InductiveInvariant, PTL

\* A close that reached the session has given the id back (src/prepared.rs
\* CloseTask), whatever raced it.
THEOREM CloseGivesBack == Spec => []ClosedGivesBack
  <1>1. IInv => ClosedGivesBack
    BY DEF IInv, PinnedHasClose, ClosedGivesBack, BeingClosed
  <1> QED
    BY <1>1, InductiveInvariant, PTL

\* Every word of a prepared statement keeps its type (src/prepared.rs).
THEOREM TypeCorrect == Spec => []TypeOK
  <1>1. IInv => TypeOK
    BY DEF IInv
  <1> QED
    BY <1>1, InductiveInvariant, PTL

-----------------------------------------------------------------------------
\* A prepared statement does with the connection what a stream or a close may do with it and
\* nothing else: every behaviour is one of Slot, which Connection implements
\* (src/prepared.rs).
THEOREM OnASlot == Spec => SlotSpec
  <1>1. Init => SlotInit
    BY DEF Init
  <1>2. [Next]_vars => [SlotNext]_<<alive, place>>
    <2> SUFFICES ASSUME [Next]_vars
                 PROVE  SlotNext \/ UNCHANGED <<alive, place>>
      OBVIOUS
    <2>1. CASE UNCHANGED vars
      BY <2>1 DEF vars
    <2>2. CASE \E p \in Prepareds : Prepare(p) \/ Compile(p)
      BY <2>2 DEF Prepare, Compile
    <2>3. CASE \E r \in Runs : Run(r) \/ \E p \in Prepareds : Issue(r, p)
      BY <2>3 DEF Run, Issue
    <2>4. CASE \E c \in Closes : \/ TurnWordOff(c) \/ Unpin(c)
                                 \/ \E p \in Prepareds : IssueClose(c, p)
      BY <2>4 DEF TurnWordOff, Unpin, IssueClose
    <2>5. CASE Lend \/ Return \/ TurnOff \/ Empty
      BY <2>5 DEF Lend, Return, TurnOff, Empty, SlotNext
    <2> QED
      BY <2>1, <2>2, <2>3, <2>4, <2>5 DEF Next
  <1> QED
    BY <1>1, <1>2, PTL DEF Spec, SlotSpec
=============================================================================
