---------------------------- MODULE CancelProofs ----------------------------
(***************************************************************************)
(* Proofs about Cancel, for any number of statements on a connection: no   *)
(* stop is lost and none is stale.                                         *)
(*                                                                         *)
(* Neither is inductive.  They need to know that whoever is anywhere       *)
(* between the lock and the answer is the owner, so that nobody else puts  *)
(* the interrupt down; that a watched statement is `running` from before   *)
(* it looks at `asked` until it has ended; and that a stop that lands, at  *)
(* any moment after a statement began, lands on that statement.            *)
(***************************************************************************)
EXTENDS Cancel, TLAPS

\* Who is past the lock and has not let go is the owner.
Owning ==
  \A s \in Statements :
    pc[s] = "holding" \/ pc[s] \in Begun => owner = s

\* `running` is up for as long as the statement may be in the engine.
RunningUp ==
  \A s \in Watched : pc[s] \in {"raised", "engine", "leaving"} => running[s]

\* A statement with no signal has nobody to ask.
OnlyWatched ==
  \A s \in Statements : asked[s] \/ listener[s] # "none" => s \in Watched

\* What is up while a statement has begun was raised upon it.
LandedOnIt ==
  \A s \in Statements : pc[s] \in Begun /\ interrupt => landed = s

\* The inductive invariant.
IInv ==
  /\ TypeOK
  /\ Owning
  /\ RunningUp
  /\ OnlyWatched
  /\ LandedOnIt
  /\ StopNotLost

\* It holds at first.
LEMMA InitIInv == Init => IInv
  BY WatchedAssumption DEF Init, IInv, TypeOK, Owning, RunningUp, OnlyWatched,
     LandedOnIt, StopNotLost, Begun, Places, Results

\* Every step keeps it.
LEMMA StepIInv == IInv /\ [Next]_vars => IInv'
  <1> SUFFICES ASSUME IInv, [Next]_vars
               PROVE  IInv'
    OBVIOUS
  <1> USE WatchedAssumption DEF IInv, TypeOK, Owning, RunningUp, OnlyWatched,
        LandedOnIt, StopNotLost, Begun, Places, Results, Goto
  <1>1. CASE UNCHANGED vars
    BY <1>1 DEF vars
  <1>2. ASSUME NEW s \in Statements, NEW fired \in BOOLEAN, Watch(s, fired)
        PROVE  IInv'
    BY <1>2 DEF Watch
  <1>3. ASSUME NEW s \in Statements, Acquire(s)
        PROVE  IInv'
    BY <1>3 DEF Acquire
  <1>4. ASSUME NEW s \in Statements, Began(s)
        PROVE  IInv'
    BY <1>4 DEF Began
  <1>5. ASSUME NEW s \in Statements, Raise(s)
        PROVE  IInv'
    <2>1. TypeOK'
      BY <1>5 DEF Raise
    <2>2. Owning'
      BY <1>5 DEF Raise
    <2>3. RunningUp'
      BY <1>5 DEF Raise
    <2>4. OnlyWatched'
      BY <1>5 DEF Raise
    <2>5. LandedOnIt'
      BY <1>5 DEF Raise
    <2>6. StopNotLost'
      BY <1>5 DEF Raise
    <2> QED
      BY <2>1, <2>2, <2>3, <2>4, <2>5, <2>6
  <1>6. ASSUME NEW s \in Statements, Enter(s)
        PROVE  IInv'
    BY <1>6 DEF Enter
  <1>7. ASSUME NEW s \in Statements, Finish(s) \/ Boundary(s)
        PROVE  IInv'
    BY <1>7 DEF Finish, Boundary
  <1>8. ASSUME NEW s \in Statements, Lower(s)
        PROVE  IInv'
    <2>1. TypeOK'
      BY <1>8 DEF Lower
    <2>2. Owning'
      BY <1>8 DEF Lower
    <2>3. RunningUp'
      BY <1>8 DEF Lower
    <2>4. OnlyWatched'
      BY <1>8 DEF Lower
    <2>5. LandedOnIt'
      BY <1>8 DEF Lower
    <2>6. StopNotLost'
      BY <1>8 DEF Lower
    <2> QED
      BY <2>1, <2>2, <2>3, <2>4, <2>5, <2>6
  <1>9. ASSUME NEW s \in Statements, Clear(s)
        PROVE  IInv'
    BY <1>9 DEF Clear
  <1>10. ASSUME NEW s \in Statements, Classify(s)
         PROVE  IInv'
    BY <1>10 DEF Classify
  <1>11. ASSUME NEW s \in Statements, Release(s)
         PROVE  IInv'
    BY <1>11 DEF Release
  <1>12. ASSUME NEW s \in Statements, Fire(s)
         PROVE  IInv'
    BY <1>12 DEF Fire
  <1>13. ASSUME NEW s \in Statements, Look(s)
         PROVE  IInv'
    BY <1>13 DEF Look
  <1>14. ASSUME NEW s \in Statements, Stop(s)
         PROVE  IInv'
    BY <1>14 DEF Stop
  <1> QED
    BY <1>1, <1>2, <1>3, <1>4, <1>5, <1>6, <1>7, <1>8, <1>9, <1>10, <1>11,
       <1>12, <1>13, <1>14 DEF Next, OwnStep, ListenerStep

\* What is always true of a connection and its signals.
THEOREM InductiveInvariant == Spec => []IInv
  BY InitIInv, StepIInv, PTL DEF Spec

\* Every word keeps its type (src/cancel.rs Shared).
THEOREM TypeCorrect == Spec => []TypeOK
  <1>1. IInv => TypeOK
    BY DEF IInv
  <1> QED
    BY <1>1, InductiveInvariant, PTL

\* A statement in the engine whose signal fired has the interrupt up, or a
\* listener on its way to raise it (src/cancel.rs ask, enter).
THEOREM NoStopIsLost == Spec => []StopNotLost
  <1>1. IInv => StopNotLost
    BY DEF IInv
  <1> QED
    BY <1>1, InductiveInvariant, PTL

\* An interrupt that is up while the engine runs a statement was raised after
\* that statement began (src/conn.rs began, src/cancel.rs leave).
THEOREM NoStopIsStale == Spec => []NoStaleStop
  <1>1. IInv => NoStaleStop
    BY DEF IInv, LandedOnIt, NoStaleStop, Begun
  <1> QED
    BY <1>1, InductiveInvariant, PTL
=============================================================================
