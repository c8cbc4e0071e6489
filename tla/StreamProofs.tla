---------------------------- MODULE StreamProofs ----------------------------
(***************************************************************************)
(* Proofs about Stream, for any depth of the queue, any number of batches  *)
(* and any number of concurrent next() and cancel() calls: when a cancel   *)
(* resolves, the statement is over and the connection is free; batches     *)
(* come out in order; a reader that is told the end has had every batch;   *)
(* and the stream implements BatchStream.  And about Iteration, which is   *)
(* Stream with one reader: a loop that is over has left the connection to  *)
(* the next statement, and the summary of a statement that ended well is   *)
(* there to be read.                                                       *)
(*                                                                         *)
(* A cancel resolves once it took the statement before anybody began it,   *)
(* or drained the pipe to its end.  So the first part is about the end:    *)
(* `done` is never up before the statement is over, the chunk that says    *)
(* how it ended is in the queue only after the connection was given back,  *)
(* and neither can be followed by a beginning, because whoever begins has  *)
(* taken `start`, which nothing puts back.  The others rest on a count: a  *)
(* batch that was pushed has been read, or is in the queue at its turn.    *)
(*                                                                         *)
(* What is said of Spec is said of every stream: those proofs cite         *)
(* StreamAssumption and definitions of Stream alone.  The one reader and   *)
(* the generator that lives on, IterationAssumption, come in where the     *)
(* loop does, at the end.                                                  *)
(***************************************************************************)
EXTENDS Iteration, TLAPS

\* What may be in the queue: a batch, or what the statement ended as.
Chunks == {Rows(n) : n \in Nat} \cup {Done(r) : r \in Outcomes \cup {"none"}}

\* Where a call may be.
Places == {"idle", "called", "spawning", "pulling", "draining", "storing",
           "computed", "settled"}

\* The types the argument needs; TypeOK has all of them.
Shapes ==
  /\ queue \in Seq(Chunks)
  /\ made \in Nat
  /\ how \in Outcomes \cup {"none"}
  /\ pc \in [Callers -> Places]
  /\ start \in BOOLEAN /\ done \in BOOLEAN
  /\ closed \in BOOLEAN /\ held \in BOOLEAN
  /\ \A c \in Cancellers : pc[c] \notin {"spawning", "pulling"}

\* The queue is closed by the cursor's drop, and the engine connection is with
\* the thread for as long as the statement runs.
InHand ==
  /\ held <=> ~closed
  /\ conn = "thread" <=> Running

\* The statement is begun once: by whoever took it out of `start`.
BegunOnce ==
  /\ start => worker = "none" /\ ~done
  /\ \A c \in Callers :
       pc[c] = "spawning" => ~start /\ worker = "none" /\ ~done
  /\ \A c, d \in Callers : pc[c] = "spawning" /\ pc[d] = "spawning" => c = d

\* The statement is over, and there is nobody left to begin it.
Quiet ==
  /\ ~start
  /\ \A c \in Callers : pc[c] # "spawning"
  /\ worker \in {"none", "finishing", "over"}

\* Whoever heard the end, from the queue or from `done`, heard it of a
\* statement that is over.
EndIsQuiet ==
  /\ done => worker \in {"none", "over"}
  /\ \A i \in 1 .. Len(queue) :
       ~IsRows(queue[i]) => worker \in {"finishing", "over"}
  /\ \A c \in Callers : pc[c] = "storing" => Quiet
  /\ held => \A c \in Cancellers : pc[c] \in {"computed", "settled"} => Quiet

\* The inductive invariant.
IInv ==
  /\ Shapes
  /\ InHand
  /\ BegunOnce
  /\ EndIsQuiet

\* It holds at first.
LEMMA InitIInv == Init => IInv
  <1> SUFFICES ASSUME Init
               PROVE  IInv
    OBVIOUS
  <1>1. <<>> \in Seq(Chunks)
    OBVIOUS
  <1>2. Shapes
    BY <1>1, StreamAssumption DEF Init, Shapes, Places, Callers
  <1>3. InHand
    BY DEF Init, InHand, Running
  <1>5. BegunOnce
    <2>1. start => ~done
      <3>1. PICK refused \in BOOLEAN : start = (~refused) /\ done = refused
        BY Zenon DEF Init
      <3>2. CASE refused = TRUE
        BY <3>1, <3>2, Zenon
      <3>3. CASE refused = FALSE
        BY <3>1, <3>3, Zenon
      <3> QED
        BY <3>1, <3>2, <3>3
    <2>2. worker = "none" /\ \A c \in Callers : pc[c] # "spawning"
      BY DEF Init
    <2> QED
      BY <2>1, <2>2 DEF BegunOnce
  <1>4. EndIsQuiet
    BY StreamAssumption DEF Init, EndIsQuiet, Quiet, Callers
  <1> QED
    BY <1>2, <1>3, <1>4, <1>5 DEF IInv

\* Every step keeps it.
LEMMA StepIInv == IInv /\ [Next]_vars => IInv'
  <1> SUFFICES ASSUME IInv, [Next]_vars
               PROVE  IInv'
    OBVIOUS
  <1>0. Shapes /\ InHand /\ BegunOnce /\ EndIsQuiet
    BY DEF IInv
  <1> USE StreamAssumption DEF Shapes, Callers
  <1>1. CASE UNCHANGED vars
    BY <1>0, <1>1 DEF vars, pipe, live, IInv, Places, InHand, Running,
       BegunOnce, EndIsQuiet, Quiet
  <1>2. ASSUME NEW c \in Readers, Next_(c)
        PROVE  IInv'
    BY <1>0, <1>2 DEF Next_, Goto, pipe, live, IInv, Places, InHand, Running,
       BegunOnce, EndIsQuiet, Quiet
  <1>3. ASSUME NEW c \in Readers, Begin(c)
        PROVE  IInv'
    BY <1>0, <1>3 DEF Begin, Goto, pipe, live, IInv, Places, InHand, Running,
       BegunOnce, EndIsQuiet, Quiet
  <1>4. ASSUME NEW c \in Readers, Spawn(c)
        PROVE  IInv'
    BY <1>0, <1>4 DEF Spawn, Goto, pipe, live, IInv, Places, InHand, Running,
       BegunOnce, EndIsQuiet, Quiet
  <1>5. ASSUME NEW c \in Readers, SpawnFails(c)
        PROVE  IInv'
    BY <1>0, <1>5 DEF SpawnFails, Goto, Wake, pipe, live, IInv, Places,
       InHand, Running, BegunOnce, EndIsQuiet, Quiet
  <1>6. ASSUME NEW c \in Callers, RecvWait(c)
        PROVE  IInv'
    BY <1>0, <1>6 DEF RecvWait, Receiving, pipe, live, IInv, Places, InHand,
       Running, BegunOnce, EndIsQuiet, Quiet
  <1>7. ASSUME NEW c \in Callers, RecvEnd(c)
        PROVE  IInv'
    BY <1>0, <1>7 DEF RecvEnd, Receiving, Over, Goto, pipe, live, IInv,
       Places, InHand, Running, BegunOnce, EndIsQuiet, Quiet
  <1>8. ASSUME NEW c \in Callers, RecvRows(c)
        PROVE  IInv'
    BY <1>0, <1>8 DEF RecvRows, Receiving, Wake, Goto, pipe, live, IInv,
       Places, InHand, Running, BegunOnce, EndIsQuiet, Quiet
  <1>9. ASSUME NEW c \in Callers, RecvDone(c)
        PROVE  IInv'
    BY <1>0, <1>9 DEF RecvDone, Receiving, Wake, Goto, pipe, live, IInv,
       Places, InHand, Running, BegunOnce, EndIsQuiet, Quiet
  <1>10. ASSUME NEW c \in Callers, Store(c)
        PROVE  IInv'
    BY <1>0, <1>10 DEF Store, Goto, pipe, live, IInv, Places, InHand, Running,
       BegunOnce, EndIsQuiet, Quiet
  <1>11. ASSUME NEW c \in Readers, Resolve(c)
        PROVE  IInv'
    BY <1>0, <1>11 DEF Resolve, Goto, pipe, live, IInv, Places, InHand,
       Running, BegunOnce, EndIsQuiet, Quiet
  <1>12. ASSUME NEW c \in Cancellers, Cancel(c)
        PROVE  IInv'
    BY <1>0, <1>12 DEF Cancel, Goto, pipe, live, IInv, Places, InHand,
       Running, BegunOnce, EndIsQuiet, Quiet
  <1>13. ASSUME NEW c \in Cancellers, TakeStart(c)
        PROVE  IInv'
    BY <1>0, <1>13 DEF TakeStart, Goto, Wake, pipe, live, IInv, Places,
       InHand, Running, BegunOnce, EndIsQuiet, Quiet
  <1>14. ASSUME NEW c \in Cancellers, ReleaseWatch(c)
        PROVE  IInv'
    BY <1>0, <1>14 DEF ReleaseWatch, Goto, pipe, live, IInv, Places, InHand,
       Running, BegunOnce, EndIsQuiet, Quiet
  <1>15. CASE Drop
    <2>1. Shapes'
      <3>1. <<>> \in Seq(Chunks)
        OBVIOUS
      <3> QED
        BY <1>0, <1>15, <3>1 DEF Drop
    <2>2. InHand'
      BY <1>0, <1>15 DEF Drop, Wake, pipe, live, InHand, Running, BegunOnce
    <2>3. BegunOnce'
      BY <1>0, <1>15 DEF Drop, Wake, pipe, live, BegunOnce, EndIsQuiet, Quiet
    <2>4. EndIsQuiet'
      BY <1>0, <1>15 DEF Drop, Wake, pipe, live, InHand, BegunOnce,
         EndIsQuiet, Quiet
    <2> QED
      BY <2>1, <2>2, <2>3, <2>4 DEF IInv
  <1>16. CASE Close
    BY <1>0, <1>16 DEF Close, pipe, live, IInv, Places, InHand, Running,
       BegunOnce, EndIsQuiet, Quiet
  <1>17. CASE EmptySlot
    BY <1>0, <1>17 DEF EmptySlot, pipe, live, IInv, Places, InHand, Running,
       BegunOnce, EndIsQuiet, Quiet
  <1>18. CASE Borrow
    BY <1>0, <1>18 DEF Borrow, pipe, live, IInv, Places, InHand, Running,
       BegunOnce, EndIsQuiet, Quiet
  <1>19. CASE BorrowFails
    BY <1>0, <1>19 DEF BorrowFails, Outcomes, pipe, live, IInv, Places,
       InHand, Running, BegunOnce, EndIsQuiet, Quiet
  <1>20. CASE MakeBatch
    BY <1>0, <1>20 DEF MakeBatch, pipe, live, IInv, Places, InHand, Running,
       BegunOnce, EndIsQuiet, Quiet
  <1>21. CASE EndScan
    BY <1>0, <1>21 DEF EndScan, pipe, live, IInv, Places, InHand, Running,
       BegunOnce, EndIsQuiet, Quiet
  <1>22. CASE Hand
    BY <1>0, <1>22 DEF Hand, pipe, live, IInv, Places, InHand, Running,
       BegunOnce, EndIsQuiet, Quiet
  <1>23. CASE GiveBack
    BY <1>0, <1>23 DEF GiveBack, Back, pipe, live, IInv, Places, InHand,
       Running, BegunOnce, EndIsQuiet, Quiet
  <1>24. CASE Push
    <2>1. Shapes'
      <3>1. Rows(made) \in Chunks /\ Done(how) \in Chunks
        BY <1>0 DEF Chunks
      <3> QED
        BY <1>0, <1>24, <3>1 DEF Push, Queued, pipe, live
    <2>2. InHand'
      BY <1>0, <1>24 DEF Push, Sending, Full, Queued, Wake, pipe, live,
         InHand, Running, BegunOnce
    <2>3. BegunOnce'
      BY <1>0, <1>24 DEF Push, Sending, Full, Queued, Wake, pipe, live,
         BegunOnce, EndIsQuiet, Quiet
    <2>4. EndIsQuiet'
      <3>1. IsRows(Rows(made))
        BY DEF IsRows, Rows
      <3>2. CASE worker = "telling"
        BY <1>0, <1>24, <3>2 DEF Push, Sending, Full, Queued, Wake, pipe,
           live, InHand, EndIsQuiet, Quiet
      <3>3. CASE worker = "sending"
        <4>1. /\ \A i \in 1 .. Len(queue) : IsRows(queue[i])
              /\ \A i \in 1 .. Len(queue') :
                   i <= Len(queue) \/ queue'[i] = Rows(made)
              /\ \A i \in 1 .. Len(queue) : queue'[i] = queue[i]
          BY <1>0, <1>24, <3>3 DEF Push, Queued, EndIsQuiet, Chunks
        <4>2. \A i \in 1 .. Len(queue') : IsRows(queue'[i])
          BY <1>0, <1>24, <3>1, <3>3, <4>1 DEF Push, Queued
        <4> QED
          BY <1>0, <1>24, <3>3, <4>2 DEF Push, EndIsQuiet, Quiet, pipe, live
      <3> QED
        BY <1>24, <3>2, <3>3 DEF Push, Sending
    <2> QED
      BY <2>1, <2>2, <2>3, <2>4 DEF IInv
  <1>25. CASE SendWait
    BY <1>0, <1>25 DEF SendWait, pipe, live, IInv, Places, InHand, Running,
       BegunOnce, EndIsQuiet, Quiet
  <1>26. CASE Timeout
    BY <1>0, <1>26 DEF Timeout, pipe, live, IInv, Places, InHand, Running,
       BegunOnce, EndIsQuiet, Quiet
  <1>27. CASE SendFails
    BY <1>0, <1>27 DEF SendFails, Sending, pipe, live, IInv, Places, InHand,
       Running, BegunOnce, EndIsQuiet, Quiet
  <1>28. CASE Finish
    BY <1>0, <1>28 DEF Finish, Wake, pipe, live, IInv, Places, InHand,
       Running, BegunOnce, EndIsQuiet, Quiet
  <1>29. CASE Panic
    BY <1>0, <1>29 DEF Panic, Back, pipe, live, IInv, Places, InHand, Running,
       BegunOnce, EndIsQuiet, Quiet
  <1> QED
    BY <1>1, <1>2, <1>3, <1>4, <1>5, <1>6, <1>7, <1>8, <1>9, <1>10, <1>11,
       <1>12, <1>13, <1>14, <1>15, <1>16, <1>17, <1>18, <1>19, <1>20, <1>21,
       <1>22, <1>23, <1>24, <1>25, <1>26, <1>27, <1>28, <1>29
    DEF Next, ReadStep, CancelStep, WorkerStep, Recv

\* What is always true of a stream and the calls on it.
THEOREM InductiveInvariant == Spec => []IInv
  BY InitIInv, StepIInv, PTL DEF Spec

\* When a cancel() resolves, the thread has let go of the connection and no
\* later read begins the statement again (src/stream.rs CancelTask).
THEOREM CancelFreesConnection == Spec => []CancelMeansFree
  <1>1. IInv => CancelMeansFree
    BY DEF IInv, InHand, EndIsQuiet, Quiet, Running, CancelMeansFree
  <1> QED
    BY <1>1, InductiveInvariant, PTL

-----------------------------------------------------------------------------
(***************************************************************************)
(* The batches come out in order.  The thread numbers what it pushes, and  *)
(* pushes nothing more once a batch was refused; so, for as long as the    *)
(* cursor is held, what is behind the batches that were read are the ones  *)
(* that come next, and behind those at most what the statement ended as.   *)
(***************************************************************************)
\* How it ended is in the queue.
Told == queue # <<>> /\ ~IsRows(queue[Len(queue)])

\* The types of what is counted.
Counts ==
  /\ pushed \in Nat
  /\ seen \in Seq(Nat)
  /\ pulled \in [Callers -> {"none", "rows", "end", "no thread"} \cup Outcomes]
  /\ closed => stopped

\* The thread has a batch in its hands, or has pushed all that was made.
InTurn ==
  /\ worker \in {"none", "spawned", "scanning"} => made = pushed
  /\ worker \in {"handing", "sending"} => made = pushed + 1

\* Nothing is behind the end.
EndIsLast == \A i \in 1 .. Len(queue) : ~IsRows(queue[i]) => i = Len(queue)

\* What was pushed was read, or is in the queue.
AllThere == Len(seen) + Len(queue) = IF Told THEN pushed + 1 ELSE pushed

\* The batches in the queue are the ones that come next.
NextUp ==
  \A i \in 1 .. Len(queue) : IsRows(queue[i]) => queue[i] = Rows(Len(seen) + i)

ReadInOrder == \A i \in 1 .. Len(seen) : seen[i] = i

Ordered ==
  /\ ReadInOrder
  /\ InTurn
  /\ held => EndIsLast /\ AllThere /\ NextUp
  /\ ~held => queue = <<>>

\* What the standard operators say of a sequence, for any elements.
LEMMA LenIsNat ==
  ASSUME NEW S, NEW q \in Seq(S)
  PROVE  Len(q) \in Nat /\ DOMAIN q = 1 .. Len(q)
  OBVIOUS

LEMMA Appended ==
  ASSUME NEW S, NEW q \in Seq(S), NEW x \in S
  PROVE  /\ Append(q, x) \in Seq(S) /\ Len(Append(q, x)) = Len(q) + 1
         /\ Append(q, x)[Len(q) + 1] = x
         /\ \A i \in 1 .. Len(q) : Append(q, x)[i] = q[i]
  OBVIOUS

\* Taking the first chunk off a queue.
LEMMA HeadAndTail ==
  ASSUME NEW q \in Seq(Chunks), q # <<>>
  PROVE  /\ Len(q) \in Nat \ {0}
         /\ Head(q) = q[1] /\ q[1] \in Chunks
         /\ Tail(q) \in Seq(Chunks) /\ Len(Tail(q)) = Len(q) - 1
         /\ \A i \in 1 .. Len(Tail(q)) : Tail(q)[i] = q[i + 1]
  OBVIOUS

\* What a chunk carries, by its kind.
LEMMA ChunkKinds ==
  ASSUME NEW x \in Chunks
  PROVE  /\ IsRows(x) => x[2] \in Nat
         /\ ~IsRows(x) => x[2] \in Outcomes \cup {"none"}
  BY DEF Chunks, IsRows, Rows, Done

\* What the thread pushes is a chunk of its kind.
LEMMA ChunksMade ==
  ASSUME NEW n \in Nat, NEW r \in Outcomes \cup {"none"}
  PROVE  /\ Rows(n) \in Chunks /\ IsRows(Rows(n)) /\ Rows(n)[2] = n
         /\ Done(r) \in Chunks /\ ~IsRows(Done(r))
  BY DEF Chunks, IsRows, Rows, Done

\* What a call that receives a chunk does to the queue.
LEMMA TakenOff ==
  ASSUME queue \in Seq(Chunks), NEW c, RecvRows(c) \/ RecvDone(c)
  PROVE  /\ queue # <<>> /\ Head(queue) = queue[1]
         /\ queue' \in Seq(Chunks)
         /\ Len(queue) \in Nat \ {0} /\ Len(queue') = Len(queue) - 1
         /\ \A i \in 1 .. Len(queue') :
              i + 1 \in 1 .. Len(queue) /\ queue'[i] = queue[i + 1]
  <1>1. queue # <<>> /\ queue' = Tail(queue)
    BY DEF RecvRows, RecvDone
  <1>2. /\ Len(queue) \in Nat \ {0} /\ Head(queue) = queue[1]
        /\ Tail(queue) \in Seq(Chunks)
        /\ Len(Tail(queue)) = Len(queue) - 1
        /\ \A i \in 1 .. Len(Tail(queue)) : Tail(queue)[i] = queue[i + 1]
    BY <1>1, HeadAndTail
  <1>3. \A i \in 1 .. Len(queue) - 1 : i + 1 \in 1 .. Len(queue)
    BY <1>2
  <1> QED
    BY <1>1, <1>2, <1>3

\* Taking a batch off leaves the end where it is.
LEMMA StillTold ==
  ASSUME queue \in Seq(Chunks), NEW c, RecvRows(c)
  PROVE  Told' <=> Told
  <1>1. /\ queue # <<>> /\ queue' \in Seq(Chunks)
        /\ Len(queue) \in Nat \ {0} /\ Len(queue') = Len(queue) - 1
        /\ \A i \in 1 .. Len(queue') : queue'[i] = queue[i + 1]
    BY TakenOff
  <1>2. queue' # <<>> <=> Len(queue') # 0
    BY <1>1
  <1>3. CASE Len(queue) = 1
    <2>1. IsRows(queue[1])
      BY TakenOff DEF RecvRows
    <2> QED
      BY <1>1, <1>2, <1>3, <2>1 DEF Told
  <1>4. CASE Len(queue) # 1
    <2>1. Len(queue') \in 1 .. Len(queue') /\ Len(queue') + 1 = Len(queue)
      BY <1>1, <1>4
    <2>2. queue'[Len(queue')] = queue[Len(queue)]
      BY <1>1, <2>1
    <2> QED
      BY <1>1, <1>2, <1>4, <2>2 DEF Told
  <1> QED
    BY <1>3, <1>4

\* A stream opens with nothing made and nothing read.
LEMMA InitOrdered == Init => Counts /\ Ordered
  <1> SUFFICES ASSUME Init
               PROVE  Counts /\ Ordered
    OBVIOUS
  <1>1. <<>> \in Seq(Nat) /\ Len(<<>>) = 0
    OBVIOUS
  <1> QED
    BY <1>1 DEF Init, Counts, Ordered, ReadInOrder, InTurn, Told, EndIsLast,
       AllThere, NextUp

\* Every step keeps the types.
LEMMA StepCounts == IInv /\ Counts /\ [Next]_vars => Counts'
  <1> SUFFICES ASSUME IInv, Counts, [Next]_vars
               PROVE  Counts'
    OBVIOUS
  <1> USE StreamAssumption DEF Callers
  <1>1. ASSUME NEW c \in Callers,
               \/ Next_(c) \/ Begin(c) \/ Spawn(c) \/ SpawnFails(c)
               \/ RecvWait(c) \/ RecvEnd(c) \/ Store(c) \/ Resolve(c)
               \/ Cancel(c) \/ TakeStart(c) \/ ReleaseWatch(c)
        PROVE  Counts'
    <2>1. UNCHANGED <<pushed, seen, closed>>
      BY <1>1 DEF Next_, Begin, Spawn, SpawnFails, RecvWait, RecvEnd, Store,
         Resolve, Cancel, TakeStart, ReleaseWatch, pipe
    <2>3. UNCHANGED stopped \/ stopped' = TRUE
      BY <1>1 DEF Next_, Begin, Spawn, SpawnFails, RecvWait, RecvEnd, Store,
         Resolve, Cancel, TakeStart, ReleaseWatch, live
    <2>2. \/ UNCHANGED pulled
          \/ \E x \in {"none", "end", "no thread"} :
               pulled' = [pulled EXCEPT ![c] = x]
      BY <1>1 DEF Next_, Begin, Spawn, SpawnFails, RecvWait, RecvEnd, Store,
         Resolve, Cancel, TakeStart, ReleaseWatch
    <2> QED
      <3>1. closed' => stopped'
        BY <2>1, <2>3, Zenon DEF Counts
      <3> QED
        BY <2>1, <2>2, <3>1 DEF Counts
  <1>2. ASSUME NEW c \in Callers, RecvRows(c)
        PROVE  Counts'
    <2>1. Head(queue)[2] \in Nat
      BY <1>2, HeadAndTail, ChunkKinds DEF RecvRows, IInv, Shapes
    <2>2. seen' \in Seq(Nat)
      BY <1>2, <2>1, Appended DEF RecvRows, Counts
    <2>3. pulled' \in
            [Callers -> {"none", "rows", "end", "no thread"} \cup Outcomes]
      BY <1>2 DEF RecvRows, Counts
    <2>4. UNCHANGED <<pushed, closed, stopped>>
      BY <1>2 DEF RecvRows, live
    <2> QED
      BY <2>2, <2>3, <2>4 DEF Counts
  <1>3. ASSUME NEW c \in Callers, RecvDone(c)
        PROVE  Counts'
    <2>1. Head(queue)[2] \in Outcomes \cup {"none"}
      BY <1>3, HeadAndTail, ChunkKinds DEF RecvDone, IInv, Shapes
    <2> QED
      BY <1>3, <2>1 DEF Counts, RecvDone, Goto, live
  <1>4. CASE Push
    <2>1. UNCHANGED <<seen, pulled, closed, stopped>>
      BY <1>4 DEF Push, live
    <2>2. pushed \in Nat /\ (pushed' = pushed \/ pushed' = pushed + 1)
      BY <1>4 DEF Push, Counts
    <2>3. pushed' \in Nat
      BY <2>2
    <2> QED
      BY <2>1, <2>3 DEF Counts
  <1>5. CASE \/ Drop \/ Close \/ EmptySlot \/ Borrow \/ BorrowFails
             \/ MakeBatch \/ EndScan \/ Hand \/ GiveBack \/ SendWait
             \/ Timeout \/ SendFails \/ Finish \/ Panic \/ UNCHANGED vars
    <2>1. UNCHANGED <<pushed, seen, pulled>>
      BY <1>5 DEF Drop, Close, EmptySlot, Borrow, BorrowFails, MakeBatch,
         EndScan, Hand, GiveBack, SendWait, Timeout, SendFails, Finish, Panic,
         vars, pipe, live
    <2>3. UNCHANGED <<closed, stopped>> \/ stopped' = TRUE
      BY <1>5 DEF Drop, Close, EmptySlot, Borrow, BorrowFails, MakeBatch,
         EndScan, Hand, GiveBack, SendWait, Timeout, SendFails, Finish, Panic,
         vars, pipe, live
    <2> QED
      <3>1. closed' => stopped'
        BY <2>1, <2>3, Zenon DEF Counts
      <3> QED
        BY <2>1, <3>1 DEF Counts
  <1> QED
    BY <1>1, <1>2, <1>3, <1>4, <1>5
    DEF Next, ReadStep, CancelStep, WorkerStep, Recv

\* Every step keeps the order.
LEMMA StepOrdered ==
  IInv /\ Counts /\ Ordered /\ [Next]_vars => Ordered'
  <1> SUFFICES ASSUME IInv, Counts, Ordered, [Next]_vars
               PROVE  Ordered'
    OBVIOUS
  <1> USE StreamAssumption DEF Callers
  <1>10. /\ pushed \in Nat /\ made \in Nat /\ Len(seen) \in Nat
         /\ queue \in Seq(Chunks) /\ Len(queue) \in Nat
         /\ seen \in Seq(Nat)
    BY LenIsNat DEF Counts, IInv, Shapes
  <1>1. ASSUME UNCHANGED <<queue, seen, held, pushed>>, InTurn'
        PROVE  Ordered'
    BY <1>1 DEF Ordered, ReadInOrder, Told, EndIsLast, AllThere, NextUp
  <1>2. ASSUME NEW c \in Callers,
               \/ Next_(c) \/ Begin(c) \/ SpawnFails(c) \/ RecvWait(c)
               \/ RecvEnd(c) \/ Store(c) \/ Resolve(c) \/ Cancel(c)
               \/ TakeStart(c) \/ ReleaseWatch(c)
        PROVE  Ordered'
    <2>1. UNCHANGED <<queue, seen, held, pushed, made, worker>>
      BY <1>2 DEF Next_, Begin, SpawnFails, RecvWait, RecvEnd, Store, Resolve,
         Cancel, TakeStart, ReleaseWatch, pipe, live
    <2> QED
      BY <1>1, <2>1 DEF Ordered, InTurn
  <1>3. CASE Close \/ EmptySlot \/ SendWait \/ Timeout \/ UNCHANGED vars
    <2>1. UNCHANGED <<queue, seen, held, pushed, made, worker>>
      BY <1>3 DEF Close, EmptySlot, SendWait, Timeout, vars, pipe, live
    <2> QED
      BY <1>1, <2>1 DEF Ordered, InTurn
  <1>4. ASSUME NEW c \in Readers, Spawn(c)
        PROVE  Ordered'
    <2>1. worker = "none"
      BY <1>4 DEF Spawn, IInv, BegunOnce
    <2> QED
      BY <1>1, <1>4, <2>1 DEF Spawn, Ordered, InTurn, pipe
  <1>5. CASE Borrow \/ BorrowFails \/ EndScan \/ Hand \/ GiveBack
             \/ SendFails \/ Finish \/ Panic
    <2>1. UNCHANGED <<queue, seen, held, pushed, made>>
      BY <1>5 DEF Borrow, BorrowFails, EndScan, Hand, GiveBack, SendFails,
         Finish, Panic, pipe
    <2>2. InTurn'
      BY <1>5, <2>1 DEF Borrow, BorrowFails, EndScan, Hand, GiveBack,
         SendFails, Finish, Panic, Ordered, InTurn
    <2> QED
      BY <1>1, <2>1, <2>2
  <1>6. CASE MakeBatch
    BY <1>1, <1>6, <1>10 DEF MakeBatch, Ordered, InTurn, pipe
  <1>7. CASE Drop
    BY <1>7 DEF Drop, Ordered, ReadInOrder, InTurn
  <1>8. ASSUME NEW c \in Callers, RecvRows(c)
        PROVE  Ordered'
    <2>1. queue # <<>> /\ held
      BY <1>8 DEF RecvRows, Ordered, IInv, Shapes
    <2>2. /\ Len(queue) \in Nat \ {0} /\ Head(queue) = queue[1]
          /\ Len(queue') = Len(queue) - 1
          /\ \A i \in 1 .. Len(queue') : queue'[i] = queue[i + 1]
      BY <1>8, <1>10, TakenOff
    <2>3. Head(queue) = Rows(Len(seen) + 1)
      <3>1. 1 \in 1 .. Len(queue) /\ IsRows(queue[1])
        BY <1>8, <2>2 DEF RecvRows
      <3> QED
        BY <2>1, <2>2, <3>1 DEF Ordered, NextUp
    <2>4. seen' = Append(seen, Len(seen) + 1)
      BY <1>8, <2>3 DEF RecvRows, Rows
    <2>5. /\ Len(seen') = Len(seen) + 1
          /\ seen'[Len(seen) + 1] = Len(seen) + 1
          /\ \A i \in 1 .. Len(seen) : seen'[i] = seen[i]
      <3>1. Len(seen) + 1 \in Nat
        BY <1>10
      <3> QED
        BY <1>10, <2>4, <3>1, Appended
    <2>6. ReadInOrder'
      BY <1>10, <2>5 DEF Ordered, ReadInOrder
    <2>7. NextUp'
      <3> SUFFICES ASSUME NEW i \in 1 .. Len(queue'), IsRows(queue'[i])
                   PROVE  queue'[i] = Rows(Len(seen') + i)
        BY DEF NextUp
      <3>1. i \in Nat /\ i + 1 \in 1 .. Len(queue) /\ queue'[i] = queue[i + 1]
        BY <2>2
      <3>2. queue[i + 1] = Rows(Len(seen) + (i + 1))
        BY <2>1, <3>1 DEF Ordered, NextUp
      <3>3. Len(seen) + (i + 1) = Len(seen') + i
        BY <1>10, <2>5, <3>1
      <3> QED
        BY <3>1, <3>2, <3>3
    <2>8. EndIsLast'
      <3> SUFFICES ASSUME NEW i \in 1 .. Len(queue'), ~IsRows(queue'[i])
                   PROVE  i = Len(queue')
        BY DEF EndIsLast
      <3>1. i \in Nat /\ i + 1 \in 1 .. Len(queue)
            /\ queue'[i] = queue[i + 1]
        BY <2>2
      <3>2. i + 1 = Len(queue)
        BY <2>1, <3>1 DEF Ordered, EndIsLast
      <3> QED
        BY <2>2, <3>1, <3>2
    <2>9. Told' <=> Told
      BY <1>8, <1>10, StillTold
    <2>10. AllThere'
      <3>1. Len(seen') + Len(queue') = Len(seen) + Len(queue)
        BY <1>10, <2>2, <2>5
      <3>2. pushed' = pushed
        BY <1>8 DEF RecvRows
      <3> QED
        BY <2>1, <2>9, <3>1, <3>2 DEF Ordered, AllThere
    <2>11. InTurn' /\ held'
      BY <1>8, <2>1 DEF RecvRows, Ordered, InTurn
    <2> QED
      BY <2>6, <2>7, <2>8, <2>10, <2>11 DEF Ordered
  <1>9. ASSUME NEW c \in Callers, RecvDone(c)
        PROVE  Ordered'
    <2>1. queue # <<>> /\ held
      BY <1>9 DEF RecvDone, Ordered, IInv, Shapes
    <2>2. /\ Len(queue) \in Nat \ {0} /\ ~IsRows(queue[1])
          /\ queue' \in Seq(Chunks) /\ Len(queue') = Len(queue) - 1
      BY <1>9, <1>10, TakenOff DEF RecvDone
    <2>3. Len(queue) = 1
      <3>1. 1 \in 1 .. Len(queue)
        BY <2>2
      <3> QED
        BY <2>1, <2>2, <3>1 DEF Ordered, EndIsLast
    <2>4. Told /\ queue' = <<>> /\ Len(queue') = 0
      BY <2>1, <2>2, <2>3 DEF Told
    <2>5. UNCHANGED <<seen, made, pushed, worker, held>>
      BY <1>9 DEF RecvDone
    <2>6. AllThere'
      BY <1>10, <2>1, <2>3, <2>4, <2>5 DEF Ordered, AllThere, Told
    <2> QED
      BY <2>4, <2>5, <2>6 DEF Ordered, ReadInOrder, InTurn, EndIsLast, NextUp
  <1>11. CASE Push
    <2>1. held /\ held' /\ UNCHANGED <<seen, made>>
      BY <1>11 DEF Push, IInv, InHand, Shapes
    <2>2. worker \in {"sending", "telling"}
      BY <1>11 DEF Push, Sending
    <2>3. ~Told /\ \A i \in 1 .. Len(queue) : IsRows(queue[i])
      BY <1>10, <2>2 DEF IInv, EndIsQuiet, Told
    <2>4. Len(seen) + Len(queue) = pushed
      BY <2>1, <2>3 DEF Ordered, AllThere
    <2>5. ASSUME NEW x \in Chunks, queue' = Append(queue, x)
          PROVE  /\ Len(queue') = Len(queue) + 1 /\ queue' # <<>>
                 /\ queue'[Len(queue) + 1] = x
                 /\ \A i \in 1 .. Len(queue) : queue'[i] = queue[i]
                 /\ EndIsLast'
                 /\ Told' <=> ~IsRows(x)
      <3>1. /\ Len(queue') = Len(queue) + 1
            /\ queue'[Len(queue) + 1] = x
            /\ \A i \in 1 .. Len(queue) : queue'[i] = queue[i]
        BY <1>10, <2>5, Appended
      <3>2. queue' # <<>>
        BY <1>10, <2>5
      <3>3. EndIsLast'
        BY <1>10, <2>3, <3>1 DEF EndIsLast
      <3>4. Told' <=> ~IsRows(x)
        BY <3>1, <3>2 DEF Told
      <3> QED
        BY <3>1, <3>2, <3>3, <3>4
    <2>6. CASE worker = "sending"
      <3>1. /\ pushed' = pushed + 1 /\ worker' = "scanning"
            /\ queue' = Append(queue, Rows(made))
        BY <1>11, <2>6 DEF Push, Queued
      <3>2. Rows(made) \in Chunks /\ IsRows(Rows(made))
        BY <1>10, ChunksMade
      <3>3. made = pushed + 1
        BY <2>6 DEF Ordered, InTurn
      <3>4. NextUp'
        <4> SUFFICES ASSUME NEW i \in 1 .. Len(queue')
                     PROVE  queue'[i] = Rows(Len(seen') + i)
          BY DEF NextUp
        <4>1. CASE i = Len(queue) + 1
          <5>1. Len(seen') + i = made
            BY <1>10, <2>1, <2>4, <3>3, <4>1
          <5> QED
            BY <2>5, <3>1, <3>2, <4>1, <5>1
        <4>2. CASE i # Len(queue) + 1
          <5>1. i \in 1 .. Len(queue)
            BY <1>10, <2>5, <3>1, <3>2, <4>2
          <5> QED
            BY <2>1, <2>3, <2>5, <3>1, <3>2, <5>1 DEF Ordered, NextUp
        <4> QED
          BY <4>1, <4>2
      <3>5. AllThere' /\ InTurn'
        <4>1. ~Told' /\ Len(queue') = Len(queue) + 1
          BY <2>5, <3>1, <3>2
        <4>2. Len(seen') + Len(queue') = pushed'
          BY <1>10, <2>1, <2>4, <3>1, <4>1
        <4>3. made' = pushed'
          BY <2>1, <3>1, <3>3
        <4> QED
          BY <3>1, <4>1, <4>2, <4>3 DEF AllThere, InTurn
      <3> QED
        BY <2>1, <2>5, <3>1, <3>2, <3>4, <3>5 DEF Ordered, ReadInOrder
    <2>7. CASE worker = "telling"
      <3>1. /\ pushed' = pushed /\ worker' = "finishing"
            /\ queue' = Append(queue, Done(how))
        BY <1>11, <2>7 DEF Push, Queued
      <3>2. Done(how) \in Chunks /\ ~IsRows(Done(how))
        BY ChunksMade DEF IInv, Shapes
      <3>3. NextUp'
        <4> SUFFICES ASSUME NEW i \in 1 .. Len(queue'), IsRows(queue'[i])
                     PROVE  queue'[i] = Rows(Len(seen') + i)
          BY DEF NextUp
        <4>1. i \in 1 .. Len(queue)
          BY <1>10, <2>5, <3>1, <3>2
        <4> QED
          BY <2>1, <2>3, <2>5, <3>1, <3>2, <4>1 DEF Ordered, NextUp
      <3>4. AllThere' /\ InTurn'
        <4>1. Told' /\ Len(queue') = Len(queue) + 1
          BY <2>5, <3>1, <3>2
        <4>2. Len(seen') + Len(queue') = pushed' + 1
          BY <1>10, <2>1, <2>4, <3>1, <4>1
        <4> QED
          BY <3>1, <4>1, <4>2 DEF AllThere, InTurn
      <3> QED
        BY <2>1, <2>5, <3>1, <3>2, <3>3, <3>4 DEF Ordered, ReadInOrder
    <2> QED
      BY <2>2, <2>6, <2>7
  <1> QED
    BY <1>2, <1>3, <1>4, <1>5, <1>6, <1>7, <1>8, <1>9, <1>11
    DEF Next, ReadStep, CancelStep, WorkerStep, Recv

\* What is always true of what was pushed and read.
THEOREM OrderIsKept == Spec => [](IInv /\ Counts /\ Ordered)
  BY InitIInv, StepIInv, InitOrdered, StepCounts, StepOrdered, PTL DEF Spec

\* The batches come out in order with none missing and none twice, and those
\* in the queue are the ones that come next (src/stream.rs Pipe).
THEOREM BatchesInOrder == Spec => []InOrder
  <1>1. IInv /\ Counts /\ Ordered => InOrder
    <2> SUFFICES ASSUME IInv, Counts, Ordered
                 PROVE  InOrder
      OBVIOUS
    <2>1. DOMAIN seen = 1 .. Len(seen) /\ DOMAIN queue = 1 .. Len(queue)
      BY LenIsNat DEF Counts, IInv, Shapes
    <2>2. \A i \in DOMAIN seen : seen[i] = i
      BY <2>1 DEF Ordered, ReadInOrder
    <2>3. ASSUME held
          PROVE  \A i \in DOMAIN queue :
                   IsRows(queue[i]) => queue[i] = Rows(Len(seen) + i)
      BY <2>1, <2>3 DEF Ordered, NextUp
    <2> QED
      BY <2>2, <2>3 DEF InOrder
  <1> QED
    BY <1>1, OrderIsKept, PTL

-----------------------------------------------------------------------------
(***************************************************************************)
(* An end is not early.  As long as nobody gave the stream up, the thread  *)
(* does not break its scan off, so that all that was made has been pushed; *)
(* and who takes the end from the queue takes what is last in it.          *)
(***************************************************************************)
\* Whatever was made has been pushed, but for the batch in the thread's hands.
AllPushed ==
  /\ worker # "ending"
  /\ made = IF worker \in {"handing", "sending"} THEN pushed + 1 ELSE pushed

\* Who heard the end heard it of a stream that was read to its last batch.
EndHeard ==
  \A c \in Callers :
    pc[c] = "storing" \/ pulled[c] = "end" => Len(seen) = made /\ Quiet

Whole == alive /\ ~stopped => AllPushed /\ EndHeard

\* A stream that nobody gave up still has its cursor, and its order.
LEMMA StillHeld ==
  ASSUME IInv, Counts, Ordered, ~stopped
  PROVE  held /\ EndIsLast /\ AllThere
  BY DEF IInv, Shapes, InHand, Counts, Ordered

\* Nothing was made and nobody has heard anything.
LEMMA InitWhole == Init => Whole
  BY DEF Init, Whole, AllPushed, EndHeard

\* No step loses a batch or lets the end overtake one.
LEMMA StepWhole ==
  IInv /\ IInv' /\ Counts /\ Counts' /\ Ordered /\ Whole /\ [Next]_vars
    => Whole'
  <1> SUFFICES ASSUME IInv, IInv', Counts, Counts', Ordered, Whole,
                      [Next]_vars, alive', ~stopped'
               PROVE  AllPushed' /\ EndHeard'
    BY DEF Whole
  <1> USE StreamAssumption DEF Callers
  <1>10. /\ pushed \in Nat /\ made \in Nat /\ Len(seen) \in Nat
         /\ queue \in Seq(Chunks) /\ Len(queue) \in Nat
         /\ seen \in Seq(Nat)
    BY LenIsNat DEF Counts, IInv, Shapes
  <1>1. ASSUME NEW c \in Readers,
               Next_(c) \/ Begin(c) \/ Spawn(c) \/ SpawnFails(c) \/ Resolve(c)
        PROVE  AllPushed' /\ EndHeard'
    BY <1>1 DEF Next_, Begin, Spawn, SpawnFails, Resolve, Goto, Counts, Whole,
       AllPushed, EndHeard, live, pipe, IInv, Shapes, BegunOnce, Quiet
  <1>2. ASSUME NEW c \in Cancellers,
               Cancel(c) \/ TakeStart(c) \/ ReleaseWatch(c)
        PROVE  AllPushed' /\ EndHeard'
    BY <1>2 DEF Cancel, TakeStart, ReleaseWatch, Goto, Counts, Whole,
       AllPushed, EndHeard, live, pipe, IInv, Shapes, BegunOnce, Quiet
  <1>3. ASSUME NEW c \in Callers, RecvWait(c) \/ Store(c)
        PROVE  AllPushed' /\ EndHeard'
    BY <1>3 DEF RecvWait, Store, Goto, Counts, Whole, AllPushed, EndHeard,
       live, pipe, IInv, Shapes, Quiet
  <1>4. ASSUME NEW c \in Callers, RecvEnd(c)
        PROVE  AllPushed' /\ EndHeard'
    <2>1. UNCHANGED <<queue, seen, made, pushed, worker, alive, stopped,
                      start>>
      BY <1>4 DEF RecvEnd, pipe, live
    <2>2. held /\ AllPushed /\ EndHeard /\ AllThere
      BY <2>1, StillHeld DEF Whole
    <2>3. queue = <<>> /\ done
      BY <1>4, <2>2 DEF RecvEnd, Over, IInv, InHand, Shapes
    <2>4. Quiet /\ worker \in {"none", "over"}
      BY <2>3 DEF IInv, EndIsQuiet, BegunOnce, Shapes, Quiet
    <2>5. Len(seen) = made
      BY <1>10, <2>2, <2>3, <2>4 DEF AllPushed, AllThere, Told
    <2>6. /\ Quiet'
          /\ \A x \in Callers \ {c} : pc'[x] = pc[x] /\ pulled'[x] = pulled[x]
      BY <1>4, <2>1, <2>4 DEF RecvEnd, Quiet, Goto, Counts, IInv, Shapes
    <2> QED
      BY <2>1, <2>2, <2>5, <2>6 DEF AllPushed, EndHeard
  <1>5. ASSUME NEW c \in Callers, RecvRows(c)
        PROVE  AllPushed' /\ EndHeard'
    <2>1. UNCHANGED <<made, pushed, worker, alive, stopped>>
      BY <1>5 DEF RecvRows, live
    <2>2. EndIsLast /\ AllThere /\ AllPushed /\ EndHeard
      BY <2>1, StillHeld DEF Whole
    <2>3. queue # <<>> /\ IsRows(queue[1]) /\ Len(queue) \in Nat \ {0}
      BY <1>5, <1>10, HeadAndTail DEF RecvRows
    <2>4. Len(seen) < pushed
      <3>1. CASE Told
        <4>1. Len(queue) # 1
          BY <2>3, <3>1 DEF Told
        <4>2. Len(queue) >= 2
          BY <2>3, <4>1
        <4>3. Len(seen) + Len(queue) = pushed + 1
          BY <2>2, <3>1 DEF AllThere
        <4> QED
          BY <1>10, <4>2, <4>3
      <3>2. CASE ~Told
        BY <1>10, <2>2, <2>3, <3>2 DEF AllThere
      <3> QED
        BY <3>1, <3>2
    <2>5. pushed <= made
      BY <1>10, <2>2 DEF AllPushed
    <2>6. \A x \in Callers : ~(pc[x] = "storing" \/ pulled[x] = "end")
      BY <1>10, <2>2, <2>4, <2>5 DEF EndHeard
    <2>7. \A x \in Callers : ~(pc'[x] = "storing" \/ pulled'[x] = "end")
      BY <1>5, <2>6 DEF RecvRows, Goto, Counts, IInv, Shapes
    <2> QED
      BY <2>1, <2>2, <2>7 DEF AllPushed, EndHeard
  <1>6. ASSUME NEW c \in Callers, RecvDone(c)
        PROVE  AllPushed' /\ EndHeard'
    <2>1. UNCHANGED <<seen, made, pushed, worker, alive, stopped>>
      BY <1>6 DEF RecvDone, live
    <2>2. EndIsLast /\ AllThere /\ AllPushed /\ EndHeard
      BY <2>1, StillHeld DEF Whole
    <2>3. queue # <<>> /\ ~IsRows(queue[1]) /\ Len(queue) \in Nat \ {0}
      BY <1>6, <1>10, HeadAndTail DEF RecvDone
    <2>4. 1 \in 1 .. Len(queue)
      BY <2>3
    <2>5. Len(queue) = 1 /\ Told
      BY <2>2, <2>3, <2>4 DEF EndIsLast, Told
    <2>6. worker \in {"finishing", "over"}
      BY <2>3, <2>4 DEF IInv, EndIsQuiet
    <2>7. Len(seen) = made
      BY <1>10, <2>2, <2>5, <2>6 DEF AllPushed, AllThere
    <2>8. Quiet'
      BY <1>6 DEF IInv, EndIsQuiet, RecvDone, Goto, Shapes
    <2> QED
      BY <2>1, <2>2, <2>7, <2>8 DEF AllPushed, EndHeard
  <1>7. CASE Push
    <2>1. UNCHANGED <<seen, made, alive, stopped, pc, pulled>>
      BY <1>7 DEF Push, live
    <2>2. worker \in {"sending", "telling"}
      BY <1>7 DEF Push, Sending
    <2>3. AllPushed /\ EndHeard
      BY <2>1 DEF Whole
    <2>4. \A x \in Callers : ~(pc[x] = "storing" \/ pulled[x] = "end")
      BY <2>2, <2>3 DEF EndHeard, Quiet
    <2>5. AllPushed'
      BY <1>7, <1>10, <2>1, <2>2, <2>3 DEF Push, AllPushed
    <2> QED
      BY <2>1, <2>4, <2>5 DEF EndHeard
  <1>8. CASE \/ Borrow \/ BorrowFails \/ MakeBatch \/ EndScan \/ Hand
             \/ GiveBack \/ SendFails \/ Finish \/ Panic
    <2>1. UNCHANGED <<queue, seen, pushed, alive, stopped, start, pc, pulled>>
      BY <1>8 DEF Borrow, BorrowFails, MakeBatch, EndScan, Hand, GiveBack,
         SendFails, Finish, Panic, pipe, live
    <2>2. AllPushed /\ EndHeard /\ held
      BY <2>1, StillHeld DEF Whole
    <2>3. AllPushed'
      BY <1>8, <1>10, <2>1, <2>2 DEF Borrow, BorrowFails, MakeBatch, EndScan,
         Hand, GiveBack, SendFails, Finish, Panic, AllPushed, IInv, InHand,
         Shapes
    <2>4. Quiet => Quiet' /\ UNCHANGED made
      BY <1>8, <2>1 DEF Borrow, BorrowFails, MakeBatch, EndScan, Hand,
         GiveBack, SendFails, Finish, Panic, Sending, Quiet
    <2> QED
      BY <2>1, <2>2, <2>3, <2>4 DEF EndHeard
  <1>9. CASE Drop \/ Close
    BY <1>9 DEF Drop, Close
  <1>11. CASE EmptySlot \/ SendWait \/ Timeout \/ UNCHANGED vars
    <2>1. UNCHANGED <<seen, made, pushed, worker, alive, stopped, start, pc,
                      pulled>>
      BY <1>11 DEF EmptySlot, SendWait, Timeout, vars, pipe, live
    <2> QED
      BY <2>1 DEF Whole, AllPushed, EndHeard, Quiet
  <1> QED
    BY <1>1, <1>2, <1>3, <1>4, <1>5, <1>6, <1>7, <1>8, <1>9, <1>11
    DEF Next, ReadStep, CancelStep, WorkerStep, Recv

\* What is always true of what was pushed and read.
THEOREM NothingMissing == Spec => []Whole
  BY OrderIsKept, InitWhole, StepWhole, PTL DEF Spec

\* A reader that was told the end of a stream nobody gave up has had every
\* batch the statement made (src/stream.rs Pipe::recv, run).
THEOREM EndIsComplete == Spec => []EndMeansAll
  <1>1. Whole => EndMeansAll
    BY DEF Whole, EndHeard, EndMeansAll, Callers
  <1> QED
    BY <1>1, NothingMissing, PTL

-----------------------------------------------------------------------------
(***************************************************************************)
(* The stream implements BatchStream: a step of a stream is a step of the  *)
(* abstract one, or none.  The count of batches that are with the reader   *)
(* is the length of what was read until the cursor is dropped, and from    *)
(* then on that of what was pushed, because a drop empties the queue and   *)
(* nothing is pushed behind it.                                            *)
(***************************************************************************)
\* The abstract stream opens as this one does.
LEMMA InitSimulates == Init => Abstract!Init
  <1> SUFFICES ASSUME Init
               PROVE  Abstract!Init
    OBVIOUS
  <1>1. Len(<<>>) = 0
    OBVIOUS
  <1> QED
    BY <1>1 DEF Init, Abstract!Init, Running

\* What a step leaves alone, the abstract stream does not see.
LEMMA Stutters ==
  ASSUME UNCHANGED <<conn, pushed, held, seen, stopped>>,
         Running' <=> Running, Unread' <=> Unread
  PROVE  UNCHANGED Abstract!vars
  BY DEF Abstract!vars

\* Nobody is about to begin a statement that is running or over.
LEMMA BegunIsRead ==
  ASSUME IInv, worker # "none"
  PROVE  Unread <=> worker = "spawned"
  BY StreamAssumption DEF IInv, BegunOnce, Unread, Callers

\* Every step of a stream is one of the abstract stream, or a stutter.
LEMMA StepSimulates ==
  IInv /\ IInv' /\ Counts /\ Ordered /\ [Next]_vars
    => [Abstract!Next]_(Abstract!vars)
  <1> SUFFICES ASSUME IInv, IInv', Counts, Ordered, [Next]_vars
               PROVE  Abstract!Next \/ UNCHANGED Abstract!vars
    OBVIOUS
  <1> USE StreamAssumption DEF Callers
  <1>10. /\ pushed \in Nat /\ Len(seen) \in Nat
         /\ queue \in Seq(Chunks) /\ Len(queue) \in Nat
         /\ seen \in Seq(Nat)
    BY LenIsNat DEF Counts, IInv, Shapes
  <1>1. ASSUME NEW c \in Readers, Next_(c) \/ Resolve(c)
        PROVE  UNCHANGED Abstract!vars
    BY <1>1, Stutters DEF Next_, Resolve, Goto, pipe, live, Running, Unread,
       IInv, Shapes
  <1>2. ASSUME NEW c \in Readers, Begin(c)
        PROVE  UNCHANGED Abstract!vars
    BY <1>2, Stutters DEF Begin, Goto, pipe, live, Running, Unread, IInv,
       Shapes
  <1>3. ASSUME NEW c \in Readers, Spawn(c)
        PROVE  UNCHANGED Abstract!vars
    BY <1>3, Stutters DEF Spawn, Goto, pipe, live, Running, Unread, IInv,
       BegunOnce
  <1>4. ASSUME NEW c \in Readers, SpawnFails(c)
        PROVE  Abstract!Skip
    BY <1>4 DEF SpawnFails, Goto, pipe, live, Running, Unread, IInv, Shapes,
       BegunOnce, Abstract!Skip
  <1>5. ASSUME NEW c \in Callers, RecvWait(c) \/ RecvEnd(c) \/ Store(c)
        PROVE  UNCHANGED Abstract!vars
    BY <1>5, Stutters DEF RecvWait, RecvEnd, Store, Receiving, Goto, pipe,
       live, Running, Unread, IInv, Shapes
  <1>6. ASSUME NEW c \in Callers, RecvRows(c)
        PROVE  Abstract!Give
    <2>1. held /\ Len(queue) # 0 /\ IsRows(queue[1])
      BY <1>6, <1>10, HeadAndTail DEF RecvRows, Ordered
    <2>2. Len(seen) < pushed
      BY <1>10, <2>1 DEF Ordered, AllThere, Told
    <2>3. Len(seen') = Len(seen) + 1
      BY <1>6, <1>10, HeadAndTail, ChunkKinds, Appended DEF RecvRows
    <2>4. UNCHANGED <<conn, pushed, held, stopped, worker, start>>
      BY <1>6 DEF RecvRows, live
    <2>5. Unread' <=> Unread
      BY <1>6, <2>4 DEF RecvRows, Receiving, Goto, Unread, IInv, Shapes
    <2> QED
      BY <2>1, <2>2, <2>3, <2>4, <2>5 DEF Abstract!Give, Running
  <1>7. ASSUME NEW c \in Callers, RecvDone(c)
        PROVE  UNCHANGED Abstract!vars
    BY <1>7, Stutters DEF RecvDone, Receiving, Goto, pipe, live, Running,
       Unread, IInv, Shapes
  <1>8. ASSUME NEW c \in Cancellers, Cancel(c)
        PROVE  Abstract!GiveUp
    BY <1>8 DEF Cancel, Goto, pipe, live, Running, Unread, IInv, Shapes,
       Abstract!GiveUp
  <1>9. ASSUME NEW c \in Cancellers, TakeStart(c)
        PROVE  Abstract!Next \/ UNCHANGED Abstract!vars
    <2>1. CASE start
      <3>1. Abstract!Skip
        BY <1>9, <2>1 DEF TakeStart, Goto, Running, Unread, IInv, Shapes,
           BegunOnce, Abstract!Skip
      <3> QED
        BY <3>1 DEF Abstract!Next
    <2>2. CASE ~start
      BY <1>9, <2>2, Stutters DEF TakeStart, Goto, Running, Unread, IInv,
         Shapes
    <2> QED
      BY <2>1, <2>2
  <1>11. ASSUME NEW c \in Cancellers, ReleaseWatch(c)
         PROVE  UNCHANGED Abstract!vars
    BY <1>11, Stutters DEF ReleaseWatch, Goto, pipe, Running, Unread, IInv,
       Shapes
  <1>12. CASE Drop
    BY <1>12 DEF Drop, Running, Unread, Abstract!GiveUp, Abstract!Next
  <1>13. CASE Close \/ EmptySlot
    <2>1. UNCHANGED <<worker, start, pc, pushed, held, seen, stopped>>
      BY <1>13 DEF Close, EmptySlot, live
    <2>2. (conn' = "thread") = (conn = "thread")
      BY <1>13 DEF Close, EmptySlot
    <2> QED
      BY <2>1, <2>2 DEF Abstract!vars, Running, Unread
  <1>14. CASE Borrow
    BY <1>14, BegunIsRead DEF Borrow, live, Running, Unread, Abstract!Begin,
       Abstract!Next
  <1>15. CASE BorrowFails
    <2>1. UNCHANGED <<conn, pushed, held, seen, stopped, start, pc>>
      BY <1>15 DEF BorrowFails, live
    <2>2. Unread /\ ~Unread'
      BY <1>15, <2>1, BegunIsRead DEF BorrowFails, Unread, IInv, BegunOnce
    <2> QED
      BY <1>15, <2>1, <2>2
      DEF BorrowFails, Running, Abstract!Skip, Abstract!Next
  <1>16. CASE MakeBatch \/ EndScan \/ Hand
    <2>1. UNCHANGED <<conn, pushed, held, seen, stopped, start, pc>>
      BY <1>16 DEF MakeBatch, EndScan, Hand, live
    <2>2. Running /\ Running' /\ worker # "spawned" /\ worker' # "spawned"
      BY <1>16 DEF MakeBatch, EndScan, Hand, Running
    <2> QED
      BY <2>1, <2>2 DEF Abstract!vars
  <1>17. CASE GiveBack \/ Panic
    <2>1. UNCHANGED <<pushed, held, seen, stopped, start, pc>>
      BY <1>17 DEF GiveBack, Panic, live
    <2>2. Running /\ ~Running' /\ conn = "thread" /\ conn' # "thread"
      BY <1>17 DEF GiveBack, Panic, Back, Running, IInv, InHand
    <2>3. ~Unread'
      BY <1>17, <2>1 DEF GiveBack, Panic, Unread, IInv, BegunOnce
    <2> QED
      BY <2>1, <2>2, <2>3 DEF Abstract!End, Abstract!Next
  <1>18. CASE Push
    <2>1. UNCHANGED <<conn, held, seen, stopped, start, pc>> /\ held
      BY <1>18 DEF Push, live, IInv, InHand, Shapes
    <2>2. CASE worker = "sending"
      <3>1. ~Told
        BY <1>10, <2>2 DEF IInv, EndIsQuiet, Told
      <3>2. pushed - Len(seen) < Queue
        BY <1>10, <1>18, <2>1, <3>1 DEF Push, Full, Ordered, AllThere
      <3>3. Running /\ Running' /\ pushed' = pushed + 1
        BY <1>18, <2>2 DEF Push, Running
      <3> QED
        BY <2>1, <3>2, <3>3 DEF Abstract!Make, Abstract!Next
    <2>3. CASE worker = "telling"
      <3>1. pushed' = pushed /\ ~Running /\ ~Running'
        BY <1>18, <2>3 DEF Push, Running
      <3>2. ~Unread /\ ~Unread'
        BY <1>18, <2>1, <2>3 DEF Push, Unread, IInv, BegunOnce
      <3> QED
        BY <2>1, <3>1, <3>2 DEF Abstract!vars
    <2> QED
      BY <1>18, <2>2, <2>3 DEF Push, Sending
  <1>19. CASE SendWait \/ Timeout \/ UNCHANGED vars
    BY <1>19, Stutters DEF SendWait, Timeout, vars, live, Running, Unread
  <1>20. CASE SendFails
    <2>1. UNCHANGED <<conn, pushed, held, seen, stopped, start, pc>>
      BY <1>20 DEF SendFails, live
    <2>2. (Running' <=> Running) /\ worker # "spawned" /\ worker' # "spawned"
      BY <1>20 DEF SendFails, Sending, Running
    <2> QED
      BY <2>1, <2>2, Stutters DEF Unread
  <1>21. CASE Finish
    <2>1. UNCHANGED <<conn, pushed, held, seen, stopped, start, pc>>
      BY <1>21 DEF Finish, live
    <2>2. ~Running /\ ~Running' /\ worker # "spawned" /\ worker' # "spawned"
      BY <1>21 DEF Finish, Running
    <2> QED
      BY <2>1, <2>2, Stutters DEF Unread
  <1> QED
    BY <1>1, <1>2, <1>3, <1>4, <1>5, <1>6, <1>7, <1>8, <1>9, <1>11, <1>12,
       <1>13, <1>14, <1>15, <1>16, <1>17, <1>18, <1>19, <1>20, <1>21
    DEF Next, ReadStep, CancelStep, WorkerStep, Recv, Abstract!Next

\* What a stream promises whoever reads it (BatchStream) is what the cursor,
\* the pipe and the statement's thread do between them.
THEOREM StreamImplementsBatchStream == Spec => ImplementsBatchStream
  BY OrderIsKept, InitSimulates, StepSimulates, PTL
  DEF Spec, ImplementsBatchStream, Abstract!Spec

-----------------------------------------------------------------------------
(***************************************************************************)
(* The types of a stream.                                                  *)
(***************************************************************************)
\* What the pipe really carries: batches that were made, and a known outcome.
Mail == {Rows(n) : n \in 1 .. MaxBatches} \cup {Done(r) : r \in Outcomes}

\* The batches, wherever they are.
Mailed ==
  /\ queue \in Seq(Mail)
  /\ seen \in Seq(1 .. MaxBatches)
  /\ made \in 0 .. MaxBatches
  /\ pushed <= made

\* The outcome, on its way from the thread to `ended`, is known.
OutcomeKnown ==
  /\ worker \in {"none", "spawned", "scanning", "handing", "sending", "ending",
                 "returning", "telling", "finishing", "over", "panicked"}
  /\ worker \in {"returning", "telling"} => how \in Outcomes
  /\ \A c \in Callers : pc[c] = "storing" => pulled[c] \in Outcomes
  /\ ended \in Outcomes \cup {"none"}

\* The words that are nothing but words.
Worded ==
  /\ asleep \subseteq Callers \cup {Worker}
  /\ stopped \in BOOLEAN /\ watch \in BOOLEAN /\ alive \in BOOLEAN
  /\ heard \in BOOLEAN
  /\ conn \in {"slot", "thread", "dropped"}

\* A chunk of the pipe, by its kind.
LEMMA MailKinds ==
  ASSUME NEW x \in Mail
  PROVE  /\ IsRows(x) => x[2] \in 1 .. MaxBatches
         /\ ~IsRows(x) => x[2] \in Outcomes
  BY DEF Mail, IsRows, Rows, Done

\* They have their types at first.
LEMMA InitTypes == Init => Mailed /\ OutcomeKnown /\ Worded
  <1> SUFFICES ASSUME Init
               PROVE  Mailed /\ OutcomeKnown /\ Worded
    OBVIOUS
  <1>1. <<>> \in Seq(Mail) /\ <<>> \in Seq(1 .. MaxBatches)
    OBVIOUS
  <1>2. Mailed
    BY <1>1, StreamAssumption DEF Init, Mailed
  <1>3. OutcomeKnown
    <2>1. ended \in Outcomes \cup {"none"}
      BY DEF Init, Outcomes
    <2> QED
      BY <2>1 DEF Init, OutcomeKnown
  <1>4. Worded
    <2>1. watch \in BOOLEAN
      BY Zenon DEF Init
    <2> QED
      BY <2>1 DEF Init, Worded
  <1> QED
    BY <1>2, <1>3, <1>4

\* Every step keeps the batches.
LEMMA StepMailed ==
  IInv /\ Counts /\ Ordered /\ Mailed /\ OutcomeKnown /\ [Next]_vars => Mailed'
  <1> SUFFICES ASSUME IInv, Counts, Ordered, Mailed, OutcomeKnown, [Next]_vars
               PROVE  Mailed'
    OBVIOUS
  <1> USE StreamAssumption DEF Callers
  <1>0. pushed \in Nat /\ made \in 0 .. MaxBatches /\ pushed <= made
    BY DEF Counts, Mailed
  <1>1. CASE UNCHANGED <<queue, seen, made, pushed>>
    BY <1>1 DEF Mailed
  <1>2. ASSUME NEW c \in Callers,
               \/ Next_(c) \/ Begin(c) \/ Spawn(c) \/ SpawnFails(c)
               \/ RecvWait(c) \/ RecvEnd(c) \/ Store(c) \/ Resolve(c)
               \/ Cancel(c) \/ TakeStart(c) \/ ReleaseWatch(c)
        PROVE  UNCHANGED <<queue, seen, made, pushed>>
    BY <1>2 DEF Next_, Begin, Spawn, SpawnFails, RecvWait, RecvEnd, Store,
       Resolve, Cancel, TakeStart, ReleaseWatch, pipe
  <1>3. ASSUME NEW c \in Callers, RecvRows(c) \/ RecvDone(c)
        PROVE  Mailed'
    <2>1. queue \in Seq(Mail) /\ queue # <<>> /\ queue' = Tail(queue)
      BY <1>3 DEF RecvRows, RecvDone, Mailed
    <2>2. Head(queue) \in Mail /\ Tail(queue) \in Seq(Mail)
      BY <2>1
    <2>3. seen' \in Seq(1 .. MaxBatches)
      <3>1. CASE RecvRows(c)
        <4>1. Head(queue)[2] \in 1 .. MaxBatches
          BY <2>2, <3>1, MailKinds DEF RecvRows
        <4>2. seen' = Append(seen, Head(queue)[2]) /\ seen \in Seq(1 .. MaxBatches)
          BY <3>1 DEF RecvRows, Mailed
        <4> QED
          BY <4>1, <4>2
      <3>2. CASE RecvDone(c)
        BY <3>2 DEF RecvDone, Mailed
      <3> QED
        BY <1>3, <3>1, <3>2
    <2>4. UNCHANGED <<made, pushed>>
      BY <1>3 DEF RecvRows, RecvDone
    <2> QED
      BY <1>0, <2>1, <2>2, <2>3, <2>4 DEF Mailed
  <1>4. CASE Push
    <2>1. CASE worker = "sending"
      <3>1. queue' = Append(queue, Rows(made)) /\ pushed' = pushed + 1
        BY <1>4, <2>1 DEF Push, Queued
      <3>2. made = pushed + 1
        BY <2>1 DEF Ordered, InTurn
      <3>3. Rows(made) \in Mail
        BY <1>0, <3>2 DEF Mail
      <3>4. queue' \in Seq(Mail)
        BY <3>1, <3>3 DEF Mailed
      <3>5. UNCHANGED <<seen, made>>
        BY <1>4 DEF Push
      <3> QED
        BY <1>0, <3>1, <3>2, <3>4, <3>5 DEF Mailed
    <2>2. CASE worker # "sending"
      <3>1. queue' = Append(queue, Done(how)) /\ worker = "telling"
        BY <1>4, <2>2 DEF Push, Queued, Sending
      <3>2. Done(how) \in Mail
        BY <3>1 DEF Mail, OutcomeKnown
      <3>3. queue' \in Seq(Mail)
        BY <3>1, <3>2 DEF Mailed
      <3>4. UNCHANGED <<seen, made, pushed>>
        BY <1>4, <2>2 DEF Push
      <3> QED
        BY <3>3, <3>4 DEF Mailed
    <2> QED
      BY <2>1, <2>2
  <1>5. CASE Drop
    <2>1. queue' = <<>> /\ UNCHANGED <<seen, made, pushed>>
      BY <1>5 DEF Drop
    <2>2. queue' \in Seq(Mail)
      BY <2>1
    <2> QED
      BY <2>1, <2>2 DEF Mailed
  <1>6. CASE MakeBatch
    <2>1. made < MaxBatches /\ made' = made + 1 /\ UNCHANGED <<queue, seen, pushed>>
      BY <1>6 DEF MakeBatch, pipe
    <2> QED
      BY <1>0, <2>1 DEF Mailed
  <1>7. CASE \/ Close \/ EmptySlot \/ Borrow \/ BorrowFails \/ EndScan \/ Hand
             \/ GiveBack \/ SendWait \/ Timeout \/ SendFails \/ Finish \/ Panic
             \/ UNCHANGED vars
    <2>1. UNCHANGED <<queue, seen, made, pushed>>
      BY <1>7 DEF Close, EmptySlot, Borrow, BorrowFails, EndScan, Hand, GiveBack,
         SendWait, Timeout, SendFails, Finish, Panic, vars, pipe
    <2> QED
      BY <1>1, <2>1
  <1> QED
    BY <1>1, <1>2, <1>3, <1>4, <1>5, <1>6, <1>7
    DEF Next, ReadStep, CancelStep, WorkerStep, Recv

\* Every step keeps the outcome known, from the thread on.
LEMMA StepOutcome ==
  IInv /\ Counts /\ Mailed /\ OutcomeKnown /\ [Next]_vars => OutcomeKnown'
  <1> SUFFICES ASSUME IInv, Counts, Mailed, OutcomeKnown, [Next]_vars
               PROVE  OutcomeKnown'
    OBVIOUS
  <1> USE StreamAssumption DEF Callers
  <1>0. /\ pc \in [Callers -> Places]
        /\ pulled \in [Callers -> {"none", "rows", "end", "no thread"} \cup Outcomes]
    BY DEF IInv, Shapes, Counts
  <1>1. ASSUME NEW c \in Callers,
               \/ Next_(c) \/ Begin(c) \/ RecvWait(c) \/ RecvEnd(c)
               \/ RecvRows(c) \/ Cancel(c) \/ TakeStart(c) \/ ReleaseWatch(c)
               \/ SpawnFails(c)
        PROVE  OutcomeKnown'
    <2>1. UNCHANGED <<worker, how, ended>>
      BY <1>1 DEF Next_, Begin, RecvWait, RecvEnd, RecvRows, Cancel, TakeStart,
         ReleaseWatch, SpawnFails, live
    <2>2. \A d \in Callers : pc'[d] = "storing" => pc[d] = "storing" /\ pulled'[d] = pulled[d]
      BY <1>0, <1>1 DEF Next_, Begin, RecvWait, RecvEnd, RecvRows, Cancel,
         TakeStart, ReleaseWatch, SpawnFails, Goto, Receiving
    <2> QED
      BY <2>1, <2>2 DEF OutcomeKnown
  <1>2. ASSUME NEW c \in Callers, Spawn(c)
        PROVE  OutcomeKnown'
    <2>1. worker' = "spawned" /\ UNCHANGED <<ended, pulled>>
      BY <1>2 DEF Spawn, live
    <2>2. \A d \in Callers : pc'[d] = "storing" => pc[d] = "storing"
      BY <1>0, <1>2 DEF Spawn, Goto
    <2> QED
      BY <2>1, <2>2 DEF OutcomeKnown
  <1>3. ASSUME NEW c \in Callers, RecvDone(c)
        PROVE  OutcomeKnown'
    <2>1. Head(queue)[2] \in Outcomes
      <3>1. queue \in Seq(Mail) /\ queue # <<>> /\ ~IsRows(Head(queue))
        BY <1>3 DEF RecvDone, Mailed
      <3>2. Head(queue) \in Mail
        BY <3>1
      <3> QED
        BY <3>1, <3>2, MailKinds
    <2>2. /\ UNCHANGED <<worker, how, ended>>
          /\ pulled' = [pulled EXCEPT ![c] = Head(queue)[2]]
          /\ pc' = [pc EXCEPT ![c] = "storing"]
      BY <1>3 DEF RecvDone, Goto, live
    <2> QED
      BY <1>0, <2>1, <2>2 DEF OutcomeKnown
  <1>4. ASSUME NEW c \in Callers, Store(c)
        PROVE  OutcomeKnown'
    <2>1. ended' \in Outcomes \cup {"none"} /\ UNCHANGED <<worker, how>>
      BY <1>4 DEF Store, OutcomeKnown
    <2>2. \A d \in Callers : pc'[d] = "storing" => pc[d] = "storing" /\ pulled'[d] = pulled[d]
      BY <1>0, <1>4 DEF Store, Goto
    <2> QED
      BY <2>1, <2>2 DEF OutcomeKnown
  <1>5. ASSUME NEW c \in Callers, Resolve(c)
        PROVE  OutcomeKnown'
    <2>1. ended' \in Outcomes \cup {"none"} /\ UNCHANGED <<worker, how>>
      BY <1>5 DEF Resolve, OutcomeKnown
    <2>2. \A d \in Callers : pc'[d] = "storing" => pc[d] = "storing" /\ pulled'[d] = pulled[d]
      BY <1>0, <1>5 DEF Resolve, Goto
    <2> QED
      BY <2>1, <2>2 DEF OutcomeKnown
  <1>6. CASE \/ Borrow \/ BorrowFails \/ MakeBatch \/ EndScan \/ Hand \/ GiveBack
             \/ Push \/ SendFails \/ Finish \/ Panic
    BY <1>6 DEF Borrow, BorrowFails, MakeBatch, EndScan, Hand, GiveBack, Push,
       SendFails, Finish, Panic, OutcomeKnown, Outcomes, live
  <1>7. CASE \/ Drop \/ Close \/ EmptySlot \/ SendWait \/ Timeout \/ UNCHANGED vars
    BY <1>7 DEF Drop, Close, EmptySlot, SendWait, Timeout, vars, OutcomeKnown, live
  <1> QED
    BY <1>1, <1>2, <1>3, <1>4, <1>5, <1>6, <1>7
    DEF Next, ReadStep, CancelStep, WorkerStep, Recv

\* Every step keeps the words.
LEMMA StepWorded == Worded /\ [Next]_vars => Worded'
  <1> SUFFICES ASSUME Worded, [Next]_vars
               PROVE  Worded'
    OBVIOUS
  <1> USE DEF Worded, Callers, live, pipe
  <1>1. ASSUME NEW c \in Callers,
               \/ Next_(c) \/ Begin(c) \/ Spawn(c) \/ SpawnFails(c)
               \/ RecvWait(c) \/ RecvEnd(c) \/ RecvRows(c) \/ RecvDone(c) \/ Store(c)
               \/ Cancel(c) \/ TakeStart(c) \/ ReleaseWatch(c)
        PROVE  Worded'
    BY <1>1 DEF Next_, Begin, Spawn, SpawnFails, RecvWait, RecvEnd, RecvRows,
       RecvDone, Store, Cancel, TakeStart, ReleaseWatch, Wake
  <1>2. ASSUME NEW c \in Callers, Resolve(c)
        PROVE  Worded'
    <2>1. watch' \in BOOLEAN /\ heard' \in BOOLEAN
      BY <1>2, Zenon DEF Resolve
    <2>2. UNCHANGED <<asleep, stopped, alive, conn>>
      BY <1>2 DEF Resolve
    <2> QED
      BY <2>1, <2>2
  <1>3. CASE \/ Drop \/ Close \/ EmptySlot \/ Borrow \/ BorrowFails \/ MakeBatch
             \/ EndScan \/ Hand \/ GiveBack \/ Push \/ SendWait \/ Timeout
             \/ SendFails \/ Finish \/ Panic \/ UNCHANGED vars
    BY <1>3 DEF Drop, Close, EmptySlot, Borrow, BorrowFails, MakeBatch, EndScan,
       Hand, GiveBack, Push, SendWait, Timeout, SendFails, Finish, Panic, Wake,
       Back, vars
  <1> QED
    BY <1>1, <1>2, <1>3 DEF Next, ReadStep, CancelStep, WorkerStep, Recv

\* Every word of a stream keeps its type: what is read was made, and what the
\* statement ended as is known wherever it is (src/stream.rs).
THEOREM TypeCorrect == Spec => []TypeOK
  <1>1. ASSUME IInv, Counts, Mailed, OutcomeKnown, Worded
        PROVE  TypeOK
    <2>1. pushed \in 0 .. MaxBatches
      <3>1. pushed \in Nat /\ made \in 0 .. MaxBatches /\ pushed <= made
        BY <1>1, Zenon DEF Counts, Mailed
      <3>2. MaxBatches \in Nat
        BY StreamAssumption
      <3> QED
        BY <3>1, <3>2
    <2>2. queue \in Seq({Rows(n) : n \in 1 .. MaxBatches} \cup {Done(r) : r \in Outcomes})
      BY <1>1 DEF Mailed, Mail
    <2>3. /\ pc \in [Callers -> {"idle", "called", "spawning", "pulling", "draining",
                                "storing", "computed", "settled"}]
          /\ pulled \in [Callers -> Outcomes \cup {"none", "rows", "end", "no thread"}]
      <3>1. pc \in [Callers -> Places]
        BY <1>1 DEF IInv, Shapes
      <3>2. {"none", "rows", "end", "no thread"} \cup Outcomes
              = Outcomes \cup {"none", "rows", "end", "no thread"}
        BY Zenon
      <3>3. pulled \in [Callers -> Outcomes \cup {"none", "rows", "end", "no thread"}]
        BY <1>1, <3>2, Zenon DEF Counts
      <3> QED
        BY <3>1, <3>3, Zenon DEF Places
    <2>4. /\ closed \in BOOLEAN /\ done \in BOOLEAN /\ start \in BOOLEAN
          /\ held \in BOOLEAN /\ how \in Outcomes \cup {"none"}
      BY <1>1, Zenon DEF IInv, Shapes
    <2>5. /\ made \in 0 .. MaxBatches /\ seen \in Seq(1 .. MaxBatches)
          /\ asleep \subseteq Callers \cup {Worker}
          /\ stopped \in BOOLEAN /\ watch \in BOOLEAN /\ alive \in BOOLEAN
          /\ heard \in BOOLEAN /\ conn \in {"slot", "thread", "dropped"}
          /\ ended \in Outcomes \cup {"none"}
      BY <1>1, Zenon DEF Mailed, OutcomeKnown, Worded
    <2>6. worker \in {"none", "spawned", "scanning", "handing", "sending", "ending",
                     "returning", "telling", "finishing", "over", "panicked"}
      BY <1>1, Zenon DEF OutcomeKnown
    <2> QED
      BY <2>1, <2>2, <2>3, <2>4, <2>5, <2>6, Zenon DEF TypeOK
  <1>2. Init => Mailed /\ OutcomeKnown /\ Worded
    BY InitTypes
  <1>3. IInv /\ Counts /\ Ordered /\ Mailed /\ OutcomeKnown /\ Worded /\ [Next]_vars
          => Mailed' /\ OutcomeKnown' /\ Worded'
    BY StepMailed, StepOutcome, StepWorded
  <1> QED
    BY <1>1, <1>2, <1>3, OrderIsKept, PTL DEF Spec

-----------------------------------------------------------------------------
(***************************************************************************)
(* What a stream does with the connection.                                 *)
(***************************************************************************)
\* The slot of the connection, as a stream sees it.
LentOut == INSTANCE Slot WITH
  place <- IF conn = "thread" THEN "lent"
           ELSE IF conn = "dropped" THEN "gone" ELSE "slot"

\* A stream takes the connection out of its slot, and puts it back or drops it,
\* and a close empties the slot, as Slot has them and in no other way: what the
\* modules built on Slot see of a stream is what this one does
\* (src/stream.rs Borrowed).
THEOREM OnASlot == Spec => LentOut!SlotSpec
  <1>1. Init => LentOut!SlotInit
    BY DEF Init, LentOut!SlotInit
  <1>2. IInv /\ Worded /\ [Next]_vars =>
          [LentOut!SlotNext]_<<alive, IF conn = "thread" THEN "lent"
                                  ELSE IF conn = "dropped" THEN "gone" ELSE "slot">>
    <2> SUFFICES ASSUME IInv, Worded, [Next]_vars
                 PROVE  \/ LentOut!SlotNext
                        \/ UNCHANGED <<alive, conn>>
      OBVIOUS
    <2> USE DEF LentOut!SlotNext, LentOut!TakenOut, LentOut!GivenBack,
                LentOut!TurnedOff, LentOut!Emptied
    <2>1. ASSUME NEW c \in Callers,
                 \/ Next_(c) \/ ReadStep(c) \/ Cancel(c) \/ CancelStep(c)
          PROVE  UNCHANGED <<alive, conn>>
      BY <2>1 DEF Next_, ReadStep, Begin, Spawn, SpawnFails, Recv, RecvWait, RecvEnd,
         RecvRows, RecvDone, Store, Resolve, Cancel, CancelStep, TakeStart,
         ReleaseWatch
    <2>2. CASE \/ Drop \/ BorrowFails \/ MakeBatch \/ EndScan \/ Hand \/ Push
               \/ SendWait \/ Timeout \/ SendFails \/ Finish \/ UNCHANGED vars
      BY <2>2 DEF Drop, BorrowFails, MakeBatch, EndScan, Hand, Push, SendWait,
         Timeout, SendFails, Finish, vars
    <2>3. CASE Close
      BY <2>3 DEF Close
    <2>4. CASE EmptySlot
      BY <2>4 DEF EmptySlot
    <2>5. CASE Borrow
      BY <2>5 DEF Borrow
    <2>6. CASE GiveBack \/ Panic
      <3>1. conn = "thread" /\ conn' = Back /\ alive' = alive
        BY <2>6 DEF GiveBack, Panic, IInv, InHand, Running
      <3> QED
        BY <3>1 DEF Back
    <2> QED
      BY <2>1, <2>2, <2>3, <2>4, <2>5, <2>6 DEF Next, WorkerStep, Callers
  <1>3. Init => Worded
    BY InitTypes
  <1>4. Worded /\ [Next]_vars => Worded'
    BY StepWorded
  <1> QED
    BY <1>1, <1>2, <1>3, <1>4, InductiveInvariant, PTL DEF Spec, LentOut!SlotSpec

-----------------------------------------------------------------------------
(***************************************************************************)
(* The loop.  Both of its theorems follow one word, what the statement     *)
(* ended as, on its way from the queue to the call that takes it, to       *)
(* `ended`, to the generator or the cancel that is answered, and to        *)
(* #summary.  Who has the word has it of a queue that is empty and a       *)
(* statement that is over.                                                 *)
(***************************************************************************)

(***************************************************************************)
(* The word, in the stream.                                                *)
(***************************************************************************)
\* The statement is over and its queue is empty, for good.
Emptied == queue = <<>> /\ Quiet

\* The end has come to a call.
Heard(c) ==
  \/ pc[c] = "storing" \/ pulled[c] = "end"
  \/ c \in Cancellers /\ pc[c] \in {"computed", "settled"}

\* It comes last, out of a queue that it leaves empty.
EndTaken ==
  /\ worker = "none" => queue = <<>>
  /\ held => \A c \in Callers : Heard(c) => Emptied

\* There is one word, and it is kept once.
OneEnd ==
  /\ ended \in Outcomes \cup {"none"}
  /\ start \/ (\E c \in Callers : pc[c] = "spawning") => ended = "none"
  /\ worker \notin {"none", "finishing", "over", "panicked"} => ended = "none"
  /\ worker \in {"finishing", "over"} => ended \in {"none", how}
  /\ \A i \in 1 .. Len(queue) : ~IsRows(queue[i]) => queue[i] = Done(how)
  /\ \A c \in Callers : pc[c] = "storing" => pulled[c] = how

\* A stream opens with a statement to begin, or with its refusal in `ended`.
LEMMA InitEnd == Init => EndTaken /\ OneEnd
  <1> SUFFICES ASSUME Init
               PROVE  EndTaken /\ OneEnd
    OBVIOUS
  <1>1. PICK refused \in BOOLEAN :
          /\ start = (~refused)
          /\ ended = IF refused THEN "failed" ELSE "none"
    BY Zenon DEF Init
  <1>2. start => ended = "none"
    BY <1>1
  <1>3. ended \in Outcomes \cup {"none"}
    BY <1>1 DEF Outcomes
  <1>4. /\ queue = <<>> /\ worker = "none"
        /\ \A c \in Callers : pc[c] = "idle" /\ pulled[c] = "none"
    BY DEF Init
  <1>5. Len(queue) = 0
    BY <1>4
  <1>6. EndTaken
    BY <1>4 DEF EndTaken, Heard, Callers
  <1> QED
    BY <1>2, <1>3, <1>4, <1>5, <1>6 DEF OneEnd

\* What is over stays over, and its queue empty.
LEMMA EmptiedStays ==
  ASSUME IInv, Emptied, [Next]_vars
  PROVE  Emptied'
  <1> USE StreamAssumption DEF Emptied, Quiet, Callers
  <1>1. pc \in [Callers -> Places]
    BY DEF IInv, Shapes
  <1>2. ASSUME NEW c \in Callers,
               \/ Next_(c) \/ Begin(c) \/ Spawn(c) \/ SpawnFails(c)
               \/ Resolve(c) \/ Cancel(c) \/ TakeStart(c) \/ ReleaseWatch(c)
        PROVE  Emptied'
    <2>1. ~Spawn(c) /\ ~SpawnFails(c)
      BY <1>2 DEF Spawn, SpawnFails
    <2>2. CASE Next_(c) \/ Resolve(c) \/ Cancel(c) \/ ReleaseWatch(c)
      <3>1. UNCHANGED <<queue, start, worker>>
        BY <2>2 DEF Next_, Resolve, Cancel, ReleaseWatch, pipe, live
      <3>2. \E p \in {"called", "idle", "settled"} : pc' = [pc EXCEPT ![c] = p]
        BY <2>2 DEF Next_, Resolve, Cancel, ReleaseWatch, Goto
      <3> QED
        BY <1>1, <3>1, <3>2
    <2>3. CASE Begin(c) \/ TakeStart(c)
      BY <1>1, <2>3 DEF Begin, TakeStart, Goto, pipe
    <2> QED
      BY <1>2, <2>1, <2>2, <2>3
  <1>3. ASSUME NEW c \in Callers, Recv(c)
        PROVE  Emptied'
    <2>1. RecvWait(c) \/ RecvEnd(c) \/ Store(c)
      BY <1>3 DEF Recv, RecvRows, RecvDone
    <2> QED
      BY <1>1, <2>1 DEF RecvWait, RecvEnd, Store, Goto, pipe, live
  <1>4. CASE Drop \/ Close \/ EmptySlot \/ Panic \/ UNCHANGED vars
    BY <1>4 DEF Drop, Close, EmptySlot, Panic, vars, pipe, live
  <1>5. CASE WorkerStep
    BY <1>5 DEF WorkerStep, Borrow, BorrowFails, MakeBatch, EndScan, Hand,
       GiveBack, Push, Sending, SendWait, Timeout, SendFails, Finish, pipe,
       live
  <1> QED
    BY <1>2, <1>3, <1>4, <1>5 DEF Next, ReadStep, CancelStep

\* The end that a call comes to is that of a statement that is over.
LEMMA StepEndTaken ==
  ASSUME IInv, IInv', Counts, Ordered, EndTaken, [Next]_vars
  PROVE  EndTaken'
  <1> USE StreamAssumption DEF Callers
  <1>10. /\ pc \in [Callers -> Places]
         /\ pulled \in
              [Callers -> {"none", "rows", "end", "no thread"} \cup Outcomes]
         /\ queue \in Seq(Chunks) /\ Len(queue) \in Nat
         /\ held \in BOOLEAN /\ closed \in BOOLEAN /\ (held <=> ~closed)
    BY LenIsNat DEF IInv, Shapes, Counts, InHand
  <1>1. worker' = "none" => queue' = <<>>
    <2>1. ASSUME NEW c \in Callers, RecvRows(c) \/ RecvDone(c)
          PROVE  worker' # "none"
      BY <2>1 DEF RecvRows, RecvDone, EndTaken
    <2>2. ASSUME NEW c \in Callers,
                 \/ Next_(c) \/ Begin(c) \/ Spawn(c) \/ SpawnFails(c)
                 \/ RecvWait(c) \/ RecvEnd(c) \/ Store(c) \/ Resolve(c)
                 \/ Cancel(c) \/ TakeStart(c) \/ ReleaseWatch(c)
          PROVE  worker' = "none" => queue' = <<>>
      BY <2>2 DEF Next_, Begin, Spawn, SpawnFails, RecvWait, RecvEnd, Store,
         Resolve, Cancel, TakeStart, ReleaseWatch, pipe, EndTaken
    <2>3. CASE Drop \/ Close \/ EmptySlot \/ Panic \/ UNCHANGED vars
      BY <2>3 DEF Drop, Close, EmptySlot, Panic, vars, pipe, EndTaken
    <2>4. CASE WorkerStep
      BY <2>4 DEF WorkerStep, Borrow, BorrowFails, MakeBatch, EndScan, Hand,
         GiveBack, Push, SendWait, Timeout, SendFails, Finish, pipe, EndTaken
    <2> QED
      BY <2>1, <2>2, <2>3, <2>4 DEF Next, ReadStep, CancelStep, Recv
  <1>2. held' => held
    BY <1>10 DEF Next, ReadStep, CancelStep, WorkerStep, Recv, Next_, Begin,
       Spawn, SpawnFails, RecvWait, RecvEnd, RecvRows, RecvDone, Store,
       Resolve, Cancel, TakeStart, ReleaseWatch, Drop, Close, EmptySlot,
       Borrow, BorrowFails, MakeBatch, EndScan, Hand, GiveBack, Push,
       SendWait, Timeout, SendFails, Finish, Panic, vars
  <1>3. ASSUME held', NEW x \in Callers, Heard(x)
        PROVE  Emptied'
    BY <1>2, <1>3, EmptiedStays DEF EndTaken
  <1>4. ASSUME held', NEW x \in Callers, ~Heard(x), Heard(x)'
        PROVE  Emptied'
    <2>1. ASSUME NEW c \in Callers, RecvEnd(c)
          PROVE  Emptied'
      <3>1. queue = <<>> /\ done
        BY <1>2, <1>4, <1>10, <2>1 DEF RecvEnd, Over
      <3>2. Emptied
        BY <3>1 DEF IInv, EndIsQuiet, BegunOnce, Shapes, Quiet, Emptied
      <3> QED
        BY <3>2, EmptiedStays
    <2>2. ASSUME NEW c \in Callers, RecvDone(c)
          PROVE  Emptied'
      <3>1. queue # <<>> /\ ~IsRows(queue[1]) /\ held
            /\ Len(queue) \in Nat \ {0}
        BY <1>2, <1>4, <1>10, <2>2, HeadAndTail DEF RecvDone
      <3>2. 1 \in 1 .. Len(queue)
        BY <3>1
      <3>3. Len(queue) = 1
        BY <3>1, <3>2 DEF Ordered, EndIsLast
      <3>4. queue' \in Seq(Chunks) /\ Len(queue') = 0
        <4>1. queue' = Tail(queue)
          BY <2>2 DEF RecvDone
        <4>2. /\ Tail(queue) \in Seq(Chunks)
              /\ Len(Tail(queue)) = Len(queue) - 1
          BY <1>10, <3>1, HeadAndTail
        <4> QED
          BY <3>3, <4>1, <4>2
      <3>5. pc'[c] = "storing"
        BY <1>10, <2>2 DEF RecvDone, Goto
      <3>6. queue' = <<>>
        BY <3>4
      <3>7. Quiet'
        BY <3>5 DEF IInv, EndIsQuiet
      <3> QED
        BY <3>6, <3>7 DEF Emptied
    <2>3. ASSUME NEW c \in Cancellers, TakeStart(c)
          PROVE  Emptied'
      <3>1. CASE start
        <4>1. queue = <<>> /\ worker = "none"
          BY <3>1 DEF IInv, BegunOnce, EndTaken
        <4>2. \A y \in Callers : pc[y] # "spawning"
          BY <3>1 DEF IInv, BegunOnce
        <4> QED
          BY <1>10, <2>3, <3>1, <4>1, <4>2
          DEF TakeStart, Goto, Emptied, Quiet
      <3>2. CASE ~start
        BY <1>4, <1>10, <2>3, <3>2 DEF TakeStart, Goto, Heard
      <3> QED
        BY <3>1, <3>2
    <2>4. ASSUME NEW c \in Readers,
                 \/ Next_(c) \/ Begin(c) \/ Spawn(c) \/ SpawnFails(c)
                 \/ Resolve(c)
          PROVE  FALSE
      BY <1>4, <1>10, <2>4 DEF Next_, Begin, Spawn, SpawnFails, Resolve, Goto,
         Heard
    <2>5. ASSUME NEW c \in Cancellers, Cancel(c) \/ ReleaseWatch(c)
          PROVE  FALSE
      BY <1>4, <1>10, <2>5 DEF Cancel, ReleaseWatch, Goto, Heard
    <2>6. ASSUME NEW c \in Callers, RecvWait(c) \/ RecvRows(c) \/ Store(c)
          PROVE  FALSE
      BY <1>4, <1>10, <2>6 DEF RecvWait, RecvRows, Store, Goto, Heard, IInv,
         Shapes
    <2>7. CASE UNCHANGED <<pc, pulled>>
      BY <1>4, <2>7 DEF Heard
    <2>8. CASE \/ Drop \/ Close \/ EmptySlot \/ Panic \/ UNCHANGED vars
               \/ WorkerStep
      BY <2>7, <2>8 DEF Drop, Close, EmptySlot, Panic, vars, WorkerStep,
         Borrow, BorrowFails, MakeBatch, EndScan, Hand, GiveBack, Push,
         SendWait, Timeout, SendFails, Finish
    <2> QED
      BY <2>1, <2>2, <2>3, <2>4, <2>5, <2>6, <2>8
      DEF Next, ReadStep, CancelStep, Recv
  <1> QED
    BY <1>1, <1>3, <1>4 DEF EndTaken

\* Every step keeps the one word.
LEMMA StepOneEnd ==
  ASSUME IInv, Counts, OneEnd, [Next]_vars
  PROVE  OneEnd'
  <1> USE StreamAssumption DEF Callers
  <1>10. /\ pc \in [Callers -> Places]
         /\ pulled \in
              [Callers -> {"none", "rows", "end", "no thread"} \cup Outcomes]
    BY DEF IInv, Shapes, Counts
  <1>20. queue \in Seq(Chunks) /\ Len(queue) \in Nat
    BY LenIsNat DEF IInv, Shapes
  <1>1. ASSUME NEW c \in Callers,
               \/ Next_(c) \/ RecvWait(c) \/ RecvEnd(c) \/ Cancel(c)
               \/ ReleaseWatch(c)
        PROVE  OneEnd'
    <2>1. UNCHANGED <<queue, start, worker, how, ended>>
      BY <1>1 DEF Next_, RecvWait, RecvEnd, Cancel, ReleaseWatch, pipe, live
    <2>2. \A x \in Callers :
            /\ pc'[x] = "spawning" => pc[x] = "spawning"
            /\ pc'[x] = "storing" =>
                 pc[x] = "storing" /\ pulled'[x] = pulled[x]
      BY <1>1, <1>10 DEF Next_, RecvWait, RecvEnd, Cancel, ReleaseWatch, Goto
    <2> QED
      BY <2>1, <2>2 DEF OneEnd
  <1>2. ASSUME NEW c \in Readers, Begin(c)
        PROVE  OneEnd'
    BY <1>2, <1>10 DEF Begin, Goto, pipe, OneEnd
  <1>3. ASSUME NEW c \in Readers, Spawn(c) \/ SpawnFails(c)
        PROVE  OneEnd'
    BY <1>3, <1>10 DEF Spawn, SpawnFails, Goto, pipe, live, OneEnd, IInv,
       BegunOnce
  <1>4. ASSUME NEW c \in Cancellers, TakeStart(c)
        PROVE  OneEnd'
    BY <1>4, <1>10 DEF TakeStart, Goto, OneEnd
  <1>5. ASSUME NEW c \in Readers, Resolve(c)
        PROVE  OneEnd'
    <2>1. UNCHANGED <<queue, start, worker, how>> /\ ended' \in {ended, "none"}
      BY <1>5 DEF Resolve, pipe
    <2>2. \A x \in Callers :
            /\ pc'[x] = "spawning" => pc[x] = "spawning"
            /\ pc'[x] = "storing" =>
                 pc[x] = "storing" /\ pulled'[x] = pulled[x]
      BY <1>5, <1>10 DEF Resolve, Goto
    <2> QED
      BY <2>1, <2>2 DEF OneEnd
  <1>6. ASSUME NEW c \in Callers, RecvRows(c)
        PROVE  OneEnd'
    <2>1. UNCHANGED <<start, worker, how, ended>>
      BY <1>6 DEF RecvRows, live
    <2>2. \A x \in Callers :
            /\ pc'[x] = "spawning" => pc[x] = "spawning"
            /\ pc'[x] = "storing" =>
                 pc[x] = "storing" /\ pulled'[x] = pulled[x]
      BY <1>6, <1>10 DEF RecvRows, Receiving, Goto
    <2>3. \A i \in 1 .. Len(queue') :
            ~IsRows(queue'[i]) => queue'[i] = Done(how)
      BY <1>6, <1>20, TakenOff DEF OneEnd
    <2> QED
      BY <2>1, <2>2, <2>3 DEF OneEnd
  <1>7. ASSUME NEW c \in Callers, RecvDone(c)
        PROVE  OneEnd'
    <2>1. UNCHANGED <<start, worker, how, ended>>
      BY <1>7 DEF RecvDone, live
    <2>2. Head(queue) = Done(how)
      <3>1. queue # <<>> /\ ~IsRows(queue[1]) /\ 1 \in 1 .. Len(queue)
        BY <1>7, <1>20, TakenOff DEF RecvDone
      <3> QED
        BY <1>7, <1>20, <3>1, TakenOff DEF OneEnd
    <2>3. pulled' = [pulled EXCEPT ![c] = how]
      <3>1. Done(how)[2] = how
        BY DEF Done
      <3>2. pulled' = [pulled EXCEPT ![c] = Head(queue)[2]]
        BY <1>7 DEF RecvDone
      <3> QED
        BY <2>2, <3>1, <3>2
    <2>4. \A x \in Callers :
            /\ pc'[x] = "spawning" => pc[x] = "spawning"
            /\ pc'[x] = "storing" => pulled'[x] = how
      BY <1>7, <1>10, <2>3 DEF RecvDone, Goto, OneEnd
    <2>5. \A i \in 1 .. Len(queue') :
            ~IsRows(queue'[i]) => queue'[i] = Done(how)
      BY <1>7, <1>20, TakenOff DEF OneEnd
    <2> QED
      BY <2>1, <2>4, <2>5 DEF OneEnd
  <1>8. ASSUME NEW c \in Callers, Store(c)
        PROVE  OneEnd'
    <2>1. Quiet /\ pulled[c] = how /\ how \in Outcomes \cup {"none"}
      BY <1>8 DEF Store, IInv, EndIsQuiet, OneEnd, Shapes
    <2>2. UNCHANGED <<queue, start, worker, how>>
          /\ ended' \in {ended, how}
      BY <1>8, <2>1 DEF Store, pipe
    <2>3. \A x \in Callers :
            /\ pc'[x] # "spawning"
            /\ pc'[x] = "storing" =>
                 pc[x] = "storing" /\ pulled'[x] = pulled[x]
      BY <1>8, <1>10, <2>1 DEF Store, Goto, Quiet
    <2> QED
      BY <2>1, <2>2, <2>3 DEF OneEnd, Quiet
  <1>9. CASE Drop
    <2>1. UNCHANGED <<start, worker, how, ended, pc, pulled>> /\ queue' = <<>>
      BY <1>9 DEF Drop
    <2>2. Len(<<>>) = 0
      OBVIOUS
    <2> QED
      BY <2>1, <2>2 DEF OneEnd
  <1>11. CASE Close \/ EmptySlot \/ SendWait \/ Timeout \/ UNCHANGED vars
    <2>1. UNCHANGED <<queue, start, worker, how, ended, pc, pulled>>
      BY <1>11 DEF Close, EmptySlot, SendWait, Timeout, vars, pipe, live
    <2> QED
      BY <2>1 DEF OneEnd
  <1>12. CASE \/ Borrow \/ MakeBatch \/ Hand \/ GiveBack \/ SendFails
              \/ Finish \/ Panic
    <2>1. UNCHANGED <<queue, start, how, ended, pc, pulled>>
      BY <1>12 DEF Borrow, MakeBatch, Hand, GiveBack, SendFails, Finish,
         Panic, pipe, live
    <2>2. /\ worker' \notin {"none", "finishing", "over", "panicked"} =>
               worker \notin {"none", "finishing", "over", "panicked"}
          /\ worker' \in {"finishing", "over"} =>
               worker \notin {"none", "panicked"}
      BY <1>12 DEF Borrow, MakeBatch, Hand, GiveBack, SendFails, Sending,
         Finish, Panic
    <2> QED
      BY <2>1, <2>2 DEF OneEnd
  <1>13. CASE BorrowFails \/ EndScan
    <2>1. /\ UNCHANGED <<queue, start, ended, pc, pulled>>
          /\ worker' \notin {"finishing", "over"}
          /\ worker \notin {"none", "finishing", "over", "panicked"}
      BY <1>13 DEF BorrowFails, EndScan, pipe, live
    <2>2. \A i \in 1 .. Len(queue) : IsRows(queue[i])
      BY <2>1 DEF IInv, EndIsQuiet
    <2>3. \A x \in Callers : pc[x] # "storing"
      BY <2>1 DEF IInv, EndIsQuiet, Quiet
    <2> QED
      BY <2>1, <2>2, <2>3 DEF OneEnd
  <1>14. CASE Push
    <2>1. UNCHANGED <<start, how, ended, pc, pulled>>
          /\ worker \in {"sending", "telling"}
          /\ worker' \in {"scanning", "finishing"}
      BY <1>14 DEF Push, Sending, live
    <2>2. \A i \in 1 .. Len(queue') :
            ~IsRows(queue'[i]) => queue'[i] = Done(how)
      <3>1. ASSUME NEW y \in Chunks, queue' = Append(queue, y),
                   IsRows(y) \/ y = Done(how)
            PROVE  \A i \in 1 .. Len(queue') :
                     ~IsRows(queue'[i]) => queue'[i] = Done(how)
        <4>1. /\ Len(queue') = Len(queue) + 1 /\ queue'[Len(queue) + 1] = y
              /\ \A i \in 1 .. Len(queue) : queue'[i] = queue[i]
          BY <1>20, <3>1, Appended
        <4> QED
          BY <1>20, <3>1, <4>1 DEF OneEnd
      <3>2. /\ Rows(made) \in Chunks /\ IsRows(Rows(made))
            /\ Done(how) \in Chunks
        BY ChunksMade DEF IInv, Shapes
      <3>3. \/ queue' = Append(queue, Rows(made))
            \/ queue' = Append(queue, Done(how))
        BY <1>14 DEF Push, Queued
      <3> QED
        BY <3>1, <3>2, <3>3
    <2> QED
      BY <2>1, <2>2 DEF OneEnd
  <1> QED
    BY <1>1, <1>2, <1>3, <1>4, <1>5, <1>6, <1>7, <1>8, <1>9, <1>11, <1>12,
       <1>13, <1>14
    DEF Next, ReadStep, CancelStep, WorkerStep, Recv

-----------------------------------------------------------------------------
(***************************************************************************)
(* The loop.                                                               *)
(***************************************************************************)
\* A call that has a thread of the pool has been made and is not computed yet,
\* and leaves every other call alone.
LEMMA PoolMoves ==
  ASSUME IInv, Counts, NEW c \in Callers, TakeThread(c) \/ Compute(c)
  PROVE  /\ pc[c] \in {"called", "spawning", "pulling", "draining", "storing"}
         /\ pc'[c] \notin {"idle", "settled"}
         /\ \A x \in Callers \ {c} : pc'[x] = pc[x] /\ pulled'[x] = pulled[x]
         /\ UNCHANGED <<loop, held, alive, how>>
  <1>1. /\ pc \in [Callers -> Places]
        /\ pulled \in
             [Callers -> {"none", "rows", "end", "no thread"} \cup Outcomes]
    BY DEF IInv, Shapes, Counts
  <1> DEFINE Moves ==
        /\ pc[c] \in {"called", "spawning", "pulling", "draining", "storing"}
        /\ pc'[c] \notin {"idle", "settled"}
        /\ \A x \in Callers \ {c} : pc'[x] = pc[x] /\ pulled'[x] = pulled[x]
  <1>2. Begin(c) \/ TakeStart(c) => Moves
    BY <1>1 DEF Begin, TakeStart, Goto
  <1>3. Spawn(c) \/ SpawnFails(c) => Moves
    BY <1>1 DEF Spawn, SpawnFails, Goto
  <1>4. Recv(c) => Moves
    BY <1>1 DEF Recv, RecvWait, RecvEnd, RecvRows, RecvDone, Store,
       Receiving, Goto
  <1>5. UNCHANGED <<loop, held, alive, how>>
    BY DEF TakeThread, Compute, Begin, TakeStart, Spawn, SpawnFails, Recv,
       RecvWait, RecvEnd, RecvRows, RecvDone, Store
  <1> QED
    BY <1>2, <1>3, <1>4, <1>5 DEF TakeThread, Compute

\* A step of a loop is a step of its stream.
LEMMA StepIsStream ==
  ASSUME IInv, [NextIt]_varsIt
  PROVE  [Next]_vars
  <1> USE StreamAssumption, IterationAssumption DEF Callers
  <1>1. ASSUME NEW c \in Callers, TakeThread(c)
        PROVE  Next
    BY <1>1 DEF TakeThread, Next, ReadStep, CancelStep
  <1>2. ASSUME NEW c \in Callers, Compute(c)
        PROVE  Next
    <2>1. CASE Recv(c)
      BY <2>1 DEF Next, ReadStep, CancelStep
    <2>2. CASE Spawn(c) \/ SpawnFails(c)
      <3>1. c \in Readers
        BY <2>2 DEF Spawn, SpawnFails, IInv, Shapes
      <3> QED
        BY <2>2, <3>1 DEF Next, ReadStep
    <2> QED
      BY <1>2, <2>1, <2>2 DEF Compute
  <1>3. CASE Pull \/ Settle
    BY <1>3 DEF Pull, Settle, Next, ReadStep
  <1>4. CASE Ends \/ LeaveUnread \/ Leave
    BY <1>4 DEF Ends, LeaveUnread, Leave
  <1>5. CASE RunFinally \/ Left
    BY <1>5 DEF RunFinally, Left, Next, CancelStep
  <1>6. ASSUME NEW c \in Programs, ProgramCancels(c) \/ ProgramHears(c)
        PROVE  Next
    BY <1>6 DEF Programs, ProgramCancels, ProgramHears, Next, CancelStep
  <1>7. CASE LetGo \/ Underneath \/ CloseUnderneath
    BY <1>7 DEF LetGo, Underneath, CloseUnderneath, Next
  <1>8. CASE UNCHANGED varsIt
    BY <1>8 DEF varsIt
  <1> QED
    BY <1>1, <1>2, <1>3, <1>4, <1>5, <1>6, <1>7, <1>8 DEF NextIt, OnLoop

\* The stream of a loop is a stream: what is proved of Stream holds of it.
THEOREM LoopIsAStream == FairIt => Spec
  <1>1. FairIt => InitIt /\ [][NextIt]_varsIt
    BY PTL DEF FairIt
  <1>2. InitIt => Init
    BY DEF InitIt
  <1>3. IInv /\ [NextIt]_varsIt => [Next]_vars
    BY StepIsStream
  <1> QED
    BY <1>1, <1>2, <1>3, InitIInv, StepIInv, PTL DEF Spec

\* What the loop's own invariant rests on.
Streaming == IInv /\ Counts /\ Ordered /\ EndTaken /\ OneEnd

\* The stream's invariant holds of the stream of a loop.
LEMMA LoopStreams == FairIt => []Streaming
  <1>1. Init => EndTaken /\ OneEnd
    BY InitEnd
  <1>2. IInv /\ IInv' /\ Counts /\ Ordered /\ EndTaken /\ OneEnd /\ [Next]_vars
          => EndTaken' /\ OneEnd'
    BY StepEndTaken, StepOneEnd
  <1>3. Spec => []Streaming
    BY <1>1, <1>2, OrderIsKept, PTL DEF Spec, Streaming
  <1> QED
    BY <1>3, LoopIsAStream, PTL

\* Where the generator may be, and what that says of its calls.
Stations ==
  /\ gen \in {"fresh", "suspended", "reading", "ending", "throwing",
              "cancelling", "over"}
  /\ summary \in {"none", "ok"}
  /\ gen # "reading" => pc[Reader] = "idle"
  /\ pulled[Reader] # "none" => pc[Reader] \in {"storing", "computed"}
  /\ pc[Finally] # "idle" => gen \in {"cancelling", "over"}
  /\ gen = "over" => pc[Finally] \in {"idle", "settled"}
  /\ gone /\ gen # "over" => \E c \in Cancellers : pc[c] # "idle"

\* A generator with something left to do holds the cursor.
Holding ==
  /\ gen \in {"reading", "ending", "throwing", "cancelling"} => held
  /\ leaving => gen # "fresh"
  /\ leaving /\ gen # "over" => held

\* Nothing is queued, and no thread has the statement.
Idle == queue = <<>> /\ worker \in {"none", "finishing", "over"}

\* A loop is over when the statement is, or leaves that to a cancel() that was
\* there before its `finally`.
LeftFree ==
  /\ gen = "fresh" => worker = "none"
  /\ gen = "ending" => Emptied
  /\ gen = "over" => Idle \/ (held /\ \E c \in Programs : pc[c] # "idle")

\* The statement has ended well, on an open connection and a cursor in use.
EndedWell ==
  held /\ alive /\ how = "ok" /\ worker \in {"finishing", "over"}

\* Whoever will copy `ended` to #summary.
Bearer ==
  \/ pulled[Reader] = "end" \/ gen = "ending"
  \/ \E c \in Cancellers : pc[c] = "computed"

\* The word is in the queue, with the call that took it, in `ended` with
\* somebody to copy it, or in #summary.
Kept ==
  /\ summary = "ok" => ended = "ok"
  /\ EndedWell =>
       \/ Told
       \/ \E c \in Callers : pc[c] = "storing"
       \/ ended = "ok" /\ Bearer
       \/ summary = "ok"

\* The inductive invariant of a loop.
LoopInv == Stations /\ Holding /\ LeftFree /\ Kept

\* A loop begins with nothing called and nothing begun.
LEMMA InitLoop == InitIt => LoopInv
  <1> SUFFICES ASSUME InitIt
               PROVE  LoopInv
    OBVIOUS
  <1>1. /\ worker = "none" /\ how = "none"
        /\ \A c \in Callers : pc[c] = "idle" /\ pulled[c] = "none"
        /\ gen = "fresh" /\ leaving = FALSE /\ gone = FALSE /\ summary = "none"
    BY DEF InitIt, Init
  <1>2. Reader \in Callers /\ Finally \in Callers
    BY IterationAssumption DEF Callers
  <1> QED
    BY <1>1, <1>2 DEF LoopInv, Stations, Holding, LeftFree, Kept, EndedWell

\* The generator keeps to its stations.
LEMMA StepStations ==
  ASSUME Streaming, Stations, [NextIt]_varsIt
  PROVE  Stations'
  <1> USE StreamAssumption, IterationAssumption DEF Callers
  <1>10. /\ pc \in [Callers -> Places]
         /\ pulled \in
              [Callers -> {"none", "rows", "end", "no thread"} \cup Outcomes]
    BY DEF Streaming, IInv, Shapes, Counts
  <1>20. Reader # Finally /\ Reader \notin Cancellers
    OBVIOUS
  <1>1. ASSUME NEW c \in Callers, TakeThread(c) \/ Compute(c)
        PROVE  Stations'
    <2>1. /\ pc[c] \in {"called", "spawning", "pulling", "draining", "storing"}
          /\ pc'[c] \notin {"idle", "settled"}
          /\ \A x \in Callers \ {c} : pc'[x] = pc[x] /\ pulled'[x] = pulled[x]
          /\ UNCHANGED loop
      BY <1>1, PoolMoves DEF Streaming
    <2>2. pulled'[Reader] # "none" => pc'[Reader] \in {"storing", "computed"}
      <3>1. CASE c # Reader
        BY <2>1, <3>1 DEF Stations
      <3>2. CASE c = Reader
        BY <1>1, <1>10, <3>2 DEF Stations, TakeThread, Compute, Begin,
           TakeStart, Spawn, SpawnFails, Recv, RecvWait, RecvEnd, RecvRows,
           RecvDone, Store, Receiving, Goto
      <3> QED
        BY <3>1, <3>2
    <2> QED
      BY <2>1, <2>2 DEF Stations, loop
  <1>2. CASE Pull
    BY <1>2, <1>10, <1>20 DEF Pull, Next_, Goto, Stations
  <1>3. CASE Settle
    BY <1>3, <1>10, <1>20 DEF Settle, Resolve, Goto, Stations
  <1>4. CASE Ends \/ LeaveUnread \/ Leave
    BY <1>4 DEF Ends, LeaveUnread, Leave, Stations, vars
  <1>5. CASE RunFinally
    BY <1>5, <1>10, <1>20 DEF RunFinally, Cancel, Goto, Stations, vars
  <1>6. CASE Left
    BY <1>6, <1>10, <1>20 DEF Left, Summed, ReleaseWatch, Goto, Stations
  <1>7. ASSUME NEW c \in Programs, ProgramCancels(c) \/ ProgramHears(c)
        PROVE  Stations'
    <2>1. c \in Cancellers /\ c # Finally /\ c # Reader
      BY <1>20 DEF Programs
    <2> QED
      BY <1>7, <1>10, <1>20, <2>1 DEF ProgramCancels, ProgramHears, Summed,
         Cancel, ReleaseWatch, Goto, Stations
  <1>8. CASE LetGo \/ Underneath \/ CloseUnderneath \/ UNCHANGED varsIt
    <2>1. UNCHANGED <<loop, pc, pulled>>
      BY <1>8 DEF LetGo, Drop, Underneath, CloseUnderneath, Close, WorkerStep,
         Borrow, BorrowFails, MakeBatch, EndScan, Hand, GiveBack, Push,
         SendWait, Timeout, SendFails, Finish, EmptySlot, Panic, varsIt, vars
    <2> QED
      BY <2>1 DEF loop, Stations
  <1> QED
    BY <1>1, <1>2, <1>3, <1>4, <1>5, <1>6, <1>7, <1>8 DEF NextIt, OnLoop

\* Nobody lets go of a cursor that a generator has to read or to cancel.
LEMMA StepHolding ==
  ASSUME Streaming, Stations, Holding, [NextIt]_varsIt
  PROVE  Holding'
  <1> USE StreamAssumption, IterationAssumption DEF Callers
  <1>1. ASSUME NEW c \in Callers, TakeThread(c) \/ Compute(c)
        PROVE  Holding'
    BY <1>1, PoolMoves DEF Streaming, Holding, loop
  <1>2. CASE Pull \/ Settle
    BY <1>2 DEF Pull, Next_, Settle, Resolve, Holding
  <1>3. CASE Ends \/ LeaveUnread \/ Leave \/ UNCHANGED varsIt
    BY <1>3 DEF Ends, LeaveUnread, Leave, Holding, vars, varsIt, loop
  <1>4. CASE RunFinally \/ Left
    BY <1>4 DEF RunFinally, Left, Cancel, ReleaseWatch, Holding, vars
  <1>5. ASSUME NEW c \in Programs, ProgramCancels(c) \/ ProgramHears(c)
        PROVE  Holding'
    BY <1>5 DEF ProgramCancels, ProgramHears, Cancel, ReleaseWatch, Holding
  <1>6. CASE LetGo
    BY <1>6 DEF LetGo, loop, Stations, Holding
  <1>7. CASE Underneath \/ CloseUnderneath
    BY <1>7 DEF Underneath, CloseUnderneath, Close, WorkerStep, Borrow,
       BorrowFails, MakeBatch, EndScan, Hand, GiveBack, Push, SendWait,
       Timeout, SendFails, Finish, EmptySlot, Panic, loop, Holding
  <1> QED
    BY <1>1, <1>2, <1>3, <1>4, <1>5, <1>6, <1>7 DEF NextIt, OnLoop

\* Nothing begins a statement for a loop that is over.
LEMMA IdleStays ==
  ASSUME Streaming, Stations, Idle, gen = "over", [NextIt]_varsIt
  PROVE  Idle'
  <1> USE StreamAssumption, IterationAssumption DEF Callers
  <1>1. pc[Reader] = "idle"
    BY DEF Stations
  <1>2. ASSUME NEW c \in Callers, TakeThread(c) \/ Compute(c)
        PROVE  Idle'
    <2>1. c # Reader
      BY <1>1, <1>2, PoolMoves DEF Streaming
    <2>2. TakeStart(c) \/ Recv(c)
      BY <1>2, <2>1 DEF TakeThread, Compute, Spawn, SpawnFails, Streaming,
         IInv, Shapes
    <2> QED
      BY <2>2 DEF TakeStart, Recv, RecvWait, RecvEnd, RecvRows, RecvDone,
         Store, Idle, pipe
  <1>3. CASE Pull \/ Settle \/ Ends \/ LeaveUnread \/ Leave \/ RunFinally
             \/ Left
    BY <1>3 DEF Pull, Settle, Ends, LeaveUnread, Leave, RunFinally, Left
  <1>4. ASSUME NEW c \in Programs, ProgramCancels(c) \/ ProgramHears(c)
        PROVE  Idle'
    BY <1>4 DEF ProgramCancels, ProgramHears, Cancel, ReleaseWatch, Idle, pipe
  <1>5. CASE LetGo \/ CloseUnderneath \/ UNCHANGED varsIt
    BY <1>5 DEF LetGo, Drop, CloseUnderneath, Close, varsIt, vars, pipe, Idle
  <1>6. CASE Underneath
    BY <1>6 DEF Underneath, WorkerStep, Borrow, BorrowFails, MakeBatch,
       EndScan, Hand, GiveBack, Push, Sending, SendWait, Timeout, SendFails,
       Finish, EmptySlot, Panic, pipe, Idle
  <1> QED
    BY <1>2, <1>3, <1>4, <1>5, <1>6 DEF NextIt, OnLoop

\* A cancel() that was made stays made.
LEMMA CancelsStay ==
  ASSUME Streaming, [NextIt]_varsIt, NEW c \in Cancellers, pc[c] # "idle"
  PROVE  pc'[c] # "idle"
  <1> USE StreamAssumption, IterationAssumption DEF Callers
  <1>10. pc \in [Callers -> Places] /\ c # Reader
    BY DEF Streaming, IInv, Shapes
  <1>1. ASSUME NEW d \in Callers, TakeThread(d) \/ Compute(d)
        PROVE  pc'[c] # "idle"
    BY <1>1, PoolMoves DEF Streaming
  <1>2. CASE Pull \/ Settle
    BY <1>2, <1>10 DEF Pull, Next_, Settle, Resolve, Goto
  <1>3. CASE RunFinally \/ Left
    BY <1>3, <1>10 DEF RunFinally, Left, Cancel, ReleaseWatch, Goto, vars
  <1>4. ASSUME NEW d \in Programs, ProgramCancels(d) \/ ProgramHears(d)
        PROVE  pc'[c] # "idle"
    BY <1>4, <1>10 DEF ProgramCancels, ProgramHears, Cancel, ReleaseWatch,
       Goto, Programs
  <1>5. CASE \/ Ends \/ LeaveUnread \/ Leave \/ LetGo \/ Underneath
             \/ CloseUnderneath \/ UNCHANGED varsIt
    BY <1>5 DEF Ends, LeaveUnread, Leave, LetGo, Drop, Underneath,
       CloseUnderneath, Close, WorkerStep, Borrow, BorrowFails, MakeBatch,
       EndScan, Hand, GiveBack, Push, SendWait, Timeout, SendFails, Finish,
       EmptySlot, Panic, varsIt, vars
  <1> QED
    BY <1>1, <1>2, <1>3, <1>4, <1>5 DEF NextIt, OnLoop

\* A call that heard the end heard it of a statement that is over.
LEMMA HeardIsIdle ==
  ASSUME Streaming, held, NEW c \in Callers, Heard(c)
  PROVE  Emptied /\ Idle
  BY DEF Streaming, EndTaken, Emptied, Quiet, Idle

\* A loop that comes to be over leaves the statement over, or to a cancel().
LEMMA StepLeftFree ==
  ASSUME Streaming, Stations, Holding, LeftFree, [NextIt]_varsIt
  PROVE  LeftFree'
  <1> USE StreamAssumption, IterationAssumption DEF Callers
  <1>10. /\ pc \in [Callers -> Places]
         /\ pulled \in
              [Callers -> {"none", "rows", "end", "no thread"} \cup Outcomes]
    BY DEF Streaming, IInv, Shapes, Counts
  <1>1. ASSUME gen' = "fresh"
        PROVE  worker' = "none"
    <2>1. gen = "fresh" /\ worker = "none" /\ pc[Reader] = "idle"
      BY <1>1 DEF NextIt, OnLoop, Pull, Settle, Ends, LeaveUnread, Leave,
         RunFinally, Left, ProgramCancels, ProgramHears, LetGo, TakeThread,
         Compute, Underneath, CloseUnderneath, loop, varsIt, LeftFree,
         Stations
    <2>2. ASSUME NEW c \in Callers, TakeThread(c) \/ Compute(c)
          PROVE  worker' = "none"
      <3>1. c # Reader
        BY <2>1, <2>2, PoolMoves DEF Streaming
      <3>2. TakeStart(c) \/ Recv(c)
        BY <2>2, <3>1 DEF TakeThread, Compute, Spawn, SpawnFails, Streaming,
           IInv, Shapes
      <3> QED
        BY <2>1, <3>2 DEF TakeStart, Recv, RecvWait, RecvEnd, RecvRows,
           RecvDone, Store
    <2>3. CASE Underneath
      BY <2>1, <2>3 DEF Underneath, WorkerStep, Borrow, BorrowFails,
         MakeBatch, EndScan, Hand, GiveBack, Push, Sending, SendWait, Timeout,
         SendFails, Finish, EmptySlot, Panic
    <2>4. ASSUME NEW c \in Programs, ProgramCancels(c) \/ ProgramHears(c)
          PROVE  worker' = "none"
      BY <2>1, <2>4 DEF ProgramCancels, ProgramHears, Cancel, ReleaseWatch
    <2>5. CASE \/ Leave \/ LetGo \/ CloseUnderneath \/ UNCHANGED varsIt
      BY <2>1, <2>5 DEF Leave, LetGo, Drop, CloseUnderneath, Close, varsIt,
         vars
    <2>6. CASE Pull \/ Settle \/ Ends \/ LeaveUnread \/ RunFinally \/ Left
      BY <1>1, <2>1, <2>6 DEF Pull, Settle, Ends, LeaveUnread, RunFinally,
         Left
    <2> QED
      BY <2>2, <2>3, <2>4, <2>5, <2>6 DEF NextIt, OnLoop
  <1>2. ASSUME gen' = "ending"
        PROVE  Emptied'
    <2>1. Emptied
      <3>1. CASE gen = "ending"
        BY <3>1 DEF LeftFree
      <3>2. CASE gen # "ending"
        <4>1. Settle
          BY <1>2, <3>2 DEF NextIt, OnLoop, Pull, Ends, LeaveUnread, Leave,
             RunFinally, Left, ProgramCancels, ProgramHears, LetGo,
             TakeThread, Compute, Underneath, CloseUnderneath, loop, varsIt
        <4>2. pulled[Reader] = "end" /\ gen = "reading" /\ held
          BY <1>2, <4>1 DEF Settle, Holding
        <4>3. Heard(Reader) /\ Reader \in Callers
          BY <4>2 DEF Heard
        <4> QED
          BY <4>2, <4>3, HeardIsIdle
      <3> QED
        BY <3>1, <3>2
    <2>2. [Next]_vars
      BY StepIsStream DEF Streaming
    <2> QED
      BY <2>1, <2>2, EmptiedStays DEF Streaming
  <1>3. ASSUME gen' = "over"
        PROVE  Idle' \/ (held' /\ \E c \in Programs : pc'[c] # "idle")
    <2>1. CASE gen = "over" /\ Idle
      BY <2>1, IdleStays
    <2>2. CASE gen = "over" /\ ~Idle
      <3>1. PICK c \in Programs : pc[c] # "idle"
        BY <2>2 DEF LeftFree
      <3>2. held /\ pc'[c] # "idle"
        BY <2>2, <3>1, CancelsStay DEF LeftFree, Programs
      <3>3. CASE LetGo
        <4>1. pc[c] = "settled"
          BY <3>1, <3>3 DEF LetGo, Drop, Programs
        <4> QED
          BY <2>2, <3>1, <3>2, <4>1, HeardIsIdle DEF Heard, Programs
      <3>4. CASE ~LetGo
        <4>1. held'
          BY <2>2, <3>2, <3>4, PoolMoves DEF Streaming, NextIt, OnLoop, Pull,
             Settle, Ends, LeaveUnread, Leave, RunFinally, Left,
             ProgramCancels, ProgramHears, Cancel, ReleaseWatch, Underneath,
             CloseUnderneath, Close, WorkerStep, Borrow, BorrowFails,
             MakeBatch, EndScan, Hand, GiveBack, Push, SendWait, Timeout,
             SendFails, Finish, EmptySlot, Panic, varsIt, vars
        <4> QED
          BY <3>1, <3>2, <4>1
      <3> QED
        BY <3>3, <3>4
    <2>3. CASE gen # "over" /\ Ends
      BY <2>3 DEF Ends, LeftFree, Emptied, Quiet, Idle, vars, pipe
    <2>4. CASE gen # "over" /\ LeaveUnread
      BY <2>4 DEF LeaveUnread, LeftFree, Streaming, EndTaken, Idle, vars, pipe
    <2>5. CASE gen # "over" /\ RunFinally
      <3>1. gone /\ UNCHANGED vars
        BY <1>3, <2>5 DEF RunFinally
      <3>2. PICK c \in Cancellers : pc[c] # "idle"
        BY <2>5, <3>1 DEF Stations
      <3>3. c \in Programs
        BY <2>5, <3>2 DEF RunFinally, Stations, Programs
      <3>4. held
        BY <2>5 DEF RunFinally, Holding
      <3> QED
        BY <3>1, <3>2, <3>3, <3>4 DEF vars
    <2>6. CASE gen # "over" /\ Left
      <3>1. held /\ Heard(Finally) /\ Finally \in Callers
        BY <2>6 DEF Left, ReleaseWatch, Holding, Heard
      <3>2. Idle
        BY <3>1, HeardIsIdle
      <3> QED
        BY <2>6, <3>2 DEF Left, ReleaseWatch, Idle, pipe
    <2>7. CASE gen # "over" /\ ~Ends /\ ~LeaveUnread /\ ~RunFinally /\ ~Left
      BY <1>3, <2>7 DEF NextIt, OnLoop, Pull, Settle, Leave, ProgramCancels,
         ProgramHears, LetGo, TakeThread, Compute, Underneath,
         CloseUnderneath, loop, varsIt
    <2> QED
      BY <2>1, <2>2, <2>3, <2>4, <2>5, <2>6, <2>7
  <1> QED
    BY <1>1, <1>2, <1>3 DEF LeftFree

\* The word goes from hand to hand and is not dropped.
LEMMA StepKept ==
  ASSUME Streaming, Stations, Holding, LeftFree, Kept, [NextIt]_varsIt
  PROVE  Kept'
  <1> USE StreamAssumption, IterationAssumption DEF Callers
  <1>10. /\ pc \in [Callers -> Places]
         /\ pulled \in
              [Callers -> {"none", "rows", "end", "no thread"} \cup Outcomes]
    BY DEF Streaming, IInv, Shapes, Counts
  <1>20. queue \in Seq(Chunks) /\ Len(queue) \in Nat
    BY LenIsNat DEF Streaming, IInv, Shapes
  <1>30. Reader # Finally /\ Reader \notin Cancellers
    OBVIOUS
  <1>1. ASSUME NEW c \in Callers, TakeThread(c)
        PROVE  Kept'
    <2>1. /\ UNCHANGED <<queue, worker, how, ended, held, alive, loop, pulled>>
          /\ pc[c] = "called"
      BY <1>1 DEF TakeThread, Begin, TakeStart, pipe
    <2>2. \A x \in Callers \ {c} : pc'[x] = pc[x]
      BY <1>1, PoolMoves DEF Streaming
    <2> QED
      BY <2>1, <2>2 DEF Kept, EndedWell, Told, Bearer, loop
  <1>2. ASSUME NEW c \in Callers, Compute(c)
        PROVE  Kept'
    <2>1. /\ pc[c] \in {"called", "spawning", "pulling", "draining", "storing"}
          /\ \A x \in Callers \ {c} : pc'[x] = pc[x] /\ pulled'[x] = pulled[x]
          /\ UNCHANGED <<loop, held, alive, how>>
      BY <1>2, PoolMoves DEF Streaming
    <2>2. pc[c] # "storing" /\ c = Reader => pulled[Reader] # "end"
      BY <2>1 DEF Stations
    <2>3. CASE Spawn(c) \/ SpawnFails(c) \/ RecvWait(c) \/ RecvEnd(c)
      <3>1. /\ UNCHANGED <<queue, ended>> /\ pc[c] # "storing"
            /\ worker' \in {"finishing", "over"} => worker' = worker
        BY <2>3 DEF Spawn, SpawnFails, RecvWait, RecvEnd, Receiving, pipe,
           live
      <3> QED
        BY <2>1, <2>2, <3>1 DEF Kept, EndedWell, Told, Bearer, loop
    <2>4. CASE RecvRows(c)
      <3>1. UNCHANGED <<ended, worker>> /\ pc[c] # "storing"
        BY <2>4 DEF RecvRows, Receiving, live
      <3>2. Told' <=> Told
        BY <1>20, <2>4, StillTold
      <3> QED
        BY <2>1, <2>2, <3>1, <3>2 DEF Kept, EndedWell, Bearer, loop
    <2>5. CASE RecvDone(c)
      BY <1>10, <2>1, <2>5 DEF RecvDone, Goto, live, loop, Kept
    <2>6. CASE Store(c)
      <3>1. /\ UNCHANGED worker /\ pulled[c] = how
            /\ ended' = IF ended = "none" THEN pulled[c] ELSE ended
            /\ pc'[c] = "computed" /\ pulled'[c] = "end"
        BY <1>10, <2>6 DEF Store, Goto, Streaming, OneEnd
      <3>2. summary' = "ok" => ended' = "ok"
        BY <2>1, <3>1 DEF Kept, loop
      <3>3. ASSUME EndedWell'
            PROVE  ended' = "ok" /\ Bearer'
        <4>1. ended \in {"none", "ok"} /\ how = "ok"
          BY <2>1, <3>1, <3>3 DEF EndedWell, Streaming, OneEnd
        <4>2. Bearer'
          BY <3>1 DEF Bearer
        <4> QED
          BY <3>1, <4>1, <4>2
      <3> QED
        BY <3>2, <3>3 DEF Kept
    <2> QED
      BY <1>2, <2>3, <2>4, <2>5, <2>6 DEF Compute, Recv
  <1>3. CASE Pull
    <2>1. /\ UNCHANGED <<queue, worker, how, ended, held, alive, summary,
                         pulled>>
          /\ pc' = [pc EXCEPT ![Reader] = "called"]
          /\ pc[Reader] = "idle" /\ gen # "ending"
      BY <1>3 DEF Pull, Next_, Goto, pipe, live
    <2> QED
      BY <1>10, <1>30, <2>1 DEF Kept, EndedWell, Told, Bearer
  <1>4. CASE Settle
    <2>1. /\ UNCHANGED <<queue, worker, how, held, alive, summary>>
          /\ pc' = [pc EXCEPT ![Reader] = "idle"] /\ pc[Reader] = "computed"
          /\ gen = "reading"
          /\ ended = "ok" => ended' = "ok"
          /\ pulled[Reader] = "end" /\ ended = "ok" => gen' = "ending"
      BY <1>4 DEF Settle, Resolve, Goto, pipe
    <2> QED
      BY <1>10, <1>30, <2>1 DEF Kept, EndedWell, Told, Bearer
  <1>5. CASE Ends
    <2>1. /\ UNCHANGED <<queue, worker, how, ended, held, alive, pc, pulled>>
          /\ ended = "ok" => summary' = "ok"
          /\ summary' = "ok" => ended = "ok"
      BY <1>5 DEF Ends, vars, pipe, live
    <2> QED
      BY <2>1 DEF Kept, EndedWell, Told
  <1>6. CASE LeaveUnread \/ Leave \/ UNCHANGED varsIt
    <2>1. /\ UNCHANGED <<queue, worker, how, ended, held, alive, pc, pulled,
                         summary>>
          /\ gen' = gen \/ gen = "fresh"
      BY <1>6 DEF LeaveUnread, Leave, varsIt, loop, vars, pipe, live
    <2> QED
      BY <2>1 DEF Kept, EndedWell, Told, Bearer
  <1>7. CASE RunFinally
    <2>1. /\ UNCHANGED <<queue, worker, how, ended, held, alive, pulled,
                         summary>>
          /\ gen # "ending"
          /\ pc' = pc \/ (pc[Finally] = "idle"
                          /\ pc' = [pc EXCEPT ![Finally] = "called"])
      BY <1>7 DEF RunFinally, Cancel, Goto, vars, pipe, live
    <2> QED
      BY <1>10, <1>30, <2>1 DEF Kept, EndedWell, Told, Bearer
  <1>8. ASSUME NEW c \in Cancellers, ReleaseWatch(c), summary' = Summed
        PROVE  Kept'
    <2>1. /\ UNCHANGED <<queue, worker, how, ended, held, alive, pulled>>
          /\ pc[c] = "computed" /\ pc' = [pc EXCEPT ![c] = "settled"]
      BY <1>8 DEF ReleaseWatch, Goto, pipe
    <2>2. summary \in {"none", "ok"}
      BY DEF Stations
    <2>3. /\ summary' = "ok" => ended' = "ok"
          /\ summary = "ok" \/ ended = "ok" => summary' = "ok"
      BY <1>8, <2>1, <2>2 DEF Summed, Kept
    <2> QED
      BY <1>10, <2>1, <2>3 DEF Kept, EndedWell, Told
  <1>9. CASE Left
    BY <1>8, <1>9 DEF Left
  <1>11. ASSUME NEW c \in Programs, ProgramHears(c)
         PROVE  Kept'
    BY <1>8, <1>11 DEF ProgramHears, Programs
  <1>12. ASSUME NEW c \in Programs, ProgramCancels(c)
         PROVE  Kept'
    <2>1. /\ UNCHANGED <<queue, worker, how, ended, held, alive, pulled, gen,
                         summary>>
          /\ pc[c] = "idle" /\ pc' = [pc EXCEPT ![c] = "called"]
          /\ c \in Cancellers
      BY <1>12 DEF ProgramCancels, Cancel, Goto, pipe, live, Programs
    <2> QED
      BY <1>10, <2>1 DEF Kept, EndedWell, Told, Bearer
  <1>13. CASE LetGo
    BY <1>13 DEF LetGo, Drop, loop, Kept, EndedWell
  <1>14. CASE CloseUnderneath
    BY <1>14 DEF CloseUnderneath, Close, loop, live, Kept, EndedWell
  <1>15. CASE Underneath
    <2>1. UNCHANGED <<held, alive, ended, pc, pulled, loop>>
      BY <1>15 DEF Underneath, WorkerStep, Borrow, BorrowFails, MakeBatch,
         EndScan, Hand, GiveBack, Push, SendWait, Timeout, SendFails, Finish,
         EmptySlot, Panic, live
    <2>2. CASE Push
      <3>1. /\ UNCHANGED how /\ worker \in {"sending", "telling"}
            /\ worker = "sending" => worker' = "scanning"
            /\ worker = "telling" => queue' = Append(queue, Done(how))
        BY <2>2 DEF Push, Sending, Queued
      <3>2. CASE worker = "telling"
        <4>1. Done(how) \in Chunks /\ ~IsRows(Done(how))
          BY ChunksMade DEF Streaming, IInv, Shapes
        <4>2. queue' # <<>> /\ queue'[Len(queue')] = Done(how)
          BY <1>20, <3>1, <3>2, <4>1
        <4> QED
          BY <2>1, <4>1, <4>2 DEF Kept, Told, loop
      <3>3. CASE worker = "sending"
        BY <2>1, <3>1, <3>3 DEF Kept, EndedWell, loop
      <3> QED
        BY <3>1, <3>2, <3>3
    <2>3. CASE SendFails
      <3>1. closed \/ ~alive
        BY <2>3 DEF SendFails
      <3>2. ~EndedWell'
        BY <2>1, <3>1 DEF EndedWell, Streaming, IInv, InHand, Shapes
      <3> QED
        BY <2>1, <3>2 DEF Kept, loop
    <2>4. CASE Finish \/ SendWait \/ Timeout \/ EmptySlot
      <3>1. /\ UNCHANGED <<queue, how>>
            /\ worker' \in {"finishing", "over"} =>
                 worker \in {"finishing", "over"}
        BY <2>4 DEF Finish, SendWait, Timeout, EmptySlot, pipe
      <3> QED
        BY <2>1, <3>1 DEF Kept, EndedWell, Told, Bearer, loop
    <2>5. CASE \/ Borrow \/ BorrowFails \/ MakeBatch \/ EndScan \/ Hand
               \/ GiveBack \/ Panic
      <3>1. worker' \notin {"finishing", "over"}
        BY <2>5 DEF Borrow, BorrowFails, MakeBatch, EndScan, Hand, GiveBack,
           Panic
      <3> QED
        BY <2>1, <3>1 DEF Kept, EndedWell, loop
    <2> QED
      BY <1>15, <2>2, <2>3, <2>4, <2>5 DEF Underneath, WorkerStep
  <1> QED
    BY <1>1, <1>2, <1>3, <1>4, <1>5, <1>6, <1>7, <1>9, <1>11, <1>12, <1>13,
       <1>14, <1>15
    DEF NextIt, OnLoop

\* What is always true of a loop and its stream.
THEOREM LoopInvariant == FairIt => [](Streaming /\ LoopInv)
  <1>1. FairIt => InitIt /\ [][NextIt]_varsIt
    BY PTL DEF FairIt
  <1>2. Streaming /\ LoopInv /\ [NextIt]_varsIt => LoopInv'
    BY StepStations, StepHolding, StepLeftFree, StepKept DEF LoopInv
  <1> QED
    BY <1>1, <1>2, InitLoop, LoopStreams, PTL

\* A loop that is over has left the connection to the next statement, unless a
\* pending cancel() of the program's own will (zudb.cjs batches).
THEOREM LoopLeavesFree == FairIt => []LeavingFrees
  <1>1. Streaming /\ LoopInv => LeavingFrees
    <2> SUFFICES ASSUME Streaming, LoopInv, gen = "over", NoneCancels
                 PROVE  ~Running /\ worker # "spawned" /\ conn # "thread"
      BY DEF LeavingFrees
    <2>1. Idle
      <3>1. CASE held /\ \E c \in Programs : pc[c] # "idle"
        <4>1. PICK c \in Programs : pc[c] = "settled"
          BY <3>1 DEF NoneCancels
        <4>2. c \in Callers /\ Heard(c)
          BY <4>1 DEF Programs, Callers, Heard
        <4> QED
          BY <3>1, <4>2, HeardIsIdle
      <3> QED
        BY <3>1 DEF LoopInv, LeftFree
    <2> QED
      BY <2>1 DEF Idle, Running, Streaming, IInv, InHand
  <1> QED
    BY <1>1, LoopInvariant, PTL

\* The summary of a statement that ended well is there to be read, whichever
\* call it was that heard the end (zudb.cjs done, cancel).
THEOREM SummaryIsKept == FairIt => []SummaryStands
  <1>1. Streaming /\ LoopInv => SummaryStands
    <2> SUFFICES ASSUME Streaming, LoopInv, gen = "over", alive, held,
                        NoneCancels, worker = "over", how = "ok"
                 PROVE  summary = "ok"
      BY DEF SummaryStands
    <2>1. queue = <<>>
      <3>1. CASE \E c \in Programs : pc[c] # "idle"
        <4>1. PICK c \in Programs : pc[c] = "settled"
          BY <3>1 DEF NoneCancels
        <4>2. c \in Callers /\ Heard(c)
          BY <4>1 DEF Programs, Callers, Heard
        <4> QED
          BY <4>2, HeardIsIdle DEF Idle
      <3> QED
        BY <3>1 DEF LoopInv, LeftFree, Idle
    <2>2. \A c \in Cancellers : pc[c] \in {"idle", "settled"}
      BY DEF NoneCancels, Programs, LoopInv, Stations
    <2>3. pc[Reader] = "idle" /\ pulled[Reader] = "none"
      BY DEF LoopInv, Stations
    <2>4. \A c \in Callers : pc[c] # "storing"
      BY <2>2, <2>3, IterationAssumption DEF Callers
    <2>5. ~Told /\ ~Bearer
      BY <2>1, <2>2, <2>3 DEF Told, Bearer
    <2>6. EndedWell
      BY DEF EndedWell
    <2> QED
      BY <2>4, <2>5, <2>6 DEF LoopInv, Kept
  <1> QED
    BY <1>1, LoopInvariant, PTL
=============================================================================
