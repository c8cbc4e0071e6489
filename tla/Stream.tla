------------------------------- MODULE Stream -------------------------------
(***************************************************************************)
(* One statement read a batch at a time (src/stream.rs): the cursor, the   *)
(* thread the statement runs on, and the pipe of QUEUE batches between     *)
(* them.                                                                   *)
(*                                                                         *)
(* The calls of next() and cancel() are tasks: made on the loop's thread,  *)
(* computed on the threadpool, settled on the loop's thread again.  The    *)
(* statement's thread takes the connection out of its slot, hands batches  *)
(* over, gives the connection back and says what it ended as.  The         *)
(* connection can be closed, and the cursor collected, at any time.        *)
(*                                                                         *)
(* A step is one section under the pipe's mutex, with the wake-ups that    *)
(* end it, or one access to an atomic or to another mutex of `Live`.  Who  *)
(* waits on the condition variable is `asleep`: only a notify_all or, for  *)
(* the statement's thread, the PAUSE timeout, wakes it.                    *)
(***************************************************************************)
EXTENDS Naturals, Sequences

CONSTANTS
  Queue,        \* QUEUE, the batches that may sit in the pipe
  MaxBatches,   \* bound: the most batches the statement can make
  Readers,      \* concurrent next() calls
  Cancellers,   \* cancel() calls
  Worker,       \* the statement's thread, as somebody who can be asleep
  Collected,    \* whether the cursor may be collected with calls pending
  Panics        \* whether the engine may panic on the statement's thread

Callers == Readers \cup Cancellers

ASSUME StreamAssumption ==
  /\ Queue \in Nat \ {0}
  /\ MaxBatches \in Nat
  /\ Readers \cap Cancellers = {}
  /\ Worker \notin Callers
  /\ Collected \in BOOLEAN
  /\ Panics \in BOOLEAN

VARIABLES
  queue,     \* Held.queue, a sequence of chunks
  closed,    \* Held.closed: the cursor is gone
  done,      \* Held.done: nothing else will be sent
  asleep,    \* who waits on `moved`
  stopped,   \* Live.stopped: the reader wants no more rows
  start,     \* whether Live.start still holds the statement
  ended,     \* Live.ended
  watch,     \* whether the listener is still on the signal
  alive,     \* the connection's `alive`
  conn,      \* where the engine connection is
  worker,    \* where the statement's thread is
  how,       \* what the statement ended as, in its thread's hands
  made,      \* batches the engine has made
  pushed,    \* batches that went into the queue
  held,      \* whether anybody still holds the cursor
  pc,        \* per caller
  pulled,    \* per caller: what its computation came back with
  seen,      \* history: the batches taken out of the queue, in order
  heard      \* history: a next() has been answered with the end, or a failure

pipe == <<queue, closed, done, asleep>>
live == <<stopped, start, ended, watch>>
vars == <<pipe, live, alive, conn, worker, how, made, pushed, held,
          pc, pulled, seen, heard>>

Rows(n) == <<"rows", n>>
Done(r) == <<"done", r>>
IsRows(chunk) == chunk[1] = "rows"

Outcomes == {"ok", "failed"}

\* The statement has not said what it ended as yet, and has the connection.
Running == worker \in {"scanning", "handing", "sending", "ending", "returning"}

Goto(c, place) == pc' = [pc EXCEPT ![c] = place]

\* Mutant: the pipe changes and nobody is told.
WakeNobody == UNCHANGED asleep

Wake == asleep' = {}

\* `stream::open`: a statement to run, or a refusal to hand over and no queue.
Init ==
  /\ queue = <<>>
  /\ closed = FALSE
  /\ asleep = {}
  /\ stopped = FALSE
  /\ \E refused \in BOOLEAN :
       /\ start = ~refused
       /\ done = refused
       /\ ended = IF refused THEN "failed" ELSE "none"
       /\ watch = ~refused
  /\ alive = TRUE
  /\ conn = "slot"
  /\ worker = "none"
  /\ how = "none"
  /\ made = 0
  /\ pushed = 0
  /\ held = TRUE
  /\ pc = [c \in Callers |-> "idle"]
  /\ pulled = [c \in Callers |-> "none"]
  /\ seen = <<>>
  /\ heard = FALSE

-----------------------------------------------------------------------------
(***************************************************************************)
(* next(), and its task.  The first one to compute takes the statement and *)
(* gives it a thread.                                                      *)
(***************************************************************************)
Next_(r) ==
  /\ held
  /\ pc[r] = "idle"
  /\ Goto(r, "called")
  /\ UNCHANGED <<pipe, live, alive, conn, worker, how, made, pushed, held,
                 pulled, seen, heard>>

Begin(r) ==
  /\ pc[r] = "called"
  /\ start' = FALSE
  /\ Goto(r, IF start THEN "spawning" ELSE "pulling")
  /\ UNCHANGED <<pipe, stopped, ended, watch, alive, conn, worker, how, made,
                 pushed, held, pulled, seen, heard>>

Spawn(r) ==
  /\ pc[r] = "spawning"
  /\ worker' = "spawned"
  /\ Goto(r, "pulling")
  /\ UNCHANGED <<pipe, live, alive, conn, how, made, pushed, held, pulled,
                 seen, heard>>

\* A machine with no thread to give: the queue is over and this read rejects.
SpawnFails(r) ==
  /\ pc[r] = "spawning"
  /\ done' = TRUE
  /\ Wake
  /\ pulled' = [pulled EXCEPT ![r] = "no thread"]
  /\ Goto(r, "computed")
  /\ UNCHANGED <<queue, closed, live, alive, conn, worker, how, made, pushed,
                 held, seen, heard>>

-----------------------------------------------------------------------------
(***************************************************************************)
(* `Pipe::recv`, for a read (pulling) and for a cancel (draining).         *)
(***************************************************************************)
Receiving(c) == pc[c] \in {"pulling", "draining"} /\ c \notin asleep

\* Mutant: the end is heard before what is queued has been read.
OverEarly == done \/ closed

Over == queue = <<>> /\ (done \/ closed)

RecvWait(c) ==
  /\ Receiving(c)
  /\ queue = <<>>
  /\ ~Over
  /\ asleep' = asleep \cup {c}
  /\ UNCHANGED <<queue, closed, done, live, alive, conn, worker, how, made,
                 pushed, held, pc, pulled, seen, heard>>

RecvEnd(c) ==
  /\ Receiving(c)
  /\ Over
  /\ pulled' = [pulled EXCEPT ![c] = "end"]
  /\ Goto(c, "computed")
  /\ UNCHANGED <<pipe, live, alive, conn, worker, how, made, pushed, held,
                 seen, heard>>

\* A read is over with its batch; a cancel throws it away and carries on.
RecvRows(c) ==
  /\ Receiving(c)
  /\ queue # <<>>
  /\ IsRows(Head(queue))
  /\ queue' = Tail(queue)
  /\ Wake
  /\ seen' = Append(seen, Head(queue)[2])
  /\ IF pc[c] = "pulling"
       THEN pulled' = [pulled EXCEPT ![c] = "rows"] /\ Goto(c, "computed")
       ELSE UNCHANGED <<pulled, pc>>
  /\ UNCHANGED <<closed, done, live, alive, conn, worker, how, made, pushed,
                 held, heard>>

RecvDone(c) ==
  /\ Receiving(c)
  /\ queue # <<>>
  /\ ~IsRows(Head(queue))
  /\ queue' = Tail(queue)
  /\ Wake
  /\ pulled' = [pulled EXCEPT ![c] = Head(queue)[2]]
  /\ Goto(c, "storing")
  /\ UNCHANGED <<closed, done, live, alive, conn, worker, how, made, pushed,
                 held, seen, heard>>

\* What the statement ended as is kept, under a lock of its own.
Store(c) ==
  /\ pc[c] = "storing"
  /\ ended' = IF ended = "none" THEN pulled[c] ELSE ended
  /\ pulled' = [pulled EXCEPT ![c] = "end"]
  /\ Goto(c, "computed")
  /\ UNCHANGED <<pipe, stopped, start, watch, alive, conn, worker, how, made,
                 pushed, held, seen, heard>>

-----------------------------------------------------------------------------
(***************************************************************************)
(* The loop's thread settles a read: rows, or the end, or the failure that *)
(* is thrown once and taken out of `ended`.  `finally` then takes the      *)
(* listener off if `ended` says that the statement has ended.              *)
(***************************************************************************)
Resolve(r) ==
  /\ r \in Readers
  /\ pc[r] = "computed"
  /\ LET thrown == pulled[r] = "end" /\ ended = "failed"
         left   == IF thrown THEN "none" ELSE ended
     IN  /\ ended' = left
         /\ watch' = (watch /\ left = "none")
  /\ heard' = (heard \/ pulled[r] \in {"end", "no thread"})
  /\ pulled' = [pulled EXCEPT ![r] = "none"]
  /\ Goto(r, "idle")
  /\ UNCHANGED <<pipe, stopped, start, alive, conn, worker, how, made, pushed,
                 held, seen>>

(***************************************************************************)
(* cancel(): the word is set at the call, then the task takes away a       *)
(* statement that never started or reads what is left until the end.       *)
(***************************************************************************)
Cancel(c) ==
  /\ held
  /\ pc[c] = "idle"
  /\ stopped' = TRUE
  /\ Goto(c, "called")
  /\ UNCHANGED <<pipe, start, ended, watch, alive, conn, worker, how, made,
                 pushed, held, pulled, seen, heard>>

TakeStart(c) ==
  /\ pc[c] = "called"
  /\ start' = FALSE
  /\ IF start
       THEN done' = TRUE /\ Wake /\ Goto(c, "computed")
       ELSE Goto(c, "draining") /\ UNCHANGED <<done, asleep>>
  /\ UNCHANGED <<queue, closed, stopped, ended, watch, alive, conn, worker, how,
                 made, pushed, held, pulled, seen, heard>>

\* Nothing can happen to a cancelled stream, so its signal is let go of.
ReleaseWatch(c) ==
  /\ c \in Cancellers
  /\ pc[c] = "computed"
  /\ watch' = FALSE
  /\ Goto(c, "settled")
  /\ UNCHANGED <<pipe, stopped, start, ended, alive, conn, worker, how, made,
                 pushed, held, pulled, seen, heard>>

\* The cursor is dropped: by a program that has nothing pending on it, or by a
\* collector that does not know that a task still has its share.
Drop ==
  /\ held
  /\ Collected \/ \A c \in Callers : pc[c] \in {"idle", "settled"}
  /\ held' = FALSE
  /\ stopped' = TRUE
  /\ closed' = TRUE
  /\ queue' = <<>>
  /\ Wake
  /\ UNCHANGED <<done, start, ended, watch, alive, conn, worker, how, made,
                 pushed, pc, pulled, seen, heard>>

-----------------------------------------------------------------------------
(***************************************************************************)
(* The connection is closed on the loop's thread, and the slot is emptied  *)
(* if the engine connection is in it.                                      *)
(***************************************************************************)
Close ==
  /\ alive
  /\ alive' = FALSE
  /\ UNCHANGED <<pipe, live, conn, worker, how, made, pushed, held, pc, pulled,
                 seen, heard>>

EmptySlot ==
  /\ ~alive
  /\ conn = "slot"
  /\ conn' = "dropped"
  /\ UNCHANGED <<pipe, live, alive, worker, how, made, pushed, held, pc, pulled,
                 seen, heard>>

-----------------------------------------------------------------------------
(***************************************************************************)
(* The statement's thread.                                                 *)
(***************************************************************************)
Borrow ==
  /\ worker = "spawned"
  /\ conn = "slot"
  /\ conn' = "thread"
  /\ worker' = "scanning"
  /\ UNCHANGED <<pipe, live, alive, how, made, pushed, held, pc, pulled, seen,
                 heard>>

\* Closed, or lent to another stream.
BorrowFails ==
  /\ worker = "spawned"
  /\ worker' = "telling"
  /\ how' = "failed"
  /\ UNCHANGED <<pipe, live, alive, conn, made, pushed, held, pc, pulled, seen,
                 heard>>

MakeBatch ==
  /\ worker = "scanning"
  /\ made < MaxBatches
  /\ made' = made + 1
  /\ worker' = "handing"
  /\ UNCHANGED <<pipe, live, alive, conn, how, pushed, held, pc, pulled, seen,
                 heard>>

\* Mutant: the end is told while the statement still has the connection.
EndScanTelling ==
  /\ worker \in {"scanning", "ending"}
  /\ how' \in Outcomes
  /\ worker' = "telling"
  /\ UNCHANGED <<pipe, live, alive, conn, made, pushed, held, pc, pulled, seen,
                 heard>>

\* The scan ends by itself, by an error or a signal, or because of Flow::Stop.
EndScan ==
  /\ worker \in {"scanning", "ending"}
  /\ how' \in Outcomes
  /\ worker' = "returning"
  /\ UNCHANGED <<pipe, live, alive, conn, made, pushed, held, pc, pulled, seen,
                 heard>>

\* `hand`: a reader that asked it to stop is noticed before the batch is sent.
Hand ==
  /\ worker = "handing"
  /\ worker' = IF stopped THEN "ending" ELSE "sending"
  /\ UNCHANGED <<pipe, live, alive, conn, how, made, pushed, held, pc, pulled,
                 seen, heard>>

\* Where the drop of `Borrowed` leaves the connection.
Back == IF alive THEN "slot" ELSE "dropped"

\* The drop of `Borrowed`, before anything is said about the end.
GiveBack ==
  /\ worker = "returning"
  /\ conn' = Back
  /\ worker' = "telling"
  /\ UNCHANGED <<pipe, live, alive, how, made, pushed, held, pc, pulled, seen,
                 heard>>

\* A panic unwinds through `Borrowed` and past the end of `run`.
Panic ==
  /\ Panics
  /\ worker = "scanning"
  /\ conn' = Back
  /\ worker' = "panicked"
  /\ UNCHANGED <<pipe, live, alive, how, made, pushed, held, pc, pulled, seen,
                 heard>>

Finish ==
  /\ worker = "finishing"
  /\ done' = TRUE
  /\ Wake
  /\ worker' = "over"
  /\ UNCHANGED <<queue, closed, live, alive, conn, how, made, pushed, held, pc,
                 pulled, seen, heard>>

-----------------------------------------------------------------------------
(***************************************************************************)
(* `Pipe::send`, for a batch (sending) and for the end (telling).          *)
(***************************************************************************)
Sending == worker \in {"sending", "telling"} /\ Worker \notin asleep

\* Mutant: room for one batch more than the queue may hold.
FullLate == Len(queue) > Queue

Full == Len(queue) >= Queue

\* Mutant: what is sent last is read first.
QueuedInFront(chunk) == <<chunk>> \o queue

Queued(chunk) == Append(queue, chunk)

Push ==
  /\ Sending
  /\ ~closed
  /\ ~Full
  /\ Wake
  /\ IF worker = "sending"
       THEN /\ queue' = Queued(Rows(made))
            /\ pushed' = pushed + 1
            /\ worker' = "scanning"
       ELSE /\ queue' = Queued(Done(how))
            /\ worker' = "finishing"
            /\ UNCHANGED pushed
  /\ UNCHANGED <<closed, done, live, alive, conn, how, made, held, pc, pulled,
                 seen, heard>>

SendWait ==
  /\ Sending
  /\ ~closed
  /\ Full
  /\ alive
  /\ asleep' = asleep \cup {Worker}
  /\ UNCHANGED <<queue, closed, done, live, alive, conn, worker, how, made,
                 pushed, held, pc, pulled, seen, heard>>

\* Mutant: the wait for room has no timeout.
TimeoutNever == FALSE

\* PAUSE has passed, and the thread looks up.
Timeout ==
  /\ Worker \in asleep
  /\ asleep' = asleep \ {Worker}
  /\ UNCHANGED <<queue, closed, done, live, alive, conn, worker, how, made,
                 pushed, held, pc, pulled, seen, heard>>

\* Nobody reads any more: the cursor is gone, or the connection is closed and
\* there is no room.  The chunk is dropped.
SendFails ==
  /\ Sending
  /\ closed \/ (Full /\ ~alive)
  /\ worker' = IF worker = "sending" THEN "ending" ELSE "finishing"
  /\ UNCHANGED <<pipe, live, alive, conn, how, made, pushed, held, pc, pulled,
                 seen, heard>>

-----------------------------------------------------------------------------
Recv(c) == RecvWait(c) \/ RecvEnd(c) \/ RecvRows(c) \/ RecvDone(c) \/ Store(c)

ReadStep(r) ==
  Begin(r) \/ Spawn(r) \/ SpawnFails(r) \/ Recv(r) \/ Resolve(r)

CancelStep(c) == TakeStart(c) \/ Recv(c) \/ ReleaseWatch(c)

WorkerStep ==
  \/ Borrow \/ BorrowFails \/ MakeBatch \/ EndScan \/ Hand \/ GiveBack
  \/ Push \/ SendWait \/ Timeout \/ SendFails \/ Finish

Next ==
  \/ \E r \in Readers : Next_(r) \/ ReadStep(r)
  \/ \E c \in Cancellers : Cancel(c) \/ CancelStep(c)
  \/ Drop \/ Close \/ EmptySlot
  \/ WorkerStep \/ Panic

Spec == Init /\ [][Next]_vars

-----------------------------------------------------------------------------
TypeOK ==
  /\ queue \in Seq({Rows(n) : n \in 1 .. MaxBatches} \cup {Done(r) : r \in Outcomes})
  /\ closed \in BOOLEAN
  /\ done \in BOOLEAN
  /\ asleep \subseteq Callers \cup {Worker}
  /\ stopped \in BOOLEAN
  /\ start \in BOOLEAN
  /\ ended \in Outcomes \cup {"none"}
  /\ watch \in BOOLEAN
  /\ alive \in BOOLEAN
  /\ conn \in {"slot", "thread", "dropped"}
  /\ worker \in {"none", "spawned", "scanning", "handing", "sending", "ending",
                 "returning", "telling", "finishing", "over", "panicked"}
  /\ how \in Outcomes \cup {"none"}
  /\ made \in 0 .. MaxBatches
  /\ pushed \in 0 .. MaxBatches
  /\ held \in BOOLEAN
  /\ pc \in [Callers -> {"idle", "called", "spawning", "pulling", "draining",
                         "storing", "computed", "settled"}]
  /\ pulled \in [Callers -> Outcomes \cup {"none", "rows", "end", "no thread"}]
  /\ seen \in Seq(1 .. MaxBatches)
  /\ heard \in BOOLEAN

(***************************************************************************)
(* The batches come out in order with none missing and none twice, and     *)
(* those in the queue are the ones that come next; only the cursor's drop  *)
(* throws away what is queued.                                             *)
(***************************************************************************)
InOrder ==
  /\ \A i \in DOMAIN seen : seen[i] = i
  /\ held => \A i \in DOMAIN queue :
               IsRows(queue[i]) => queue[i] = Rows(Len(seen) + i)

(***************************************************************************)
(* A reader that was told the end of a stream it did not give up, on a     *)
(* connection nobody closed, has had every batch the statement made.       *)
(***************************************************************************)
EndMeansAll ==
  alive /\ ~stopped /\ (\E r \in Readers : pulled[r] = "end") =>
    Len(seen) = made

(***************************************************************************)
(* When a cancel() resolves the statement is over: the thread has let go   *)
(* of the connection and no later read starts the statement again.  That   *)
(* the cursor is still held is part of it: one that is collected while the *)
(* cancel is pending closes the queue, and the cancel resolves too early.  *)
(***************************************************************************)
CancelMeansFree ==
  held /\ (\E c \in Cancellers : pc[c] \in {"computed", "settled"}) =>
    /\ ~Running
    /\ conn # "thread"
    /\ ~start
    /\ worker # "spawned"

(***************************************************************************)
(* The queue is over only after the statement has said what it ended as:   *)
(* an end heard by a reader nobody cancelled is one that is accounted for, *)
(* as a summary to read or a failure thrown, not a result gone missing.    *)
(***************************************************************************)
EndIsExplained ==
  [][\A r \in Readers :
       pc[r] = "computed" /\ pulled[r] = "end" /\ ~stopped /\ ~heard
         /\ pc'[r] = "idle"
       => ended # "none"]_vars

-----------------------------------------------------------------------------
(***************************************************************************)
(* The stream implements BatchStream.  A batch is with the reader once it  *)
(* is out of the queue; the cursor's drop throws all that is queued away.  *)
(***************************************************************************)
Unread ==
  start \/ worker = "spawned" \/ \E r \in Readers : pc[r] = "spawning"

Abstract == INSTANCE BatchStream WITH
  Ahead    <- Queue,
  phase    <- IF Running THEN "running" ELSE IF Unread THEN "unread" ELSE "over",
  lent     <- (conn = "thread"),
  made     <- pushed,
  given    <- IF held THEN Len(seen) ELSE pushed,
  given_up <- stopped

ImplementsBatchStream == Abstract!Spec
=============================================================================
