----------------------------- MODULE Iteration ------------------------------
(***************************************************************************)
(* A loop over a stream (zudb.cjs): the generator that reads the cursor,   *)
(* the cancel() beside it, and the threadpool their calls are computed on. *)
(*                                                                         *)
(* It is Stream with one reader, the generator's, and two cancels: the one *)
(* in its `finally` and one of the program's own.  A loop that is broken   *)
(* out of, an error thrown in it and a ReadableStream that is cancelled    *)
(* are all a return() of the generator, which waits while a read is        *)
(* pending.                                                                *)
(*                                                                         *)
(* A call waits in line for a thread of the pool and keeps it, asleep or   *)
(* not, until it is computed; the statement has a thread of its own.       *)
(***************************************************************************)
EXTENDS Stream, FiniteSets

CONSTANTS
  Reader,   \* the generator's read
  Finally,  \* the cancel() in its `finally`
  Threads   \* threads of the pool, UV_THREADPOOL_SIZE

ASSUME IterationAssumption ==
  /\ Readers = {Reader}
  /\ Finally \in Cancellers
  /\ Threads \in Nat \ {0}
  /\ ~Collected

VARIABLES
  gen,      \* where the generator is
  leaving,  \* whether a return() of it has been asked for
  gone,     \* #ended
  summary,  \* #summary
  line      \* the calls waiting for a thread, in order

loop == <<gen, leaving, gone, summary>>
varsIt == <<vars, loop, line>>

Programs == Cancellers \ {Finally}

InitIt ==
  /\ Init
  /\ gen = "fresh"
  /\ leaving = FALSE
  /\ gone = FALSE
  /\ summary = "none"
  /\ line = <<>>

Queues(c) == line' = Append(line, c)

-----------------------------------------------------------------------------
(***************************************************************************)
(* The generator.                                                          *)
(***************************************************************************)
\* The loop asks for the next batch.
Pull ==
  /\ gen \in {"fresh", "suspended"}
  /\ ~leaving
  /\ gen' = "reading"
  /\ Next_(Reader)
  /\ Queues(Reader)
  /\ UNCHANGED <<leaving, gone, summary>>

\* The read is answered: rows to yield, the end, or a failure.
Settle ==
  /\ gen = "reading"
  /\ Resolve(Reader)
  /\ gen' = CASE pulled[Reader] = "rows" -> "suspended"
              [] pulled[Reader] = "end" /\ ended # "failed" -> "ending"
              [] OTHER -> "throwing"
  /\ UNCHANGED <<leaving, gone, summary, line>>

\* Mutant: a cancelled stream keeps no summary.
SummedNever == summary

\* `??=` of the cursor's summary.
Summed == IF summary = "none" /\ ended = "ok" THEN "ok" ELSE summary

\* #done, and a `finally` with nothing to do.
Ends ==
  /\ gen = "ending"
  /\ gen' = "over"
  /\ gone' = TRUE
  /\ summary' = IF ended = "ok" THEN "ok" ELSE "none"
  /\ UNCHANGED <<vars, leaving, line>>

\* return() of a generator that never ran: none of its body does.
LeaveUnread ==
  /\ held
  /\ gen = "fresh"
  /\ gen' = "over"
  /\ UNCHANGED <<vars, leaving, gone, summary, line>>

Leave ==
  /\ held
  /\ gen \in {"suspended", "reading"}
  /\ ~leaving
  /\ leaving' = TRUE
  /\ UNCHANGED <<vars, gen, gone, summary, line>>

\* Mutant: the loop is left and nobody stops the statement.
RunFinallyBare ==
  /\ (gen = "suspended" /\ leaving) \/ gen = "throwing"
  /\ gen' = "over"
  /\ UNCHANGED <<vars, leaving, gone, summary, line>>

\* `finally`: a stream that nobody cancelled is.
RunFinally ==
  /\ (gen = "suspended" /\ leaving) \/ gen = "throwing"
  /\ IF gone
       THEN gen' = "over" /\ UNCHANGED <<vars, gone, line>>
       ELSE /\ gen' = "cancelling"
            /\ gone' = TRUE
            /\ Cancel(Finally)
            /\ Queues(Finally)
  /\ UNCHANGED <<leaving, summary>>

Left ==
  /\ gen = "cancelling"
  /\ ReleaseWatch(Finally)
  /\ gen' = "over"
  /\ summary' = Summed
  /\ UNCHANGED <<leaving, gone, line>>

-----------------------------------------------------------------------------
\* cancel() of the program, beside the loop or after it.
ProgramCancels(c) ==
  /\ gone' = TRUE
  /\ Cancel(c)
  /\ Queues(c)
  /\ UNCHANGED <<gen, leaving, summary>>

ProgramHears(c) ==
  /\ ReleaseWatch(c)
  /\ summary' = Summed
  /\ UNCHANGED <<gen, leaving, gone, line>>

\* A stream nobody holds any more, its generator suspended or over.
LetGo ==
  /\ gen \in {"fresh", "suspended", "over"}
  /\ ~(gen = "suspended" /\ leaving)
  /\ Drop
  /\ UNCHANGED <<loop, line>>

-----------------------------------------------------------------------------
(***************************************************************************)
(* The threadpool.                                                         *)
(***************************************************************************)
Busy == {c \in Callers : pc[c] \in {"spawning", "pulling", "draining", "storing"}}

\* Mutant: the statement runs on a thread of the pool as well.
FreeAmongAll ==
  Cardinality(Busy \cup {w \in {Worker} : Running \/ worker = "spawned"}) < Threads

Free == Cardinality(Busy) < Threads

TakeThread(c) ==
  /\ Free
  /\ line # <<>> /\ c = Head(line)
  /\ line' = Tail(line)
  /\ IF c \in Readers THEN Begin(c) ELSE TakeStart(c)
  /\ UNCHANGED loop

Compute(c) ==
  /\ Spawn(c) \/ SpawnFails(c) \/ Recv(c)
  /\ UNCHANGED <<loop, line>>

-----------------------------------------------------------------------------
OnLoop ==
  \/ Settle \/ Ends \/ RunFinally \/ Left
  \/ \E c \in Programs : ProgramHears(c)

Underneath == (WorkerStep \/ EmptySlot \/ Panic) /\ UNCHANGED <<loop, line>>

CloseUnderneath == Close /\ UNCHANGED <<loop, line>>

NextIt ==
  \/ Pull \/ LeaveUnread \/ Leave \/ LetGo
  \/ \E c \in Programs : ProgramCancels(c)
  \/ OnLoop
  \/ \E c \in Callers : TakeThread(c) \/ Compute(c)
  \/ Underneath \/ CloseUnderneath

(***************************************************************************)
(* The loop's thread, the pool's and the statement's run, and the engine   *)
(* makes a batch or ends: nothing says that a program reads on, leaves,    *)
(* cancels, closes or lets go.                                             *)
(***************************************************************************)
FairIt ==
  /\ InitIt /\ [][NextIt]_varsIt
  /\ WF_varsIt(OnLoop)
  /\ \A c \in Callers : WF_varsIt(TakeThread(c)) /\ WF_varsIt(Compute(c))
  /\ WF_varsIt(WorkerStep /\ UNCHANGED <<loop, line>>)
  /\ WF_varsIt(EmptySlot /\ UNCHANGED <<loop, line>>)

-----------------------------------------------------------------------------
(***************************************************************************)
(* Every read and every cancel() is answered and a loop that is left is    *)
(* left, with no more threads in the pool than one, which a read or a      *)
(* drain keeps while it waits for a batch: what it waits for never waits   *)
(* for it (src/stream.rs recv, zudb.cjs batches).                          *)
(***************************************************************************)
EveryCallSettles ==
  /\ pc[Reader] = "called" ~> pc[Reader] = "idle"
  /\ \A c \in Cancellers : pc[c] = "called" ~> pc[c] = "settled"
  /\ leaving ~> gen = "over"

(***************************************************************************)
(* A connection closed underneath a stream is let go of for good, although *)
(* nobody reads and nothing but the PAUSE timeout wakes the thread; and a  *)
(* stream nobody holds any more stops holding the connection               *)
(* (src/stream.rs send, ZuCursor::drop).                                   *)
(***************************************************************************)
StreamLetsGo ==
  /\ ~alive ~> [](conn = "dropped")
  /\ ~held ~> [](conn # "thread")

NoneCancels == \A c \in Programs : pc[c] \in {"idle", "settled"}

(***************************************************************************)
(* A loop that is over, at the end of its rows, by a break, an error or a  *)
(* ReadableStream cancelled, has left the connection to the next           *)
(* statement, unless a cancel() of the program's own, still pending, was there  *)
(* before it: `finally` waits for no other cancel (zudb.cjs batches).      *)
(***************************************************************************)
LeavingFrees ==
  gen = "over" /\ NoneCancels =>
    ~Running /\ worker # "spawned" /\ conn # "thread"

(***************************************************************************)
(* When all that was called has been answered, the summary of a statement  *)
(* that ended well on an open connection is there to be read, whichever of *)
(* the read and the two cancels it was that heard the end (zudb.cjs done,  *)
(* cancel).                                                                *)
(***************************************************************************)
SummaryStands ==
  /\ gen = "over" /\ alive /\ held
  /\ NoneCancels
  /\ worker = "over" /\ how = "ok"
  => summary = "ok"
=============================================================================
