----------------------------- MODULE Connection -----------------------------
(***************************************************************************)
(* One `Connection` of the client (src/conn.rs): the engine connection in  *)
(* its slot, the mutex around the slot, and the three words kept beside    *)
(* the lock so that a getter never queues behind a statement.              *)
(*                                                                         *)
(* Four kinds of actor meet here.                                          *)
(*   - A statement is a call made on the loop's thread that runs as a task *)
(*     of libuv's threadpool and goes through `with`: query, exec,         *)
(*     columns, arrow, profile, explain, prepare, transaction, register,   *)
(*     duplicate and the rest.                                             *)
(*   - A stream runs on a thread of its own from its first read, and takes *)
(*     the engine connection OUT of the slot for as long as it lasts       *)
(*     (`Borrowed` in src/stream.rs).                                      *)
(*   - A close is `close()`, which blocks the loop's thread.               *)
(*   - A disposal is `dispose()`, the same thing on the threadpool.        *)
(*                                                                         *)
(* A step is one section under the mutex or one access to an atomic.  Only *)
(* `alive` changes outside the mutex, and no step reads it twice, so a     *)
(* whole section is one step.                                              *)
(***************************************************************************)
CONSTANTS
  Statements,   \* calls that run through `with`
  Streams,      \* cursors, each with the thread its first read starts
  Closes,       \* calls of close()
  Disposals,    \* calls of dispose()
  NoOne,        \* nobody: a free lock, an idle loop
  Panics        \* where the engine may panic: "statement", "stream"

Closers == Closes \cup Disposals
Actors  == Statements \cup Streams \cup Closers

ASSUME ActorsAssumption ==
  /\ Statements \cap Streams = {}
  /\ (Statements \cup Streams) \cap Closers = {}
  /\ Closes \cap Disposals = {}
  /\ NoOne \notin Actors
  /\ Panics \subseteq {"statement", "stream"}

VARIABLES
  alive,      \* the connection's `alive` word
  slot,       \* whether `inner` holds the engine connection
  lock,       \* who holds the mutex of `inner`
  poisoned,   \* whether the mutex is poisoned
  inTxn,      \* the connection's `in_txn` word
  session,    \* whether the engine's session is inside a transaction
  broken,     \* whether a panic left the engine connection in pieces
  loop,       \* who blocks the loop's thread, if anybody does
  pc,         \* where each actor stands
  answer      \* what each call was answered

vars == <<alive, slot, lock, poisoned, inTxn, session, broken, loop, pc, answer>>

Answers == {"none", "ok", "closed", "streaming", "poisoned", "panicked"}

Places == {"new", "opened", "queued", "holding", "ran", "scanning", "scanned",
           "returning", "replacing", "closing", "taking", "done"}

(***************************************************************************)
(* A stream has the engine connection from `Borrowed::take` to the end of  *)
(* the drop that gives it back.                                            *)
(***************************************************************************)
Has(s)  == pc[s] \in {"scanning", "scanned", "returning", "replacing"}
Lent    == \E s \in Streams : Has(s)

\* A close that found the connection open and has not emptied the slot yet.
Closing == \E c \in Closers : pc[c] \in {"closing", "taking"}

Goto(a, place) == pc' = [pc EXCEPT ![a] = place]

Settle(a, what) ==
  /\ Goto(a, "done")
  /\ answer' = [answer EXCEPT ![a] = what]

Init ==
  /\ alive = TRUE
  /\ slot = TRUE
  /\ lock = NoOne
  /\ poisoned = FALSE
  /\ inTxn = FALSE
  /\ session = FALSE
  /\ broken = FALSE
  /\ loop = NoOne
  /\ pc = [a \in Actors |-> "new"]
  /\ answer = [a \in Actors |-> "none"]

-----------------------------------------------------------------------------
(***************************************************************************)
(* The call, on the loop's thread: a connection already closed is refused  *)
(* there, by a task that never touches the lock.                           *)
(***************************************************************************)
Call(t) ==
  /\ loop = NoOne
  /\ pc[t] = "new"
  /\ IF alive
       THEN Goto(t, "queued") /\ UNCHANGED answer
       ELSE Settle(t, "closed")
  /\ UNCHANGED <<alive, slot, lock, poisoned, inTxn, session, broken, loop>>

\* `cursor()`: the same look at `alive`, and a statement that does not start.
Open(s) ==
  /\ loop = NoOne
  /\ pc[s] = "new"
  /\ IF alive
       THEN Goto(s, "opened") /\ UNCHANGED answer
       ELSE Settle(s, "closed")
  /\ UNCHANGED <<alive, slot, lock, poisoned, inTxn, session, broken, loop>>

\* The first read spawns the statement's thread.
Read(s) ==
  /\ loop = NoOne
  /\ pc[s] = "opened"
  /\ Goto(s, "queued")
  /\ UNCHANGED <<alive, slot, lock, poisoned, inTxn, session, broken, loop, answer>>

-----------------------------------------------------------------------------
\* Mutant: `with` takes a poisoned mutex as if it were not.
LockPoisoned(a) ==
  /\ pc[a] = "queued"
  /\ lock = NoOne
  /\ Goto(a, "holding")
  /\ lock' = a
  /\ UNCHANGED <<alive, slot, poisoned, inTxn, session, broken, loop, answer>>

(***************************************************************************)
(* Taking the mutex, for a statement (`with`) and for a stream that is     *)
(* about to borrow (`Borrowed::take`).  A poisoned mutex is refused.       *)
(***************************************************************************)
Lock(a) ==
  /\ pc[a] = "queued"
  /\ lock = NoOne
  /\ IF poisoned
       THEN Settle(a, "poisoned") /\ UNCHANGED lock
       ELSE Goto(a, "holding") /\ lock' = a /\ UNCHANGED answer
  /\ UNCHANGED <<alive, slot, poisoned, inTxn, session, broken, loop>>

\* An empty slot means two things, and `alive` tells them apart.
FindEmpty(a) ==
  /\ pc[a] = "holding"
  /\ ~slot
  /\ Settle(a, IF alive THEN "streaming" ELSE "closed")
  /\ lock' = NoOne
  /\ UNCHANGED <<alive, slot, poisoned, inTxn, session, broken, loop>>

\* The statement runs: it may start a transaction, end one, do neither or fail.
Run(t) ==
  /\ pc[t] = "holding"
  /\ slot
  /\ Goto(t, "ran")
  /\ session' \in BOOLEAN
  /\ UNCHANGED <<alive, slot, lock, poisoned, inTxn, broken, loop, answer>>

\* `with` writes the session's answer into `in_txn` and lets go of the lock.
Publish(t) ==
  /\ pc[t] = "ran"
  /\ inTxn' = session
  /\ lock' = NoOne
  /\ Settle(t, "ok")
  /\ UNCHANGED <<alive, slot, poisoned, session, broken, loop>>

\* A panic inside `with` unwinds through the guard, which poisons the mutex.
PanicStatement(t) ==
  /\ "statement" \in Panics
  /\ pc[t] = "holding"
  /\ slot
  /\ session' \in BOOLEAN
  /\ broken' = TRUE
  /\ poisoned' = TRUE
  /\ lock' = NoOne
  /\ Settle(t, "panicked")
  /\ UNCHANGED <<alive, slot, inTxn, loop>>

-----------------------------------------------------------------------------
\* Mutant: the stream borrows the connection and leaves it in the slot too.
TakeShared(s) ==
  /\ pc[s] = "holding"
  /\ slot
  /\ lock' = NoOne
  /\ Goto(s, "scanning")
  /\ UNCHANGED <<alive, slot, poisoned, inTxn, session, broken, loop, answer>>

\* Mutant: the stream keeps the mutex for as long as it runs.
TakeLocked(s) ==
  /\ pc[s] = "holding"
  /\ slot
  /\ slot' = FALSE
  /\ Goto(s, "scanning")
  /\ UNCHANGED <<alive, lock, poisoned, inTxn, session, broken, loop, answer>>

(***************************************************************************)
(* A stream takes the connection out of the slot and drops the lock, scans *)
(* with no lock at all, publishes the session's word, and gives the        *)
(* connection back in the drop of `Borrowed`.                              *)
(***************************************************************************)
Take(s) ==
  /\ pc[s] = "holding"
  /\ slot
  /\ slot' = FALSE
  /\ lock' = NoOne
  /\ Goto(s, "scanning")
  /\ UNCHANGED <<alive, poisoned, inTxn, session, broken, loop, answer>>

Scan(s) ==
  /\ pc[s] = "scanning"
  /\ session' \in BOOLEAN
  /\ Goto(s, "scanned")
  /\ UNCHANGED <<alive, slot, lock, poisoned, inTxn, broken, loop, answer>>

\* A signal that fired before the statement began ends it with no scan.
SkipScan(s) ==
  /\ pc[s] = "scanning"
  /\ Goto(s, "returning")
  /\ UNCHANGED <<alive, slot, lock, poisoned, inTxn, session, broken, loop, answer>>

\* Mutant: a stream does not say what it did to the transaction.
PublishNothing(s) ==
  /\ pc[s] = "scanned"
  /\ Goto(s, "returning")
  /\ UNCHANGED <<alive, slot, lock, poisoned, inTxn, session, broken, loop, answer>>

PublishScan(s) ==
  /\ pc[s] = "scanned"
  /\ inTxn' = session
  /\ Goto(s, "returning")
  /\ UNCHANGED <<alive, slot, lock, poisoned, session, broken, loop, answer>>

\* A panic of the engine on the stream's thread unwinds through `Borrowed`
\* while no lock is held, so it goes straight to the drop.
PanicScan(s) ==
  /\ "stream" \in Panics
  /\ pc[s] = "scanning"
  /\ session' \in BOOLEAN
  /\ broken' = TRUE
  /\ Goto(s, "returning")
  /\ UNCHANGED <<alive, slot, lock, poisoned, inTxn, loop, answer>>

\* The drop takes the lock; a poisoned one leaves the connection to be dropped.
LockReturn(s) ==
  /\ pc[s] = "returning"
  /\ lock = NoOne
  /\ IF poisoned
       THEN Settle(s, "ok") /\ UNCHANGED lock
       ELSE Goto(s, "replacing") /\ lock' = s /\ UNCHANGED answer
  /\ UNCHANGED <<alive, slot, poisoned, inTxn, session, broken, loop>>

\* Mutant: the drop puts the connection back without a look at `alive`.
PutBackAlways(s) ==
  /\ pc[s] = "replacing"
  /\ slot' = TRUE
  /\ lock' = NoOne
  /\ Settle(s, "ok")
  /\ UNCHANGED <<alive, poisoned, inTxn, session, broken, loop>>

\* Mutant: the connection is dropped with the stream that borrowed it.
PutBackNever(s) ==
  /\ pc[s] = "replacing"
  /\ lock' = NoOne
  /\ Settle(s, "ok")
  /\ UNCHANGED <<alive, slot, poisoned, inTxn, session, broken, loop>>

\* Back into the slot, unless a close arrived while the stream had it.
PutBack(s) ==
  /\ pc[s] = "replacing"
  /\ slot' = alive
  /\ lock' = NoOne
  /\ Settle(s, "ok")
  /\ UNCHANGED <<alive, poisoned, inTxn, session, broken, loop>>

-----------------------------------------------------------------------------
(***************************************************************************)
(* Closing.  The one that turns `alive` off empties the slot, after it has *)
(* waited for the lock; the loop's thread is blocked for all of a close().  *)
(***************************************************************************)
Dispose(c) ==
  /\ loop = NoOne
  /\ pc[c] = "new"
  /\ Goto(c, "queued")
  /\ UNCHANGED <<alive, slot, lock, poisoned, inTxn, session, broken, loop, answer>>

Swap(c) ==
  /\ alive' = FALSE
  /\ IF alive
       THEN Goto(c, "closing") /\ UNCHANGED answer
       ELSE Settle(c, "ok")
  /\ UNCHANGED <<slot, lock, poisoned, inTxn, session, broken>>

SwapClose(c) ==
  /\ loop = NoOne
  /\ pc[c] = "new"
  /\ loop' = IF alive THEN c ELSE NoOne
  /\ Swap(c)

\* Mutant: a disposal closes on the loop's thread, as close() does.
SwapBlocking(c) ==
  /\ pc[c] = "queued"
  /\ loop' = c
  /\ Swap(c)

SwapDisposal(c) ==
  /\ pc[c] = "queued"
  /\ Swap(c)
  /\ UNCHANGED loop

Unblock(c) == loop' = IF loop = c THEN NoOne ELSE loop

\* Mutant: a close empties the slot without waiting for the mutex.
CloseUnlocked(c) ==
  /\ pc[c] = "closing"
  /\ Goto(c, "taking")
  /\ lock' = c
  /\ UNCHANGED <<alive, slot, poisoned, inTxn, session, broken, answer, loop>>

LockClose(c) ==
  /\ pc[c] = "closing"
  /\ lock = NoOne
  /\ IF poisoned
       THEN Settle(c, "ok") /\ Unblock(c) /\ UNCHANGED lock
       ELSE Goto(c, "taking") /\ lock' = c /\ UNCHANGED <<answer, loop>>
  /\ UNCHANGED <<alive, slot, poisoned, inTxn, session, broken>>

TakeOut(c) ==
  /\ pc[c] = "taking"
  /\ slot' = FALSE
  /\ lock' = NoOne
  /\ Settle(c, "ok")
  /\ Unblock(c)
  /\ UNCHANGED <<alive, poisoned, inTxn, session, broken>>

-----------------------------------------------------------------------------
StatementStep(t) ==
  \/ Lock(t) \/ FindEmpty(t) \/ Run(t) \/ Publish(t) \/ PanicStatement(t)

StreamStep(s) ==
  \/ Lock(s) \/ FindEmpty(s) \/ Take(s) \/ Scan(s) \/ SkipScan(s)
  \/ PublishScan(s) \/ PanicScan(s) \/ LockReturn(s) \/ PutBack(s)

CloserStep(c) ==
  \/ LockClose(c) \/ TakeOut(c)

Next ==
  \/ \E t \in Statements : Call(t) \/ StatementStep(t)
  \/ \E s \in Streams : Open(s) \/ Read(s) \/ StreamStep(s)
  \/ \E c \in Closes : SwapClose(c)
  \/ \E c \in Disposals : Dispose(c) \/ SwapDisposal(c)
  \/ \E c \in Closers : CloserStep(c)

Spec == Init /\ [][Next]_vars

(***************************************************************************)
(* Threads that can step do.  A scan is the exception: a stream nobody     *)
(* reads is parked on its full queue for as long as it likes, and what     *)
(* ends it for certain is the connection closing underneath it, which the  *)
(* wait in `Pipe::send` looks up for every PAUSE.                          *)
(***************************************************************************)
Fairness ==
  /\ \A t \in Statements : WF_vars(StatementStep(t))
  /\ \A s \in Streams :
       /\ WF_vars(Lock(s) \/ FindEmpty(s) \/ Take(s) \/ PublishScan(s)
                    \/ LockReturn(s) \/ PutBack(s))
       /\ WF_vars(~alive /\ Scan(s))
  /\ \A c \in Disposals : WF_vars(SwapDisposal(c))
  /\ \A c \in Closers : WF_vars(CloserStep(c))

FairSpec == Spec /\ Fairness

-----------------------------------------------------------------------------
TypeOK ==
  /\ alive \in BOOLEAN
  /\ slot \in BOOLEAN
  /\ lock \in Actors \cup {NoOne}
  /\ poisoned \in BOOLEAN
  /\ inTxn \in BOOLEAN
  /\ session \in BOOLEAN
  /\ broken \in BOOLEAN
  /\ loop \in Closes \cup {NoOne}
  /\ pc \in [Actors -> Places]
  /\ answer \in [Actors -> Answers]

(***************************************************************************)
(* The engine connection of an open connection is one thing in one place:  *)
(* in the slot, or in the hands of one stream that has not finished.       *)
(* `Borrowed::take` and a close that arrive together cannot both find it   *)
(* theirs, STREAMING is never said of a connection nobody is streaming     *)
(* from, and a stream that ends, however it ends, leaves it usable.        *)
(***************************************************************************)
OnePlace ==
  /\ slot => ~Lent
  /\ alive /\ ~slot => Lent
  /\ \A s1, s2 \in Streams : Has(s1) /\ Has(s2) => s1 = s2

(***************************************************************************)
(* A connection that is closed stays closed: once the close has done its   *)
(* part no stream that outlived it puts the connection back.  A mutex      *)
(* poisoned by a panic is the one thing that keeps the slot full.          *)
(***************************************************************************)
ClosedStaysClosed == ~alive /\ slot => Closing \/ poisoned

(***************************************************************************)
(* Between statements `inTransaction` is what the session says, whichever  *)
(* statement, failed statement or stream ran last, unless one panicked.    *)
(***************************************************************************)
TxnWord == slot /\ lock = NoOne /\ ~broken => inTxn = session

(***************************************************************************)
(* A connection is never dropped from under a running statement: while a   *)
(* statement is inside `with`, the slot keeps what it found there.         *)
(***************************************************************************)
NeverFromUnder ==
  [][\A t \in Statements : pc[t] \in {"holding", "ran"} /\ slot => slot']_vars

(***************************************************************************)
(* Nothing runs on a connection that a statement's panic left in pieces:   *)
(* every statement and stream that comes to the mutex after it is refused, *)
(* those that were waiting for it included.                                *)
(***************************************************************************)
PanicIsTheLast ==
  poisoned =>
    /\ \A t \in Statements : pc[t] # "ran"
    /\ \A s \in Streams : pc[s] \notin {"scanning", "scanned"}

(***************************************************************************)
(* Every call is answered and every close returns, with a stream parked    *)
(* for ever on the same connection too: a second statement is refused      *)
(* rather than made to wait for the reader that would be doing the waiting.*)
(***************************************************************************)
EveryCallAnswered ==
  /\ \A t \in Statements : pc[t] = "queued" ~> pc[t] = "done"
  /\ \A c \in Closers : pc[c] \in {"queued", "closing"} ~> pc[c] = "done"

(***************************************************************************)
(* A close releases the database: the engine connection is dropped by the  *)
(* close itself, or by the stream that had it.                             *)
(***************************************************************************)
CloseReleases == ~alive ~> [](poisoned \/ (~slot /\ ~Lent))

(***************************************************************************)
(* To the objects made from it a connection is a Slot: whatever statements,*)
(* streams, closes and panics do, the engine connection only ever moves    *)
(* from the slot to a stream and back, or away for good after a close.     *)
(***************************************************************************)
Promise == INSTANCE Slot
  WITH place <- IF slot THEN "slot" ELSE IF Lent THEN "lent" ELSE "gone"

ImplementsSlot == Promise!SlotSpec
=============================================================================
