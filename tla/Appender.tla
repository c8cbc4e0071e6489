------------------------------ MODULE Appender ------------------------------
(***************************************************************************)
(* An appender (src/append.rs): one buffer per column behind a mutex, the  *)
(* words beside it that the getters read, and the claim `busy` that keeps  *)
(* the loop's thread from ever meeting a flush at that mutex.              *)
(*                                                                         *)
(* Appends and discards run on the loop's thread and are synchronous.  A   *)
(* flush (flush(), close() or dispose()) is claimed on the loop's thread,  *)
(* runs on the threadpool, and gives its claim back on the loop's thread.  *)
(* Reading a value of a row may call back into the caller's JavaScript     *)
(* (an accessor, a Temporal object's fields), and what that code may do    *)
(* here while the row is half in is `Reentrant`.                           *)
(*                                                                         *)
(* A row is its number; the values of a row are refused or taken, which is *)
(* all the columns can do with them.                                       *)
(***************************************************************************)
EXTENDS Slot, Naturals, Sequences, SequencesExt

CONSTANTS
  Width,      \* columns of the table
  MaxRows,    \* bound: rows the caller ever begins
  Flushes,    \* calls of flush(), close() and dispose()
  Loop,       \* the loop's thread, as a holder of the mutex
  NoOne,      \* a free mutex
  Reentrant,  \* whether a value's accessor calls back into the appender
  Throws      \* whether the accessor of an element throws

ASSUME AppenderAssumption ==
  /\ Width \in Nat \ {0}
  /\ MaxRows \in Nat
  /\ Loop \notin Flushes
  /\ NoOne \notin Flushes \cup {Loop}
  /\ Reentrant \in BOOLEAN
  /\ Throws \in BOOLEAN

VARIABLES
  open,        \* the appender's `open` word
  busy,        \* the appender's `busy` word
  lock,        \* who holds the mutex of `cols`
  cols,        \* the buffers: for each column, the rows whose value is in it
  buffered,    \* the `buffered` word
  committed,   \* the `committed` word
  loop,        \* what the loop's thread is doing here
  at,          \* the column the row being appended has reached
  rows,        \* how many rows the flush that has the mutex is writing
  pc,          \* where each flush is
  closing,     \* whether it is also the last one
  answer,      \* what it was answered
  file,        \* the rows the engine has committed, in order
  kept,        \* history: the rows taken and not discarded, in order
  begun,       \* history: how many rows the caller has begun
  torn         \* history: whether an accessor has thrown in the middle of a row

vars == <<alive, place, open, busy, lock, cols, buffered, committed, loop, at,
          rows, pc, closing, answer, file, kept, begun, torn>>
conn == <<alive, place>>
flushes == <<rows, pc, closing, answer>>
words == <<conn, open, busy>>

Columns == 1..Width

Places == {"new", "refused", "queued", "writing", "written", "emptied",
           "ending", "settled"}
Answers == {"none", "ok", "busy", "finished", "failed"}

Init ==
  /\ SlotInit
  /\ open = TRUE
  /\ busy = FALSE
  /\ lock = NoOne
  /\ cols = [c \in Columns |-> <<>>]
  /\ buffered = 0
  /\ committed = 0
  /\ loop = "idle"
  /\ at = 1
  /\ rows = 0
  /\ pc = [f \in Flushes |-> "new"]
  /\ closing = [f \in Flushes |-> FALSE]
  /\ answer = [f \in Flushes |-> "none"]
  /\ file = <<>>
  /\ kept = <<>>
  /\ begun = 0
  /\ torn = FALSE

-----------------------------------------------------------------------------
\* Mutant: `busy` is not asked about.
WritableAnyhow == open /\ alive

\* What an append or a discard asks before it takes the mutex.
Writable == ~busy /\ open /\ alive

\* `appendRow` and `appendRows`: the mutex is held for the whole of the batch.
AppendRows ==
  /\ loop = "idle"
  /\ Writable
  /\ begun < MaxRows
  /\ IF lock = NoOne
       THEN /\ lock' = Loop
            /\ loop' = "row"
            /\ at' = 1
            /\ begun' = begun + 1
       ELSE loop' = "blocked" /\ UNCHANGED <<lock, at, begun>>
  /\ UNCHANGED <<words, cols, buffered, committed, flushes, file, kept, torn>>

\* One value of the row goes into its column.
TakeValue ==
  /\ loop = "row"
  /\ at \in Columns
  /\ cols' = [cols EXCEPT ![at] = Append(@, begun)]
  /\ at' = at + 1
  /\ UNCHANGED <<words, lock, buffered, committed, loop, flushes, file, kept,
                 begun, torn>>

\* Mutant: the column just before the refused one keeps its value.
TakenBackShort ==
  [c \in Columns |-> IF c < at - 1 THEN Front(cols[c]) ELSE cols[c]]

\* `refuse`: the columns before the refused one lose their last value.
TakenBack ==
  [c \in Columns |-> IF c < at THEN Front(cols[c]) ELSE cols[c]]

\* A value is refused: the row takes back what it wrote and ends the call.
RefuseValue ==
  /\ loop = "row"
  /\ at \in Columns
  /\ cols' = TakenBack
  /\ loop' = "idle"
  /\ lock' = NoOne
  /\ UNCHANGED <<words, buffered, committed, at, flushes, file, kept, begun,
                 torn>>

\* Reading the element throws, which leaves `append` before anything is taken
\* back: the `?` of get_element is not the path that goes through `refuse`.
Throw ==
  /\ Throws
  /\ loop = "row"
  /\ at \in Columns
  /\ loop' = "idle"
  /\ lock' = NoOne
  /\ torn' = (torn \/ at > 1)
  /\ UNCHANGED <<words, cols, buffered, committed, at, flushes, file, kept,
                 begun>>

\* The row is in; the batch has another one, or the call is over.
EndRow ==
  /\ loop = "row"
  /\ at = Width + 1
  /\ buffered' = buffered + 1
  /\ kept' = Append(kept, begun)
  /\ \/ begun < MaxRows /\ begun' = begun + 1 /\ at' = 1 /\ UNCHANGED <<lock,
                                                                        loop>>
     \/ loop' = "idle" /\ lock' = NoOne /\ UNCHANGED <<at, begun>>
  /\ UNCHANGED <<words, cols, committed, flushes, file, torn>>

\* An accessor of a row that is half in appends, or discards, on its own: the
\* thread asks for the mutex it holds, and stays there.
Reenter ==
  /\ Reentrant
  /\ loop = "row"
  /\ at \in Columns
  /\ Writable
  /\ loop' = "reentered"
  /\ UNCHANGED <<words, lock, cols, buffered, committed, at, flushes, file,
                 kept, begun, torn>>

Discard ==
  /\ loop = "idle"
  /\ Writable
  /\ IF lock = NoOne
       THEN /\ cols' = [c \in Columns |-> <<>>]
            /\ buffered' = 0
            /\ kept' = SubSeq(kept, 1, Len(kept) - buffered)
            /\ UNCHANGED loop
       ELSE loop' = "blocked" /\ UNCHANGED <<cols, buffered, kept>>
  /\ UNCHANGED <<words, lock, committed, at, flushes, file, begun, torn>>

-----------------------------------------------------------------------------
\* `flushing`: the claim, on the loop's thread, for the call that finds it free.
Flush(f, last) ==
  /\ loop = "idle" \/ (Reentrant /\ loop = "row" /\ at \in Columns)
  /\ pc[f] = "new"
  /\ busy' = TRUE
  /\ pc' = [pc EXCEPT ![f] = IF busy THEN "refused" ELSE "queued"]
  /\ closing' = [closing EXCEPT ![f] = last]
  /\ UNCHANGED <<conn, open, lock, cols, buffered, committed, loop, at, rows,
                 answer, file, kept, begun, torn>>

\* The refused one answers and has no claim to give back.
Refused(f) ==
  /\ pc[f] = "refused"
  /\ loop = "idle"
  /\ pc' = [pc EXCEPT ![f] = "settled"]
  /\ answer' = [answer EXCEPT ![f] = "busy"]
  /\ UNCHANGED <<words, lock, cols, buffered, committed, loop, at, rows, closing,
                 file, kept, begun, torn>>

\* On the pool, under the mutex: a closed appender and an empty one write
\* nothing.
Start(f) ==
  /\ pc[f] = "queued"
  /\ lock = NoOne
  /\ IF open /\ buffered > 0
       THEN /\ pc' = [pc EXCEPT ![f] = "writing"]
            /\ lock' = f
            /\ rows' = buffered
            /\ UNCHANGED <<open, answer>>
       ELSE /\ pc' = [pc EXCEPT ![f] = "ending"]
            /\ answer' = [answer EXCEPT ![f] = IF open \/ closing[f]
                                              THEN "ok" ELSE "finished"]
            /\ open' = (open /\ ~closing[f])
            /\ UNCHANGED <<lock, rows>>
  /\ UNCHANGED <<conn, busy, cols, buffered, committed, loop, at, closing, file,
                 kept, begun, torn>>

\* Mutant: the last row of the buffer is left out.
BatchShort == [r \in 1..(rows - 1) |-> [c \in Columns |-> cols[c][r]]]

\* The rows handed to the engine, each read across the columns.
Batch == [r \in 1..rows |-> [c \in Columns |-> cols[c][r]]]

\* One commit of the rows the `buffered` word counted.
Write(f) ==
  /\ pc[f] = "writing"
  /\ place = "slot"
  /\ file' = file \o Batch
  /\ pc' = [pc EXCEPT ![f] = "written"]
  /\ UNCHANGED <<words, lock, cols, buffered, committed, loop, at, rows, closing,
                 answer, kept, begun, torn>>

\* Mutant: a close closes the appender although its write failed.
FailClosing(f) ==
  /\ pc[f] = "writing"
  /\ pc' = [pc EXCEPT ![f] = "ending"]
  /\ answer' = [answer EXCEPT ![f] = "failed"]
  /\ open' = ~closing[f]
  /\ lock' = NoOne
  /\ UNCHANGED <<conn, busy, cols, buffered, committed, loop, at, rows, closing,
                 file, kept, begun, torn>>

\* No connection, a stream that has it, an edge to nothing, an engine's refusal.
Fail(f) ==
  /\ pc[f] = "writing"
  /\ pc' = [pc EXCEPT ![f] = "ending"]
  /\ answer' = [answer EXCEPT ![f] = "failed"]
  /\ lock' = NoOne
  /\ UNCHANGED <<words, cols, buffered, committed, loop, at, rows, closing, file,
                 kept, begun, torn>>

\* Mutant: what was written is still in the buffers.
EmptyNothing(f) ==
  /\ pc[f] = "written"
  /\ pc' = [pc EXCEPT ![f] = "emptied"]
  /\ UNCHANGED <<words, lock, cols, buffered, committed, loop, at, rows, closing,
                 answer, file, kept, begun, torn>>

\* `empty`, and then the count: two words that a getter reads in between.
EmptyOut(f) ==
  /\ pc[f] = "written"
  /\ cols' = [c \in Columns |-> <<>>]
  /\ buffered' = 0
  /\ pc' = [pc EXCEPT ![f] = "emptied"]
  /\ UNCHANGED <<words, lock, committed, loop, at, rows, closing, answer, file,
                 kept, begun, torn>>

Count(f) ==
  /\ pc[f] = "emptied"
  /\ committed' = committed + rows
  /\ open' = ~closing[f]
  /\ lock' = NoOne
  /\ pc' = [pc EXCEPT ![f] = "ending"]
  /\ answer' = [answer EXCEPT ![f] = "ok"]
  /\ UNCHANGED <<conn, busy, cols, buffered, loop, at, rows, closing, file, kept,
                 begun, torn>>

\* Mutant: the claim is never given back.
FinallyNothing(f) ==
  /\ pc[f] = "ending"
  /\ loop = "idle"
  /\ pc' = [pc EXCEPT ![f] = "settled"]
  /\ UNCHANGED <<words, lock, cols, buffered, committed, loop, at, rows, closing,
                 answer, file, kept, begun, torn>>

\* `finally`, back on the loop's thread.
Finally(f) ==
  /\ pc[f] = "ending"
  /\ loop = "idle"
  /\ busy' = FALSE
  /\ pc' = [pc EXCEPT ![f] = "settled"]
  /\ UNCHANGED <<conn, open, lock, cols, buffered, committed, loop, at, rows,
                 closing, answer, file, kept, begun, torn>>

\* The connection underneath, which a stream may have and a close may take.
Underneath ==
  /\ SlotNext
  /\ UNCHANGED <<open, busy, lock, cols, buffered, committed, loop, at, flushes,
                 file, kept, begun, torn>>

-----------------------------------------------------------------------------
FlushStep(f) ==
  Start(f) \/ Write(f) \/ Fail(f) \/ EmptyOut(f) \/ Count(f)

LoopStep ==
  \/ TakeValue \/ RefuseValue \/ Throw \/ EndRow
  \/ \E f \in Flushes : Refused(f) \/ Finally(f)

Next ==
  \/ AppendRows \/ Reenter \/ Discard \/ LoopStep \/ Underneath
  \/ \E f \in Flushes : (\E last \in BOOLEAN : Flush(f, last)) \/ FlushStep(f)

Spec == Init /\ [][Next]_vars

\* The loop turns and a task the pool has runs to its end.
FairSpec == Spec /\ WF_vars(LoopStep) /\ \A f \in Flushes : WF_vars(FlushStep(f))

-----------------------------------------------------------------------------
TypeOK ==
  /\ alive \in BOOLEAN
  /\ place \in {"slot", "lent", "gone"}
  /\ open \in BOOLEAN
  /\ busy \in BOOLEAN
  /\ lock \in Flushes \cup {Loop, NoOne}
  /\ cols \in [Columns -> Seq(1..MaxRows)]
  /\ buffered \in 0..MaxRows
  /\ committed \in 0..MaxRows
  /\ loop \in {"idle", "row", "blocked", "reentered"}
  /\ at \in 1..(Width + 1)
  /\ rows \in 0..MaxRows
  /\ pc \in [Flushes -> Places]
  /\ closing \in [Flushes -> BOOLEAN]
  /\ answer \in [Flushes -> Answers]
  /\ kept \in Seq(1..MaxRows)
  /\ begun \in 0..MaxRows
  /\ torn \in BOOLEAN

\* One column of what was committed: which rows it has, in which order.
Column(c) == [r \in 1..Len(file) |-> file[r][c]]

(***************************************************************************)
(* No row is lost, none is written twice and none is torn: between calls   *)
(* the file and the buffer are, in each column, the rows taken and not     *)
(* discarded, each once, in the order they were appended, after any row    *)
(* that was refused halfway and any flush that failed.  An accessor that   *)
(* throws in the middle of a row (RowsAreWhole) ends what this promises.   *)
(***************************************************************************)
NoRowLostOrTwice ==
  lock = NoOne /\ ~torn => \A c \in Columns : Column(c) \o cols[c] = kept

(***************************************************************************)
(* "One row into the buffers, or nothing at all": what is committed is one *)
(* row, read across every column.  The code does not keep it.              *)
(***************************************************************************)
RowsAreWhole ==
  \A r \in 1..Len(file) : \A c \in Columns : file[r][c] = file[r][1]

(***************************************************************************)
(* The getters are exact whenever no flush is in flight, and a flush never *)
(* makes them count a row twice: rows leave the one before they are in the *)
(* other.                                                                  *)
(***************************************************************************)
GettersAgree ==
  /\ buffered + committed <= Len(kept)
  /\ ~busy => committed = Len(file) /\ buffered = Len(kept) - Len(file)

(***************************************************************************)
(* A closed appender has written everything it was given, also when the    *)
(* close came after flushes that failed.                                   *)
(***************************************************************************)
ClosedHasWritten == ~open /\ ~torn => Column(1) = kept

(***************************************************************************)
(* The loop's thread never waits for a flush: a call that gets past `busy` *)
(* finds the mutex free, or is made by an accessor of a row and finds it   *)
(* held by its own thread ("reentered").                                   *)
(***************************************************************************)
NeverWaits == loop # "blocked"

(***************************************************************************)
(* Every flush is answered and gives its claim back, unless the loop's     *)
(* thread has been stopped for good by an accessor.                        *)
(***************************************************************************)
FlushesSettle ==
  /\ \A f \in Flushes :
       pc[f] = "queued" ~> pc[f] = "settled" \/ loop = "reentered"
  /\ busy ~> ~busy \/ loop = "reentered"
=============================================================================
