# zu-node: a verification development

TLA+ models, TLC runs and TLAPS proofs for the Node.js client of the zu graph
database (`src/src/*.rs`, a napi-rs addon, and the JavaScript around it).
Everything here is translated from the Rust source; the engine (`zudb`) and
napi/libuv/arrow-js are outside the repository and are modelled only as far as
this code relies on them.

- State machines: `Slot`, `Connection`, `Cancel`, `BatchStream`, `Stream`,
  `Iteration`, `Transaction`, `Prepared`, `Appender`, `Register`, `Load`,
  `Crossing`.
- Operators, of which they are built: `Frame`, `Temporal`, `Values`, `Nesting`,
  `Buffers`, `Columns`; and `Meanings`, what a value stands for apart from the code.
- `MC*` modules instantiate them for TLC, one `.cfg` per run.
- `ConnectionProofs`, `CancelProofs`, `StreamProofs` (of `Stream` and
  `Iteration`), `TransactionProofs`, `PreparedProofs`, `AppenderProofs`,
  `RegisterProofs` (of `Frame` and `Register`) and `LoadProofs` (of `Temporal`,
  `Values`, `Nesting`, `Buffers`, `Columns`, `Load` and `Crossing`) hold the theorems,
  checked by TLAPS.
- `PROJECT.json` maps each definition to the lines it models and each hazard of
  the code to the properties that watch it.

## 1. Inventory

Three kinds of thread meet in this client: the **loop's thread**, which runs the
caller's JavaScript and is never to wait; libuv's **threadpool**, where every
asynchronous call computes; and **one thread per stream**, from its first read.

| Component | Source | State | Operations |
|---|---|---|---|
| Connection | `conn.rs` | `inner: Mutex<Option<zudb::Connection>>` (the *slot*), the words `alive`, `in_txn`, the shared `interrupt` | every statement goes through `with`; `close()` on the loop's thread, `dispose()` on the pool |
| Cancellation | `cancel.rs` | `asked`, `running` per statement; the engine's interrupt word per connection; the listener on the signal | `Watch::new`, `ask`, `began`, `enter`, `leave`, `release` |
| Stream | `stream.rs` | `Pipe` (queue, `closed`, `done`, a condition variable), `Live` (`start`, `ended`, `stopped`, the watch) | `next()`, `cancel()`, drop; the statement's own thread |
| Transaction | `txn.rs` | `done` per handle; the session's one transaction | `transaction()`, `commit`, `rollback`, `dispose` |
| Prepared statement | `prepared.rs` | a pinned id in the session, `open` per object | `prepare`, four ways to run, `close`, `dispose` |
| Appender | `append.rs`, `buffer.rs` | a buffer per column behind a mutex, `open`, `busy`, `buffered`, `committed` | `appendRow(s)`, `discard`, `flush`, `close`, `dispose`, getters |
| Frame registry | `register.rs`, `frame.rs` | frames by name in the session, the caller's arrays held by reference | `register`, `unregister`, `registered` |
| Bulk load, connect | `load.rs`, `conn.rs` | a file at a path; the plan a call owns until it runs | `load()` read on the loop's thread, run on the pool; `connect()` |
| Results | `columns.rs`, `arrow.rs`, `plan.rs` | none of their own | statements through `with`, then shaping |
| Values, temporal values | `value.rs`, `temporal.rs`, `buffer.rs` | none | a parameter in, a result out, a value into a column |
| Errors, entry | `error.rs`, `lib.rs` | none | wording, exports |
| JavaScript wrapper | `zudb.cjs`, `binding.cjs` | `#ended`, `#summary` and a generator per loop | `batches()`, `cancel()`, `toReadableStream()`, disposal; loading the binary |

How they interact. Every object made from a connection shares its slot, its
`alive` and its `in_txn`. A statement locks the mutex and finds the engine
connection in the slot or is refused (`STREAMING`, `CLOSED`, `POISONED`). A
stream takes the engine connection *out* of the slot, lets go of the mutex and
puts it back, or drops it when a close came meanwhile. A signal reaches a running
statement through two per-statement words and one per-connection word, so a stop
can be meant for one statement and meet another.

What is hard here: the interleavings of the loop, the pool and the streams'
threads at one mutex and five atomics; a close that arrives at any point of any
of them; words read at a call and used later on the pool; failures halfway (a
refused value, a refused commit, a panic); a queue of two with three kinds of
waiter on one condition variable; calls that keep a thread of the pool while they
wait for one another; column layouts whose parts count rows from different
places; and conversions at the edges of a double, an INT64 and the calendar.
`PROJECT.json` lists the hazards at their lines.

What makes each component correct:

- *Connection*: the engine connection is in one place; a close is final, returns
  and releases the database; every call is answered; `inTransaction` is right.
- *Cancellation*: no stop is lost, none is stale, none hits another statement.
- *Stream*: order, backpressure, an end that means all, a cancel that means free,
  no call left waiting, the connection always let go of.
- *Transaction*: each ended once, by its own handle, with the word that was
  called; a claim is resolved and a failed end leaves it endable.
- *Prepared*: an open statement is pinned, a closed one is not.
- *Appender*: no row lost, doubled or torn; exact getters; the loop never waits.
- *ZuStream*: a loop that is over has let go of the connection, however it was
  left; every call settles on the smallest pool; the summary stands.
- *Values*: what is bound is what was meant or is refused, and comes back itself.
- *Load*: the file holds what was written, edges name its rows, and a call that
  was refused leaves none.
- *Frames*: a statement reads the caller's rows, at no time through memory nobody
  holds; a row with nothing in it is refused by its number.

## 2. Modules and how they correspond to the code

```
             Slot  <=== implemented by === Connection    BatchStream
          /   |   \      \                                   ^
Transaction Prepared Appender Register --- Frame             |  implemented by
                                           Cancel          Stream <--- Iteration

                  +--- Buffers, Meanings <--- Load <---+
Temporal <--- Values                                   Crossing
                  +--- Nesting <--- Columns <----------+
```

An arrow points to what is extended, and each module composes what it extends.
Nothing is recursive, so that all of it can be proved about.

**Connection** (`conn.rs`, `Borrowed` of `stream.rs`). `slot`, `lock`, `poisoned`
are the mutex and what is in it; `alive`, `inTxn` the words; `session` what the
engine would answer about its transaction; `broken` whether a panic left the
engine in pieces; `loop` who blocks the loop's thread. A step is a section under
the mutex or one access to an atomic. `Call`, `Lock`, `FindEmpty`, `Run`,
`Publish`, `PanicStatement` are a statement inside `with`; `Open`, `Read`,
`Take`, `Scan`, `SkipScan`, `PublishScan`, `PanicScan`, `LockReturn`, `PutBack` a
stream; `SwapClose`/`Dispose`/`SwapDisposal`, `LockClose`, `TakeOut` a close.

**Slot** is the abstract specification of a connection that the objects made from
it are built upon: the engine connection is in the slot, lent, or gone.
`Connection!ImplementsSlot` (checked and proved) is what entitles the other
modules to treat a statement as one step; that they, and `Stream`, do with a connection
only what `Slot` allows is proved of each (`OnASlot`).

**Cancel** (`cancel.rs`, `began` and the classification in `conn.rs`). Each
sequentially consistent access is a step, so the store/load pairs of the listener
and of the statement interleave in every order. The engine is external: it may
end a statement whenever it likes, or never, and stops at a boundary where it
reads its word.

**Stream** (`stream.rs`) keeps the queue, the waiters of the condition variable
(`asleep`), `Live` and the thread. `Timeout` is the PAUSE of a parked send.
**BatchStream** is the promise: at most `Ahead` batches ahead, in order, started
once, the connection lent exactly while it runs.

**Iteration** (`zudb.cjs`) is the loop over a stream: `Pull` and `Settle` are the
generator's `await next()`, `Leave` a `return()` of it (a `break`, a `throw` in the
loop, a cancelled `ReadableStream`), which waits for a pending read, `RunFinally`
its `finally`, `ProgramCancels` a `cancel()` beside the loop. It adds to `Stream`
the threadpool: a call waits in `line` for one of `Threads`, and keeps it until it
is computed, asleep on the condition variable or not. One generator, since taking
two of a stream "gets two halves of one result" (`zudb.cjs:27`).

**Transaction** (`txn.rs`). `done` is the claim; `pc` goes through issued,
claimed, running, giving. The session has one transaction (external), which the
caller may also start and end with statements of their own (`Raw`).

**Prepared** (`prepared.rs`). `open` is read on the loop's thread and the id is
used on the pool; a close turns the word off and then gives the id back through
`with`, dropping what `with` answers (`"missed"`).

**Appender** (`append.rs`). A value in a column is the number of its row, which is
all that tells a torn row from a whole one. `Batch` reads a row across all columns
as the flush does. `Throw` is an element whose accessor throws, `Reenter` one
whose accessor calls back in.

**Frame** (`frame.rs`) is a module of operators: which bytes a layout points at.
A cell is named by its array and place, so equal sequences of cells are equal
columns whatever the bytes hold. `Hole`, `Words`, `Bits`, `Rebased`,
`Concatenated`, `Packed` follow the functions of those names; what arrow-js hands
over for a slice (values and offsets narrowed, bits whole) and how the engine
reads a layout are marked external. **Register** (`register.rs`) is its state
machine: described on the loop's thread, registered on the pool, written into by
the caller, unregistered, gone with the session.

**Temporal** (`temporal.rs`) is the civil calendar as the code has it (`Civil`,
`CivilDays`, the real one), the clock, and each kind of moment to a JavaScript
`Temporal` value and back. The clock is scaled by constants (`HourCount`, `Sixty`,
`Thousand`) and so are an INT64 and an i16 (`Word`, `Short`), so that the edges of
all of them are near one another and TLC reaches them. **Values** (`value.rs`) is
a value that holds no others on either side: what it binds as and how it is
spelled. A number is counted in halves; past `Exact` (2^53) whole doubles are 2
apart, then 4, up to the end of an INT64 (`Spacings`), and `AsNumber` rounds to the
nearest of them as `as f64` does. **Nesting** is the values that hold values
(`Nested`, `FromObject`, `ToJs`): a value with all that it holds is a function from
paths to nodes, `<<2, 1>>` being the first thing that the second one holds. The code
recurses and stops at the first error; what it makes of one node depends on the node
and on its depth alone, so here each node crosses on its own (`Nested` is given the
length of its path, `Spelled` the spelling), and a tree fails as a whole when one of
its nodes does. A value that holds itself is a tree that goes on past `Deep`.
**Buffers** (`buffer.rs`) is the columns of a load:
`Push`, `StartOf`, `Widened`, and `ArrayOf`, an array read a value at a time.
**Columns** (`columns.rs`) is the columns of a result (`UnitOf`, `Described`). **Load**
(`load.rs`, `connect` in `conn.rs`) is a state machine over the buffers: `CallLoad`
reads all that it is handed on the loop's thread, `CreateFile`, `BuildGraph`,
`StoreColumns` are the calls of the engine, each of which may fail,
`CallConnect`/`Open` looks at the path and then opens or creates. **Crossing** adds
the statements on that connection: `Exchange` sends a parameter and reads it back,
`ReadColumn` reads a result by column, that of a loaded table among them. **Meanings**
says, apart from the code, what a JavaScript value is and what an engine value is
(`Meaning`, `Standing`; `Means` is of a container too): the properties compare the two
at each path.

Abstracted everywhere: texts of messages, shapes of rows, parameters, options,
getters with no state. Assumed: napi turns a panic of a task into a rejection of
its promise. Outside `Iteration` the pool has a thread for each task.

`Connection`, `Cancel`, `Stream`, `Transaction`, `Prepared`, `Appender` and
`Register` have a `TypeOK`. Only `connection` spends a check on it; it is proved of
all seven.

## 3. Runs

| Run | Module | Bounds | Properties |
|---|---|---|---|
| `connection` | Connection | 1 statement, 2 streams, a close, a disposal, panics | one place, finality, the words, `Slot`, liveness |
| `cancel` | Cancel | 3 statements, 2 with a signal | no lost, no stale stop; asked statements let go |
| `stream` | Stream | queue of 2, 4 batches, 2 reads, 1 cancel, collection, panics | order, ends, `BatchStream` |
| `iteration` | Iteration | queue of 1, 3 batches, a loop, 2 cancels beside it, a pool of 1 thread | calls settle, connection let go, a loop left is free, the summary |
| `load` | Crossing | 2 loads, a connect; 138 parameters, 19 results, 57 tables; days of 64 ns, an INT64 of 3 days | kept as meant, comes back, columns, edges, nothing made of what was refused |
| `transaction` | Transaction | 2 handles, 2 ends, statements by hand | ended once, own, by its word; claims resolve |
| `prepared` | Prepared | 2 objects, 2 runs, 2 closes | pinned while open, given back |
| `appender` | Appender | 2 columns, 3 rows, 2 flushes, accessors that throw and reenter | rows, getters, no waiting, flushes settle |
| `register` | Register | every pair of slices of 3-row arrays, bytes of 2 bits, offsets that reach 4 | rows answered, memory held, holes named |
| `cancel_misdirected` | Cancel | as `cancel` | violated: `OnlyTheAskedAreInterrupted` |
| `stream_lost_end` | Stream | 3 batches | violated: `EndIsExplained` |
| `append_torn` | Appender | 2 columns, 3 rows, 1 flush | violated: `RowsAreWhole` |

Why the bounds are enough. Connection: one statement and two streams suffice for
two parties at every step. The safety part is proved for any number, as it is of
every run, so that the bounds are there for liveness and the mutants. Cancel:
a misdirected or stale stop needs the statement it was meant for and the next
one; the third has no signal. Stream: four batches fill the queue, the thread's
hand and one more; two reads and a cancel are the three waiters; a queue of one
or two is where "full" and "empty" are both reachable in a step. Transaction: two
handles make "another handle's transaction"; two ends are any race, since the
claim lets one through. Appender: two columns make half a row, and three rows let
a refused one sit between two kept; two flushes make one refused and one in
flight, or a failed one and its retry. Register: slices of three rows start on
and off a byte, at and after an empty string, and two of them exceed the reach of
an offset. Iteration: a queue of one and three batches leave one in the queue, one
in the thread's hand and one to make; with one thread in the pool every call waits
for every other that can hold it, and more threads only let more of them run.
Load: the inputs are chosen at both sides of every comparison in the code (2^53,
an INT64, an i16, `RowWord` for 2^32, the eras, midnight, whole minutes); `Beside`,
the run's constraint, keeps a parameter from crossing beside a load and a column
beside one under way, since neither reads what the other writes. A scaled clock keeps
the code's divisions, and the calendar, whose constants matter, is not scaled.

Where a `.cfg` says `CHECK_DEADLOCK FALSE` every actor may simply be done.
`connection` and `cancel` check deadlock: their `MC` modules add a stuttering step
for the state where everybody is done and nothing else.

### Fairness

Threads that can step do: weak fairness of each statement, stream, close, task.
A mutex holder always leaves, so weak fairness of `Lock` is enough with a bounded
number of contenders. What the code does *not* guarantee is not assumed: a
program need not read, cancel, close or fire a signal; a stream nobody reads may
stay parked (in `Connection` the scan is fair only once `alive` is off, which is
what the PAUSE of `Pipe::send` guarantees); the engine is fair in `Cancel` only in
reading its word. `Iteration` assumes the loop's thread, a free thread of the pool
and the statement's thread run, and that the engine makes a batch or ends; not that
a program reads on, leaves, cancels, closes or lets go. In
`Appender` a row the caller began ends: an accessor that never returns is the
caller's.

## 4. Proofs

`ConnectionProofs` proves, for any sets of statements, streams, closes and
disposals and wherever the engine panics (`Panics` is arbitrary), from
`ActorsAssumption` alone (the kinds of actor are disjoint, nobody is not one):

| Theorem | States |
|---|---|
| `InductiveInvariant` | `Spec => []IInv` |
| `TypeCorrect` | `TypeOK` |
| `ConnectionInOnePlace` | `OnePlace` |
| `CloseIsFinal` | `ClosedStaysClosed` |
| `TransactionWord` | `TxnWord` |
| `NothingAfterPanic` | `PanicIsTheLast` |
| `StatementKeepsConnection` | `NeverFromUnder`, an action property |
| `ConnectionImplementsSlot` | the refinement, `ImplementsSlot` |

The argument. None of the properties is inductive. `OnePlace` and
`NeverFromUnder` need to know who is inside the mutex: `LockHeld` says that the
actors in a critical place are exactly the holder, and `Kinds` that each kind of
actor has its own places. `RunsInSlot` carries that a statement that ran found
the connection in the slot; `PoisonedInSlot` and `PoisonedIsBroken` that a mutex
is poisoned with the connection in the slot and nobody inside, after which nobody
moves it, which is the one exception of `ClosedStaysClosed`; `ClosingIsOff` that
whoever empties the slot turned `alive` off first. `Published` says that `in_txn`
lags behind the session only between the end of a statement or scan and its
publication. Their conjunction `IInv` is kept by each action, one proof step
each; the refinement shows that each step is a step of `Slot` or a stutter.

The other modules prove safety properties of one component each (`StreamProofs` of
a stream and of the loop over it), for every value of its constants. The
assumptions are those the component's own module names: actors of different kinds
are different, and what stands for nobody is not one of them.

| Module | Theorem | States |
|---|---|---|
| all but `LoadProofs` | `TypeCorrect` | `TypeOK` |
| all from `StreamProofs` on | `OnASlot` | `SlotSpec`: the connection moves as `Slot` has it |
| `CancelProofs` | `NoStopIsLost` | `StopNotLost` |
| | `NoStopIsStale` | `NoStaleStop` |
| `StreamProofs` | `CancelFreesConnection` | `CancelMeansFree` |
| | `BatchesInOrder` | `InOrder` |
| | `EndIsComplete` | `EndMeansAll` |
| | `StreamImplementsBatchStream` | the refinement, `ImplementsBatchStream` |
| | `LoopIsAStream` | `FairIt => Spec`: a behaviour of `Iteration` is one of `Stream` |
| | `LoopLeavesFree` | `LeavingFrees` |
| | `SummaryIsKept` | `SummaryStands` |
| `TransactionProofs` | `AtMostOneEnd` | `EndedOnce` |
| | `EndsOwn` | `EndsOnlyItsOwn` |
| | `OnlyCommitKeeps` | `CommittedByItsWord` |
| `PreparedProofs` | `OpenStaysPinned` | `OpenIsPinned` |
| | `CloseGivesBack` | `ClosedGivesBack` |
| `AppenderProofs` | `LoopNeverWaits` | `NeverWaits` |
| | `GettersAreExact` | `GettersAgree` |
| | `RowsAreKept` | `NoRowLostOrTwice` |
| | `CloseWritesAll` | `ClosedHasWritten` |
| `RegisterProofs` | `DescriptionsAreFaithful` | what `Describe` makes of any column |
| | `DescriptionsHold` | `PointsOnlyAtHeld` |
| | `FramesAnswerTheRows` | `AnswersTheRows` |
| | `FirstHolesAreNamed` | `HolesAreNamed` |

*Types.* Where a type bounds a count it takes the invariants to prove: a stream reads only
batches that were made (`Mailed`), the outcome that a call stores was set by the thread
before it said so (`OutcomeKnown`), and the rows in an appender's buffers and history
were begun, the one in hand not among those kept (`Rowed`).

*Cancel.* Whoever is past the lock and has not let go owns the connection
(`Owning`), so nobody else puts the interrupt down under it; a watched statement is
`running` from before it reads `asked` until it has ended (`RunningUp`), which is
what makes one of the two halves see the other; and whatever is up while a
statement has begun landed on it (`LandedOnIt`).

*Stream.* Three invariants, one on top of the other. The first is about what an end
means: `start` is taken by one caller and nothing puts it back (`BegunOnce`);
`done`, the chunk that says how the statement ended and a cancel that resolved are
all of a statement that is over with nobody left to begin it (`EndIsQuiet`). The
second is about turns: what was read, what is queued and what the thread has in
hand are the numbers from 1 on, one after another (`NextUp`, `ReadInOrder`), and
nothing is behind the end (`EndIsLast`). The third counts: in a stream nobody gave
up, on a connection that is open, what was made was pushed but for the batch in
the thread's hands (`AllPushed`), and what was pushed was read or is queued
(`AllThere`). The refinement is a simulation under these: `StepSimulates` has one
step per action, and says which of them are steps of `BatchStream` and which
stutter. `OnASlot` maps the connection of a stream to a `Slot` (`LentOut`), so that a
stream is to the other modules what their `Lend` and `Return` say. No bound on the queue,
the batches or the callers; these proofs cite
nothing of `Iteration` or its assumption.

*The loop.* `LoopIsAStream` shows that each step of a loop, thread of the pool and
all, is a step of `Stream` or leaves it alone, so the invariants above carry over.
What is added follows one word, how the statement ended, on its way from the queue
to the call that takes it, to `ended`, to the generator or the cancel that is
answered, to `#summary`. `EndTaken` and `OneEnd` say where it may be in the stream
and that it is the same word everywhere; whoever has it has it of an empty queue
and of a statement that is over (`Emptied`), which stays so (`EmptiedStays`).
`LeftFree` and `Kept` are what the loop knows at each of its places, up to the two
properties.

*Transaction.* `done` is up for as long as a call claims and for ever behind one
that ended the transaction (`ClaimedIsDone`), so the claim that `GiveBack` gives
back is one under which nothing was ended. `EndsOnlyItsOwn` needs a reason for
every fate: a transaction that is over in a session that is still there was ended
by a call (`EndedBySomeone`), with the fate of its word (`EndedAsItSaid`); a call
that holds the claim and finds its transaction over can therefore blame only a
statement by hand.

*Prepared.* An id that is pinned under a word that is down has a close on its way
to it, or one that missed it (`PinnedHasClose`).

*Appender.* The mutex is held by the row of the loop's thread or by the one flush
that has the claim, and the claim outlives the mutex. On that rests a count and on
the count a comparison of values. `Buffers`: each column has a value for each row
the word counts, and one more where the row in hand has been. `Counted`: the words,
the file and the history count the same rows, but for a flush that has written and
not yet emptied, or emptied and not yet counted. `Matched`: until an accessor
throws, the value at each place of each column is of the row that was kept there,
which is what `NoRowLostOrTwice` says between calls. `Shut` carries that an
appender closes only with nothing left in its buffers.

*Frames.* Most of it is one theorem about operators, `DescriptionsAreFaithful`: for
every column (`IsVector`: any number of chunks, each any slice of an array of any
length, cut anywhere, in any kind of element, with any holes) `Describe` refuses, or
gives a layout through which the engine reads the caller's rows in order, lent only
where the column is one run of one array, and holding all that it points at. It is
built up in layers: sequences end to end (`Flattened`, `Placed`: what comes where in
a concatenation), rows and chunks (`RowsAddUp`, `RowInChunk`, `ChunksJoined`),
layouts (`ReadOneByOne`, `ReadByCuts`), then each kind of column, lent and copied.
Strings are the long part: offsets of every chunk rebased so that they go on where
those of the chunk before end, over characters put together. `FirstHole` is about
the row a refusal names. Folds over sequences are reasoned about by induction over
the naturals. The library states that with an operator as a parameter, which no
prover here instantiates; but it is needed only for sets of numbers, and for those
`Least` and `Induction` derive it from the well-foundedness of finite sets. The
state machine on top is short: every description, in a call or in the session, is
that of the caller's column (`Readings`).

The assumptions of `Frame` and `Register` beyond the sizes: the cuts of a string
array ascend, as `strings` (`frame.rs:877`) takes for granted when it subtracts
them; the caller's columns are columns (`IsVector`); there is a name to register.

`LoadProofs` starts with the functions of `temporal.rs`. The calendar is proved for
every integer, with no assumption, and the clock for any sizes of its units and of a
word (`TemporalAssumption`: they are positive):

| Theorem | States |
|---|---|
| `CivilComesBack` | `CivilDays(Civil(d)) = d` for every day `d` |
| `DateComesBack` | `Civil(CivilDays(x)) = x` for every date `x` of the calendar |
| `CivilIsDate` | `Civil(d)` is a date: months of their length, leap days only in leap years |
| `EpochIs1970` | 1970-01-01 is day 0 |
| `DaysCountUp` | the day after a date is one more |
| `MomentsComeBack` | a moment spelled as a `Temporal` value binds again as itself, and `Temporal` throws only at what it does not have |

Together they determine both functions: `civil_days` is the one that counts the
dates of the Gregorian calendar one by one from 1970-01-01, and `civil` is its
inverse. The argument: each floor division is named and given its two bounds (a
lemma per divisor), an era is a division that rounds down for a day before it too,
and what is left is linear: `YearStarts` and `YearEnds` show that the formula for
the year of an era is right on each of its 146097 days, `YearsInOrder` and
`OnePlaceInTheEras` that a day has one era, year and day of year.
`MomentsComeBack` is about every kind of moment, dates, times, datetimes on either
side of 1970, zoned ones and both durations, with the two exceptions that
`LosesItsWay` names. A count of nanoseconds is cut into the fields of a clock by
divisions of divisions: `DividesTwice` and `QuotTwice` put them together, and
`ClockComesBack` adds the fields up again. `ComesBackItself` checks the same with the
conversions around it, and values that hold others.

It goes on to the bulk load, for any calls of load() with any tables:

| Theorem | States |
|---|---|
| `FilesInvariant` | `Spec => []IInv` |
| `RefusalsMakeNothing` | `RefusedMakesNothing` |
| `EdgesHold` | `EdgesNameRows` |
| `ColumnsHold` | `LoadedAsWritten` |

The state machine is the short part: one call at most makes a file (`OneWriter`),
the file holds as much of that call's plan as the call is far (`Makes`), and a plan is
the one of what the call was told (`IsPlanned`). The rest is about that plan.
`ColumnsHold` goes from a value to a buffer to an array. One value: what a buffer
takes of it counts what it means (`TakenKept`), by `CivilDaysCount` for a date, whose
other side counts days year by year, and `ClockCounts` for a time. One more value in a
buffer: `PushFits`, or `WideFits` where whole numbers turn into floats under the
values that are there, which is where a sign or the low bits of a large one may go
(`Rounds`). An array: by induction on how many of its values were read (`ArrayFits`).
`EdgesHold` needs that a row that passed its check as a double is the row that was
written: an integer beyond 2^53 may round, but not to a row there is (`DoubleOf`).

And on to the values that cross, for any parameters and any columns that a statement
answers, nested in any way, and any spelling:

| Theorem | States |
|---|---|
| `CrossingLoads` | `SpecCrossing => Spec`: a behaviour of `Crossing` is one of `Load` |
| `TablesStay` | so the three properties of `Load` hold of `Crossing` |
| `CrossingInvariant` | `SpecCrossing => []CrossingInv` |
| `ParametersKept` | `KeptAsMeant` |
| `AnswersComeBack` | `ComesBackItself` |
| `ColumnsComeBack` | `ColumnsReadBack` |

Because a node crosses on its own, a statement about every part of a value is one about
a node under every path, and no induction over trees is needed. There are four about a
node: what a parameter binds as is a value the engine can hold (`NodeHeld`) and what it
means (`NodeMeant`, on `CivilDaysCount` and `ClockCounts` for the moments), a value the
engine holds is spelled or refused (`NodeSpelled`: a number is refused where it could not
be told from its neighbours), and what was spelled binds again as the same
(`NodeBack`, on `MomentsComeBack` for the Temporal ones and on `DoubleOf` for an integer
that comes over as a number). The depth is kept, so nothing that bound on the way in is
refused as too deep on the way back. `ColumnIsRead` is about a column: the sink gives it
one type or boxes it (`SunkParts`), and from type, unit, zone and validity a reader finds
the kind again (`KindFound`), the row that has no value included.

`CrossingInv` carries what makes a state one of those: `LastMade` (the last thing that
crossed is a parameter with its answer, or a column of rows, in a spelling there is),
`SpellingKnown` (the spelling of an open connection is one `connect()` was asked for)
and `ColumnsTyped`, the one that takes steps to establish: every column of the file is
of cells of its kind, which follows the same path as `ColumnsHold`, value, buffer, array,
and is what lets `ColumnsReadBack` speak of a loaded table.

The assumptions, besides positive sizes: `Exact` is even and less than a `Word` (2^53 and
2^63), and `Spacings` are 1, 2, 4 and so on until an INT64 is reached
(`ValuesAssumption`, true of doubles with 2^0 to 2^10); `RowWord` is at most `Exact`
(2^32 and 2^53); the options a program hands over are JavaScript values (`IsOptions`): a
number is a number, a `Temporal` date is a date of the calendar and its time a time of
day, and an object of a value class holds a count that fits an INT64, as its constructor
makes it; parameters are trees of such values and results trees of values of the engine
(`CrossingAssumption`: an INT64 in an INT64, an offset in an i16).

Only model-checked: liveness and fairness (`EveryCallAnswered`, `CloseReleases`,
`AskedStatementsLetGo`, `EveryCallSettles`, `StreamLetsGo`, `ClaimResolves`,
`FlushesSettle`), out of the prover's reach. Every invariant and every action property
of a passing run is a theorem. `EndIsExplained`, `RowsAreWhole` and
`OnlyTheAskedAreInterrupted` do not hold (section 5).

## 5. What the code does not keep

Three runs end in a counterexample (the `findings` of `PROJECT.json` quote the
lines): a listener that read `running` just before its statement ended interrupts
the next one (`cancel.rs:47`); a stream cut short by a close with its queue full
reads as one that ended well (`stream.rs:135`); a row whose accessor throws leaves
half of itself in the buffers (`append.rs:373`).

The following disagreements between comments and code came up as well. They have
no run; the properties named make the exception explicit.

- After `close()` inside a transaction `inTransaction` stays true (`conn.rs:1110`;
  `conn.rs:125` calls the word exact). `TxnWord` is about open connections.
- A panic on a stream's thread poisons nothing and the connection goes back in
  the slot (`stream.rs:246`; `conn.rs:1192` says a panicked thread's connection is
  not carried on with). `PanicIsTheLast` is about panics in statements.
- After such a panic nothing marks the queue as over, and reads and cancels wait
  for ever (`stream.rs:661` against `stream.rs:614`). `EveryCallSettles` is
  checked without panics.
- A cancel moves the end from the queue to `ended` under two locks, and a read
  behind it can miss the failure it is owed (`stream.rs:616` against `:623`).
- The listener of a stream that failed stays on its signal (`stream.rs:507`
  against `:502`).
- A cancel whose cursor is collected resolves before the connection is free
  (`stream.rs:652` against `:589`). `CancelMeansFree` says "while held".
- A disposal of a handle whose transaction was ended by hand rolls back whatever
  the session is in (`txn.rs:226` against `:103`). `EndsOnlyItsOwn` excepts it.
- A disposal that meets the claim of a commit in flight answers at once; when the
  commit is then refused the transaction stays open (`txn.rs:226` against `:17`).
- A close between a disposal's look at `alive` and its statement makes it reject
  (`txn.rs:241` against `test/transaction.test.mjs:219`).
- An accessor that appends or discards on its own appender meets a mutex its own
  thread holds (`append.rs:373` against `:312`). `NeverWaits` is about flushes.
- A boolean column sliced inside a byte is copied although it is one Arrow chunk,
  so it is not a view of its array (`frame.rs:847`; `register.rs:16` names two
  exceptions and this is a third). `AnswersTheRows` counts it as a copy.
- A prepared statement closed while a stream is reading stays pinned in the
  session: the close drops the refusal of `with` after `open` was turned off
  (`prepared.rs:344`, whose comment at `:342` says the id outlives no stream).
  `ClosedGivesBack` is about a close that found the connection.
- Leaving a loop does not wait for the connection when a `cancel()` of the
  program's own is pending: `#ended` is set before that one resolves and `finally`
  does nothing (`zudb.cjs:71`, `:107`; `README.md:125` of the repository says
  leaving waits). `LeavingFrees` excepts it.
- A `ReadableStream` cancelled before its first pull is the `return()` of a
  generator that never ran: no `finally`, so the cursor is not cancelled and the
  listener of its signal stays on (`zudb.cjs:100`; `:84` says a cancel stops the
  statement). It holds no connection yet.
- Midnight of a datetime's day is checked to fit 64 bits before the time of day is
  added, so the datetimes of 1677-09-21 that do fit are refused with a message
  that says they are held (`temporal.rs:275` against `:280`). `LosesItsWay`.
- A duration is multiplied out in 64 bits that wrap; when the product wraps to
  nothing, months beside it are taken as a duration of months (`temporal.rs:331`).
  `DurationWraps`. A `ZuDuration` of no months comes back as one of no seconds.
- The constructors of the value classes keep the low 64 bits of a bigint
  (`value.rs:541`) and binding one the low 16 bits of its offset (`value.rs:1152`),
  with no error. `OffsetWraps`; the models hand a class only counts that fit.
- An object of this client's result classes, or a `Date`, binds as the record `{}`,
  the outcome the comment calls "the one outcome worse than a refusal"
  (`value.rs:1092`). `Hollow`.
- Widening rounds the bigints before a fraction that lie past 2^53, and a column of
  whole numbers drops the sign of a zero (`buffer.rs:173`). `Rounds`. `[1n, 2.5]`
  widens and `[2.5, 1n]` is refused (`buffer.rs:161` says "however it was written").
- A count of rows written as a bigint keeps its low 64 bits, and an edge of a table
  with more than 2^32 rows its low 32 (`load.rs:268`, `:476`). Parallel edges are
  written once. `EdgesNameRows` says so.
- A load whose step fails after the file was created leaves it, and the same call
  made again is refused because the path is there (`load.rs:106`). A connect looks
  whether the path exists and opens or creates later: a file made in between makes
  it fail (`conn.rs:427`). `RefusedMakesNothing` is about refusals.

## 6. Not modelled

`arrow.rs`, `plan.rs`: statements through `with`, which `Connection` covers, with
results whose encoding is the engine's or whose shape is data. `error.rs`: wording.
`lib.rs`: exports. `binding.cjs`: generated. `registered()`, getters, opening an
appender: they read and change nothing. What a table may be called, and the texts
of refusals. Statements of other connections on the pool of `Iteration`: they take
a thread for as long as the engine needs and wait for no stream. The order in which
the pool runs two tasks of one connection is left open everywhere, as it is in the
program.

## 7. Plan

What is left, in this order:

1. *Register*: the frames of several columns, and refusals of one after another.
2. *Results*: a statement answered as rows, as columns and as Arrow, of which only the
   columns are modelled.
3. *Iteration* with several streams on one pool, for how they delay one another.
