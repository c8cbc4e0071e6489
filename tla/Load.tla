-------------------------------- MODULE Load --------------------------------
(***************************************************************************)
(* A database from the columns of a program: the bulk load that writes it  *)
(* (src/load.rs) and the connect that opens it (src/conn.rs).              *)
(*                                                                         *)
(* There is one path.  A load reads all it is handed on the loop's thread  *)
(* and writes on the pool in three calls of the engine, any of which may   *)
(* fail; a connect looks whether the path is there before it opens it.     *)
(* What the engine itself does is external: a file is created only where   *)
(* none is, and it holds what it was handed.                               *)
(***************************************************************************)
EXTENDS Buffers, Meanings, SequencesExt

CONSTANTS
  Calls,     \* the calls of load(), each made once
  Options,   \* what each of them may be handed
  Connects,  \* what connect() may be handed
  RowWord    \* a row of an edge is kept modulo this, 2^32

\* What a program writes: the values of a column, an edge, a column, an edge
\* list, and the options they come in.
IsSequence(s) == s \in Seq(ToSet(s))

IsValue(v) ==
  CASE v[1] \in {"number", "bigint"} -> v[2] \in Int /\ v = <<v[1], v[2]>>
    [] v[1] \in Numbers \ {"number"} -> v = <<v[1]>>
    [] v[1] \in {"boolean", "string"} -> v = <<v[1], v[2]>>
    [] v[1] = "ZuDate" -> v[2] \in Int
    [] v[1] \in {"ZuTime", "ZuTimestamp"} ->
         v[2] \in Int64 /\ v[3] \in Seq(Int) /\ Len(v[3]) <= 1
    [] v[1] = "ZuDuration" -> v[2] \in Int64 /\ v[3] \in {"yearMonth", "dayTime"}
    [] v[1] = "PlainDate" -> v[3] = "iso8601" => IsDate(v[2])
    [] v[1] = "PlainTime" -> IsClock(v[2])
    [] v[1] = "PlainDateTime" ->
         v[4] = "iso8601" => IsDate(v[2]) /\ IsClock(v[3])
    [] v[1] = "ZonedDateTime" -> v[2] \in Int /\ v[3] \in Int
    [] v[1] = "Instant" -> v[2] \in Int
    [] v[1] = "Duration" -> v[2] \in [1 .. 10 -> Int]
    [] OTHER -> TRUE

AreValues(values) ==
  IsSequence(values) /\ \A i \in DOMAIN values : IsValue(values[i])

IsEdge(v) == v[1] = "array" => AreValues(v[2])

IsEdgeList(v) ==
  /\ v[1] = "array" => IsSequence(v[2]) /\ \A at \in DOMAIN v[2] : IsEdge(v[2][at])
  /\ v[1] \in {"Int32Array", "Uint32Array"} => v[2] \in Seq(Int)

IsColumn(v) ==
  /\ v[1] \in {"array", "Float64Array"} => AreValues(v[2])
  /\ v[1] = "Float64Array" => \A i \in DOMAIN v[2] : v[2][i][1] \in Numbers
  /\ v[1] \in TypedArrays \ {"Float64Array", "Float16Array"} => v[2] \in Seq(Int)

IsOptions(options) ==
  /\ IsSequence(options.columns)
  /\ \A i \in DOMAIN options.columns : IsColumn(options.columns[i])
  /\ IsValue(options.rows)
  /\ IsEdgeList(options.edges)

ASSUME LoadAssumption ==
  /\ RowWord \in 1 .. Exact
  /\ \A c \in Calls : \A options \in Options[c] : IsOptions(options)

VARIABLES
  file,    \* what is at the path
  calls,   \* each load: how far it is, and what it was told
  conn     \* the connect and the connection

vars == <<file, calls, conn>>

Absent == [rows |-> 0, edges |-> {}, columns |-> <<>>, stage |-> "absent"]

-----------------------------------------------------------------------------
(***************************************************************************)
(* What load() makes of what it is handed.                                 *)
(***************************************************************************)
\* A count of rows, as a double: the low bits of a bigint.
Counted(v) ==
  LET count == IF v[1] = "bigint" THEN AsNumber(Wrapped(v[2])) ELSE v
  IN  IF count[1] \in Numbers /\ IsWhole(count) /\ WholeOf(count) >= 0
        THEN Some(WholeOf(count)) ELSE None

\* The number of rows: None where there is none to be had.
Agreed(count, columns) ==
  IF columns = <<>> \/ count = Some(Length(columns[1])) THEN count ELSE None

RowsOf(rows, columns) ==
  CASE rows[1] \in {"undefined", "null"} ->
         IF columns = <<>> THEN None ELSE Some(Length(columns[1]))
    [] OTHER -> Agreed(Counted(rows), columns)

Within(end, rows) == IF end < 0 \/ end >= rows THEN None ELSE Some(end % RowWord)

\* One end of an edge.  A bigint goes by way of a double.
EndOf(v, rows) ==
  CASE v[1] = "bigint" /\ v[2] \in Int64 -> Within(WholeOf(AsNumber(v[2])), rows)
    [] v[1] \in Numbers /\ IsWhole(v) -> Within(WholeOf(v), rows)
    [] OTHER -> None

Ends(from, to) == IF None \in {from, to} THEN None ELSE Some(<<from[1], to[1]>>)

Pair(v, rows) ==
  IF v[1] # "array" \/ Len(v[2]) # 2 THEN None
  ELSE Ends(EndOf(v[2][1], rows), EndOf(v[2][2], rows))

\* Mutant: every two neighbours are an edge.
FlatNeighbours(flat, at, rows) ==
  Ends(Within(flat[at], rows), Within(flat[at + 1], rows))

FlatPair(flat, at, rows) ==
  Ends(Within(flat[2 * at - 1], rows), Within(flat[2 * at], rows))

\* The edges, in the order they were written: <<None>> for one refused.
PairsOf(v, rows) ==
  CASE v[1] \in {"undefined", "null"} -> <<>>
    [] v[1] \in {"Int32Array", "Uint32Array"} /\ Len(v[2]) % 2 = 0 ->
         [at \in 1 .. Len(v[2]) \div 2 |-> FlatPair(v[2], at, rows)]
    [] v[1] = "array" -> [at \in DOMAIN v[2] |-> Pair(v[2][at], rows)]
    [] OTHER -> <<None>>

\* The plan of a call, columns first, then the rows and the edges: None is a
\* refusal.
WithPairs(columns, rows, pairs) ==
  IF None \in ToSet(pairs) THEN None
  ELSE Some([rows |-> rows, columns |-> columns,
             pairs |-> {pair[1] : pair \in ToSet(pairs)}])

WithRows(options, columns, rows) ==
  IF rows = None THEN None
  ELSE WithPairs(columns, rows[1], PairsOf(options.edges, rows[1]))

WithColumns(options, columns) ==
  IF \/ Refused \in ToSet(columns)
     \/ \E i \in DOMAIN columns : Length(columns[i]) # Length(columns[1])
  THEN None
  ELSE WithRows(options, columns, RowsOf(options.rows, columns))

PlanOf(options) ==
  IF ~options.named THEN None
  ELSE WithColumns(options,
         [i \in DOMAIN options.columns |-> ColumnOf(options.columns[i])])

-----------------------------------------------------------------------------
Init ==
  /\ file = Absent
  /\ calls = [c \in Calls |-> [stage |-> "idle"]]
  /\ conn = [stage |-> "none"]

At(c, stage) == calls[c].stage = stage

Moves(c, stage) == calls' = [calls EXCEPT ![c].stage = stage]

\* load(path, options): read and owned, or refused before any of it runs.
CallLoad(c, options) ==
  /\ At(c, "idle")
  /\ \E plan \in {PlanOf(options)} :
       calls' = [calls EXCEPT ![c] =
         IF plan = None THEN [stage |-> "refused"]
         ELSE [stage |-> "queued", told |-> options, plan |-> plan[1]]]
  /\ UNCHANGED <<file, conn>>

\* Zu1File::create, which takes no path that is there.
CreateFile(c) ==
  /\ At(c, "queued")
  /\ \/ /\ file = Absent
        /\ file' = [Absent EXCEPT !.stage = "created"]
        /\ Moves(c, "created")
     \/ /\ file' = file
        /\ Moves(c, "failed")
  /\ UNCHANGED conn

\* bulk_load_keyed, over the edges sorted and each of them once.
BuildGraph(c) ==
  /\ At(c, "created")
  /\ LET plan == calls[c].plan
     IN  \/ /\ file' = [file EXCEPT !.rows = plan.rows, !.edges = plan.pairs,
                                    !.stage = "built"]
            /\ Moves(c, IF plan.columns = <<>> THEN "done" ELSE "built")
         \/ /\ file' = file
            /\ Moves(c, "failed")
  /\ UNCHANGED conn

\* store_props: every column, or an error.
StoreColumns(c) ==
  /\ At(c, "built")
  /\ \/ /\ file' = [file EXCEPT !.columns = calls[c].plan.columns]
        /\ Moves(c, "done")
     \/ /\ file' = file
        /\ Moves(c, "failed")
  /\ UNCHANGED conn

-----------------------------------------------------------------------------
\* A mode there is, and Temporal only where the runtime has it, which is looked
\* up as the call is made.
SpellingIs(options, present) ==
  /\ options.ints \in {"bigint", "number"}
  /\ options.temporal => present

Opening(options) ==
  CASE options.path = "memory" -> "memory"
    [] options.readOnly \/ file # Absent -> "opening"
    [] OTHER -> "creating"

\* Mutant: the options are looked at once the database is open.
ConnectsFirst(options, present) ==
  /\ conn.stage = "none"
  /\ conn' = [stage |-> IF SpellingIs(options, present) THEN Opening(options)
                        ELSE "refused",
              spelling |-> [ints |-> options.ints, temporal |-> options.temporal]]
  /\ file' = IF file = Absent THEN [Absent EXCEPT !.stage = "empty"] ELSE file
  /\ UNCHANGED calls

\* connect(path, options): refused before the path is looked at.
CallConnect(options, present) ==
  /\ conn.stage = "none"
  /\ conn' = IF options.path = "none" \/ ~SpellingIs(options, present)
               THEN [stage |-> "refused"]
               ELSE [stage    |-> Opening(options),
                     spelling |-> [ints     |-> options.ints,
                                   temporal |-> options.temporal]]
  /\ UNCHANGED <<file, calls>>

Opened(stage) == conn' = [conn EXCEPT !.stage = stage]

\* Database::open_with and Database::create_with, by what was seen before.
Open ==
  /\ \/ /\ conn.stage = "memory"
        /\ Opened("in memory")
        /\ file' = file
     \/ /\ conn.stage = "opening" /\ file # Absent
        /\ Opened("on file")
        /\ file' = file
     \/ /\ conn.stage = "creating" /\ file = Absent
        /\ Opened("on file")
        /\ file' = [Absent EXCEPT !.stage = "empty"]
     \/ /\ conn.stage \in {"memory", "opening", "creating"}
        /\ Opened("failed")
        /\ file' = file
  /\ UNCHANGED calls

-----------------------------------------------------------------------------
Next ==
  \/ \E c \in Calls :
       \/ \E options \in Options[c] : CallLoad(c, options)
       \/ CreateFile(c) \/ BuildGraph(c) \/ StoreColumns(c)
  \/ \E options \in Connects, present \in BOOLEAN : CallConnect(options, present)
  \/ Open

Spec == Init /\ [][Next]_vars

-----------------------------------------------------------------------------
IsDone(c) == At(c, "done")

\* The values a program wrote as a column, whichever way.
Wrote(v) ==
  IF v[1] \in {"array", "Float64Array"} THEN v[2]
  ELSE [i \in DOMAIN v[2] |-> <<"bigint", v[2][i]>>]

\* A zero without its sign, in a column of whole numbers; and one of them past
\* 2^53 in a column that met a fraction after it.
Rounds(column, row, meant) ==
  \/ column[1] = "int" /\ meant = <<"negativeZero">>
  \/ /\ column[1] = "float"
     /\ \E later \in row + 1 .. Length(column) : ~IsWhole(column[2][later])
     /\ \/ meant = <<"negativeZero">>
        \/ meant[1] = "number" /\ meant[2] \div 2 \notin -Exact .. Exact

\* A value is in a row of a column as what it means, but for these and for a
\* duration that wraps.
HoldsInRow(column, row, v) ==
  \/ Standing(Cell(column, row)) = Meaning(v)
  \/ Rounds(column, row, Meaning(v))
  \/ DurationWraps(v)

\* A load that answers that it wrote them has every column in the file, as
\* long as it was and with the values it was written with
\* (src/load.rs run, column; src/buffer.rs widening_push).
LoadedAsWritten ==
  \A c \in Calls : IsDone(c) =>
    /\ Len(file.columns) = Len(calls[c].told.columns)
    /\ \A i \in DOMAIN file.columns :
         LET wrote == Wrote(calls[c].told.columns[i])
         IN  /\ Length(file.columns[i]) = Len(wrote) /\ file.rows = Len(wrote)
             /\ \A row \in DOMAIN wrote :
                  HoldsInRow(file.columns[i], row, wrote[row])

\* The pairs of rows a program wrote.
Row(v) == IF v[1] = "bigint" THEN v[2] ELSE WholeOf(v)

Joined(v) ==
  CASE v[1] = "array" ->
         {<<Row(v[2][at][2][1]), Row(v[2][at][2][2])>> : at \in DOMAIN v[2]}
    [] v[1] \in {"Int32Array", "Uint32Array"} ->
         {<<v[2][2 * at - 1], v[2][2 * at]>> : at \in 1 .. Len(v[2]) \div 2}
    [] OTHER -> {}

\* The edges in the file of a load that is done join the rows they were written
\* with, each once, unless the table has more rows than 32 bits count
\* (src/load.rs pairs).
EdgesNameRows ==
  \A c \in Calls : IsDone(c) /\ file.rows <= RowWord =>
    /\ file.edges = Joined(calls[c].told.edges)
    /\ file.edges \subseteq (0 .. file.rows - 1) \X (0 .. file.rows - 1)

\* While every call was refused, or is still to run, nothing is at the path: a
\* mistake of the program leaves no file that makes its next call fail
\* (src/load.rs plan, src/conn.rs compute).
RefusedMakesNothing ==
  /\ \A c \in Calls : calls[c].stage \in {"idle", "queued", "refused"}
  /\ conn.stage \in {"none", "refused"}
  => file = Absent
=============================================================================
