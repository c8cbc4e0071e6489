------------------------------ MODULE Crossing -------------------------------
(***************************************************************************)
(* The values, columns and parameters that cross the boundary on a         *)
(* connection (src/value.rs, src/columns.rs): what a program binds, what a *)
(* statement answers, and the columns of a table that was loaded.          *)
(*                                                                         *)
(* It is Load with the statements on the connection that it opens.         *)
(***************************************************************************)
EXTENDS Load, Columns

CONSTANTS
  Parameters,  \* the JavaScript values a program binds
  Results      \* the columns of engine values a statement answers

\* An object of a class, whose fields are no fields of its own.
Hollow(v) == v[1] \in {"ZuNode", "Date"}

\* A node of a parameter: what a value is, and how many a container holds.
IsNode(v) ==
  /\ \/ v[1] \in {"undefined", "boolean", "string", "symbol", "function", "bigint",
                  "ZuDecimal", "Uint8Array", "Int32Array"} \union Numbers \union Classes
     \/ v = <<"null">> \/ IsTemporal(v) \/ Hollow(v)
     \/ v[1] \in {"array", "object"} /\ v[2] \in Nat
  /\ IsValue(v)

\* A node of an engine's value.
IsHeld(h) ==
  CASE h[1] = "null" -> h = <<"null">>
    [] h[1] \in {"boolean", "string", "bytes"} -> h = <<h[1], h[2]>>
    [] h[1] = "float" ->
         h = <<"float", h[2]>> /\ IsValue(h[2]) /\ h[2][1] \in Numbers
    [] h[1] \in {"decimal", "node"} -> h = <<h[1], h[2], h[3]>>
    [] h[1] \in {"date", "localTime"} -> h = <<h[1], h[2]>> /\ h[2] \in Int
    [] h[1] \in {"int", "localDatetime", "yearMonth", "dayTime"} ->
         h = <<h[1], h[2]>> /\ h[2] \in Int64
    [] h[1] \in {"zonedTime", "zonedDatetime"} ->
         h = <<h[1], h[2], h[3]>> /\ h[2] \in Int64 /\ h[3] \in Int16
    [] h[1] \in {"list", "record"} -> h = <<h[1], h[2]>> /\ h[2] \in Nat
    [] OTHER -> FALSE

AreHeld(values) ==
  /\ IsSequence(values)
  /\ \A i \in DOMAIN values :
       IsTree(values[i]) /\ \A path \in DOMAIN values[i] : IsHeld(values[i][path])

ASSUME CrossingAssumption ==
  /\ \A given \in Parameters :
       IsTree(given) /\ \A path \in DOMAIN given : IsNode(given[path])
  /\ \A values \in Results : AreHeld(values)

VARIABLE last  \* the last value, or column, that crossed

varsCrossing == <<vars, last>>

Quiet == <<"nothing">>

InitCrossing == Init /\ last = Quiet

-----------------------------------------------------------------------------
\* One value or one column crosses in a behaviour: what does leaves nothing
\* behind on either side.
IsOpen == conn.stage \in {"in memory", "on file"}

\* A parameter, and the value it bound as answered by the statement, which does
\* not run with one that was refused.
Answer(held, spelling) ==
  IF Fails(held) THEN Leaf(Refused) ELSE ToJs(held, spelling)

Exchange(given) ==
  /\ IsOpen /\ last = Quiet
  /\ \E held \in {FromJs(given)} :
       last' = <<"value", given, held, Answer(held, conn.spelling)>>
  /\ UNCHANGED vars

\* A result read down a column of it.
Read(values, asValues, spelling) ==
  IF OfSeveralTypes(values) THEN Refused
  ELSE Described(Sunk(values, asValues), spelling)

ReadColumn(values) ==
  /\ IsOpen /\ last = Quiet
  /\ \E asValues \in BOOLEAN :
       last' = <<"column", values, Read(values, asValues, conn.spelling)>>
  /\ UNCHANGED vars

\* The rows of the table are such a result.
RowsIn(column) == [row \in 1 .. Length(column) |-> Leaf(Cell(column, row))]

Stored ==
  {RowsIn(file.columns[i]) : i \in {i \in DOMAIN file.columns : conn.stage = "on file"}}

NextCrossing ==
  \/ Next /\ UNCHANGED last
  \/ \E given \in Parameters : Exchange(given)
  \/ \E values \in Results : ReadColumn(values)
  \/ \E values \in Stored : ReadColumn(values)

SpecCrossing == InitCrossing /\ [][NextCrossing]_varsCrossing

-----------------------------------------------------------------------------
\* What a node of a JavaScript value means, the containers included.
Means(v) ==
  CASE v[1] = "array" -> <<"list", v[2]>>
    [] v[1] = "object" -> <<"record", v[2]>>
    [] OTHER -> Meaning(v)

-----------------------------------------------------------------------------
(***************************************************************************)
(* What binds as something else, without a word, and what comes back.      *)
(***************************************************************************)
\* An offset past the 16 bits the engine keeps of it.
OffsetWraps(v) ==
  v[1] \in {"ZuTime", "ZuTimestamp"} /\ v[3] # None /\ v[3][1] \notin Int16

\* A parameter, and every value in it, is bound as what it means or the whole is
\* refused, but for an offset or a duration that wraps and an object that is
\* hollow: no number is rounded, no offset or calendar or sign dropped
\* (src/value.rs nested, from_object; src/temporal.rs from_temporal).
KeptAsMeant ==
  last[1] = "value" /\ ~Fails(last[3]) =>
    \A path \in DOMAIN last[2] :
      LET given == last[2][path]
      IN  \/ Standing(last[3][path]) = Means(given)
          \/ OffsetWraps(given) \/ DurationWraps(given) \/ Hollow(given)

\* An integer that a number cannot tell from its neighbours.
PastNumbers(h) == h[1] = "int" /\ h[2] \notin -Exact + 1 .. Exact - 1

\* What a statement answers binds again as the very value it answered, in each
\* spelling of the connection, and so does all that it holds; the spelling
\* refuses nothing but an integer past what numbers hold, and Temporal throws
\* at nothing that it holds
\* (src/value.rs to_js, src/temporal.rs to_temporal, from_temporal).
ComesBackItself ==
  last[1] = "value" /\ ~Fails(last[3]) =>
    \A path \in DOMAIN last[3] :
      LET held == last[3][path]
      IN  CASE last[4][path] = Refused -> PastNumbers(held)
            [] last[4][path] = Thrown -> HasNoTemporal(held)
            [] OTHER -> FromJs(last[4])[path] = held \/ LosesItsWay(held)

\* The kind that the type, the unit and the zone of a column tell.
KindRead(type, unit, zone) ==
  CASE type = "bool" -> "boolean"
    [] type = "time" -> IF zone = None THEN "localTime" ELSE "zonedTime"
    [] type = "datetime" -> IF zone = None THEN "localDatetime" ELSE "zonedDatetime"
    [] type = "duration" -> IF unit = Some("months") THEN "yearMonth" ELSE "dayTime"
    [] OTHER -> type

\* What the reader of a column makes of a row of it.
ReadRow(read, row) ==
  IF read.type = "null" \/ (read.validity # None /\ ~read.validity[row])
    THEN Leaf(<<"null">>)
  ELSE IF read.type = "value"
    THEN [path \in DOMAIN read.items[row] |-> Means(read.items[row][path])]
  ELSE Leaf(Standing(<<KindRead(read.type, read.unit, read.zone),
                       read.values[row]>> \o read.zone))

\* A program that reads a column by its type, unit, zone and validity has the
\* values the statement answered, a column of nulls and a temporal one that
\* came over as values included; only no months, spelled as Temporal, are no
\* seconds (src/columns.rs taken, described).
ColumnsReadBack ==
  last[1] = "column" /\ last[3][1] = "read" =>
    \A row \in DOMAIN last[2] :
      LET held == last[2][row]
          read == ReadRow(last[3][2], row)
      IN  /\ DOMAIN read = DOMAIN held
          /\ \A path \in DOMAIN held :
               read[path] = Standing(held[path]) \/ held[path] = <<"yearMonth", 0>>
=============================================================================
