------------------------------- MODULE Columns ------------------------------
(***************************************************************************)
(* A result, read down a column (src/columns.rs).                          *)
(***************************************************************************)
EXTENDS Nesting

\* What the engine's sink makes of the values of a column: cells of one kind
\* with a bit for each row, or the values themselves.  A temporal column may
\* come either way, a column of several kinds not at all.
Zone(h) == IF h[1] \in {"zonedTime", "zonedDatetime"} THEN Some(h[3]) ELSE None

Plain == {"boolean", "int", "float", "string", "bytes"}

\* The values are trees, and this is about the value itself.
Root(tree) == tree[<<>>]

Valid(values) == {i \in DOMAIN values : Root(values[i]) # <<"null">>}

TypesOf(values) ==
  {<<Root(values[i])[1], Zone(Root(values[i]))>> : i \in Valid(values)}

OfSeveralTypes(values) == \E t, u \in TypesOf(values) : t # u

Sunk(values, asValues) ==
  LET type == IF Valid(values) = {} THEN <<"null", None>>
              ELSE CHOOSE t \in TypesOf(values) : TRUE
      boxed == type[1] \notin Plain \union {"null"}
                 /\ (type[1] \in Moments => asValues)
  IN  [kind  |-> IF boxed THEN "complex" ELSE type[1],
       zone  |-> IF boxed THEN None ELSE type[2],
       valid |-> [i \in DOMAIN values |-> i \in Valid(values)],
       held  |-> [i \in DOMAIN values |->
                    CASE boxed -> values[i]
                      [] ~boxed /\ i \in Valid(values) -> Root(values[i])[2]
                      [] OTHER -> "filler"]]

TypeName(kind) ==
  CASE kind = "boolean" -> "bool"
    [] kind \in {"localTime", "zonedTime"} -> "time"
    [] kind \in {"localDatetime", "zonedDatetime"} -> "datetime"
    [] kind \in {"yearMonth", "dayTime"} -> "duration"
    [] kind = "complex" -> "value"
    [] OTHER -> kind

\* Mutant: a duration counts nanoseconds, whichever it is.
NanosUnit(kind) ==
  CASE kind = "date" -> Some("days")
    [] kind \in Moments \ {"date"} -> Some("nanos")
    [] OTHER -> None

UnitOf(kind) ==
  CASE kind = "date" -> Some("days")
    [] kind = "yearMonth" -> Some("months")
    [] kind \in Moments \ {"date", "yearMonth"} -> Some("nanos")
    [] OTHER -> None

\* The object a caller reads: values, or items, and bits only where a row has
\* no value.
Described(column, spelling) ==
  LET items == IF column.kind = "complex"
                 THEN [i \in DOMAIN column.held |-> ToJs(column.held[i], spelling)]
                 ELSE None
  IN  IF \E i \in DOMAIN items : Fails(items[i]) THEN <<"refused">>
      ELSE <<"read",
             [type     |-> TypeName(column.kind),
              unit     |-> UnitOf(column.kind),
              zone     |-> column.zone,
              values   |-> IF column.kind \in {"null", "complex"} THEN None
                           ELSE column.held,
              items    |-> items,
              validity |-> IF \A i \in DOMAIN column.valid : column.valid[i]
                             THEN None ELSE column.valid]>>
=============================================================================
