------------------------------ MODULE Buffers -------------------------------
(***************************************************************************)
(* The buffers that a load fills (src/buffer.rs).                          *)
(*                                                                         *)
(* A buffer is its kind and its values, the kind being the one of the      *)
(* engine's values it holds and the values bare: <<"int", <<1, 2>>>>.      *)
(***************************************************************************)
EXTENDS Values

LocalMoments == {"date", "localTime", "localDatetime", "yearMonth", "dayTime"}

Column(kind) == <<kind, <<>>>>
Length(column) == Len(column[2])

\* The engine's value in a row of a buffer.
Cell(column, row) == <<column[1], column[2][row]>>

-----------------------------------------------------------------------------
(***************************************************************************)
(* A value going into a buffer.                                            *)
(***************************************************************************)
\* The moment a value is, in either of its two spellings.
Moment(v) ==
  CASE v[1] \in Classes -> TemporalOf(v)
    [] IsTemporal(v) -> FromTemporal(v)
    [] OTHER -> <<"none">>

ReadInt(v) ==
  CASE v[1] = "bigint" /\ v[2] \in Int64 -> Some(v[2])
    [] v[1] \in Numbers /\ IsWhole(v) /\ WithinExact(v) -> Some(WholeOf(v))
    [] OTHER -> None

\* A moment of the very kind: not a zoned one, nor a duration of the other.
ReadMoment(moment, kind) == IF moment[1] = kind THEN Some(moment[2]) ELSE None

\* What a buffer of a kind takes of a value: None is a refusal.
Taken(kind, v) ==
  CASE kind = "int" -> ReadInt(v)
    [] kind = "float" -> IF v[1] \in Numbers THEN Some(v) ELSE None
    [] kind \in {"boolean", "string"} ->
         IF v[1] = kind THEN Some(v[2]) ELSE None
    [] kind = "bytes" -> IF v[1] = "Uint8Array" THEN Some(v[2]) ELSE None
    [] kind \in LocalMoments -> ReadMoment(Moment(v), kind)
    [] OTHER -> None

Pushed(column, taken) ==
  IF taken = None THEN Refused ELSE <<column[1], column[2] \o taken>>

Push(column, v) == Pushed(column, Taken(column[1], v))

\* The kind of buffer that a first value starts.  A zoned value starts the
\* local one, and is refused by it; what starts none has "none".
StartOf(v) ==
  CASE v[1] \in {"boolean", "string"} -> v[1]
    [] v[1] = "bigint" -> "int"
    [] v[1] \in Numbers -> IF IsWhole(v) THEN "int" ELSE "float"
    [] v[1] \in {"Uint8Array", "Int32Array"} -> "bytes"
    [] OTHER -> LET kind == Moment(v)[1]
                IN  CASE kind = "zonedTime" -> "localTime"
                      [] kind = "zonedDatetime" -> "localDatetime"
                      [] OTHER -> kind

\* Mutant: the numbers before the fractional one are not in the floats.
WidenedEmpty(column, v) ==
  IF column[1] = "int" /\ v[1] \in Numbers /\ ~IsWhole(v)
    THEN Column("float") ELSE column

\* Whole numbers that meet a fractional one are floats from there.
Widened(column, v) ==
  IF column[1] = "int" /\ v[1] \in Numbers /\ ~IsWhole(v)
    THEN <<"float", [i \in DOMAIN column[2] |-> AsNumber(column[2][i])]>>
    ELSE column

\* The next value of an array: the first settles what the column is.
NextOf(column, v) ==
  IF column = Refused THEN Refused
  ELSE Push(IF column = None THEN Column(StartOf(v)) ELSE Widened(column, v), v)

\* A typed array, which is numbers already.
Filled(v) ==
  CASE v[1] \in {"Uint8Array", "Int32Array", "BigInt64Array"} -> <<"int", v[2]>>
    [] v[1] = "BigUint64Array" ->
         IF \A i \in DOMAIN v[2] : v[2][i] \in Int64 THEN <<"int", v[2]>>
                                                    ELSE Refused
    [] v[1] = "Float64Array" -> <<"float", v[2]>>
    [] OTHER -> Refused

TypedArrays == {"Uint8Array", "Int32Array", "BigInt64Array", "BigUint64Array",
                "Float64Array", "Float16Array"}

\* A column of some values, and not of bytes.
Whole(column) ==
  IF column \in {None, Refused} \/ column[1] = "bytes" THEN Refused ELSE column

\* An array is read a value at a time.
ArrayOf(values) ==
  LET upTo[n \in 0 .. Len(values)] ==
        IF n = 0 THEN None ELSE NextOf(upTo[n - 1], values[n])
  IN  upTo[Len(values)]

\* A column as the caller wrote it.
ColumnOf(v) ==
  Whole(CASE v[1] \in TypedArrays -> Filled(v)
          [] v[1] = "array" -> ArrayOf(v[2])
          [] OTHER -> Refused)
=============================================================================
