------------------------------- MODULE Values -------------------------------
(***************************************************************************)
(* Values, both ways across the boundary (src/value.rs): what a JavaScript *)
(* value binds as, and how an engine value is spelled for a result.  This  *)
(* is about the values that hold no others: see Nesting.                   *)
(*                                                                         *)
(* A value of either side is a tuple that starts with its kind.  A number  *)
(* is counted in halves, <<"number", 3>> being one and a half, with        *)
(* negative zero, NaN and infinity kinds of their own; past Exact not all  *)
(* integers are doubles, and an engine's float carries the number it is.   *)
(***************************************************************************)
EXTENDS Temporal

CONSTANTS
  Exact,    \* integers up to this many are doubles of their own, 2^53
  Spacings  \* how far apart whole doubles are, each twice the one before it:
            \* 1 up to Exact, 2 up to twice Exact, to 2^10 for an INT64

ASSUME ValuesAssumption ==
  /\ Exact \in Nat \ {0} /\ Exact % 2 = 0 /\ Exact < Word
  /\ Spacings \subseteq Nat \ {0} /\ 1 \in Spacings
  /\ \A p \in Spacings \ {1} : p % 2 = 0 /\ p \div 2 \in Spacings
  /\ \E p \in Spacings : Word <= Exact * p

Numbers == {"number", "negativeZero", "nan", "infinity"}

\* No value: a property that is undefined, an offset there is not.
None == <<>>
Some(v) == <<v>>

-----------------------------------------------------------------------------
(***************************************************************************)
(* Doubles.                                                                *)
(***************************************************************************)
\* `n.fract() == 0.0`, of a negative zero too.
IsWhole(v) == v[1] = "negativeZero" \/ (v[1] = "number" /\ v[2] % 2 = 0)

WholeOf(v) == IF v[1] = "negativeZero" THEN 0 ELSE v[2] \div 2

WithinExact(v) == WholeOf(v) \in -Exact .. Exact

\* The doubles around an integer, and `n as f64`: the nearest of them, a tie
\* going to the even one.
Reaches(p, n) == n \in -(Exact * p) .. Exact * p

Spacing(n) ==
  CHOOSE p \in Spacings :
    Reaches(p, n) /\ \A q \in Spacings : Reaches(q, n) => p <= q

AsNumber(n) ==
  LET p    == Spacing(n)
      step == n \div p
      up   == 2 * (n % p) > p \/ (2 * (n % p) = p /\ step % 2 = 1)
  IN  <<"number", 2 * (p * (IF up THEN step + 1 ELSE step))>>

-----------------------------------------------------------------------------
(***************************************************************************)
(* What the classes keep of what they are made from.                       *)
(***************************************************************************)
\* The offset is an i32 in the class and an i16 in the engine: None for a local
\* value.
OffsetOf(offset) ==
  [i \in DOMAIN offset |-> ((offset[i] + Short) % (2 * Short)) - Short]

\* The four value classes.
Classes == {"ZuDate", "ZuTime", "ZuTimestamp", "ZuDuration"}

TemporalOf(v) ==
  CASE v[1] = "ZuDate" -> <<"date", v[2]>>
    [] v[1] = "ZuTime" ->
         <<IF v[3] = None THEN "localTime" ELSE "zonedTime", v[2]>>
           \o OffsetOf(v[3])
    [] v[1] = "ZuTimestamp" ->
         <<IF v[3] = None THEN "localDatetime" ELSE "zonedDatetime", v[2]>>
           \o OffsetOf(v[3])
    [] v[1] = "ZuDuration" -> <<v[3], v[2]>>

-----------------------------------------------------------------------------
(***************************************************************************)
(* What a JavaScript value binds as.                                       *)
(***************************************************************************)
BindsWhole(v) == IsWhole(v) /\ WithinExact(v) /\ v[1] # "negativeZero"

-----------------------------------------------------------------------------
(***************************************************************************)
(* How an engine value is spelled: a spelling says how an INT64 comes back *)
(* and whether a temporal value does as a Temporal one.                    *)
(***************************************************************************)
Spellings == [ints : {"bigint", "number"}, temporal : BOOLEAN]

IntTo(n, ints) ==
  CASE ints = "bigint" -> <<"bigint", n>>
    [] ints = "number" /\ n \notin -(Exact - 1) .. Exact - 1 -> Refused
    [] OTHER -> AsNumber(n)

AsClass(h) ==
  CASE h[1] = "date" -> <<"ZuDate", h[2]>>
    [] h[1] = "localTime" -> <<"ZuTime", h[2], None>>
    [] h[1] = "zonedTime" -> <<"ZuTime", h[2], Some(h[3])>>
    [] h[1] = "localDatetime" -> <<"ZuTimestamp", h[2], None>>
    [] h[1] = "zonedDatetime" -> <<"ZuTimestamp", h[2], Some(h[3])>>
    [] h[1] \in {"yearMonth", "dayTime"} -> <<"ZuDuration", h[2], h[1]>>

MomentTo(h, temporal) ==
  IF temporal /\ HasType(h) THEN ToTemporal(h) ELSE AsClass(h)

Moments == {"date", "localTime", "zonedTime", "localDatetime",
            "zonedDatetime", "yearMonth", "dayTime"}
=============================================================================
