------------------------------- MODULE MCLoad -------------------------------
(***************************************************************************)
(* Load for TLC: a clock of powers of two, an INT64 of three days and a    *)
(* part of one on either side of the epoch, an i16 twice the minutes of a  *)
(* day, and doubles that are two and then four apart before an INT64 ends. *)
(* The calendar is the real one.                                           *)
(***************************************************************************)
EXTENDS Load

CONSTANT l1  \* the call that is made of everything

Number(n) == <<"number", 2 * n>>
Half == <<"number", 1>>
NegativeZero == <<"negativeZero">>
NaN == <<"nan">>
Big(n) == <<"bigint", n>>
Array(values) == <<"array", values>>

-----------------------------------------------------------------------------
Options_(columns, rows, edges) ==
  [named |-> TRUE, columns |-> columns, rows |-> rows, edges |-> edges]

Undefined == <<"undefined">>

MCColumns ==
  {Array(<<>>), Array(<<Number(1), Number(2), <<"number", 5>>>>),
   Array(<<Big(Exact + 1), Half>>), Array(<<Half, Number(Exact + 2)>>),
   Array(<<Big(Word - 1), Half>>), Array(<<Half, Big(1)>>),
   Array(<<NegativeZero, Number(Exact)>>),
   Array(<<NegativeZero, Half>>), Array(<<Number(1), Number(Exact + 2)>>),
   Array(<<Big(Word - 1), Big(Word)>>), Array(<<NaN, NegativeZero>>),
   Array(<<<<"boolean", TRUE>>, Number(1)>>), Array(<<<<"string", "ada">>>>),
   Array(<<<<"null">>>>), Array(<<<<"Uint8Array", <<1>>>>>>),
   Array(<<<<"ZuDate", 11016>>, <<"PlainDate", <<1900, 3, 1>>, "iso8601">>>>),
   Array(<<<<"ZuTime", 5, None>>, <<"ZuTime", 5, Some(3)>>>>),
   Array(<<<<"ZuTime", 5, Some(3)>>>>), Array(<<<<"ZuTimestamp", -Word, None>>>>),
   Array(<<<<"ZuDuration", 14, "yearMonth">>, <<"Duration", Fields(0, -1, -3)>>>>),
   Array(<<<<"Duration", Fields(0, -1, -3)>>, <<"ZuDuration", 9, "dayTime">>>>),
   \* A month and what wraps to no time.
   Array(<<<<"Duration", <<0, 1, 0, 6, 0, 1, 0, 0, 0, 0>>>>>>),
   <<"Int32Array", <<1, -1>>>>, <<"BigUint64Array", <<Word - 1, Word>>>>,
   <<"BigUint64Array", <<Word - 1>>>>, <<"Float64Array", <<Half, NegativeZero>>>>,
   <<"Float16Array", <<Half>>>>, <<"string", "ada">>}

Two == <<"Int32Array", <<7, 8>>>>

MCEdges ==
  {Undefined, <<"null">>, Array(<<>>), <<"string", "ada">>, <<"Float64Array", <<>>>>,
   <<"Int32Array", <<0, 1, 1, 0>>>>, <<"Int32Array", <<0, 1, 1>>>>,
   <<"Uint32Array", <<0, 1, 0, 2>>>>, <<"Int32Array", <<0, -1>>>>,
   Array(<<Array(<<Number(0), Big(1)>>), Array(<<Number(0), Number(1)>>)>>),
   Array(<<Array(<<Number(1), NegativeZero>>)>>), Array(<<Array(<<Half, Number(1)>>)>>),
   Array(<<Array(<<Number(0)>>)>>), Array(<<Number(0)>>),
   Array(<<Array(<<Big(Word), Number(0)>>)>>)}

\* One load is of everything, and one of a table with and without an edge list.
MCRich ==
  {Options_(<<v>>, Undefined, Undefined) : v \in MCColumns}
    \union {Options_(<<Two>>, Undefined, e) : e \in MCEdges}
    \union {Options_(<<>>, r, Array(<<Array(<<Number(RowWord), Number(1)>>)>>)) :
              r \in {Undefined, <<"null">>, Number(RowWord + 1), Number(-1), Half, NaN,
                     Big(2), Big(2 * Word + RowWord + 1), <<"string", "ada">>}}
    \union {Options_(<<Two, v>>, r, Undefined) :
              r \in {Number(2), Number(3)},
              v \in {<<"Float64Array", <<Half, Half>>>>, Array(<<Number(1)>>)}}
    \union {[Options_(<<Two>>, Undefined, Undefined) EXCEPT !.named = FALSE]}

MCOptions ==
  [c \in Calls |->
     IF c = l1 THEN MCRich
     ELSE {Options_(<<Two>>, Undefined, e) : e \in {Undefined, <<"string", "ada">>}}]

MCConnects ==
  LET usual == [path |-> "path", ints |-> "bigint", temporal |-> FALSE,
                readOnly |-> FALSE]
  IN  {[usual EXCEPT !.ints = i, !.temporal = t] : i \in {"bigint", "number"},
                                                   t \in BOOLEAN}
        \union {[usual EXCEPT !.path = p] : p \in {"memory", "none"}}
        \union {[usual EXCEPT !.readOnly = TRUE], [usual EXCEPT !.ints = "double"]}
=============================================================================
