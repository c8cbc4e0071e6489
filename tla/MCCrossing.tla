----------------------------- MODULE MCCrossing -----------------------------
(***************************************************************************)
(* Crossing for TLC: the tables of MCLoad, and every kind of parameter and *)
(* result on either side of every edge.                                    *)
(***************************************************************************)
EXTENDS Crossing, MCLoad

-----------------------------------------------------------------------------
MCNumbers ==
  {Number(n) : n \in {-Exact - 2, -Exact, -1, 0, 1, Exact - 1, Exact, Exact + 2, Word}}
    \union {Half, NegativeZero, NaN, <<"infinity">>}

MCBigs == {Big(n) : n \in {-Word - 1, -Word, -Exact - 1, -Exact, 0, 1,
                           Exact - 1, Exact, Exact + 1, Word - 1, Word}}

MCPlain == {<<"null">>, <<"undefined">>, <<"boolean", TRUE>>, <<"string", "ada">>,
            <<"symbol">>, <<"Uint8Array", <<1>>>>, <<"Int32Array", <<1>>>>,
            <<"ZuDecimal", 120, 2>>, <<"ZuNode", "person", 1>>, <<"Date">>}

\* What holds some trees.
Holding(kind, items) ==
  [path \in {<<>>} \union UNION {{<<i>> \o rest : rest \in DOMAIN items[i]} :
                                 i \in DOMAIN items} |->
     IF path = <<>> THEN <<kind, Len(items)>> ELSE items[path[1]][Tail(path)]]

\* An array of values that hold none, and one that holds itself.
Listed(values) == Holding("array", [i \in DOMAIN values |-> Leaf(values[i])])

Cycle == [path \in {[i \in 1 .. n |-> 1] : n \in 0 .. Deep + 1} |-> <<"array", 1>>]

MCNested ==
  {Listed(<<>>), Listed(<<Big(Exact + 1), Half>>), Listed(<<Big(Word)>>),
   Listed(<<<<"ZuTime", 0, Some(Short)>>, <<"ZuDate", Reach + 1>>>>),
   Listed(<<<<"Date">>, <<"ZuDuration", 0, "yearMonth">>>>),
   Holding("array", <<Listed(<<Number(1)>>), Leaf(NegativeZero)>>),
   Holding("array", <<Listed(<<>>), Holding("object", <<Listed(<<>>)>>)>>),
   Holding("array", <<Holding("array", <<Listed(<<Half>>)>>)>>),
   Holding("object", <<Leaf(Number(1)), Leaf(NegativeZero)>>), Cycle}

MCClasses ==
  {<<"ZuDate", d>> : d \in {-719469, -719468, -1, 0, 11016, Reach + 1}}
    \union {<<"ZuTime", n, o>> : n \in {-1, 0, Day - 1, Day},
                                 o \in {None, Some(3), Some(Short)}}
    \union {<<"ZuTimestamp", n, o>> : n \in {-Word, -Day - 1, -1, 0, Word - 1},
                                      o \in {None, Some(-3), Some(4), Some(-Short - 1)}}
    \union {<<"ZuDuration", n, "yearMonth">> : n \in {-5, 0, 14, MonthReach}}
    \union {<<"ZuDuration", n, "dayTime">> : n \in {-Word, -9, 0, Word - 1}}

MCDates == {<<1970, 1, 1>>, <<2000, 2, 29>>, <<1900, 3, 1>>, <<0, 2, 29>>, <<-1, 12, 31>>}

\* The days either side of the epoch that an INT64 of nanoseconds reaches.
MCDays == {<<1969, 12, 28>>, <<1969, 12, 29>>, <<1970, 1, 4>>, <<1970, 1, 5>>}

MCClocks == {Clock(n) : n \in {0, 8, Day - 1}}

MCDurations ==
  {Fields(14, 0, 0), Fields(0, -1, -3), Fields(1, 0, 1),
   <<-1, -2, 0, 0, 0, 0, 0, 0, 0, 0>>,   \* years and months
   <<0, 0, 0, 1, 1, 1, 1, 1, 1, 1>>,     \* a day and a bit
   <<0, 0, 1, 0, 0, 0, 0, 0, 0, 0>>,     \* a week, past an INT64
   <<0, 1, 0, 6, 0, 1, 0, 0, 0, 0>>,     \* a month and what wraps to no time
   Fields(0, 0, 0)}

MCTemporal ==
  {<<"PlainDate", d, c>> : d \in MCDates, c \in {"iso8601", "hebrew"}}
    \union {<<"PlainTime", c>> : c \in MCClocks}
    \union {<<"PlainDateTime", d, c, "iso8601">> : d \in MCDays, c \in MCClocks}
    \union {<<"ZonedDateTime", n, o>> : n \in {0, Word - 1, Word},
                                        o \in {0, 3 * Minute, -Minute, -Minute - 1}}
    \union {<<"Instant", n>> : n \in {-Word - 1, -Word}}
    \union {<<"Duration", f>> : f \in MCDurations}
    \union {<<"PlainYearMonth">>}

MCParameters ==
  MCNested \union {Leaf(v) : v \in MCNumbers \union MCBigs \union MCPlain
                                     \union MCClasses \union MCTemporal}

-----------------------------------------------------------------------------
\* What a statement answers down a column, holes included.
Column_(values) == [i \in DOMAIN values |-> Leaf(values[i])]

MCLists ==
  {<<Holding("list", <<Leaf(<<"int", 1>>)>>), Holding("list", <<Leaf(<<"int", Exact>>)>>)>>,
   <<Holding("list", <<Leaf(<<"date", -1>>), Leaf(<<"yearMonth", 0>>)>>)>>}

MCResults ==
  MCLists \union
  {Column_(values) : values \in
     {<<<<"null">>, <<"null">>>>, <<>>,
      <<<<"int", Exact + 1>>, <<"null">>>>, <<<<"float", Half>>, <<"float", NaN>>>>,
      <<<<"boolean", TRUE>>, <<"null">>>>, <<<<"string", "ada">>>>, <<<<"bytes", <<1>>>>>>,
      <<<<"null">>, <<"date", -1>>>>, <<<<"localTime", 5>>>>,
      <<<<"zonedTime", 5, 3>>, <<"null">>>>,
      <<<<"zonedTime", 5, 3>>, <<"zonedTime", 5, -3>>>>,
      <<<<"localDatetime", -Word>>, <<"localDatetime", 9>>>>, <<<<"zonedDatetime", 9, 3>>>>,
      <<<<"yearMonth", 14>>, <<"yearMonth", 0>>>>, <<<<"null">>, <<"dayTime", -9>>>>,
      <<<<"node", "person", 1>>, <<"null">>>>,
      <<<<"int", 1>>, <<"string", "ada">>>>}}

-----------------------------------------------------------------------------
\* A bound: a value crosses beside no load, and a column beside none that is
\* under way.  Neither touches what the other does.
Beside ==
  /\ last[1] = "value" => \A c \in Calls : At(c, "idle")
  /\ last[1] = "column" =>
       \A c \in Calls : calls[c].stage \notin {"queued", "created", "built"}
=============================================================================
