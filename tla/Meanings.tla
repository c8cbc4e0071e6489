------------------------------ MODULE Meanings ------------------------------
(***************************************************************************)
(* What a value means, whichever side it is on, apart from the code: a     *)
(* number is a number in halves, a moment is a count from where it is      *)
(* counted.  This is about the values that hold no others.                 *)
(***************************************************************************)
EXTENDS Values

\* An engine's value.
Standing(h) ==
  CASE h[1] = "int" -> <<"number", 2 * h[2]>>
    [] h[1] = "float" -> h[2]
    [] OTHER -> h

-----------------------------------------------------------------------------
(***************************************************************************)
(* A JavaScript value.                                                     *)
(***************************************************************************)
\* The days of a date, counted year by year and month by month.
DayCount(date) ==
  LET before == date[1] - 1
      inMonths[month \in 0 .. 11] ==
        IF month = 0 THEN 0
        ELSE inMonths[month - 1] + MonthLength(date[1], month)
  IN  365 * before + before \div 4 - before \div 100 + before \div 400
        + inMonths[date[2] - 1] + date[3] - 719163

ClockCount(clock) ==
  clock[1] * Hour + clock[2] * Minute + clock[3] * Second
    + clock[4] * (Second \div Thousand) + clock[5] * Thousand + clock[6]

DurationMeans(f) ==
  LET months == MonthsOf(f)
      nanos  == LengthOf(f)
  IN  IF months = 0 THEN <<"dayTime", nanos>>
      ELSE IF nanos = 0 THEN <<"yearMonth", months>>
      ELSE <<"no duration">>

IsISO(calendar, count) == IF calendar = "iso8601" THEN count ELSE <<"another day">>

Meaning(v) ==
  CASE v[1] = "bigint" -> <<"number", 2 * v[2]>>
    [] v[1] = "undefined" -> <<"null">>
    [] v[1] = "Uint8Array" -> <<"bytes", v[2]>>
    [] v[1] = "ZuDecimal" -> <<"decimal", v[2], v[3]>>
    [] v[1] = "ZuNode" -> <<"node", v[2], v[3]>>
    [] v[1] = "ZuDate" -> <<"date", v[2]>>
    [] v[1] = "ZuTime" ->
         IF v[3] = None THEN <<"localTime", v[2]>>
         ELSE <<"zonedTime", v[2], v[3][1]>>
    [] v[1] = "ZuTimestamp" ->
         IF v[3] = None THEN <<"localDatetime", v[2]>>
         ELSE <<"zonedDatetime", v[2], v[3][1]>>
    [] v[1] = "ZuDuration" -> <<v[3], v[2]>>
    [] v[1] = "PlainDate" -> IsISO(v[3], <<"date", DayCount(v[2])>>)
    [] v[1] = "PlainTime" -> <<"localTime", ClockCount(v[2])>>
    [] v[1] = "PlainDateTime" ->
         IsISO(v[4], <<"localDatetime", DayCount(v[2]) * Day + ClockCount(v[3])>>)
    [] v[1] = "ZonedDateTime" ->
         IF v[3] % Minute = 0 THEN <<"zonedDatetime", v[2], v[3] \div Minute>>
         ELSE <<"no whole minute">>
    [] v[1] = "Instant" -> <<"zonedDatetime", v[2], 0>>
    [] v[1] = "Duration" -> DurationMeans(v[2])
    [] OTHER -> v

\* A duration past the 64 bits it is multiplied out in binds as another one.
DurationWraps(v) ==
  v[1] = "Duration" /\ (MonthsOf(v[2]) \notin Int64 \/ LengthOf(v[2]) \notin Int64)

-----------------------------------------------------------------------------
(***************************************************************************)
(* What has no way back.                                                   *)
(***************************************************************************)
\* An answer the way back: zero months are zero seconds to a Temporal
\* duration, and a datetime before the first midnight of an INT64 is refused.
LosesItsWay(h) ==
  \/ h = <<"yearMonth", 0>>
  \/ h[1] = "localDatetime" /\ (h[2] \div Day) * Day \notin Int64

\* What the engine holds and Temporal does not.
HasNoTemporal(h) ==
  CASE h[1] = "date" -> h[2] \notin -Reach .. Reach
    [] h[1] = "localTime" -> h[2] \notin 0 .. Day - 1
    [] h[1] = "zonedDatetime" -> ~IsZone(h[3])
    [] h[1] = "yearMonth" -> h[2] \notin -MonthReach + 1 .. MonthReach - 1
    [] OTHER -> FALSE
=============================================================================
