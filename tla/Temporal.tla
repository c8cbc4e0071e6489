------------------------------ MODULE Temporal ------------------------------
(***************************************************************************)
(* Temporal values, both ways across the boundary (src/temporal.rs): the   *)
(* counts the engine keeps, and the fields and the counts of a JavaScript  *)
(* Temporal value.                                                         *)
(*                                                                         *)
(* The calendar is the real one.  The clock is scaled: a day has HourCount *)
(* hours, an hour Sixty minutes of Sixty seconds, a second Thousand times  *)
(* Thousand times Thousand nanoseconds, and an INT64 and an i16 are of     *)
(* Word and Short, so that every edge is within reach of a small integer.  *)
(* Integer division truncates, as it does in Rust.                         *)
(*                                                                         *)
(* A value is a tuple that starts with its kind.                           *)
(***************************************************************************)
EXTENDS Integers, Sequences

CONSTANTS
  HourCount,  \* hours of a day, 24
  Sixty,      \* minutes of an hour and seconds of a minute, 60
  Thousand,   \* milliseconds of a second, and so on down, 1000
  Word,       \* an INT64 runs from -Word to Word - 1
  Short,      \* an i16 runs from -Short to Short - 1
  Reach,      \* Temporal's calendar holds the days from -Reach to Reach
  MonthReach  \* and its durations fewer months than this, 2^32

ASSUME TemporalAssumption ==
  /\ {HourCount, Sixty, Thousand, Word, Short, Reach,
      MonthReach} \subseteq Nat \ {0}
  /\ Short <= Word

Int64 == -Word .. Word - 1
Int16 == -Short .. Short - 1

Second == Thousand * Thousand * Thousand
Minute == Sixty * Second
Hour == Sixty * Minute
Day == HourCount * Hour

\* Arithmetic that wraps, which is what it does in a release build.
Wrapped(n) == ((n + Word) % (2 * Word)) - Word

\* The `/` and the `%` of Rust.
Quot(n, d) == IF n >= 0 THEN n \div d ELSE -((-n) \div d)
Rest(n, d) == n - d * Quot(n, d)

Refused == <<"refused">>
Thrown == <<"thrown">>

-----------------------------------------------------------------------------
(***************************************************************************)
(* Days from 1970-01-01, and the year, month and day.                      *)
(***************************************************************************)
\* Mutant: the era of a day before it is the era after it.
EraTowardsZero(n, length) == Quot(n, length)

Era(n, length) == Quot(IF n >= 0 THEN n ELSE n - (length - 1), length)

\* The year of an era begins in March, and so its leap day is its last.
YearOfEra(dayOfEra) ==
  (dayOfEra - dayOfEra \div 1460 + dayOfEra \div 36524 - dayOfEra \div 146096)
    \div 365

DaysBefore(yearOfEra) == 365 * yearOfEra + yearOfEra \div 4 - yearOfEra \div 100

MonthOf(dayOfYear) == (5 * dayOfYear + 2) \div 153

DaysInto(month) == (153 * month + 2) \div 5

FromMarch(month) == IF month < 10 THEN month + 3 ELSE month - 9

ToMarch(month) == IF month > 2 THEN month - 3 ELSE month + 9

Civil(days) ==
  LET shifted   == days + 719468
      era       == Era(shifted, 146097)
      dayOfEra  == shifted - era * 146097
      yearOfEra == YearOfEra(dayOfEra)
      dayOfYear == dayOfEra - DaysBefore(yearOfEra)
      shiftedMonth == MonthOf(dayOfYear)
      month     == FromMarch(shiftedMonth)
      year      == yearOfEra + era * 400
  IN  <<IF month <= 2 THEN year + 1 ELSE year,
        month,
        dayOfYear - DaysInto(shiftedMonth) + 1>>

CivilDays(y, month, day) ==
  LET year      == IF month <= 2 THEN y - 1 ELSE y
      era       == Era(year, 400)
      yearOfEra == year - era * 400
      dayOfYear == DaysInto(ToMarch(month)) + day - 1
      dayOfEra  == DaysBefore(yearOfEra) + dayOfYear
  IN  era * 146097 + dayOfEra - 719468

\* The calendar, as everybody knows it: what the two are compared with.
IsLeap(year) == year % 4 = 0 /\ (year % 100 # 0 \/ year % 400 = 0)

MonthLength(year, month) ==
  CASE month = 2 -> IF IsLeap(year) THEN 29 ELSE 28
    [] month \in {4, 6, 9, 11} -> 30
    [] OTHER -> 31

IsDate(date) ==
  /\ date \in Int \X (1 .. 12) \X Int
  /\ 1 <= date[3] /\ date[3] <= MonthLength(date[1], date[2])

DayAfter(date) ==
  LET year == date[1]  month == date[2]  day == date[3]
  IN  IF day < MonthLength(year, month) THEN <<year, month, day + 1>>
      ELSE IF month < 12 THEN <<year, month + 1, 1>>
      ELSE <<year + 1, 1, 1>>

-----------------------------------------------------------------------------
(***************************************************************************)
(* A time of day, and its fields.                                          *)
(***************************************************************************)
Clock(nanos) ==
  <<Quot(nanos, Hour),
    Rest(Quot(nanos, Minute), Sixty),
    Rest(Quot(nanos, Second), Sixty),
    Rest(Quot(nanos, Thousand * Thousand), Thousand),
    Rest(Quot(nanos, Thousand), Thousand),
    Rest(nanos, Thousand)>>

NanosOf(clock) ==
  ((clock[1] * Sixty + clock[2]) * Sixty + clock[3]) * Second
    + clock[4] * Thousand * Thousand + clock[5] * Thousand + clock[6]

\* What the constructor of a PlainTime takes.
IsClock(clock) ==
  /\ clock[1] \in 0 .. HourCount - 1
  /\ {clock[2], clock[3]} \subseteq 0 .. Sixty - 1
  /\ {clock[4], clock[5], clock[6]} \subseteq 0 .. Thousand - 1

\* What the constructor of a ZonedDateTime takes: an offset under a day.
IsZone(offset) == -HourCount * Sixty < offset /\ offset < HourCount * Sixty

-----------------------------------------------------------------------------
(***************************************************************************)
(* From the engine's value to the Temporal one.  A zoned time has none and *)
(* keeps its class.                                                        *)
(***************************************************************************)
HasType(v) == v[1] # "zonedTime"

\* Seconds and nanoseconds, of one sign.
Seconds(nanos) == <<Quot(nanos, Second), Rest(nanos, Second)>>

\* A duration of these fields, the others zero.
Fields(months, seconds, nanos) ==
  <<0, months, 0, 0, 0, 0, seconds, 0, 0, nanos>>

OneSign(fields) ==
  \/ \A i \in 1 .. 10 : fields[i] >= 0
  \/ \A i \in 1 .. 10 : fields[i] <= 0

Built(fits, built) == IF fits THEN built ELSE Thrown

ToTemporal(v) ==
  CASE v[1] = "date" ->
         Built(v[2] \in -Reach .. Reach,
               <<"PlainDate", Civil(v[2]), "iso8601">>)
    [] v[1] = "localTime" ->
         Built(IsClock(Clock(v[2])), <<"PlainTime", Clock(v[2])>>)
    [] v[1] = "localDatetime" ->
         <<"PlainDateTime", Civil(v[2] \div Day), Clock(v[2] % Day), "iso8601">>
    [] v[1] = "zonedDatetime" ->
         Built(IsZone(v[3]), <<"ZonedDateTime", v[2], v[3] * Minute>>)
    [] v[1] = "yearMonth" ->
         Built(-MonthReach < v[2] /\ v[2] < MonthReach,
               <<"Duration", Fields(v[2], 0, 0)>>)
    [] v[1] = "dayTime" ->
         LET fields == Fields(0, Seconds(v[2])[1], Seconds(v[2])[2])
         IN  Built(OneSign(fields), <<"Duration", fields>>)

-----------------------------------------------------------------------------
(***************************************************************************)
(* From a Temporal value to the engine's.                                  *)
(***************************************************************************)
IsTemporal(v) ==
  v[1] \in {"PlainDate", "PlainTime", "PlainDateTime", "ZonedDateTime",
            "Instant", "Duration", "PlainYearMonth"}

\* The fields of another calendar are another day.
DaysOf(date, calendar, stored) ==
  IF calendar = "iso8601" THEN stored ELSE Refused

\* Midnight of the day is checked on its own, then the nanosecond.
Epoch(days, nanos) ==
  IF days * Day \in Int64 /\ days * Day + nanos \in Int64
    THEN <<"localDatetime", days * Day + nanos>>
    ELSE Refused

\* Mutant: an offset with seconds in it is cut off at the minute.
OffsetRounded(nanos) == <<Quot(nanos, Minute)>>

\* Whole minutes, that fit.
Offset(nanos) ==
  IF Rest(nanos, Minute) = 0 /\ Quot(nanos, Minute) \in Int16
    THEN <<Quot(nanos, Minute)>>
    ELSE <<>>

Since(nanos, offset) ==
  IF nanos \in Int64 /\ offset # <<>>
    THEN <<"zonedDatetime", nanos, offset[1]>>
    ELSE Refused

\* Months, and nanoseconds: multiplied out in 64 bits with nothing checking.
MonthsOf(f) == f[1] * 12 + f[2]

LengthOf(f) ==
  ((((f[3] * 7 + f[4]) * HourCount + f[5]) * Sixty + f[6]) * Sixty + f[7]) * Second
    + f[8] * Thousand * Thousand + f[9] * Thousand + f[10]

DurationOf(f) ==
  LET months == Wrapped(MonthsOf(f))
      nanos  == Wrapped(LengthOf(f))
  IN  IF months = 0 THEN <<"dayTime", nanos>>
      ELSE IF nanos = 0 THEN <<"yearMonth", months>>
      ELSE Refused

FromTemporal(v) ==
  CASE v[1] = "PlainDate" ->
         DaysOf(v[2], v[3], <<"date", CivilDays(v[2][1], v[2][2], v[2][3])>>)
    [] v[1] = "PlainTime" -> <<"localTime", NanosOf(v[2])>>
    [] v[1] = "PlainDateTime" ->
         DaysOf(v[2], v[4],
                Epoch(CivilDays(v[2][1], v[2][2], v[2][3]), NanosOf(v[3])))
    [] v[1] = "ZonedDateTime" -> Since(v[2], Offset(v[3]))
    [] v[1] = "Instant" -> Since(v[2], <<0>>)
    [] v[1] = "Duration" -> DurationOf(v[2])
    [] OTHER -> Refused
=============================================================================
