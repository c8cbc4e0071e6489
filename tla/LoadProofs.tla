----------------------------- MODULE LoadProofs -----------------------------
(***************************************************************************)
(* Proofs about Load and about Crossing, which is Load with the values     *)
(* that cross on the connection it opens, for any calls of load() and      *)
(* connect(), any tables, parameters and results, and any sizes of a word: *)
(* nothing is made by a call that was refused, a table that was loaded     *)
(* holds the values it was written with and its edges join the rows they   *)
(* were written with; a parameter binds as what it means, an answer binds  *)
(* again as itself, and a column is read as what is in it.                 *)
(*                                                                         *)
(* The state machines are the short part of it.  The long one is what a    *)
(* value becomes on its way: the calendar and the clock of a Temporal      *)
(* value, then one value into a buffer, then an array of them, by          *)
(* induction on how far it has come, whose numbers may all turn into       *)
(* floats half way; then each node of a parameter, of its answer and of a  *)
(* column.                                                                 *)
(*                                                                         *)
(* In the calendar each division is given a name and its two bounds first  *)
(* (a lemma for each divisor); what is left is linear.                     *)
(***************************************************************************)
EXTENDS Crossing, FiniteSetTheorems, TLAPS

-----------------------------------------------------------------------------
(***************************************************************************)
(* Induction.                                                              *)
(***************************************************************************)

\* A set of naturals has a least one: the sets 0..n of its members are finite,
\* and finite sets do not shrink for ever.
LEMMA Least ==
  ASSUME NEW S \in SUBSET Nat, S # {}
  PROVE  \E m \in S : \A k \in S : m <= k
  <1> DEFINE T == {0..n : n \in S}
  <1>1. IsWellFoundedOn(StrictSubsetOrdering(Nat), FiniteSubsetsOf(Nat))
    BY FS_StrictSubsetOrderingWellFounded
  <1>2. ASSUME NEW n \in S
        PROVE  0..n \in FiniteSubsetsOf(Nat)
    <2>1. IsFiniteSet(0..n)
      BY FS_Interval
    <2> QED
      BY <2>1 DEF FiniteSubsetsOf
  <1>3. T \subseteq FiniteSubsetsOf(Nat) /\ T # {}
    BY <1>2
  <1> HIDE DEF T
  <1>4. PICK x \in T : \A y \in T : ~ (<<y, x>> \in StrictSubsetOrdering(Nat))
    BY <1>1, <1>3, WFMin
  <1> USE DEF T
  <1>5. PICK m \in S : x = 0..m
    OBVIOUS
  <1>6. ASSUME NEW k \in S, ~(m <= k)
        PROVE  FALSE
    <2>1. 0..k \in T
      OBVIOUS
    <2>2. 0..k \subseteq 0..m /\ 0..k # 0..m /\ 0..m \subseteq Nat
      BY <1>6
    <2>3. <<0..k, 0..m>> \in StrictSubsetOrdering(Nat)
      BY <2>2 DEF StrictSubsetOrdering
    <2> QED
      BY <1>4, <1>5, <2>1, <2>3
  <1> QED
    BY <1>6

\* Induction over the naturals, for a set: it needs no operator of its own.
LEMMA Induction ==
  ASSUME NEW S, 0 \in S, \A n \in Nat : n \in S => n + 1 \in S
  PROVE  Nat \subseteq S
  <1> SUFFICES ASSUME NEW z \in Nat, z \notin S
               PROVE  FALSE
    OBVIOUS
  <1>1. PICK m \in Nat \ S : \A k \in Nat \ S : m <= k
    BY Least
  <1>2. m # 0 /\ m - 1 \in Nat /\ m - 1 \in S
    BY <1>1
  <1> QED
    BY <1>2

-----------------------------------------------------------------------------
(***************************************************************************)
(* The calendar of src/temporal.rs is the calendar, over every day there   *)
(* is: what `civil` splits `civil_days` puts together again, `civil` names *)
(* days that exist, and `civil_days` counts them one by one from 1970.     *)
(***************************************************************************)
\* q is n divided by d, rounded down.
IsQuot(q, n, d) == q \in Int /\ d * q <= n /\ n < d * q + d

\* The divisions of the calendar, one by one.
LEMMA By4 == ASSUME NEW n \in Int PROVE IsQuot(n \div 4, n, 4)
  BY DEF IsQuot
LEMMA By5 == ASSUME NEW n \in Int PROVE IsQuot(n \div 5, n, 5)
  BY DEF IsQuot
LEMMA By100 == ASSUME NEW n \in Int PROVE IsQuot(n \div 100, n, 100)
  BY DEF IsQuot
LEMMA By153 == ASSUME NEW n \in Int PROVE IsQuot(n \div 153, n, 153)
  BY DEF IsQuot
LEMMA By365 == ASSUME NEW n \in Int PROVE IsQuot(n \div 365, n, 365)
  BY DEF IsQuot
LEMMA By400 == ASSUME NEW n \in Int PROVE IsQuot(n \div 400, n, 400)
  BY DEF IsQuot
LEMMA By1460 == ASSUME NEW n \in Int PROVE IsQuot(n \div 1460, n, 1460)
  BY DEF IsQuot
LEMMA By36524 == ASSUME NEW n \in Int PROVE IsQuot(n \div 36524, n, 36524)
  BY DEF IsQuot
LEMMA By146096 == ASSUME NEW n \in Int PROVE IsQuot(n \div 146096, n, 146096)
  BY DEF IsQuot
LEMMA By146097 == ASSUME NEW n \in Int PROVE IsQuot(n \div 146097, n, 146097)
  BY DEF IsQuot

\* The era of a day, before the epoch of the eras too.
LEMMA EraOfDay == ASSUME NEW n \in Int PROVE IsQuot(Era(n, 146097), n, 146097)
  <1>1. CASE n >= 0
    BY <1>1, By146097 DEF Era, Quot
  <1>2. CASE n < 0
    <2> DEFINE m == 0 - (n - 146096)
    <2>1. m \in Int /\ m > 0
      BY <1>2
    <2>2. IsQuot(m \div 146097, m, 146097)
      BY <2>1, By146097
    <2>3. Era(n, 146097) = 0 - (m \div 146097)
      BY <1>2 DEF Era, Quot
    <2> QED
      BY <2>1, <2>2, <2>3 DEF IsQuot
  <1> QED
    BY <1>1, <1>2

\* The era of a year.
LEMMA EraOfYear == ASSUME NEW n \in Int PROVE IsQuot(Era(n, 400), n, 400)
  <1>1. CASE n >= 0
    BY <1>1, By400 DEF Era, Quot
  <1>2. CASE n < 0
    <2> DEFINE m == 0 - (n - 399)
    <2>1. m \in Int /\ m > 0
      BY <1>2
    <2>2. IsQuot(m \div 400, m, 400)
      BY <2>1, By400
    <2>3. Era(n, 400) = 0 - (m \div 400)
      BY <1>2 DEF Era, Quot
    <2> QED
      BY <2>1, <2>2, <2>3 DEF IsQuot
  <1> QED
    BY <1>1, <1>2

\* The day a leap year has more.
Leap(year) == IF IsLeap(year) THEN 1 ELSE 0

\* The days a year adds are what its own number of quarters, centuries and
\* fours of centuries adds.
LEMMA LeapIsOneMore ==
  ASSUME NEW y \in Int
  PROVE  (y + 1) \div 4 - (y + 1) \div 100 + (y + 1) \div 400
           = y \div 4 - y \div 100 + y \div 400 + Leap(y + 1)
  BY SMTT(60) DEF Leap, IsLeap

-----------------------------------------------------------------------------
(***************************************************************************)
(* The year of a day of an era.                                            *)
(***************************************************************************)
\* The arithmetic of it: d is the day, y its year as YearOfEra has it.
LEMMA YearStarts ==
  ASSUME NEW d \in Int, 0 <= d, d < 146097,
         NEW a \in Int, IsQuot(a, d, 1460),
         NEW b \in Int, IsQuot(b, d, 36524),
         NEW c \in Int, IsQuot(c, d, 146096),
         NEW y \in Int, IsQuot(y, d - a + b - c, 365),
         NEW q \in Int, IsQuot(q, y, 4),
         NEW h \in Int, IsQuot(h, y, 100)
  PROVE  0 <= y /\ y < 400 /\ 365 * y + q - h <= d
  BY SMTT(60) DEF IsQuot

\* The day of an era comes before the end of the year it falls in.
LEMMA YearEnds ==
  ASSUME NEW d \in Int, 0 <= d, d < 146097,
         NEW a \in Int, IsQuot(a, d, 1460),
         NEW b \in Int, IsQuot(b, d, 36524),
         NEW c \in Int, IsQuot(c, d, 146096),
         NEW y \in Int, IsQuot(y, d - a + b - c, 365),
         NEW q \in Int, IsQuot(q, y + 1, 4),
         NEW h \in Int, IsQuot(h, y + 1, 100),
         NEW k \in Int, IsQuot(k, y + 1, 400)
  PROVE  d < 365 * (y + 1) + q - h + k
  BY SMTT(60) DEF IsQuot

\* Which day of its year a day is: before the year is over.
LEMMA YearOfDay ==
  ASSUME NEW d \in Int, 0 <= d, d < 146097
  PROVE  /\ YearOfEra(d) \in 0 .. 399
         /\ DaysBefore(YearOfEra(d)) \in Int
         /\ DaysBefore(YearOfEra(d)) <= d
         /\ d < DaysBefore(YearOfEra(d)) + 365 + Leap(YearOfEra(d) + 1)
  <1>1. PICK a \in Int : a = d \div 1460 /\ IsQuot(a, d, 1460)
    BY By1460, SMT DEF IsQuot
  <1>2. PICK b \in Int : b = d \div 36524 /\ IsQuot(b, d, 36524)
    BY By36524, SMT DEF IsQuot
  <1>3. PICK c \in Int : c = d \div 146096 /\ IsQuot(c, d, 146096)
    BY By146096, SMT DEF IsQuot
  <1>4. PICK y \in Int : y = (d - a + b - c) \div 365 /\ IsQuot(y, d - a + b - c, 365)
    BY By365, SMT DEF IsQuot
  <1>5. YearOfEra(d) = y
    BY <1>1, <1>2, <1>3, <1>4, SMT DEF YearOfEra
  <1>6. PICK q \in Int : q = y \div 4 /\ IsQuot(q, y, 4)
    BY By4, SMT DEF IsQuot
  <1>7. PICK h \in Int : h = y \div 100 /\ IsQuot(h, y, 100)
    BY By100, SMT DEF IsQuot
  <1>8. 0 <= y /\ y < 400 /\ 365 * y + q - h <= d
    BY <1>1, <1>2, <1>3, <1>4, <1>6, <1>7, YearStarts, SMT
  <1>9. DaysBefore(y) = 365 * y + q - h
    BY <1>6, <1>7, SMT DEF DaysBefore
  <1>10. PICK r \in Int : r = (y + 1) \div 4 /\ IsQuot(r, y + 1, 4)
    BY By4, SMT DEF IsQuot
  <1>11. PICK i \in Int : i = (y + 1) \div 100 /\ IsQuot(i, y + 1, 100)
    BY By100, SMT DEF IsQuot
  <1>12. PICK k \in Int : k = (y + 1) \div 400 /\ IsQuot(k, y + 1, 400)
    BY By400, SMT DEF IsQuot
  <1>13. d < 365 * (y + 1) + r - i + k
    BY <1>1, <1>2, <1>3, <1>4, <1>10, <1>11, <1>12, YearEnds, SMT
  <1>14. PICK leap \in Int : leap = Leap(y + 1)
    BY SMT DEF Leap
  <1>15. y \div 400 = 0
    BY <1>8, SMT
  <1>16. r - i + k = q - h + leap
    <2>1. (y + 1) \div 4 - (y + 1) \div 100 + (y + 1) \div 400
            = y \div 4 - y \div 100 + y \div 400 + Leap(y + 1)
      BY LeapIsOneMore, SMT
    <2> QED
      BY <1>6, <1>7, <1>10, <1>11, <1>12, <1>14, <1>15, <2>1, SMT
  <1>17. d < 365 * y + q - h + 365 + leap
    BY <1>13, <1>16, SMT
  <1> QED
    BY <1>5, <1>8, <1>9, <1>14, <1>17, SMT

-----------------------------------------------------------------------------
(***************************************************************************)
(* The month of a day of a year that begins in March.                      *)
(***************************************************************************)
MarchLength(m) == IF m = 11 THEN 29 ELSE IF m \in {1, 3, 6, 8} THEN 30 ELSE 31

\* A day of a year falls in the month it is counted into.
LEMMA MonthOfDay ==
  ASSUME NEW t \in Int, 0 <= t, t < 366
  PROVE  /\ MonthOf(t) \in 0 .. 11
         /\ DaysInto(MonthOf(t)) \in Int
         /\ DaysInto(MonthOf(t)) <= t
         /\ t < DaysInto(MonthOf(t)) + MarchLength(MonthOf(t))
  <1>1. PICK m \in Int : m = (5 * t + 2) \div 153 /\ IsQuot(m, 5 * t + 2, 153)
    BY By153, SMT DEF IsQuot
  <1>2. m \in 0 .. 11
    BY <1>1, SMT DEF IsQuot
  <1>3. PICK n \in Int : n = (153 * m + 2) \div 5 /\ IsQuot(n, 153 * m + 2, 5)
    BY <1>2, By5, SMT DEF IsQuot
  <1>4. DaysInto(m) = n /\ MonthOf(t) = m
    BY <1>1, <1>3, SMT DEF DaysInto, MonthOf
  <1>5. n <= t
    BY <1>1, <1>2, <1>3, SMT DEF IsQuot
  <1>6. t < n + MarchLength(m)
    BY <1>1, <1>2, <1>3, SMT DEF IsQuot, MarchLength
  <1> QED
    BY <1>2, <1>3, <1>4, <1>5, <1>6, SMT

\* The date of a day t of a year y of an era, counted from March.
DateOf(era, y, t) ==
  <<IF FromMarch(MonthOf(t)) <= 2 THEN y + era * 400 + 1 ELSE y + era * 400,
    FromMarch(MonthOf(t)),
    t - DaysInto(MonthOf(t)) + 1>>

\* The day it is.
IsDay(days, era, y, t) ==
  /\ 0 <= y /\ y < 400
  /\ 0 <= t /\ t < 365 + Leap(y + 1)
  /\ DaysBefore(y) \in Int
  /\ days = era * 146097 + DaysBefore(y) + t - 719468

\* What `civil` takes a day apart into.
LEMMA CivilParts ==
  ASSUME NEW days \in Int
  PROVE  \E era, y, t \in Int : IsDay(days, era, y, t) /\ Civil(days) = DateOf(era, y, t)
  <1> DEFINE n == days + 719468
  <1>1. PICK era \in Int : era = Era(n, 146097) /\ IsQuot(era, n, 146097)
    <2>1. n \in Int
      BY SMT
    <2>2. IsQuot(Era(n, 146097), n, 146097)
      BY <2>1, EraOfDay, SMT
    <2>3. Era(n, 146097) \in Int
      BY <2>2, SMT DEF IsQuot
    <2> QED
      BY <2>2, <2>3, SMT
  <1>2. PICK d \in Int : d = n - era * 146097 /\ 0 <= d /\ d < 146097
    BY <1>1, SMT DEF IsQuot
  <1>3. /\ YearOfEra(d) \in 0 .. 399
        /\ DaysBefore(YearOfEra(d)) \in Int
        /\ DaysBefore(YearOfEra(d)) <= d
        /\ d < DaysBefore(YearOfEra(d)) + 365 + Leap(YearOfEra(d) + 1)
    BY <1>2, YearOfDay, SMT
  <1>4. PICK y \in Int :
          /\ y = YearOfEra(d) /\ 0 <= y /\ y < 400 /\ DaysBefore(y) \in Int
          /\ DaysBefore(y) <= d /\ d < DaysBefore(y) + 365 + Leap(y + 1)
    BY <1>3, SMT
  <1>5. Leap(y + 1) \in {0, 1}
    BY SMT DEF Leap
  <1>6. PICK t \in Int : t = d - DaysBefore(y)
    BY <1>2, <1>4, SMT
  <1>7. IsDay(days, era, y, t)
    BY <1>2, <1>4, <1>5, <1>6, SMT DEF IsDay
  <1>8. Civil(days) = DateOf(era, y, t)
    BY <1>1, <1>2, <1>4, <1>6, SMT DEF Civil, DateOf
  <1> QED
    BY <1>7, <1>8, SMT


\* A year of an era, counted from the first era, is of that era.
LEMMA EraOfYears ==
  ASSUME NEW era \in Int, NEW y \in Int, 0 <= y, y < 400
  PROVE  Era(y + era * 400, 400) = era
  <1> DEFINE n == y + era * 400
  <1>1. n \in Int
    BY SMT
  <1>2. IsQuot(Era(n, 400), n, 400)
    BY <1>1, EraOfYear, SMT
  <1> QED
    BY <1>2, SMT DEF IsQuot

\* The months counted from March are the months counted from January.
LEMMA MonthsTurn ==
  ASSUME NEW m \in 0 .. 11
  PROVE  /\ FromMarch(m) \in 1 .. 12
         /\ ToMarch(FromMarch(m)) = m
         /\ FromMarch(m) <= 2 <=> m >= 10
  BY SMT DEF FromMarch, ToMarch

\* The date of a place in an era counts as the days of that place.
LEMMA DateCounts ==
  ASSUME NEW days \in Int, NEW era \in Int, NEW y \in Int, NEW t \in Int,
         IsDay(days, era, y, t), NEW date, date = DateOf(era, y, t)
  PROVE  /\ date \in Int \X (1 .. 12) \X Int
         /\ CivilDays(date[1], date[2], date[3]) = days
  <1>1. /\ 0 <= y /\ y < 400 /\ 0 <= t /\ t < 366 /\ DaysBefore(y) \in Int
        /\ days = era * 146097 + DaysBefore(y) + t - 719468
    BY SMT DEF IsDay, Leap
  <1>2. PICK m \in 0 .. 11 : m = MonthOf(t) /\ DaysInto(m) \in Int
    BY <1>1, MonthOfDay, SMT
  <1>3. FromMarch(m) \in 1 .. 12 /\ ToMarch(FromMarch(m)) = m
    BY <1>2, MonthsTurn, SMT
  <1>4. /\ date[1] = IF FromMarch(m) <= 2 THEN y + era * 400 + 1 ELSE y + era * 400
        /\ date[2] = FromMarch(m)
        /\ date[3] = t - DaysInto(m) + 1
        /\ date = <<date[1], date[2], date[3]>>
    BY <1>2, SMT DEF DateOf
  <1>5. (IF date[2] <= 2 THEN date[1] - 1 ELSE date[1]) = y + era * 400
    BY <1>3, <1>4, SMT
  <1>6. Era(y + era * 400, 400) = era
    BY <1>1, EraOfYears, SMT
  <1>7. (y + era * 400) - era * 400 = y
    BY SMT
  <1>8. DaysInto(ToMarch(date[2])) + date[3] - 1 = t
    BY <1>2, <1>3, <1>4, SMT
  <1>9. CivilDays(date[1], date[2], date[3])
          = era * 146097 + (DaysBefore(y) + t) - 719468
    BY <1>5, <1>6, <1>7, <1>8, SMT DEF CivilDays
  <1> QED
    BY <1>1, <1>2, <1>3, <1>4, <1>9, SMT

(***************************************************************************)
(* Every day there is comes back from its civil date as itself             *)
(* (src/temporal.rs civil, civil_days).                                    *)
(***************************************************************************)
THEOREM CivilComesBack ==
  ASSUME NEW days \in Int
  PROVE  CivilDays(Civil(days)[1], Civil(days)[2], Civil(days)[3]) = days
  <1>1. PICK era, y, t \in Int : IsDay(days, era, y, t) /\ Civil(days) = DateOf(era, y, t)
    BY CivilParts, Zenon
  <1> QED
    BY <1>1, DateCounts, SMT

(***************************************************************************)
(* What a day is split into is a day of the calendar                       *)
(* (src/temporal.rs civil).                                                *)
(***************************************************************************)
THEOREM CivilIsDate ==
  ASSUME NEW days \in Int
  PROVE  IsDate(Civil(days))
  <1>1. PICK era, y, t \in Int : IsDay(days, era, y, t) /\ Civil(days) = DateOf(era, y, t)
    BY CivilParts, Zenon
  <1>2. PICK date : date = Civil(days)
    OBVIOUS
  <1>3. date \in Int \X (1 .. 12) \X Int
    <2>1. date = DateOf(era, y, t)
      BY <1>1, <1>2
    <2> QED
      BY <1>1, <2>1, DateCounts, Zenon
  <1>4. 0 <= t /\ t < 365 + Leap(y + 1) /\ t < 366
    BY <1>1, SMT DEF IsDay, Leap
  <1>5. PICK m \in 0 .. 11 : /\ m = MonthOf(t) /\ DaysInto(m) \in Int
                             /\ DaysInto(m) <= t
                             /\ t < DaysInto(m) + MarchLength(m)
    <2>1. /\ MonthOf(t) \in 0 .. 11 /\ DaysInto(MonthOf(t)) \in Int
          /\ DaysInto(MonthOf(t)) <= t
          /\ t < DaysInto(MonthOf(t)) + MarchLength(MonthOf(t))
      BY <1>4, MonthOfDay, SMT
    <2> QED
      BY <2>1, SMT
  <1>6. /\ date[1] = IF m >= 10 THEN y + era * 400 + 1 ELSE y + era * 400
        /\ date[2] = FromMarch(m)
        /\ date[3] = t - DaysInto(m) + 1
    BY <1>1, <1>2, <1>5, MonthsTurn, SMT DEF DateOf
  <1>7. CASE m = 11
    <2>1. DaysInto(11) = 337
      BY SMT DEF DaysInto
    <2>2. Leap(date[1]) = Leap(y + 1)
      BY <1>6, <1>7, SMTT(60) DEF Leap, IsLeap
    <2>3. Leap(y + 1) \in {0, 1}
      BY SMT DEF Leap
    <2>4. MonthLength(date[1], date[2]) = 28 + Leap(y + 1)
      <3>1. date[2] = 2
        BY <1>6, <1>7, SMT DEF FromMarch
      <3>2. MonthLength(date[1], 2) = 28 + Leap(date[1])
        BY SMT DEF MonthLength, Leap
      <3> QED
        BY <2>2, <3>1, <3>2, SMT
    <2> QED
      BY <1>2, <1>3, <1>4, <1>5, <1>6, <1>7, <2>1, <2>3, <2>4, SMT DEF IsDate
  <1>8. CASE m # 11
    <2>1. MonthLength(date[1], date[2]) = MarchLength(m)
      BY <1>6, <1>8, SMT DEF MonthLength, MarchLength, FromMarch
    <2>2. MarchLength(m) \in Int
      BY SMT DEF MarchLength
    <2> QED
      BY <1>2, <1>3, <1>5, <1>6, <2>1, <2>2, SMT DEF IsDate
  <1> QED
    BY <1>7, <1>8


-----------------------------------------------------------------------------
(***************************************************************************)
(* The day a year begins, in March, counted from the year 0.               *)
(***************************************************************************)
Anchor == 719469

\* The days before a year that begins in March.
YearStart(year) == 365 * year + year \div 4 - year \div 100 + year \div 400

\* The start of a year is a number of days.
LEMMA YearStartIsInt == ASSUME NEW y \in Int PROVE YearStart(y) \in Int
  BY SMT DEF YearStart

\* A year starts a year after the one before.
LEMMA NextYearStart ==
  ASSUME NEW y \in Int
  PROVE  YearStart(y + 1) = YearStart(y) + 365 + Leap(y + 1)
  <1>1. (y + 1) \div 4 - (y + 1) \div 100 + (y + 1) \div 400
          = y \div 4 - y \div 100 + y \div 400 + Leap(y + 1)
    BY LeapIsOneMore, SMT
  <1>2. Leap(y + 1) \in Int
    BY SMT DEF Leap
  <1> QED
    BY <1>1, <1>2, SMT DEF YearStart

\* No year starts before an earlier one.
LEMMA YearsInOrder ==
  ASSUME NEW y \in Int, NEW z \in Int, y <= z
  PROVE  YearStart(y) <= YearStart(z)
  <1>1. PICK q \in Int : q = y \div 4 /\ IsQuot(q, y, 4)
    BY By4, SMT DEF IsQuot
  <1>2. PICK h \in Int : h = y \div 100 /\ IsQuot(h, y, 100)
    BY By100, SMT DEF IsQuot
  <1>3. PICK k \in Int : k = y \div 400 /\ IsQuot(k, y, 400)
    BY By400, SMT DEF IsQuot
  <1>4. PICK r \in Int : r = z \div 4 /\ IsQuot(r, z, 4)
    BY By4, SMT DEF IsQuot
  <1>5. PICK i \in Int : i = z \div 100 /\ IsQuot(i, z, 100)
    BY By100, SMT DEF IsQuot
  <1>6. PICK j \in Int : j = z \div 400 /\ IsQuot(j, z, 400)
    BY By400, SMT DEF IsQuot
  <1>7. 365 * y + q - h + k <= 365 * z + r - i + j
    <2>1. IsQuot(q, y, 4) /\ IsQuot(h, y, 100) /\ IsQuot(k, y, 400)
      BY <1>1, <1>2, <1>3
    <2>2. IsQuot(r, z, 4) /\ IsQuot(i, z, 100) /\ IsQuot(j, z, 400)
      BY <1>4, <1>5, <1>6
    <2> QED
      BY <2>1, <2>2, SMTT(60) DEF IsQuot
  <1> QED
    BY <1>1, <1>2, <1>3, <1>4, <1>5, <1>6, <1>7, SMT DEF YearStart

\* An era starts its years as the first era does.
LEMMA StartInEra ==
  ASSUME NEW y \in Int, NEW era \in Int
  PROVE  YearStart(y + era * 400) = YearStart(y) + era * 146097
  BY SMTT(60) DEF YearStart

\* The days before a year of an era are those before the year.
LEMMA StartOfYearOfEra ==
  ASSUME NEW y \in Int, 0 <= y, y < 400
  PROVE  DaysBefore(y) = YearStart(y)
  BY SMTT(60) DEF YearStart, DaysBefore


\* The year that began in March.
MarchYear(year, month) == IF month <= 2 THEN year - 1 ELSE year

\* The days of a date are those up to its year, its month and its day.
LEMMA DaysFromStart ==
  ASSUME NEW year \in Int, NEW month \in 1 .. 12, NEW day \in Int
  PROVE  CivilDays(year, month, day)
           = YearStart(MarchYear(year, month)) + DaysInto(ToMarch(month)) + day - Anchor
  <1>1. PICK y \in Int : y = MarchYear(year, month)
    BY SMT DEF MarchYear
  <1>2. IsQuot(Era(y, 400), y, 400)
    BY EraOfYear, SMT
  <1>3. PICK era \in Int : era = Era(y, 400) /\ IsQuot(era, y, 400)
    BY <1>2, SMT DEF IsQuot
  <1>4. PICK n \in Int : n = y - era * 400 /\ 0 <= n /\ n < 400 /\ y = n + era * 400
    BY <1>3, SMT DEF IsQuot
  <1>5. YearStart(y) = YearStart(n) + era * 146097 /\ DaysBefore(n) = YearStart(n)
    BY <1>4, StartInEra, StartOfYearOfEra, SMT
  <1>6. PICK into \in Int : into = DaysInto(ToMarch(month))
    BY SMT DEF DaysInto, ToMarch
  <1>7. CivilDays(year, month, day)
          = era * 146097 + (DaysBefore(n) + (into + day - 1)) - 719468
    BY <1>1, <1>3, <1>4, <1>6, SMT DEF CivilDays, MarchYear
  <1>8. YearStart(n) \in Int
    BY YearStartIsInt, SMT
  <1> QED
    BY <1>1, <1>5, <1>6, <1>7, <1>8, SMT DEF Anchor

\* The days before each month, from March on.
LEMMA IntoMonths ==
  /\ DaysInto(0) = 0 /\ DaysInto(1) = 31 /\ DaysInto(2) = 61
  /\ DaysInto(3) = 92 /\ DaysInto(4) = 122 /\ DaysInto(5) = 153
  /\ DaysInto(6) = 184 /\ DaysInto(7) = 214 /\ DaysInto(8) = 245
  /\ DaysInto(9) = 275 /\ DaysInto(10) = 306 /\ DaysInto(11) = 337
  BY SMT DEF DaysInto

(***************************************************************************)
(* The day the counting starts from (src/temporal.rs civil_days).          *)
(***************************************************************************)
THEOREM EpochIs1970 == CivilDays(1970, 1, 1) = 0
  BY SMT DEF CivilDays, Era, Quot, DaysBefore, DaysInto, ToMarch

(***************************************************************************)
(* `civil_days` counts the days of the calendar one by one: the day after  *)
(* a day, over the end of a month, a February and a year, is one more      *)
(* (src/temporal.rs civil_days).                                           *)
(***************************************************************************)
THEOREM DaysCountUp ==
  ASSUME NEW date, IsDate(date), NEW after, after = DayAfter(date)
  PROVE  CivilDays(after[1], after[2], after[3])
           = CivilDays(date[1], date[2], date[3]) + 1
  <1>1. PICK year \in Int, month \in 1 .. 12, day \in Int :
          date = <<year, month, day>>
    BY SMT DEF IsDate
  <1>2. CivilDays(date[1], date[2], date[3])
          = YearStart(MarchYear(year, month)) + DaysInto(ToMarch(month)) + day - Anchor
    <2>1. CivilDays(year, month, day)
            = YearStart(MarchYear(year, month)) + DaysInto(ToMarch(month)) + day - Anchor
      BY DaysFromStart, Zenon
    <2> QED
      BY <1>1, <2>1, SMT
  <1>3. /\ Anchor \in Int /\ YearStart(year) \in Int /\ YearStart(year - 1) \in Int
        /\ YearStart(MarchYear(year, month)) \in Int
    BY YearStartIsInt, SMT DEF Anchor, MarchYear
  <1>4. DaysInto(ToMarch(month)) \in Int
    BY SMT DEF DaysInto, ToMarch
  <1>5. CASE day < MonthLength(year, month)
    <2>1. after = <<year, month, day + 1>>
      BY <1>1, <1>5, SMT DEF DayAfter
    <2>2. CivilDays(year, month, day + 1)
            = YearStart(MarchYear(year, month)) + DaysInto(ToMarch(month)) + (day + 1) - Anchor
      <3>1. day + 1 \in Int
        OBVIOUS
      <3> QED
        BY <3>1, DaysFromStart, Zenon
    <2> QED
      BY <1>2, <1>3, <1>4, <2>1, <2>2, SMT
  <1>6. CASE day = MonthLength(year, month) /\ month < 12
    <2>1. after = <<year, month + 1, 1>>
      BY <1>1, <1>6, SMT DEF DayAfter
    <2>2. CivilDays(year, month + 1, 1)
            = YearStart(MarchYear(year, month + 1)) + DaysInto(ToMarch(month + 1)) + 1 - Anchor
      <3>1. month + 1 \in 1 .. 12 /\ 1 \in Int
        BY <1>6, SMT
      <3> QED
        BY <3>1, DaysFromStart, Zenon
    <2>3. CASE month = 2
      <3>1. MonthLength(year, month) = 28 + Leap(year)
        BY <2>3, SMT DEF MonthLength, Leap
      <3>2. YearStart(year) = YearStart(year - 1) + 365 + Leap(year)
        <4>1. PICK before \in Int : before = year - 1
          BY SMT
        <4>2. YearStart(before + 1) = YearStart(before) + 365 + Leap(before + 1)
          BY NextYearStart, SMT
        <4> QED
          BY <4>1, <4>2, SMT
      <3>3. DaysInto(ToMarch(2)) = 337 /\ DaysInto(ToMarch(3)) = 0
        BY IntoMonths, SMT DEF ToMarch
      <3>4. Leap(year) \in Int
        BY SMT DEF Leap
      <3>5. MarchYear(year, 2) = year - 1 /\ MarchYear(year, 3) = year
        BY SMT DEF MarchYear
      <3> QED
        BY <1>2, <1>3, <1>6, <2>1, <2>2, <2>3, <3>1, <3>2, <3>3, <3>4, <3>5, SMT
    <2>4. CASE month # 2
      <3>1. DaysInto(ToMarch(month + 1))
              = DaysInto(ToMarch(month)) + MonthLength(year, month)
        BY <1>6, <2>4, IntoMonths, SMT DEF ToMarch, MonthLength
      <3>2. MarchYear(year, month + 1) = MarchYear(year, month)
        BY <2>4, SMT DEF MarchYear
      <3>3. MonthLength(year, month) \in Int
        BY SMT DEF MonthLength
      <3> QED
        BY <1>2, <1>3, <1>4, <1>6, <2>1, <2>2, <3>1, <3>2, <3>3, SMT
    <2> QED
      BY <2>3, <2>4
  <1>7. CASE day = MonthLength(year, month) /\ month = 12
    <2>1. day = 31 /\ after = <<year + 1, 1, 1>>
      BY <1>1, <1>7, SMT DEF DayAfter, MonthLength
    <2>2. CivilDays(year + 1, 1, 1)
            = YearStart(MarchYear(year + 1, 1)) + DaysInto(ToMarch(1)) + 1 - Anchor
      <3>1. year + 1 \in Int /\ 1 \in 1 .. 12 /\ 1 \in Int
        BY SMT
      <3> QED
        BY <3>1, DaysFromStart, Zenon
    <2>3. DaysInto(ToMarch(12)) = 275 /\ DaysInto(ToMarch(1)) = 306
      BY IntoMonths, SMT DEF ToMarch
    <2>4. MarchYear(year + 1, 1) = year /\ MarchYear(year, 12) = year
      BY SMT DEF MarchYear
    <2> QED
      BY <1>2, <1>3, <1>7, <2>1, <2>2, <2>3, <2>4, SMT
  <1>8. day <= MonthLength(year, month) /\ MonthLength(year, month) \in Int
    BY <1>1, SMT DEF IsDate, MonthLength
  <1> QED
    BY <1>5, <1>6, <1>7, <1>8, SMT


-----------------------------------------------------------------------------
(***************************************************************************)
(* A day has one place in the eras.                                        *)
(***************************************************************************)
LEMMA YearFits ==
  ASSUME NEW y \in Int, 0 <= y, y < 400, NEW t \in Int, 0 <= t, t < 365 + Leap(y + 1)
  PROVE  0 <= DaysBefore(y) + t /\ DaysBefore(y) + t < 146097
  <1>1. YearStart(y + 1) = YearStart(y) + 365 + Leap(y + 1)
    BY NextYearStart, SMT
  <1>2. DaysBefore(y) = YearStart(y)
    BY StartOfYearOfEra, SMT
  <1>3. YearStart(0) = 0 /\ YearStart(400) = 146097
    BY SMT DEF YearStart
  <1>4. YearStart(0) <= YearStart(y)
    <2>1. PICK zero \in Int : zero = 0
      BY SMT
    <2>2. YearStart(zero) <= YearStart(y)
      BY <2>1, YearsInOrder, SMT
    <2> QED
      BY <2>1, <2>2, SMT
  <1>5. YearStart(y + 1) <= YearStart(400)
    <2>1. PICK next \in Int : next = y + 1
      BY SMT
    <2>2. PICK end \in Int : end = 400
      BY SMT
    <2>3. YearStart(next) <= YearStart(end)
      BY <2>1, <2>2, YearsInOrder, SMT
    <2> QED
      BY <2>1, <2>2, <2>3, SMT
  <1>6. YearStart(y) \in Int /\ Leap(y + 1) \in Int
    BY YearStartIsInt, SMT DEF Leap
  <1> QED
    BY <1>1, <1>2, <1>3, <1>4, <1>5, <1>6, SMT

\* A day of an earlier year comes before every day of a later one.
LEMMA LaterYear ==
  ASSUME NEW y \in Int, 0 <= y, NEW z \in Int, z < 400, y < z,
         NEW t \in Int, t < 365 + Leap(y + 1)
  PROVE  DaysBefore(y) + t < DaysBefore(z)
  <1>1. YearStart(y + 1) = YearStart(y) + 365 + Leap(y + 1)
    BY NextYearStart, SMT
  <1>2. DaysBefore(y) = YearStart(y) /\ DaysBefore(z) = YearStart(z)
    BY StartOfYearOfEra, SMT
  <1>3. YearStart(y + 1) <= YearStart(z)
    <2>1. PICK next \in Int : next = y + 1
      BY SMT
    <2>2. YearStart(next) <= YearStart(z)
      BY <2>1, YearsInOrder, SMT
    <2> QED
      BY <2>1, <2>2, SMT
  <1>4. YearStart(y) \in Int /\ Leap(y + 1) \in Int /\ YearStart(z) \in Int
    BY YearStartIsInt, SMT DEF Leap
  <1> QED
    BY <1>1, <1>2, <1>3, <1>4, SMT

\* A day has one place in the eras.
LEMMA OnePlaceInTheEras ==
  ASSUME NEW days \in Int,
         NEW era \in Int, NEW y \in Int, NEW t \in Int, IsDay(days, era, y, t),
         NEW age \in Int, NEW z \in Int, NEW u \in Int, IsDay(days, age, z, u)
  PROVE  era = age /\ y = z /\ t = u
  <1>1. /\ 0 <= y /\ y < 400 /\ 0 <= t /\ t < 365 + Leap(y + 1) /\ DaysBefore(y) \in Int
        /\ 0 <= z /\ z < 400 /\ 0 <= u /\ u < 365 + Leap(z + 1) /\ DaysBefore(z) \in Int
        /\ days = era * 146097 + DaysBefore(y) + t - 719468
        /\ days = age * 146097 + DaysBefore(z) + u - 719468
    BY SMT DEF IsDay
  <1>2. /\ 0 <= DaysBefore(y) + t /\ DaysBefore(y) + t < 146097
        /\ 0 <= DaysBefore(z) + u /\ DaysBefore(z) + u < 146097
    BY <1>1, YearFits, SMT
  <1>3. era = age
    BY <1>1, <1>2, SMT
  <1>4. ~(y < z)
    <2>1. y < z => DaysBefore(y) + t < DaysBefore(z)
      BY <1>1, LaterYear, SMT
    <2> QED
      BY <1>1, <1>3, <2>1, SMT
  <1>5. ~(z < y)
    <2>1. z < y => DaysBefore(z) + u < DaysBefore(y)
      BY <1>1, LaterYear, SMT
    <2> QED
      BY <1>1, <1>3, <2>1, SMT
  <1> QED
    BY <1>1, <1>3, <1>4, <1>5, SMT

\* The month is found again in the day of its year.
LEMMA MonthFound ==
  ASSUME NEW m \in 0 .. 11, NEW day \in Int, 1 <= day, day <= MarchLength(m)
  PROVE  MonthOf(DaysInto(m) + day - 1) = m
  <1>1. PICK n \in Int : n = DaysInto(m) /\ IsQuot(n, 153 * m + 2, 5)
    <2>1. PICK k \in Int : k = 153 * m + 2
      BY SMT
    <2>2. IsQuot(k \div 5, k, 5)
      BY By5, SMT
    <2>3. DaysInto(m) = k \div 5
      BY <2>1, SMT DEF DaysInto
    <2> QED
      BY <2>1, <2>2, <2>3, SMT DEF IsQuot
  <1>2. PICK t \in Int : t = n + day - 1
    BY SMT
  <1>3. PICK q \in Int : q = (5 * t + 2) \div 153 /\ IsQuot(q, 5 * t + 2, 153)
    BY By153, SMT DEF IsQuot
  <1>4. q = m
    BY <1>1, <1>2, <1>3, SMT DEF IsQuot, MarchLength
  <1> QED
    BY <1>1, <1>2, <1>3, <1>4, SMT DEF MonthOf

(***************************************************************************)
(* Every date of the calendar comes back from its day as itself: with      *)
(* CivilComesBack, days and dates are one to one                           *)
(* (src/temporal.rs civil, civil_days).                                    *)
(***************************************************************************)
THEOREM DateComesBack ==
  ASSUME NEW date, IsDate(date)
  PROVE  Civil(CivilDays(date[1], date[2], date[3])) = date
  <1>1. PICK year \in Int, month \in 1 .. 12, day \in Int :
          /\ date = <<year, month, day>>
          /\ 1 <= day /\ day <= MonthLength(year, month)
    BY SMT DEF IsDate
  <1>2. PICK r \in Int : r = MarchYear(year, month)
    BY SMT DEF MarchYear
  <1>3. IsQuot(Era(r, 400), r, 400)
    BY EraOfYear, SMT
  <1>4. PICK era \in Int : era = Era(r, 400) /\ IsQuot(era, r, 400)
    BY <1>3, SMT DEF IsQuot
  <1>5. PICK y \in Int : y = r - era * 400 /\ 0 <= y /\ y < 400 /\ r = y + era * 400
    BY <1>4, SMT DEF IsQuot
  <1>6. PICK m \in 0 .. 11 : m = ToMarch(month) /\ FromMarch(m) = month
                             /\ (month <= 2 <=> m >= 10)
    BY SMT DEF ToMarch, FromMarch
  <1>7. PICK t \in Int : t = DaysInto(m) + day - 1
    BY SMT DEF DaysInto
  <1>8. day <= MarchLength(m)
    BY <1>1, <1>6, SMT DEF MarchLength, MonthLength, FromMarch
  <1>9. MonthOf(t) = m
    BY <1>1, <1>7, <1>8, MonthFound, SMT
  <1>10. 0 <= t /\ t < 365 + Leap(y + 1)
    <2>1. Leap(y + 1) \in {0, 1}
      BY SMT DEF Leap
    <2>2. CASE m = 11
      <3>1. month = 2 /\ r = year - 1
        BY <1>2, <1>6, <2>2, SMT DEF FromMarch, MarchYear
      <3>2. year = y + 1 + era * 400
        BY <1>5, <3>1, SMT
      <3>3. Leap(year) = Leap(y + 1)
        BY <3>2, SMTT(60) DEF Leap, IsLeap
      <3>4. MonthLength(year, month) = 28 + Leap(year)
        BY <3>1, SMT DEF MonthLength, Leap
      <3> QED
        BY <1>1, <1>7, <2>1, <2>2, <3>3, <3>4, IntoMonths, SMT
    <2>3. CASE m # 11
      BY <1>1, <1>7, <1>8, <2>1, <2>3, IntoMonths, SMT DEF MarchLength
    <2> QED
      BY <2>2, <2>3
  <1>11. PICK days \in Int : days = CivilDays(year, month, day)
    BY SMT DEF CivilDays, Era, Quot, DaysBefore, DaysInto, ToMarch
  <1>12. IsDay(days, era, y, t)
    <2>1. CivilDays(year, month, day)
            = era * 146097 + (DaysBefore(y) + (DaysInto(m) + day - 1)) - 719468
      BY <1>2, <1>4, <1>5, <1>6, SMT DEF CivilDays, MarchYear
    <2>2. DaysBefore(y) \in Int /\ DaysInto(m) \in Int
      BY SMT DEF DaysBefore, DaysInto
    <2>3. days = era * 146097 + DaysBefore(y) + t - 719468
      BY <1>7, <1>11, <2>1, <2>2, SMT
    <2> QED
      BY <1>5, <1>10, <2>2, <2>3, SMT DEF IsDay
  <1>13. PICK age, z, u \in Int : IsDay(days, age, z, u) /\ Civil(days) = DateOf(age, z, u)
    BY CivilParts, Zenon
  <1>14. era = age /\ y = z /\ t = u
    BY <1>12, <1>13, OnePlaceInTheEras, Zenon
  <1>15. Civil(days) = DateOf(era, y, t)
    BY <1>13, <1>14
  <1>16. DateOf(era, y, t) = <<year, month, day>>
    <2>1. (IF month <= 2 THEN y + era * 400 + 1 ELSE y + era * 400) = year
      BY <1>2, <1>5, SMT DEF MarchYear
    <2>2. t - DaysInto(m) + 1 = day
      BY <1>7, SMT DEF DaysInto
    <2> QED
      BY <1>6, <1>9, <2>1, <2>2, SMT DEF DateOf
  <1>17. CivilDays(date[1], date[2], date[3]) = days
    <2>1. date[1] = year /\ date[2] = month /\ date[3] = day
      BY <1>1, SMT
    <2> QED
      BY <1>11, <2>1, Zenon
  <1>18. Civil(days) = date
    BY <1>1, <1>15, <1>16, SMT
  <1> QED
    BY <1>17, <1>18, SMT

-----------------------------------------------------------------------------
(***************************************************************************)
(* What a value counts as is what it means.                                *)
(***************************************************************************)
\* The days of a year before each of its months, as Meanings adds them up.
Adds(days, year) ==
  days = [month \in 0 .. 11 |->
            IF month = 0 THEN 0 ELSE days[month - 1] + MonthLength(year, month)]

\* The days before each month of a year, in closed form.
InMonths(year) ==
  [month \in 0 .. 11 |->
     CASE month = 0 -> 0
       [] month = 1 -> 31
       [] OTHER -> DaysInto(month - 2) + 59 + Leap(year)]

\* The lengths of the months add up to the days before each month.
LEMMA MonthsAddUp ==
  ASSUME NEW year \in Int, NEW days, Adds(days, year)
  PROVE  days = InMonths(year)
  <1> DEFINE L == Leap(year)
             Days(month) == MonthLength(year, month)
             D(month) == days[month - 1] + Days(month)
  <1>1. L \in {0, 1} /\ (IsLeap(year) <=> L = 1)
    BY DEF Leap
  <1>2. /\ Days(1) = 31 /\ Days(2) = 28 + L /\ Days(3) = 31 /\ Days(4) = 30
        /\ Days(5) = 31 /\ Days(6) = 30 /\ Days(7) = 31 /\ Days(8) = 31
        /\ Days(9) = 30 /\ Days(10) = 31 /\ Days(11) = 30
    BY <1>1 DEF MonthLength
  <1>3. /\ days[0] = 0
        /\ \A month \in 1 .. 11 : days[month] = D(month)
    BY DEF Adds
  <1> HIDE DEF Days, L
  <1>4. /\ days[0] = 0 /\ days[1] = 31 /\ days[2] = 59 + L
        /\ days[3] = 90 + L /\ days[4] = 120 + L /\ days[5] = 151 + L
    BY <1>1, <1>2, <1>3
  <1>5. /\ days[6] = 181 + L /\ days[7] = 212 + L /\ days[8] = 243 + L
        /\ days[9] = 273 + L /\ days[10] = 304 + L /\ days[11] = 334 + L
    BY <1>1, <1>2, <1>3, <1>4
  <1>6. \A month \in 0 .. 11 : days[month] = InMonths(year)[month]
    BY <1>1, <1>4, <1>5, IntoMonths DEF InMonths, L
  <1> QED
    BY <1>6 DEF Adds, InMonths

\* And there is such a sum.
LEMMA MonthsAreThere ==
  ASSUME NEW year \in Int
  PROVE  \E days : Adds(days, year)
  <1> DEFINE days == InMonths(year)
             L == Leap(year)
  <1>1. L \in {0, 1} /\ (IsLeap(year) <=> L = 1)
    BY DEF Leap
  <1>2. ASSUME NEW month \in 1 .. 11
        PROVE  days[month] = days[month - 1] + MonthLength(year, month)
    BY <1>1, IntoMonths DEF InMonths, MonthLength
  <1>3. days[0] = 0
    BY DEF InMonths
  <1>4. Adds(days, year)
    BY <1>2, <1>3 DEF Adds, InMonths
  <1> QED
    BY <1>4

\* `civil_days` is the count of the days, over the years and over the months.
LEMMA CivilDaysCount ==
  ASSUME NEW date, IsDate(date)
  PROVE  CivilDays(date[1], date[2], date[3]) = DayCount(date)
  <1>1. PICK year \in Int, month \in 1 .. 12, day \in Int :
          date = <<year, month, day>>
    BY SMT DEF IsDate
  <1> DEFINE months == CHOOSE months : months =
               [m \in 0 .. 11 |-> IF m = 0 THEN 0
                                  ELSE months[m - 1] + MonthLength(date[1], m)]
             before == date[1] - 1
  <1>2. months = InMonths(year)
    <2>1. \E days : days = [m \in 0 .. 11 |-> IF m = 0 THEN 0
                                  ELSE days[m - 1] + MonthLength(date[1], m)]
      BY <1>1, MonthsAreThere DEF Adds
    <2>2. Adds(months, year)
      BY <1>1, <2>1, Zenon DEF Adds
    <2> QED
      BY <2>2, MonthsAddUp
  <1>3. DayCount(date) = 365 * before + before \div 4 - before \div 100 + before \div 400
          + months[date[2] - 1] + date[3] - 719163
    BY SMT DEF DayCount
  <1>4. CivilDays(year, month, day)
          = YearStart(MarchYear(year, month)) + DaysInto(ToMarch(month)) + day - Anchor
    BY DaysFromStart
  <1>5. YearStart(year) = YearStart(year - 1) + 365 + Leap(year)
    <2>1. year - 1 \in Int /\ year - 1 + 1 = year
      OBVIOUS
    <2> QED
      BY <2>1, NextYearStart
  <1>6. YearStart(year - 1) \in Int /\ Leap(year) \in Int
    BY YearStartIsInt DEF Leap
  <1>7. DayCount(date) = YearStart(year - 1) + InMonths(year)[month - 1] + day - 719163
    <2>1. before = year - 1 /\ date[2] = month /\ date[3] = day
      BY <1>1
    <2> HIDE DEF months, before
    <2> QED
      BY <1>2, <1>3, <2>1 DEF YearStart
  <1>8. YearStart(MarchYear(year, month)) + DaysInto(ToMarch(month)) + day - Anchor
          = YearStart(year - 1) + InMonths(year)[month - 1] + day - 719163
    <2>1. CASE month <= 2
      <3>1. MarchYear(year, month) = year - 1 /\ ToMarch(month) = month + 9
        BY <2>1 DEF MarchYear, ToMarch
      <3>2. month = 1 \/ month = 2
        BY <2>1
      <3> QED
        BY <1>6, <3>1, <3>2, IntoMonths DEF InMonths, Anchor
    <2>2. CASE month > 2
      <3>1. MarchYear(year, month) = year /\ ToMarch(month) = month - 3
        BY <2>2 DEF MarchYear, ToMarch
      <3>2. DaysInto(month - 3) \in Int
        BY SMT DEF DaysInto
      <3>3. InMonths(year)[month - 1] = DaysInto(month - 3) + 59 + Leap(year)
        <4>1. month - 1 \in 0 .. 11 /\ month - 1 # 0 /\ month - 1 # 1 /\ month - 1 - 2 = month - 3
          BY <2>2
        <4> QED
          BY <4>1 DEF InMonths
      <3> QED
        BY <1>5, <1>6, <3>1, <3>2, <3>3 DEF Anchor
    <2> QED
      BY <2>1, <2>2
  <1>9. CivilDays(date[1], date[2], date[3]) = CivilDays(year, month, day)
    BY <1>1
  <1> QED
    BY <1>4, <1>7, <1>8, <1>9

\* The days of a date are a number.
LEMMA DaysAreInt ==
  ASSUME NEW date, IsDate(date)
  PROVE  CivilDays(date[1], date[2], date[3]) \in Int
  <1>1. PICK year \in Int, month \in 1 .. 12, day \in Int : date = <<year, month, day>>
    BY SMT DEF IsDate
  <1>2. CivilDays(year, month, day)
          = YearStart(MarchYear(year, month)) + DaysInto(ToMarch(month)) + day - Anchor
    BY <1>1, DaysFromStart
  <1>3. MarchYear(year, month) \in Int
    BY DEF MarchYear
  <1>4. YearStart(MarchYear(year, month)) \in Int
    BY <1>3, YearStartIsInt
  <1>5. ToMarch(month) \in Int
    BY DEF ToMarch
  <1>6. DaysInto(ToMarch(month)) \in Int
    BY <1>5, SMT DEF DaysInto
  <1> QED
    BY <1>1, <1>2, <1>4, <1>6 DEF Anchor

\* The sizes are positive numbers.
LEMMA Constants ==
  /\ HourCount \in Nat /\ Sixty \in Nat /\ Thousand \in Nat /\ Thousand > 0
  /\ Word \in Nat /\ Word > 0
  /\ Exact \in Nat /\ Exact > 0 /\ Exact % 2 = 0
  BY TemporalAssumption, ValuesAssumption

\* The spans are numbers, and a second is a thousand thousands of its parts.
LEMMA Spans ==
  /\ Second \in Nat /\ Minute \in Nat /\ Hour \in Nat /\ Day \in Nat
  /\ Second \div Thousand = Thousand * Thousand
  <1>1. Thousand * Thousand \in Nat
    BY Constants
  <1>2. Second \in Nat
    BY <1>1, Constants DEF Second
  <1>3. Minute \in Nat
    BY <1>2, Constants DEF Minute
  <1>4. Hour \in Nat
    BY <1>3, Constants DEF Hour
  <1>5. Day \in Nat
    BY <1>4, Constants DEF Day
  <1>6. Second \div Thousand = Thousand * Thousand
    BY <1>1, Constants DEF Second
  <1> QED
    BY <1>2, <1>3, <1>4, <1>5, <1>6

\* A time of day is counted field by field.
LEMMA ClockCounts ==
  ASSUME NEW clock, IsClock(clock)
  PROVE  NanosOf(clock) = ClockCount(clock) /\ ClockCount(clock) \in Int
  <1>0. /\ clock[1] \in Int /\ clock[2] \in Int /\ clock[3] \in Int
        /\ clock[4] \in Int /\ clock[5] \in Int /\ clock[6] \in Int
    BY Constants DEF IsClock
  <1>1. PICK h \in Int, m \in Int, s \in Int, i \in Int, u \in Int, n \in Int :
          /\ h = clock[1] /\ m = clock[2] /\ s = clock[3]
          /\ i = clock[4] /\ u = clock[5] /\ n = clock[6]
    BY <1>0
  <1>2. PICK second \in Int : second = Second
    BY Spans
  <1>3. PICK t \in Int : t = Thousand
    BY Constants
  <1>4. PICK w \in Int : w = Sixty
    BY Constants
  <1>5. Minute = w * second /\ Hour = w * (w * second)
    BY <1>2, <1>4 DEF Minute, Hour
  <1>6. ((h * w + m) * w + s) * second + i * t * t + u * t + n
          = h * (w * (w * second)) + m * (w * second) + s * second
              + i * (t * t) + u * t + n
    OBVIOUS
  <1>7. NanosOf(clock) = ((h * w + m) * w + s) * second + i * t * t + u * t + n
    BY <1>1, <1>2, <1>3, <1>4 DEF NanosOf
  <1>8. ClockCount(clock) = h * (w * (w * second)) + m * (w * second) + s * second
          + i * (t * t) + u * t + n
    BY <1>1, <1>2, <1>3, <1>5, Spans DEF ClockCount
  <1> QED
    BY <1>6, <1>7, <1>8

\* Arithmetic in 64 bits of what fits in them is arithmetic.
LEMMA WrapsToItself ==
  ASSUME NEW n \in Int64
  PROVE  Wrapped(n) = n
  BY Constants DEF Int64, Wrapped

\* A duration within a word binds as what it means or is refused.
LEMMA DurationMeant ==
  ASSUME NEW f, MonthsOf(f) \in Int64, LengthOf(f) \in Int64
  PROVE  DurationOf(f) = Refused \/ DurationOf(f) = DurationMeans(f)
  <1>1. Wrapped(MonthsOf(f)) = MonthsOf(f) /\ Wrapped(LengthOf(f)) = LengthOf(f)
    BY WrapsToItself
  <1> QED
    BY <1>1 DEF DurationOf, DurationMeans

-----------------------------------------------------------------------------
(***************************************************************************)
(* The engine's values that a program's become.                            *)
(***************************************************************************)
\* What wraps, wraps into the word it wraps in.
LEMMA WrapsInto ==
  ASSUME NEW n \in Int, NEW w \in Nat, w > 0
  PROVE  ((n + w) % (2 * w)) - w \in -w .. w - 1
  <1>1. PICK d \in Nat : d = 2 * w /\ d > 0
    OBVIOUS
  <1>2. (n + w) % d \in 0 .. d - 1
    BY <1>1
  <1> QED
    BY <1>1, <1>2

\* An offset in an i16, and none where there is none.
LEMMA OffsetFits ==
  ASSUME NEW offset \in Seq(Int), Len(offset) <= 1
  PROVE  \/ offset = None /\ OffsetOf(offset) = None
         \/ /\ offset = <<offset[1]>> /\ OffsetOf(offset) = <<OffsetOf(offset)[1]>>
            /\ OffsetOf(offset)[1] \in Int16 /\ offset[1] \in Int
            /\ offset[1] \in Int16 => OffsetOf(offset)[1] = offset[1]
  <1>1. CASE Len(offset) = 0
    BY <1>1 DEF OffsetOf, None
  <1>2. CASE Len(offset) = 1
    <2>1. offset = <<offset[1]>> /\ offset[1] \in Int /\ DOMAIN offset = 1 .. 1
      BY <1>2
    <2>2. PICK o \in Int : o = offset[1]
      BY <2>1
    <2>3. PICK w \in Nat : w = Short /\ w > 0
      BY TemporalAssumption
    <2> DEFINE wrapped == ((o + w) % (2 * w)) - w
    <2>4. wrapped \in -w .. w - 1
      BY <2>3, WrapsInto
    <2>5. OffsetOf(offset) = [i \in 1 .. 1 |-> wrapped]
      BY <2>1, <2>2, <2>3 DEF OffsetOf
    <2>6. o \in -w .. w - 1 => wrapped = o
      BY <2>3
    <2> HIDE DEF wrapped
    <2>7. OffsetOf(offset) = <<wrapped>>
      BY <2>5
    <2> QED
      BY <2>1, <2>2, <2>3, <2>4, <2>6, <2>7 DEF Int16
  <1>3. Len(offset) = 0 \/ Len(offset) = 1
    OBVIOUS
  <1> QED
    BY <1>1, <1>2, <1>3, Zenon

\* A sequence with nothing after it.
LEMMA NothingAfter ==
  ASSUME NEW S, NEW s \in Seq(S)
  PROVE  s \o <<>> = s
  OBVIOUS

\* A pair with nothing, and with one thing, after it.
LEMMA PairGrows ==
  ASSUME NEW a, NEW b, NEW c
  PROVE  <<a, b>> \o <<>> = <<a, b>> /\ <<a, b>> \o <<c>> = <<a, b, c>>
  <1> DEFINE T == {a, b, c}
  <1>1. <<a, b>> \in Seq(T) /\ <<c>> \in Seq(T)
    OBVIOUS
  <1>2. <<a, b>> \o <<>> = <<a, b>>
    BY <1>1, NothingAfter
  <1>3. <<a, b>> \o <<c>> = <<a, b, c>>
    <2> DEFINE s == <<a, b>> \o <<c>>
    <2>1. s \in Seq(T) /\ Len(s) = 3 /\ s[1] = a /\ s[2] = b /\ s[3] = c
      <3>1. Len(<<a, b>>) = 2 /\ Len(<<c>>) = 1 /\ <<c>>[1] = c
        OBVIOUS
      <3> HIDE DEF T
      <3> QED
        BY <1>1, <3>1
    <2> HIDE DEF s, T
    <2>2. s = <<s[1], s[2], s[3]>>
      BY <2>1
    <2> QED
      BY <2>1, <2>2 DEF s
  <1> QED
    BY <1>2, <1>3

\* A value of a class is a moment.
LEMMA ClassHeld ==
  ASSUME NEW v, IsValue(v), v[1] \in Classes
  PROVE  IsHeld(TemporalOf(v)) /\ TemporalOf(v)[1] \in Moments
  <1>1. CASE v[1] = "ZuDate"
    <2>1. v[2] \in Int
      BY <1>1 DEF IsValue, Numbers
    <2>2. TemporalOf(v) = <<"date", v[2]>>
      BY <1>1 DEF TemporalOf
    <2> QED
      BY <2>1, <2>2 DEF IsHeld, Moments
  <1>2. CASE v[1] = "ZuDuration"
    <2>1. v[2] \in Int64 /\ v[3] \in {"yearMonth", "dayTime"}
      BY <1>2 DEF IsValue, Numbers
    <2>2. TemporalOf(v) = <<v[3], v[2]>>
      BY <1>2 DEF TemporalOf
    <2> QED
      BY <2>1, <2>2 DEF IsHeld, Moments
  <1>3. CASE v[1] \in {"ZuTime", "ZuTimestamp"}
    <2>1. v[2] \in Int64 /\ v[3] \in Seq(Int) /\ Len(v[3]) <= 1
      BY <1>3 DEF IsValue, Numbers
    <2>2. v[2] \in Int
      BY <2>1, Constants DEF Int64
    <2> DEFINE local == IF v[1] = "ZuTime" THEN "localTime" ELSE "localDatetime"
               zoned == IF v[1] = "ZuTime" THEN "zonedTime" ELSE "zonedDatetime"
    <2>3. TemporalOf(v) = <<IF v[3] = None THEN local ELSE zoned, v[2]>> \o OffsetOf(v[3])
      BY <1>3 DEF TemporalOf
    <2>4. CASE v[3] = None
      <3>1. OffsetOf(v[3]) = <<>>
        BY <2>4 DEF OffsetOf, None
      <3>2. TemporalOf(v) = <<local, v[2]>>
        BY <2>3, <2>4, <3>1, PairGrows
      <3> QED
        BY <2>1, <2>2, <3>2 DEF IsHeld, Moments
    <2>5. CASE v[3] # None
      <3>1. PICK o \in Int16 : OffsetOf(v[3]) = <<o>>
        BY <2>1, <2>5, OffsetFits
      <3>2. TemporalOf(v) = <<zoned, v[2], o>>
        BY <2>3, <2>5, <3>1, PairGrows
      <3> QED
        BY <2>1, <3>1, <3>2 DEF IsHeld, Moments
    <2> QED
      BY <2>4, <2>5
  <1> QED
    BY <1>1, <1>2, <1>3 DEF Classes

\* The fields of a duration add up to numbers.
LEMMA FieldsAreInt ==
  ASSUME NEW f \in [1 .. 10 -> Int]
  PROVE  MonthsOf(f) \in Int /\ LengthOf(f) \in Int
  <1>1. \A i \in 1 .. 10 : f[i] \in Int
    OBVIOUS
  <1>2. PICK h \in Int, w \in Int, t \in Int, s \in Int :
          h = HourCount /\ w = Sixty /\ t = Thousand /\ s = Second
    BY Constants, Spans
  <1>3. MonthsOf(f) \in Int
    BY <1>1 DEF MonthsOf
  <1>4. PICK a \in Int : a = (f[3] * 7 + f[4]) * h + f[5]
    BY <1>1
  <1>5. PICK b \in Int : b = (a * w + f[6]) * w + f[7]
    BY <1>1
  <1>6. PICK c \in Int : c = f[8] * t * t + f[9] * t + f[10]
    BY <1>1
  <1>7. LengthOf(f) = b * s + f[8] * t * t + f[9] * t + f[10]
    BY <1>2, <1>4, <1>5, Zenon DEF LengthOf
  <1>8. b * s \in Int /\ f[8] * t * t \in Int /\ f[9] * t \in Int
    BY <1>1
  <1> QED
    BY <1>1, <1>3, <1>7, <1>8

\* A Temporal value is a moment, or it is refused.
LEMMA TemporalHeld ==
  ASSUME NEW v, IsValue(v), IsTemporal(v)
  PROVE  \/ FromTemporal(v) = Refused
         \/ IsHeld(FromTemporal(v)) /\ FromTemporal(v)[1] \in Moments
  <1>1. CASE v[1] = "PlainDate"
    <2>1. CASE v[3] = "iso8601"
      <3>1. IsDate(v[2])
        BY <1>1, <2>1 DEF IsValue, Numbers
      <3>2. FromTemporal(v) = <<"date", CivilDays(v[2][1], v[2][2], v[2][3])>>
        BY <1>1, <2>1 DEF FromTemporal, DaysOf
      <3> QED
        BY <3>1, <3>2, DaysAreInt DEF IsHeld, Moments
    <2>2. CASE v[3] # "iso8601"
      BY <1>1, <2>2 DEF FromTemporal, DaysOf
    <2> QED
      BY <2>1, <2>2
  <1>2. CASE v[1] = "PlainTime"
    <2>1. IsClock(v[2])
      BY <1>2 DEF IsValue, Numbers
    <2>2. FromTemporal(v) = <<"localTime", NanosOf(v[2])>>
      BY <1>2 DEF FromTemporal
    <2>3. NanosOf(v[2]) \in Int
      BY <2>1, ClockCounts
    <2> QED
      BY <2>2, <2>3 DEF IsHeld, Moments
  <1>3. CASE v[1] = "PlainDateTime"
    <2>1. CASE v[4] = "iso8601"
      <3>1. PICK days, nanos : FromTemporal(v) = Epoch(days, nanos)
        BY <1>3, <2>1 DEF FromTemporal, DaysOf
      <3> QED
        BY <3>1 DEF Epoch, IsHeld, Moments
    <2>2. CASE v[4] # "iso8601"
      BY <1>3, <2>2 DEF FromTemporal, DaysOf
    <2> QED
      BY <2>1, <2>2
  <1>4. CASE v[1] \in {"ZonedDateTime", "Instant"}
    <2>1. PICK nanos, offset : /\ FromTemporal(v) = Since(nanos, offset)
                               /\ offset # <<>> => offset[1] \in Int16
      <3>1. 0 \in Int16
        BY TemporalAssumption DEF Int16
      <3>2. v[1] = "ZonedDateTime" =>
              FromTemporal(v) = Since(v[2], Offset(v[3]))
              /\ (Offset(v[3]) # <<>> => Offset(v[3])[1] \in Int16)
        BY DEF FromTemporal, Offset
      <3>3. v[1] = "Instant" => FromTemporal(v) = Since(v[2], <<0>>)
        BY DEF FromTemporal
      <3> QED
        BY <1>4, <3>1, <3>2, <3>3
    <2> QED
      BY <2>1 DEF Since, IsHeld, Moments
  <1>5. CASE v[1] = "Duration"
    <2>1. FromTemporal(v) = DurationOf(v[2])
      BY <1>5 DEF FromTemporal
    <2>2. v[2] \in [1 .. 10 -> Int]
      BY <1>5 DEF IsValue, Numbers
    <2>3. Wrapped(MonthsOf(v[2])) \in Int64 /\ Wrapped(LengthOf(v[2])) \in Int64
      BY <2>2, FieldsAreInt, WrapsInto, Constants DEF Wrapped, Int64
    <2> QED
      BY <2>1, <2>3 DEF DurationOf, IsHeld, Moments
  <1>6. CASE v[1] = "PlainYearMonth"
    BY <1>6 DEF FromTemporal
  <1> QED
    BY <1>1, <1>2, <1>3, <1>4, <1>5, <1>6 DEF IsTemporal

-----------------------------------------------------------------------------
(***************************************************************************)
(* What a buffer takes of a value.                                         *)
(***************************************************************************)
Kinds == {"int", "float", "boolean", "string", "bytes"} \union LocalMoments

\* A whole number as it is in a column of them.
IsCount(x, v) ==
  /\ x \in Int
  /\ \/ Meaning(v) = <<"number", 2 * x>>
     \/ Meaning(v) = <<"negativeZero">> /\ x = 0

\* A moment that is kept is one of the engine's.
HeldAs(kind, x) == kind \in LocalMoments => IsHeld(<<kind, x>>)

\* What is kept of a value is what it means.
Keeps(kind, x, v) ==
  /\ HeldAs(kind, x)
  /\ \/ kind = "int" /\ IsCount(x, v)
     \/ kind # "int" /\ Standing(<<kind, x>>) = Meaning(v)
     \/ kind \in LocalMoments /\ DurationWraps(v)

\* A whole number counts what it stands for.
LEMMA WholeNumber ==
  ASSUME NEW v, IsValue(v), v[1] \in Numbers, IsWhole(v)
  PROVE  IsCount(WholeOf(v), v)
  <1>1. CASE v[1] = "number"
    <2>1. v[2] \in Int /\ v = <<"number", v[2]>> /\ v[2] % 2 = 0
      BY <1>1 DEF IsValue, IsWhole
    <2>2. 2 * (v[2] \div 2) = v[2] /\ v[2] \div 2 \in Int
      BY <2>1
    <2>3. WholeOf(v) = v[2] \div 2
      BY <1>1 DEF WholeOf
    <2>4. Meaning(v) = v
      BY <1>1 DEF Meaning
    <2> QED
      BY <2>1, <2>2, <2>3, <2>4 DEF IsCount
  <1>2. CASE v[1] # "number"
    <2>1. v[1] = "negativeZero"
      BY <1>2 DEF IsWhole
    <2>2. v = <<"negativeZero">>
      BY <2>1 DEF IsValue, Numbers
    <2>3. WholeOf(v) = 0
      BY <2>1 DEF WholeOf
    <2>4. Meaning(v) = v
      BY <2>1 DEF Meaning
    <2> QED
      BY <2>2, <2>3, <2>4 DEF IsCount
  <1> QED
    BY <1>1, <1>2

\* So does an integer that was read.
LEMMA IntKept ==
  ASSUME NEW v, IsValue(v), ReadInt(v) # None
  PROVE  \E x : ReadInt(v) = <<x>> /\ IsCount(x, v)
  <1>1. CASE v[1] = "bigint" /\ v[2] \in Int64
    <2>1. ReadInt(v) = <<v[2]>>
      BY <1>1 DEF ReadInt, Some, Numbers
    <2>2. Meaning(v) = <<"number", 2 * v[2]>> /\ v[2] \in Int
      BY <1>1, Constants DEF Meaning, Int64
    <2> QED
      BY <2>1, <2>2 DEF IsCount
  <1>2. CASE v[1] \in Numbers /\ IsWhole(v) /\ WithinExact(v)
    <2>1. ReadInt(v) = <<WholeOf(v)>>
      BY <1>2 DEF ReadInt, Some, Numbers
    <2> QED
      BY <1>2, <2>1, WholeNumber
  <1> QED
    BY <1>1, <1>2 DEF ReadInt

\* A number in a column of floats means what it was.
LEMMA FloatKept ==
  ASSUME NEW v, v[1] \in Numbers
  PROVE  Standing(<<"float", v>>) = Meaning(v)
  BY DEF Standing, Meaning, Numbers

\* A moment that a column of moments takes.
LEMMA ClassKept ==
  ASSUME NEW v, IsValue(v), v[1] \in Classes, NEW kind \in LocalMoments,
         TemporalOf(v)[1] = kind
  PROVE  <<kind, TemporalOf(v)[2]>> = Meaning(v)
  <1>1. CASE v[1] = "ZuDate"
    BY <1>1 DEF TemporalOf, Meaning
  <1>2. CASE v[1] = "ZuDuration"
    BY <1>2 DEF TemporalOf, Meaning
  <1>3. CASE v[1] \in {"ZuTime", "ZuTimestamp"}
    <2>1. v[3] \in Seq(Int) /\ Len(v[3]) <= 1
      BY <1>3 DEF IsValue, Numbers
    <2>2. CASE v[3] = None
      <3>1. OffsetOf(v[3]) = <<>>
        BY <2>2 DEF OffsetOf, None
      <3> DEFINE local == IF v[1] = "ZuTime" THEN "localTime" ELSE "localDatetime"
      <3>2. TemporalOf(v) = <<local, v[2]>> \o <<>>
        BY <1>3, <2>2, <3>1 DEF TemporalOf
      <3>3. <<local, v[2]>> \in Seq({local, v[2]})
        OBVIOUS
      <3>4. TemporalOf(v) = <<local, v[2]>>
        BY <3>2, <3>3, NothingAfter
      <3>5. Meaning(v) = <<local, v[2]>>
        BY <1>3, <2>2 DEF Meaning
      <3> QED
        BY <3>4, <3>5
    <2>3. CASE v[3] # None
      <3>1. OffsetOf(v[3]) \in Seq(Int)
        <4>1. PICK n \in Nat : n = Len(v[3]) /\ v[3] \in [1 .. n -> Int]
          BY <2>1
        <4>2. Short \in Int /\ 2 * Short > 0
          BY TemporalAssumption
        <4>3. \A i \in 1 .. n : ((v[3][i] + Short) % (2 * Short)) - Short \in Int
          BY <4>1, <4>2
        <4>4. OffsetOf(v[3]) \in [1 .. n -> Int]
          BY <4>1, <4>3 DEF OffsetOf
        <4> QED
          BY <4>1, <4>4
      <3>2. TemporalOf(v)[1] \in {"zonedTime", "zonedDatetime"}
        BY <1>3, <2>3, <3>1 DEF TemporalOf
      <3> QED
        BY <3>2 DEF LocalMoments
    <2> QED
      BY <2>2, <2>3
  <1> QED
    BY <1>1, <1>2, <1>3 DEF Classes

\* A moment in a column of its kind means what it was.
LEMMA TemporalKept ==
  ASSUME NEW v, IsValue(v), IsTemporal(v), NEW kind \in LocalMoments,
         FromTemporal(v)[1] = kind, ~DurationWraps(v)
  PROVE  <<kind, FromTemporal(v)[2]>> = Meaning(v)
  <1>1. Refused[1] \notin LocalMoments
    BY DEF Refused, LocalMoments
  <1>2. CASE v[1] = "PlainDate"
    <2>1. v[3] = "iso8601"
      BY <1>1, <1>2 DEF FromTemporal, DaysOf
    <2>2. IsDate(v[2])
      BY <1>2, <2>1 DEF IsValue, Numbers
    <2>3. FromTemporal(v) = <<"date", CivilDays(v[2][1], v[2][2], v[2][3])>>
      BY <1>2, <2>1 DEF FromTemporal, DaysOf
    <2>4. Meaning(v) = <<"date", DayCount(v[2])>>
      BY <1>2, <2>1 DEF Meaning, IsISO
    <2> QED
      BY <2>2, <2>3, <2>4, CivilDaysCount
  <1>3. CASE v[1] = "PlainTime"
    <2>1. IsClock(v[2])
      BY <1>3 DEF IsValue, Numbers
    <2>2. FromTemporal(v) = <<"localTime", NanosOf(v[2])>>
      BY <1>3 DEF FromTemporal
    <2>3. Meaning(v) = <<"localTime", ClockCount(v[2])>>
      BY <1>3 DEF Meaning
    <2> QED
      BY <2>1, <2>2, <2>3, ClockCounts
  <1>4. CASE v[1] = "PlainDateTime"
    <2>1. v[4] = "iso8601"
      BY <1>1, <1>4 DEF FromTemporal, DaysOf
    <2>2. IsDate(v[2]) /\ IsClock(v[3])
      BY <1>4, <2>1 DEF IsValue, Numbers
    <2>3. FromTemporal(v)
            = Epoch(CivilDays(v[2][1], v[2][2], v[2][3]), NanosOf(v[3]))
      BY <1>4, <2>1 DEF FromTemporal, DaysOf
    <2>4. FromTemporal(v) = Epoch(DayCount(v[2]), ClockCount(v[3]))
      BY <2>2, <2>3, CivilDaysCount, ClockCounts
    <2>5. FromTemporal(v)
            = <<"localDatetime", DayCount(v[2]) * Day + ClockCount(v[3])>>
      BY <1>1, <2>4 DEF Epoch
    <2>6. Meaning(v) = <<"localDatetime", DayCount(v[2]) * Day + ClockCount(v[3])>>
      BY <1>4, <2>1 DEF Meaning, IsISO
    <2> QED
      BY <2>5, <2>6
  <1>5. CASE v[1] \in {"ZonedDateTime", "Instant"}
    <2>1. PICK nanos, offset : FromTemporal(v) = Since(nanos, offset)
      BY <1>5 DEF FromTemporal
    <2>2. Since(nanos, offset)[1] \notin LocalMoments
      BY <1>1 DEF Since, LocalMoments
    <2> QED
      BY <2>1, <2>2
  <1>6. CASE v[1] = "Duration"
    <2>1. FromTemporal(v) = DurationOf(v[2])
      BY <1>6 DEF FromTemporal
    <2>2. DurationOf(v[2]) = DurationMeans(v[2])
      BY <1>1, <1>6, <2>1, DurationMeant DEF DurationWraps
    <2>3. Meaning(v) = DurationMeans(v[2])
      BY <1>6 DEF Meaning
    <2>4. DurationMeans(v[2]) = <<DurationMeans(v[2])[1], DurationMeans(v[2])[2]>>
      <3>1. DurationMeans(v[2])[1] # "no duration"
        BY <2>1, <2>2 DEF LocalMoments
      <3> QED
        BY <3>1 DEF DurationMeans
    <2> QED
      BY <2>1, <2>2, <2>3, <2>4
  <1>7. CASE v[1] = "PlainYearMonth"
    <2>1. FromTemporal(v) = Refused
      BY <1>7 DEF FromTemporal
    <2> QED
      BY <1>1, <2>1
  <1> QED
    BY <1>2, <1>3, <1>4, <1>5, <1>6, <1>7 DEF IsTemporal

\* What a buffer takes of a value is one thing, which is what the value means.
LEMMA TakenKept ==
  ASSUME NEW v, IsValue(v), NEW kind, Taken(kind, v) # None
  PROVE  kind \in Kinds /\ \E x : Taken(kind, v) = <<x>> /\ Keeps(kind, x, v)
  <1>1. CASE kind = "int"
    <2>1. Taken(kind, v) = ReadInt(v)
      BY <1>1 DEF Taken, LocalMoments
    <2>2. PICK x : ReadInt(v) = <<x>> /\ IsCount(x, v)
      BY <2>1, IntKept
    <2>3. Keeps(kind, x, v)
      BY <1>1, <2>2 DEF Keeps, HeldAs, LocalMoments
    <2> QED
      BY <1>1, <2>1, <2>2, <2>3 DEF Kinds
  <1>2. CASE kind = "float"
    <2>1. v[1] \in Numbers /\ Taken(kind, v) = <<v>>
      BY <1>2 DEF Taken, Some, LocalMoments
    <2>2. Keeps(kind, v, v)
      BY <1>2, <2>1, FloatKept DEF Keeps, HeldAs, LocalMoments
    <2> QED
      BY <1>2, <2>1, <2>2 DEF Kinds
  <1>3. CASE kind \in {"boolean", "string"}
    <2>1. v[1] = kind /\ Taken(kind, v) = <<v[2]>>
      BY <1>3 DEF Taken, Some, LocalMoments
    <2>2. v = <<kind, v[2]>>
      BY <1>3, <2>1 DEF IsValue, Numbers
    <2>3. Standing(<<kind, v[2]>>) = Meaning(v)
      BY <1>3, <2>1, <2>2 DEF Standing, Meaning
    <2>4. Keeps(kind, v[2], v)
      BY <1>3, <2>3 DEF Keeps, HeldAs, LocalMoments
    <2> QED
      BY <1>3, <2>1, <2>4 DEF Kinds
  <1>4. CASE kind = "bytes"
    <2>1. v[1] = "Uint8Array" /\ Taken(kind, v) = <<v[2]>>
      BY <1>4 DEF Taken, Some, LocalMoments
    <2>2. Standing(<<kind, v[2]>>) = Meaning(v)
      BY <1>4, <2>1 DEF Standing, Meaning
    <2>3. Keeps(kind, v[2], v)
      BY <1>4, <2>2 DEF Keeps, HeldAs, LocalMoments
    <2> QED
      BY <1>4, <2>1, <2>3 DEF Kinds
  <1>5. CASE kind \in LocalMoments
    <2>1. Taken(kind, v) = ReadMoment(Moment(v), kind)
      BY <1>5 DEF Taken, LocalMoments
    <2>2. Moment(v)[1] = kind /\ Taken(kind, v) = <<Moment(v)[2]>>
      BY <2>1 DEF ReadMoment, Some
    <2>3. \A x : Standing(<<kind, x>>) = <<kind, x>>
      BY <1>5 DEF Standing, LocalMoments
    <2>4. IsHeld(Moment(v)) => HeldAs(kind, Moment(v)[2])
      <3>1. IsHeld(Moment(v)) => Moment(v) = <<kind, Moment(v)[2]>>
        BY <1>5, <2>2 DEF IsHeld, LocalMoments
      <3> QED
        BY <3>1 DEF HeldAs
    <2>5. CASE v[1] \in Classes
      <3>1. Moment(v) = TemporalOf(v)
        BY <2>5 DEF Moment, IsTemporal, Classes
      <3>2. HeldAs(kind, Moment(v)[2])
        BY <2>4, <2>5, <3>1, ClassHeld
      <3>3. Keeps(kind, Moment(v)[2], v)
        <4>1. <<kind, Moment(v)[2]>> = Meaning(v)
          BY <1>5, <2>2, <2>5, <3>1, ClassKept
        <4> QED
          BY <1>5, <2>3, <3>2, <4>1 DEF Keeps, LocalMoments
      <3> QED
        BY <1>5, <2>2, <3>3 DEF Kinds
    <2>6. CASE v[1] \notin Classes
      <3>1. IsTemporal(v) /\ Moment(v) = FromTemporal(v)
        BY <1>5, <2>2, <2>6 DEF Moment, LocalMoments
      <3>2. HeldAs(kind, Moment(v)[2])
        <4>1. FromTemporal(v) # Refused
          BY <1>5, <2>2, <3>1 DEF Refused, LocalMoments
        <4> QED
          BY <2>4, <3>1, <4>1, TemporalHeld
      <3>3. Keeps(kind, Moment(v)[2], v)
        <4>1. DurationWraps(v) \/ <<kind, Moment(v)[2]>> = Meaning(v)
          BY <1>5, <2>2, <3>1, TemporalKept
        <4> QED
          BY <1>5, <2>3, <3>2, <4>1 DEF Keeps, LocalMoments
      <3> QED
        BY <1>5, <2>2, <3>3 DEF Kinds
    <2> QED
      BY <2>5, <2>6
  <1> QED
    BY <1>1, <1>2, <1>3, <1>4, <1>5 DEF Taken

-----------------------------------------------------------------------------
(***************************************************************************)
(* The clock, for any number of hours, minutes and fractions.              *)
(***************************************************************************)
\* The division of Rust, by any divisor.
LEMMA Divides ==
  ASSUME NEW n \in Nat, NEW d \in Nat, d > 0
  PROVE  /\ n \div d \in Nat
         /\ d * (n \div d) <= n /\ n < d * (n \div d) + d
  OBVIOUS

\* A product is no less than another by the same.
LEMMA TimesKeepsOrder ==
  ASSUME NEW a \in Nat, NEW m \in Int, NEW n \in Int, m <= n
  PROVE  a * m <= a * n
  OBVIOUS

\* A quotient is the only number between its bounds.
LEMMA OneQuotient ==
  ASSUME NEW d \in Nat, NEW n \in Int, NEW p \in Int, NEW q \in Int,
         d * p <= n, n < d * p + d, d * q <= n, n < d * q + d
  PROVE  p = q
  <1>1. ASSUME NEW x \in Int, NEW y \in Int, d * y <= n, n < d * x + d, x < y
        PROVE  FALSE
    <2>1. d * (x + 1) <= d * y
      BY <1>1, TimesKeepsOrder
    <2>2. d * (x + 1) = d * x + d
      OBVIOUS
    <2>3. d * x \in Int /\ d * y \in Int
      OBVIOUS
    <2> QED
      BY <1>1, <2>1, <2>2, <2>3
  <1> QED
    BY <1>1

\* To divide by a product is to divide twice.
LEMMA DividesTwice ==
  ASSUME NEW n \in Nat, NEW a \in Nat, NEW b \in Nat, a > 0, b > 0
  PROVE  n \div (b * a) = (n \div a) \div b
  <1>1. PICK q \in Nat : q = n \div a /\ a * q <= n /\ n < a * q + a
    BY Divides
  <1>2. PICK r \in Nat : r = q \div b /\ b * r <= q /\ q < b * r + b
    BY Divides
  <1>3. b * a \in Nat /\ b * a > 0
    OBVIOUS
  <1>4. PICK p \in Nat : p = n \div (b * a) /\ (b * a) * p <= n /\ n < (b * a) * p + b * a
    BY <1>3, Divides
  <1>5. (b * a) * r <= n
    <2>1. a * (b * r) <= a * q
      BY <1>2, TimesKeepsOrder
    <2>2. a * (b * r) = (b * a) * r
      OBVIOUS
    <2>3. a * (b * r) \in Int /\ a * q \in Int
      OBVIOUS
    <2> QED
      BY <1>1, <2>1, <2>2, <2>3
  <1>6. n < (b * a) * r + b * a
    <2>1. a * (q + 1) <= a * (b * r + b)
      BY <1>2, TimesKeepsOrder
    <2>2. a * (b * r + b) = (b * a) * r + b * a /\ a * (q + 1) = a * q + a
      OBVIOUS
    <2>3. a * q \in Int /\ (b * a) * r \in Int /\ b * a \in Int
      OBVIOUS
    <2> QED
      BY <1>1, <2>1, <2>2, <2>3
  <1> QED
    BY <1>1, <1>2, <1>3, <1>4, <1>5, <1>6, OneQuotient

\* Also toward zero.
LEMMA QuotTwice ==
  ASSUME NEW n \in Int, NEW a \in Nat, NEW b \in Nat, a > 0, b > 0
  PROVE  Quot(n, b * a) = Quot(Quot(n, a), b) /\ Quot(n, a) \in Int
  <1>1. CASE n >= 0
    <2>1. n \div a \in Nat
      BY <1>1
    <2> QED
      BY <1>1, <2>1, DividesTwice DEF Quot
  <1>2. CASE n < 0
    <2>1. PICK m \in Nat : m = -n /\ m > 0
      BY <1>2
    <2>2. PICK q \in Nat : q = m \div a
      BY Divides
    <2>3. m \div (b * a) = q \div b
      BY <2>2, DividesTwice
    <2>4. Quot(n, a) = -q /\ Quot(n, b * a) = -(q \div b)
      BY <1>2, <2>1, <2>2, <2>3 DEF Quot
    <2>5. Quot(-q, b) = -(q \div b)
      <3>1. CASE q = 0
        <4>1. 0 \div b = 0
          OBVIOUS
        <4> QED
          BY <3>1, <4>1 DEF Quot
      <3>2. CASE q > 0
        BY <3>2 DEF Quot
      <3> QED
        BY <3>1, <3>2
    <2> QED
      BY <2>4, <2>5
  <1> QED
    BY <1>1, <1>2

\* A quotient is a number.
LEMMA QuotIsInt ==
  ASSUME NEW n \in Int, NEW a \in Nat, a > 0
  PROVE  Quot(n, a) \in Int
  <1>1. CASE n >= 0
    BY <1>1, Divides DEF Quot
  <1>2. CASE n < 0
    <2>1. -n \in Nat
      BY <1>2
    <2> QED
      BY <1>2, <2>1, Divides DEF Quot
  <1> QED
    BY <1>1, <1>2

\* The quotients a clock is split by, each of the one before it.
LEMMA Quotients ==
  ASSUME NEW n \in Int
  PROVE  /\ Quot(n, Thousand) \in Int
         /\ Quot(n, Thousand * Thousand) = Quot(Quot(n, Thousand), Thousand)
         /\ Quot(n, Thousand * Thousand) \in Int
         /\ Quot(n, Second) = Quot(Quot(n, Thousand * Thousand), Thousand)
         /\ Quot(n, Second) \in Int
         /\ Quot(n, Minute) = Quot(Quot(n, Second), Sixty)
         /\ Quot(n, Minute) \in Int
         /\ Quot(n, Hour) = Quot(Quot(n, Minute), Sixty)
         /\ Quot(n, Hour) \in Int
  <1>1. /\ Thousand \in Nat /\ Thousand > 0 /\ Sixty \in Nat /\ Sixty > 0
        /\ HourCount \in Nat /\ HourCount > 0
    BY TemporalAssumption
  <1>2. Thousand * Thousand \in Nat /\ Thousand * Thousand > 0
    BY <1>1
  <1>3. Second \in Nat /\ Second > 0 /\ Second = Thousand * (Thousand * Thousand)
    BY <1>1, <1>2 DEF Second
  <1>4. Minute \in Nat /\ Minute > 0 /\ Minute = Sixty * Second
    BY <1>1, <1>3 DEF Minute
  <1>5. Hour \in Nat /\ Hour > 0 /\ Hour = Sixty * Minute
    BY <1>1, <1>4 DEF Hour
  <1>6. /\ Quot(n, Thousand * Thousand) = Quot(Quot(n, Thousand), Thousand)
        /\ Quot(n, Thousand) \in Int
    BY <1>1, QuotTwice
  <1>7. /\ Quot(n, Second) = Quot(Quot(n, Thousand * Thousand), Thousand)
        /\ Quot(n, Thousand * Thousand) \in Int
    BY <1>1, <1>2, <1>3, QuotTwice
  <1>8. Quot(n, Minute) = Quot(Quot(n, Second), Sixty) /\ Quot(n, Second) \in Int
    BY <1>1, <1>3, <1>4, QuotTwice
  <1>9. Quot(n, Hour) = Quot(Quot(n, Minute), Sixty) /\ Quot(n, Minute) \in Int
    BY <1>1, <1>4, <1>5, QuotTwice
  <1>10. Quot(n, Hour) \in Int
    BY <1>5, QuotIsInt
  <1> QED
    BY <1>6, <1>7, <1>8, <1>9, <1>10

\* A count is what its fields add up to, before the epoch too.
LEMMA ClockComesBack ==
  ASSUME NEW n \in Int
  PROVE  NanosOf(Clock(n)) = n
  <1>1. PICK t \in Int, w \in Int : t = Thousand /\ w = Sixty
    BY Constants
  <1>2. PICK a \in Int, b \in Int, c \in Int, d \in Int, e \in Int :
          /\ a = Quot(n, Thousand) /\ b = Quot(n, Thousand * Thousand)
          /\ c = Quot(n, Second) /\ d = Quot(n, Minute) /\ e = Quot(n, Hour)
    <2>1. /\ Quot(n, Thousand) \in Int /\ Quot(n, Thousand * Thousand) \in Int
          /\ Quot(n, Second) \in Int /\ Quot(n, Minute) \in Int
          /\ Quot(n, Hour) \in Int
      BY Quotients
    <2> QED
      BY <2>1
  <1>3. /\ b = Quot(a, Thousand) /\ c = Quot(b, Thousand)
        /\ d = Quot(c, Sixty) /\ e = Quot(d, Sixty)
    BY <1>2, Quotients
  <1>4. Clock(n) = <<e, d - w * e, c - w * d, b - t * c, a - t * b, n - t * a>>
    <2>1. /\ Rest(d, Sixty) = d - w * e /\ Rest(c, Sixty) = c - w * d
          /\ Rest(b, Thousand) = b - t * c /\ Rest(a, Thousand) = a - t * b
          /\ Rest(n, Thousand) = n - t * a
      BY <1>3, <1>1, <1>2 DEF Rest
    <2> QED
      BY <1>2, <2>1 DEF Clock
  <1>5. Second = t * t * t
    BY <1>1 DEF Second
  <1>6. NanosOf(Clock(n))
          = ((e * w + (d - w * e)) * w + (c - w * d)) * (t * t * t)
              + (b - t * c) * t * t + (a - t * b) * t + (n - t * a)
    <2>1. NanosOf(Clock(n))
            = ((Clock(n)[1] * Sixty + Clock(n)[2]) * Sixty + Clock(n)[3]) * Second
                + Clock(n)[4] * Thousand * Thousand + Clock(n)[5] * Thousand + Clock(n)[6]
      BY DEF NanosOf
    <2>2. /\ Clock(n)[1] = e /\ Clock(n)[2] = d - w * e /\ Clock(n)[3] = c - w * d
          /\ Clock(n)[4] = b - t * c /\ Clock(n)[5] = a - t * b /\ Clock(n)[6] = n - t * a
      BY <1>4
    <2> QED
      BY <1>1, <1>5, <2>1, <2>2, Zenon
  <1>7. ((e * w + (d - w * e)) * w + (c - w * d)) = c
    OBVIOUS
  <1>8. c * (t * t * t) + (b - t * c) * t * t + (a - t * b) * t + (n - t * a) = n
    OBVIOUS
  <1> QED
    BY <1>6, <1>7, <1>8

\* A rest is less than the divisor.
LEMMA RestFits ==
  ASSUME NEW n \in Nat, NEW d \in Nat, d > 0
  PROVE  Rest(n, d) \in 0 .. d - 1
  BY Divides DEF Rest, Quot

\* The fields of a count within a day are a time of day.
LEMMA ClockIsClock ==
  ASSUME NEW n \in 0 .. Day - 1
  PROVE  IsClock(Clock(n))
  <1>1. /\ Thousand \in Nat /\ Thousand > 0 /\ Sixty \in Nat /\ Sixty > 0
        /\ HourCount \in Nat /\ Day \in Nat /\ n \in Nat
    BY TemporalAssumption, Spans
  <1>2. Thousand * Thousand \in Nat /\ Thousand * Thousand > 0
    BY <1>1
  <1>3. Second \in Nat /\ Second > 0
    BY <1>1, <1>2 DEF Second
  <1>4. Minute \in Nat /\ Minute > 0
    BY <1>1, <1>3 DEF Minute
  <1>5. Hour \in Nat /\ Hour > 0
    BY <1>1, <1>4 DEF Hour
  <1>6. /\ Quot(n, Thousand) \in Nat /\ Quot(n, Thousand * Thousand) \in Nat
        /\ Quot(n, Second) \in Nat /\ Quot(n, Minute) \in Nat
        /\ Quot(n, Hour) \in Nat /\ Hour * Quot(n, Hour) <= n
    BY <1>1, <1>2, <1>3, <1>4, <1>5, Divides DEF Quot
  <1>7. Quot(n, Hour) \in 0 .. HourCount - 1
    <2>1. PICK h \in Nat : h = Hour
      BY <1>5
    <2>2. PICK q \in Nat : q = Quot(n, Hour) /\ h * q <= n
      BY <1>6, <2>1
    <2>3. n < HourCount * h
      BY <1>1, <2>1 DEF Day
    <2>4. ASSUME HourCount <= q
          PROVE  FALSE
      <3>1. h * HourCount <= h * q
        BY <1>1, <2>4, TimesKeepsOrder
      <3>2. h * HourCount = HourCount * h /\ h * q \in Int /\ HourCount * h \in Int
        BY <1>1
      <3> QED
        BY <1>1, <2>2, <2>3, <3>1, <3>2
    <2> QED
      BY <1>1, <2>2, <2>4
  <1>8. /\ Rest(Quot(n, Minute), Sixty) \in 0 .. Sixty - 1
        /\ Rest(Quot(n, Second), Sixty) \in 0 .. Sixty - 1
        /\ Rest(Quot(n, Thousand * Thousand), Thousand) \in 0 .. Thousand - 1
        /\ Rest(Quot(n, Thousand), Thousand) \in 0 .. Thousand - 1
        /\ Rest(n, Thousand) \in 0 .. Thousand - 1
    BY <1>1, <1>6, RestFits
  <1> QED
    BY <1>7, <1>8 DEF IsClock, Clock

-----------------------------------------------------------------------------
(***************************************************************************)
(* There and back.                                                         *)
(***************************************************************************)
\* What Temporal makes of a moment, and what is made of that.
ThereAndBack(h) ==
  IF ToTemporal(h) = Thrown THEN HasNoTemporal(h)
  ELSE FromTemporal(ToTemporal(h)) = h \/ LosesItsWay(h)

\* A date comes back: the calendar's round trip.
LEMMA DatesComeBack ==
  ASSUME NEW n \in Int
  PROVE  ThereAndBack(<<"date", n>>)
  <1> DEFINE h == <<"date", n>>
  <1>1. ToTemporal(h) = Built(n \in -Reach .. Reach, <<"PlainDate", Civil(n), "iso8601">>)
    BY DEF ToTemporal
  <1>2. CASE n \in -Reach .. Reach
    <2>1. ToTemporal(h) = <<"PlainDate", Civil(n), "iso8601">>
      BY <1>1, <1>2 DEF Built
    <2>2. FromTemporal(<<"PlainDate", Civil(n), "iso8601">>)
            = <<"date", CivilDays(Civil(n)[1], Civil(n)[2], Civil(n)[3])>>
      BY DEF FromTemporal, DaysOf
    <2>3. <<"PlainDate", Civil(n), "iso8601">> # Thrown
      BY DEF Thrown
    <2> QED
      BY <2>1, <2>2, <2>3, CivilComesBack DEF ThereAndBack
  <1>3. CASE n \notin -Reach .. Reach
    <2>1. ToTemporal(h) = Thrown
      BY <1>1, <1>3 DEF Built
    <2>2. HasNoTemporal(h)
      BY <1>3 DEF HasNoTemporal
    <2> QED
      BY <2>1, <2>2 DEF ThereAndBack
  <1> QED
    BY <1>2, <1>3

\* A time of day comes back, or is outside a day, where Temporal throws.
LEMMA TimesComeBack ==
  ASSUME NEW n \in Int
  PROVE  ThereAndBack(<<"localTime", n>>)
  <1> DEFINE h == <<"localTime", n>>
  <1>1. ToTemporal(h) = Built(IsClock(Clock(n)), <<"PlainTime", Clock(n)>>)
    BY DEF ToTemporal
  <1>2. CASE IsClock(Clock(n))
    <2>1. ToTemporal(h) = <<"PlainTime", Clock(n)>>
      BY <1>1, <1>2 DEF Built
    <2>2. FromTemporal(<<"PlainTime", Clock(n)>>) = <<"localTime", NanosOf(Clock(n))>>
      BY DEF FromTemporal
    <2>3. <<"PlainTime", Clock(n)>> # Thrown
      BY DEF Thrown
    <2> QED
      BY <2>1, <2>2, <2>3, ClockComesBack DEF ThereAndBack
  <1>3. CASE ~IsClock(Clock(n))
    <2>1. ToTemporal(h) = Thrown
      BY <1>1, <1>3 DEF Built
    <2>2. n \notin 0 .. Day - 1
      BY <1>3, ClockIsClock
    <2>3. HasNoTemporal(h)
      BY <2>2 DEF HasNoTemporal
    <2> QED
      BY <2>1, <2>3 DEF ThereAndBack
  <1> QED
    BY <1>2, <1>3

\* A moment is a day and a time of that day.
LEMMA DayAndRest ==
  ASSUME NEW n \in Int
  PROVE  /\ n \div Day \in Int /\ n % Day \in Int
         /\ (n \div Day) * Day + (n % Day) = n
  <1>1. Day \in Nat /\ Day > 0
    <2>1. /\ Thousand \in Nat /\ Thousand > 0 /\ Sixty \in Nat /\ Sixty > 0
          /\ HourCount \in Nat /\ HourCount > 0
      BY TemporalAssumption
    <2>2. Thousand * Thousand \in Nat /\ Thousand * Thousand > 0
      BY <2>1
    <2>3. Second > 0
      BY <2>1, <2>2 DEF Second
    <2>4. Minute > 0
      BY <2>1, <2>3, Spans DEF Minute
    <2>5. Hour > 0
      BY <2>1, <2>4, Spans DEF Hour
    <2> QED
      BY <2>1, <2>5, Spans DEF Day
  <1>2. PICK d \in Nat : d = Day /\ d > 0
    BY <1>1
  <1>3. n \div d \in Int /\ n % d \in Int /\ n = d * (n \div d) + (n % d)
    BY <1>2
  <1>4. (n \div d) * d = d * (n \div d)
    BY <1>3
  <1> QED
    BY <1>2, <1>3, <1>4

\* A date and time comes back, from before 1970 too.
LEMMA DatetimesComeBack ==
  ASSUME NEW n \in Int64
  PROVE  ThereAndBack(<<"localDatetime", n>>)
  <1> DEFINE h == <<"localDatetime", n>>
             days == n \div Day
             rest == n % Day
             there == <<"PlainDateTime", Civil(days), Clock(rest), "iso8601">>
  <1>1. n \in Int
    BY Constants DEF Int64
  <1>2. days \in Int /\ rest \in Int /\ days * Day + rest = n
    BY <1>1, DayAndRest
  <1>3. ToTemporal(h) = there
    BY DEF ToTemporal
  <1>4. there # Thrown
    BY DEF Thrown
  <1>5. FromTemporal(there) = Epoch(days, rest)
    <2>1. FromTemporal(there)
            = Epoch(CivilDays(Civil(days)[1], Civil(days)[2], Civil(days)[3]),
                    NanosOf(Clock(rest)))
      BY DEF FromTemporal, DaysOf
    <2> QED
      BY <1>2, <2>1, CivilComesBack, ClockComesBack
  <1>6. CASE days * Day \in Int64
    <2>1. Epoch(days, rest) = h
      BY <1>2, <1>6 DEF Epoch
    <2> QED
      BY <1>3, <1>4, <1>5, <2>1 DEF ThereAndBack
  <1>7. CASE days * Day \notin Int64
    <2>1. LosesItsWay(h)
      BY <1>7 DEF LosesItsWay
    <2> QED
      BY <1>3, <1>4, <2>1 DEF ThereAndBack
  <1> QED
    BY <1>6, <1>7

\* A product divides by its factor and leaves nothing.
LEMMA QuotOfProduct ==
  ASSUME NEW o \in Int, NEW d \in Nat, d > 0
  PROVE  Quot(o * d, d) = o /\ Rest(o * d, d) = 0
  <1>1. Quot(o * d, d) = o
    <2>1. CASE o >= 0
      <3>1. o * d \in Nat /\ d * o = o * d
        BY <2>1
      <3>2. PICK q \in Nat : q = (o * d) \div d /\ d * q <= o * d /\ o * d < d * q + d
        BY <3>1, Divides
      <3>3. q = o
        <4>1. d * o <= o * d /\ o * d < d * o + d /\ o * d \in Int
          BY <3>1
        <4> QED
          BY <3>2, <4>1, OneQuotient
      <3> QED
        BY <3>1, <3>2, <3>3 DEF Quot
    <2>2. CASE o < 0
      <3>1. PICK m \in Nat : m = -o /\ m > 0
        BY <2>2
      <3>2. m * d \in Nat /\ m * d > 0 /\ d * m = m * d /\ o * d = -(m * d)
        BY <3>1
      <3>3. PICK q \in Nat : q = (m * d) \div d /\ d * q <= m * d /\ m * d < d * q + d
        BY <3>2, Divides
      <3>4. q = m
        <4>1. d * m <= m * d /\ m * d < d * m + d /\ m * d \in Int
          BY <3>2
        <4> QED
          BY <3>3, <4>1, OneQuotient
      <3>5. Quot(o * d, d) = -((m * d) \div d)
        <4>1. ~(o * d >= 0) /\ -(o * d) = m * d
          BY <3>2
        <4> QED
          BY <4>1 DEF Quot
      <3> QED
        BY <3>1, <3>3, <3>4, <3>5
    <2> QED
      BY <2>1, <2>2
  <1>2. Rest(o * d, d) = o * d - d * o
    BY <1>1 DEF Rest
  <1> QED
    BY <1>1, <1>2

\* So does one with an offset, which is spelled to the minute.
LEMMA ZonesComeBack ==
  ASSUME NEW n \in Int64, NEW o \in Int16
  PROVE  ThereAndBack(<<"zonedDatetime", n, o>>)
  <1> DEFINE h == <<"zonedDatetime", n, o>>
             there == <<"ZonedDateTime", n, o * Minute>>
  <1>1. o \in Int /\ Minute \in Nat /\ Minute > 0
    <2>1. Short \in Nat /\ Sixty \in Nat /\ Sixty > 0 /\ Thousand \in Nat /\ Thousand > 0
      BY TemporalAssumption
    <2>2. Thousand * Thousand \in Nat /\ Thousand * Thousand > 0
      BY <2>1
    <2>3. Second \in Nat /\ Second > 0
      BY <2>1, <2>2 DEF Second
    <2>4. Minute \in Nat /\ Minute > 0
      BY <2>1, <2>3 DEF Minute
    <2> QED
      BY <2>1, <2>4 DEF Int16
  <1>2. ToTemporal(h) = Built(IsZone(o), there)
    BY DEF ToTemporal
  <1>3. there # Thrown
    BY DEF Thrown
  <1>4. FromTemporal(there) = h
    <2>1. FromTemporal(there) = Since(n, Offset(o * Minute))
      BY DEF FromTemporal
    <2>2. Offset(o * Minute) = <<o>>
      BY <1>1, QuotOfProduct DEF Offset
    <2> QED
      BY <2>1, <2>2 DEF Since
  <1>5. CASE IsZone(o)
    BY <1>2, <1>3, <1>4, <1>5 DEF Built, ThereAndBack
  <1>6. CASE ~IsZone(o)
    <2>1. HasNoTemporal(h)
      BY <1>6 DEF HasNoTemporal
    <2> QED
      BY <1>2, <1>6, <2>1 DEF Built, ThereAndBack
  <1> QED
    BY <1>5, <1>6

\* The fields of a duration, put together again.
LEMMA FieldsCount ==
  ASSUME NEW months \in Int, NEW seconds \in Int, NEW nanos \in Int
  PROVE  /\ MonthsOf(Fields(months, seconds, nanos)) = months
         /\ LengthOf(Fields(months, seconds, nanos)) = seconds * Second + nanos
  <1> DEFINE f == Fields(months, seconds, nanos)
  <1>1. /\ f[1] = 0 /\ f[2] = months /\ f[3] = 0 /\ f[4] = 0 /\ f[5] = 0
        /\ f[6] = 0 /\ f[7] = seconds /\ f[8] = 0 /\ f[9] = 0 /\ f[10] = nanos
    BY DEF Fields
  <1> HIDE DEF f
  <1>2. MonthsOf(f) = months
    BY <1>1 DEF MonthsOf
  <1>3. PICK h \in Int, w \in Int, t \in Int, s \in Int :
          h = HourCount /\ w = Sixty /\ t = Thousand /\ s = Second
    BY Constants, Spans
  <1>4. LengthOf(f) = ((((0 * 7 + 0) * h + 0) * w + 0) * w + seconds) * s
                        + 0 * t * t + 0 * t + nanos
    BY <1>1, <1>3, Zenon DEF LengthOf
  <1>5. ((((0 * 7 + 0) * h + 0) * w + 0) * w + seconds) * s + 0 * t * t + 0 * t + nanos
          = seconds * s + nanos
    OBVIOUS
  <1> QED
    BY <1>2, <1>3, <1>4, <1>5 DEF f

\* A number of months comes back, or is beyond what Temporal takes.
LEMMA MonthsComeBack ==
  ASSUME NEW n \in Int64
  PROVE  ThereAndBack(<<"yearMonth", n>>)
  <1> DEFINE h == <<"yearMonth", n>>
             there == <<"Duration", Fields(n, 0, 0)>>
             fits == -MonthReach < n /\ n < MonthReach
  <1>1. n \in Int /\ 0 \in Int64 /\ MonthReach \in Nat
    BY Constants, TemporalAssumption DEF Int64
  <1>2. ToTemporal(h) = Built(fits, there)
    BY DEF ToTemporal
  <1>3. there # Thrown
    BY DEF Thrown
  <1>4. n # 0 => FromTemporal(there) = h
    <2>1. FromTemporal(there) = DurationOf(Fields(n, 0, 0))
      BY DEF FromTemporal
    <2>2. MonthsOf(Fields(n, 0, 0)) = n /\ LengthOf(Fields(n, 0, 0)) = 0 * Second + 0
      BY <1>1, FieldsCount
    <2>3. 0 * Second + 0 = 0
      BY Spans
    <2>4. Wrapped(n) = n /\ Wrapped(0) = 0
      BY <1>1, WrapsToItself
    <2> QED
      BY <2>1, <2>2, <2>3, <2>4 DEF DurationOf
  <1>5. n = 0 => LosesItsWay(h)
    BY DEF LosesItsWay
  <1>6. CASE fits
    BY <1>2, <1>3, <1>4, <1>5, <1>6 DEF Built, ThereAndBack
  <1>7. CASE ~fits
    <2>1. n \notin -MonthReach + 1 .. MonthReach - 1
      BY <1>1, <1>7
    <2>2. HasNoTemporal(h)
      BY <2>1 DEF HasNoTemporal
    <2> QED
      BY <1>2, <1>7, <2>2 DEF Built, ThereAndBack
  <1> QED
    BY <1>6, <1>7

\* A length of time comes back, whatever its sign.
LEMMA LengthsComeBack ==
  ASSUME NEW n \in Int64
  PROVE  ThereAndBack(<<"dayTime", n>>)
  <1> DEFINE h == <<"dayTime", n>>
             q == Quot(n, Second)
             r == Rest(n, Second)
             there == <<"Duration", Fields(0, q, r)>>
  <1>1. n \in Int /\ 0 \in Int64 /\ Second \in Nat /\ Second > 0
    <2>1. Thousand \in Nat /\ Thousand > 0
      BY TemporalAssumption
    <2>2. Thousand * Thousand \in Nat /\ Thousand * Thousand > 0
      BY <2>1
    <2>3. Second \in Nat /\ Second > 0
      BY <2>1, <2>2 DEF Second
    <2> QED
      BY <2>3, Constants DEF Int64
  <1>2. q \in Int /\ r = n - Second * q
    BY <1>1, QuotIsInt DEF Rest
  <1>3. \/ q >= 0 /\ r >= 0
        \/ q <= 0 /\ r <= 0
    <2>1. CASE n >= 0
      <3>1. q = n \div Second
        BY <2>1 DEF Quot
      <3>2. q \in Nat /\ Second * q <= n /\ Second * q \in Int
        BY <1>1, <2>1, <3>1, Divides
      <3> QED
        BY <1>1, <1>2, <3>2
    <2>2. CASE n < 0
      <3>1. PICK m \in Nat : m = -n
        BY <1>1, <2>2
      <3>2. PICK p \in Nat : p = m \div Second /\ Second * p <= m
        BY <1>1, <3>1, Divides
      <3>3. q = -p
        <4>1. ~(n >= 0) /\ -n = m
          BY <1>1, <2>2, <3>1
        <4> QED
          BY <3>2, <4>1 DEF Quot
      <3>4. Second * q = -(Second * p) /\ Second * p \in Int
        BY <1>1, <3>3
      <3> QED
        BY <1>1, <1>2, <3>1, <3>2, <3>3, <3>4
    <2> QED
      BY <1>1, <2>1, <2>2
  <1>4. r \in Int
    BY <1>1, <1>2
  <1>5. ToTemporal(h) = Built(OneSign(Fields(0, q, r)), there)
    BY DEF ToTemporal, Seconds
  <1>6. OneSign(Fields(0, q, r))
    <2> DEFINE f == Fields(0, q, r)
    <2>1. \A i \in 1 .. 10 : f[i] \in {0, q, r}
      BY DEF Fields
    <2> HIDE DEF f, q, r
    <2>2. OneSign(f)
      BY <1>2, <1>3, <1>4, <2>1 DEF OneSign
    <2> QED
      BY <2>2 DEF f, q, r
  <1>7. there # Thrown
    BY DEF Thrown
  <1>8. FromTemporal(there) = h
    <2>1. FromTemporal(there) = DurationOf(Fields(0, q, r))
      BY DEF FromTemporal
    <2>2. MonthsOf(Fields(0, q, r)) = 0 /\ LengthOf(Fields(0, q, r)) = q * Second + r
      BY <1>2, <1>4, FieldsCount
    <2>3. q * Second + r = n
      BY <1>1, <1>2
    <2>4. Wrapped(n) = n /\ Wrapped(0) = 0
      BY <1>1, WrapsToItself
    <2> QED
      BY <2>1, <2>2, <2>3, <2>4 DEF DurationOf
  <1> QED
    BY <1>5, <1>6, <1>7, <1>8 DEF Built, ThereAndBack

\* The moments an engine holds.
IsMoment(h) ==
  \/ \E n \in Int : h \in {<<"date", n>>, <<"localTime", n>>}
  \/ \E n \in Int64 : h \in {<<"localDatetime", n>>, <<"yearMonth", n>>, <<"dayTime", n>>}
  \/ \E n \in Int64, o \in Int16 : h = <<"zonedDatetime", n, o>>

(***************************************************************************)
(* A moment that is spelled as a Temporal value binds again as itself,     *)
(* whatever its size, and Temporal throws at nothing that it holds         *)
(* (src/temporal.rs to_temporal, from_temporal).                           *)
(***************************************************************************)
THEOREM MomentsComeBack ==
  ASSUME NEW h, IsMoment(h)
  PROVE  ThereAndBack(h)
  BY DatesComeBack, TimesComeBack, DatetimesComeBack, ZonesComeBack,
     MonthsComeBack, LengthsComeBack DEF IsMoment

-----------------------------------------------------------------------------
(***************************************************************************)
(* A column of an array, a value at a time.                                *)
(***************************************************************************)
\* A sequence of n rows.
IsRun(s, n) == \E S : s \in Seq(S) /\ Len(s) = n

\* And one of a row more.
Grows(s, t, n, x) ==
  /\ IsRun(t, n + 1)
  /\ \A i \in 1 .. n : t[i] = s[i]
  /\ t[n + 1] = x

\* A run grows by a row at its end.
LEMMA RunGrows ==
  ASSUME NEW n \in Nat, NEW s, IsRun(s, n), NEW x
  PROVE  Grows(s, s \o <<x>>, n, x)
  <1>1. PICK S : s \in Seq(S) /\ Len(s) = n
    BY DEF IsRun
  <1> DEFINE T == S \union {x}
  <1>2. s \in Seq(T) /\ <<x>> \in Seq(T) /\ Len(<<x>>) = 1 /\ <<x>>[1] = x
    BY <1>1
  <1>3. s \o <<x>> \in Seq(T) /\ Len(s \o <<x>>) = n + 1
    BY <1>1, <1>2
  <1>4. \A i \in 1 .. n : (s \o <<x>>)[i] = s[i]
    BY <1>1, <1>2
  <1>5. (s \o <<x>>)[n + 1] = x
    BY <1>1, <1>2
  <1> QED
    BY <1>3, <1>4, <1>5 DEF IsRun, Grows

\* The rows of a run.
LEMMA RunRows ==
  ASSUME NEW n \in Nat, NEW s, IsRun(s, n)
  PROVE  Len(s) = n /\ DOMAIN s = 1 .. n
  BY DEF IsRun

\* A row of a column is the value it was given, or is one of those that round.
Holds(column, row, v) ==
  \/ Keeps(column[1], column[2][row], v)
  \/ column[1] = "float" /\ Rounds(column, row, Meaning(v))

\* A column is the first n of some values.
Fits(column, values, n) ==
  /\ column = <<column[1], column[2]>>
  /\ column[1] \in Kinds
  /\ IsRun(column[2], n)
  /\ \A row \in 1 .. n : Holds(column, row, values[row])

\* What a push leaves.
LEMMA PushAppends ==
  ASSUME NEW v, IsValue(v), NEW column, Push(column, v) # Refused
  PROVE  /\ column[1] \in Kinds /\ Taken(column[1], v) # None
         /\ \E x : /\ Push(column, v) = <<column[1], column[2] \o <<x>>>>
                   /\ Keeps(column[1], x, v)
                   /\ Taken(column[1], v) = <<x>>
  <1>1. Taken(column[1], v) # None
    BY DEF Push, Pushed
  <1>2. PICK x : Taken(column[1], v) = <<x>> /\ Keeps(column[1], x, v)
    BY <1>1, TakenKept
  <1>3. Push(column, v) = <<column[1], column[2] \o <<x>>>>
    BY <1>1, <1>2 DEF Push, Pushed
  <1> QED
    BY <1>1, <1>2, <1>3, TakenKept

\* A row stays what it is with another after it.
LEMMA RowStays ==
  ASSUME NEW n \in Nat, NEW column, IsRun(column[2], n), NEW x,
         NEW row \in 1 .. n, NEW v, Holds(column, row, v)
  PROVE  Holds(<<column[1], column[2] \o <<x>>>>, row, v)
  <1> DEFINE grown == <<column[1], column[2] \o <<x>>>>
  <1>1. grown[1] = column[1] /\ grown[2] = column[2] \o <<x>>
    OBVIOUS
  <1> HIDE DEF grown
  <1>2. /\ Length(column) = n /\ Length(grown) = n + 1
        /\ \A i \in 1 .. n : grown[2][i] = column[2][i]
    <2>1. Grows(column[2], grown[2], n, x)
      BY <1>1, RunGrows
    <2> QED
      BY <2>1, RunRows DEF Length, Grows
  <1>3. CASE Keeps(column[1], column[2][row], v)
    BY <1>1, <1>2, <1>3 DEF Holds
  <1>4. CASE column[1] = "float" /\ Rounds(column, row, Meaning(v))
    <2>1. PICK later \in row + 1 .. n : ~IsWhole(column[2][later])
      BY <1>2, <1>4 DEF Rounds
    <2>2. later \in row + 1 .. n + 1 /\ ~IsWhole(grown[2][later])
      BY <1>2, <2>1
    <2>3. Rounds(grown, row, Meaning(v))
      BY <1>1, <1>2, <1>4, <2>2 DEF Rounds
    <2> QED
      BY <1>1, <1>4, <2>3 DEF Holds, grown
  <1> QED
    BY <1>3, <1>4 DEF Holds, grown

\* A push that widens nothing.
LEMMA PushFits ==
  ASSUME NEW n \in Nat, NEW values, NEW column,
         column[1] \in Kinds => Fits(column, values, n),
         IsValue(values[n + 1]), Push(column, values[n + 1]) # Refused
  PROVE  Fits(Push(column, values[n + 1]), values, n + 1)
  <1> DEFINE v == values[n + 1]
             after == Push(column, v)
  <1>1. Fits(column, values, n)
    BY PushAppends
  <1>2. PICK x : after = <<column[1], column[2] \o <<x>>>> /\ Keeps(column[1], x, v)
    BY PushAppends
  <1>3. after[1] = column[1] /\ after[2] = column[2] \o <<x>> /\ after = <<after[1], after[2]>>
    BY <1>2
  <1> HIDE DEF after
  <1>4. IsRun(column[2], n)
    BY <1>1 DEF Fits
  <1>5. IsRun(after[2], n + 1) /\ after[2][n + 1] = x
    <2>1. Grows(column[2], after[2], n, x)
      BY <1>3, <1>4, RunGrows
    <2> QED
      BY <2>1 DEF Grows
  <1>6. ASSUME NEW row \in 1 .. n + 1
        PROVE  Holds(after, row, values[row])
    <2>1. CASE row = n + 1
      BY <1>2, <1>3, <1>5, <2>1 DEF Holds
    <2>2. CASE row # n + 1
      <3>1. row \in 1 .. n
        BY <2>2
      <3>2. Holds(column, row, values[row])
        BY <1>1, <3>1 DEF Fits
      <3> QED
        BY <1>2, <1>4, <3>1, <3>2, RowStays
    <2> QED
      BY <2>1, <2>2
  <1> QED
    BY <1>1, <1>3, <1>5, <1>6 DEF Fits, after

\* There is a spacing at every integer, and it is the least one that reaches it.
LEMMA SpacingThere ==
  ASSUME NEW n \in Int64
  PROVE  /\ Spacing(n) \in Spacings /\ Reaches(Spacing(n), n)
         /\ \A q \in Spacings : Reaches(q, n) => Spacing(n) <= q
  <1> DEFINE S == {p \in Spacings : Reaches(p, n)}
  <1>1. n \in Int /\ -Word <= n /\ n <= Word
    BY Constants DEF Int64
  <1>2. PICK p \in Spacings : Word <= Exact * p
    BY ValuesAssumption
  <1>3. Exact * p \in Int
    BY <1>2, Constants, ValuesAssumption
  <1>4. Reaches(p, n)
    BY <1>1, <1>2, <1>3, Constants DEF Reaches
  <1>5. S \in SUBSET Nat /\ S # {}
    BY <1>2, <1>4, ValuesAssumption
  <1>6. \E m \in S : \A k \in S : m <= k
    BY <1>5, Least
  <1> QED
    BY <1>6 DEF Spacing

\* A whole number as a double.
LEMMA AsDouble ==
  ASSUME NEW x \in Int
  PROVE  AsNumber(x) = <<"number", 2 * x>> \/ x \notin -Exact .. Exact
  <1> SUFFICES ASSUME x \in -Exact .. Exact
               PROVE  AsNumber(x) = <<"number", 2 * x>>
    OBVIOUS
  <1>1. Reaches(1, x) /\ 1 \in Spacings
    BY Constants, ValuesAssumption DEF Reaches
  <1>2. \A q \in Spacings : q \in Nat /\ q >= 1
    BY ValuesAssumption
  <1>3. Spacing(x) = 1
    BY <1>1, <1>2 DEF Spacing
  <1>4. x \div 1 = x /\ x % 1 = 0
    OBVIOUS
  <1>5. AsNumber(x) = <<"number", 2 * (1 * x)>>
    BY <1>3, <1>4 DEF AsNumber
  <1> QED
    BY <1>5

\* One that widens: the fraction that comes after them is why they round.
LEMMA WideFits ==
  ASSUME NEW n \in Nat, NEW values, NEW column, Fits(column, values, n),
         column[1] = "int",
         IsValue(values[n + 1]), values[n + 1][1] \in Numbers, ~IsWhole(values[n + 1]),
         Push(Widened(column, values[n + 1]), values[n + 1]) # Refused
  PROVE  Fits(Push(Widened(column, values[n + 1]), values[n + 1]), values, n + 1)
  <1> DEFINE v == values[n + 1]
             wide == Widened(column, v)
             after == Push(wide, v)
             numbers == [i \in DOMAIN column[2] |-> AsNumber(column[2][i])]
  <1>1. wide = <<"float", numbers>>
    BY DEF Widened
  <1>2. DOMAIN column[2] = 1 .. n
    BY RunRows DEF Fits
  <1>3. IsRun(numbers, n)
    <2>1. numbers \in Seq({numbers[i] : i \in 1 .. n}) /\ Len(numbers) = n
      BY <1>2
    <2> QED
      BY <2>1 DEF IsRun
  <1>4. \A i \in 1 .. n : numbers[i] = AsNumber(column[2][i])
    BY <1>2
  <1>5. wide[1] = "float" /\ wide[2] = numbers /\ Push(wide, v) # Refused
    BY <1>1
  <1> HIDE DEF wide, numbers
  <1>6. PICK x : after = <<"float", numbers \o <<x>>>> /\ Keeps("float", x, v)
                 /\ Taken("float", v) = <<x>>
    <2>1. PICK x : /\ after = <<wide[1], wide[2] \o <<x>>>>
                   /\ Keeps(wide[1], x, v) /\ Taken(wide[1], v) = <<x>>
      BY <1>5, PushAppends
    <2> QED
      BY <1>5, <2>1
  <1>7. x = v
    BY <1>6 DEF Taken, Some, LocalMoments
  <1>8. after[1] = "float" /\ after[2] = numbers \o <<x>> /\ after = <<after[1], after[2]>>
    BY <1>6
  <1> HIDE DEF after
  <1>9. /\ IsRun(after[2], n + 1) /\ after[2][n + 1] = x
        /\ \A i \in 1 .. n : after[2][i] = AsNumber(column[2][i])
    <2>1. Grows(numbers, after[2], n, x)
      BY <1>3, <1>8, RunGrows
    <2> QED
      BY <1>4, <2>1 DEF Grows
  <1>10. Length(after) = n + 1
    BY <1>9, RunRows DEF Length
  <1>11. ASSUME NEW row \in 1 .. n + 1
         PROVE  Holds(after, row, values[row])
    <2>1. CASE row = n + 1
      BY <1>6, <1>8, <1>9, <2>1 DEF Holds
    <2>2. CASE row # n + 1
      <3> DEFINE was == column[2][row]
                 meant == Meaning(values[row])
      <3>1. row \in 1 .. n /\ n + 1 \in row + 1 .. n + 1
        BY <2>2
      <3>2. IsCount(was, values[row])
        BY <3>1 DEF Fits, Holds, Keeps, LocalMoments
      <3>3. after[2][row] = AsNumber(was)
        BY <1>9, <3>1
      <3>4. \E later \in row + 1 .. Length(after) : ~IsWhole(after[2][later])
        BY <1>7, <1>9, <1>10, <3>1
      <3>5. was \in Int
        BY <3>2 DEF IsCount
      <3>6. CASE meant = <<"negativeZero">>
        BY <1>8, <3>4, <3>6 DEF Holds, Rounds
      <3>7. CASE meant = <<"number", 2 * was>> /\ AsNumber(was) = <<"number", 2 * was>>
        <4>1. Standing(<<"float", after[2][row]>>) = after[2][row]
          BY DEF Standing
        <4> QED
          BY <1>8, <3>3, <3>7, <4>1 DEF Holds, Keeps, HeldAs, LocalMoments
      <3>8. CASE meant = <<"number", 2 * was>> /\ was \notin -Exact .. Exact
        <4>1. meant[1] = "number" /\ meant[2] \div 2 = was
          BY <3>5, <3>8
        <4> QED
          BY <1>8, <3>4, <3>8, <4>1 DEF Holds, Rounds
      <3> QED
        BY <3>2, <3>5, <3>6, <3>7, <3>8, AsDouble DEF IsCount
    <2> QED
      BY <2>1, <2>2
  <1>12. "float" \in Kinds
    BY DEF Kinds
  <1> QED
    BY <1>8, <1>9, <1>11, <1>12 DEF Fits, after, wide

\* What an array has come to after each of its values.
Reads(f, values, n) ==
  f = [m \in 0 .. n |-> IF m = 0 THEN None ELSE NextOf(f[m - 1], values[m])]

\* An array has been read as far as each of its values.
LEMMA ReadsThere ==
  ASSUME NEW values, NEW n \in Nat
  PROVE  \E f : Reads(f, values, n)
  <1> DEFINE S == {m \in Nat : \E f : Reads(f, values, m)}
  <1>1. 0 \in S
    <2>1. Reads([m \in 0 .. 0 |-> None], values, 0)
      BY DEF Reads
    <2> QED
      BY <2>1
  <1>2. ASSUME NEW m \in Nat, m \in S
        PROVE  m + 1 \in S
    <2>1. PICK f : Reads(f, values, m)
      BY <1>2
    <2> DEFINE g == [k \in 0 .. m + 1 |-> IF k = m + 1 THEN NextOf(f[m], values[k])
                                          ELSE f[k]]
    <2>2. ASSUME NEW k \in 0 .. m + 1
          PROVE  g[k] = IF k = 0 THEN None ELSE NextOf(g[k - 1], values[k])
      <3>1. CASE k = m + 1
        <4>1. k # 0 /\ k - 1 = m /\ g[m] = f[m]
          BY <3>1
        <4> QED
          BY <3>1, <4>1
      <3>2. CASE k # m + 1
        <4>1. k \in 0 .. m /\ g[k] = f[k] /\ (k # 0 => g[k - 1] = f[k - 1])
          BY <3>2
        <4>2. f[k] = IF k = 0 THEN None ELSE NextOf(f[k - 1], values[k])
          BY <2>1, <4>1 DEF Reads
        <4> QED
          BY <4>1, <4>2
      <3> QED
        BY <3>1, <3>2
    <2>3. g = [k \in 0 .. m + 1 |-> g[k]]
      OBVIOUS
    <2> HIDE DEF g
    <2>4. Reads(g, values, m + 1)
      BY <2>2, <2>3 DEF Reads
    <2> QED
      BY <2>4
  <1> HIDE DEF S
  <1>3. Nat \subseteq S
    BY <1>1, <1>2, Induction
  <1> QED
    BY <1>3 DEF S

\* The column of an array is what its last value left.
LEMMA ArrayIsRead ==
  ASSUME NEW values, Len(values) \in Nat
  PROVE  \E f : Reads(f, values, Len(values)) /\ ArrayOf(values) = f[Len(values)]
  <1>1. \E f : f = [m \in 0 .. Len(values) |->
                     IF m = 0 THEN None ELSE NextOf(f[m - 1], values[m])]
    BY ReadsThere DEF Reads
  <1> DEFINE F == CHOOSE f : f = [m \in 0 .. Len(values) |->
                     IF m = 0 THEN None ELSE NextOf(f[m - 1], values[m])]
  <1>2. F = [m \in 0 .. Len(values) |->
               IF m = 0 THEN None ELSE NextOf(F[m - 1], values[m])]
    BY <1>1
  <1>3. ArrayOf(values) = F[Len(values)]
    BY SMT DEF ArrayOf
  <1> QED
    BY <1>2, <1>3 DEF Reads

\* How far an array has come: nothing yet, a refusal, or the values up to there.
SoFar(column, values, n) ==
  \/ column = Refused
  \/ n = 0 /\ column = None
  \/ Fits(column, values, n)

\* A column of no rows fits whatever it is of.
LEMMA EmptyFits ==
  ASSUME NEW kind \in Kinds, NEW values
  PROVE  Fits(Column(kind), values, 0)
  <1>1. Column(kind) = <<Column(kind)[1], Column(kind)[2]>>
          /\ Column(kind)[1] = kind /\ Column(kind)[2] = <<>>
    BY DEF Column
  <1>2. IsRun(<<>>, 0)
    <2>1. <<>> \in Seq({}) /\ Len(<<>>) = 0
      OBVIOUS
    <2> QED
      BY <2>1 DEF IsRun
  <1>3. \A row \in 1 .. 0 : FALSE
    OBVIOUS
  <1> QED
    BY <1>1, <1>2, <1>3 DEF Fits

\* The step: the next value leaves a column of one more row, or none.
LEMMA NextFits ==
  ASSUME NEW n \in Nat, NEW values, IsValue(values[n + 1]),
         NEW column, SoFar(column, values, n)
  PROVE  SoFar(NextOf(column, values[n + 1]), values, n + 1)
  <1> DEFINE v == values[n + 1]
             next == NextOf(column, v)
  <1> SUFFICES ASSUME next # Refused
               PROVE  Fits(next, values, n + 1)
    BY DEF SoFar
  <1>1. column # Refused
    BY DEF NextOf
  <1>2. CASE column = None
    <2>1. n = 0
      BY <1>1, <1>2 DEF SoFar, Fits, None
    <2> DEFINE first == Column(StartOf(v))
    <2>2. next = Push(first, v)
      BY <1>1, <1>2 DEF NextOf
    <2>3. first[1] = StartOf(v)
      BY DEF Column
    <2>4. first[1] \in Kinds => Fits(first, values, 0)
      BY <2>3, EmptyFits
    <2> HIDE DEF first
    <2> QED
      BY <2>1, <2>2, <2>4, PushFits
  <1>3. CASE column # None
    <2>1. Fits(column, values, n)
      BY <1>1, <1>3 DEF SoFar
    <2>2. next = Push(Widened(column, v), v)
      BY <1>1, <1>3 DEF NextOf
    <2>3. CASE column[1] = "int" /\ v[1] \in Numbers /\ ~IsWhole(v)
      BY <2>1, <2>2, <2>3, WideFits
    <2>4. CASE ~(column[1] = "int" /\ v[1] \in Numbers /\ ~IsWhole(v))
      <3>1. Widened(column, v) = column
        BY <2>4 DEF Widened
      <3> QED
        BY <2>1, <2>2, <3>1, PushFits
    <2> QED
      BY <2>3, <2>4
  <1> QED
    BY <1>2, <1>3

\* So the column of an array has read every value of it.
LEMMA ArrayFits ==
  ASSUME NEW values, AreValues(values)
  PROVE  SoFar(ArrayOf(values), values, Len(values))
  <1>1. Len(values) \in Nat /\ DOMAIN values = 1 .. Len(values)
    BY DEF AreValues, IsSequence
  <1>2. PICK f : Reads(f, values, Len(values)) /\ ArrayOf(values) = f[Len(values)]
    BY <1>1, ArrayIsRead
  <1>3. PICK length \in Nat : length = Len(values)
    BY <1>1
  <1> DEFINE S == {n \in Nat : n <= length => SoFar(f[n], values, n)}
  <1>4. 0 \in S
    <2>1. f[0] = None
      BY <1>2, <1>3 DEF Reads
    <2> QED
      BY <2>1 DEF SoFar
  <1>5. ASSUME NEW n \in Nat, n \in S
        PROVE  n + 1 \in S
    <2> SUFFICES ASSUME n + 1 <= length
                 PROVE  SoFar(f[n + 1], values, n + 1)
      OBVIOUS
    <2>1. SoFar(f[n], values, n)
      BY <1>5
    <2>2. n + 1 \in 1 .. length /\ n + 1 \in 0 .. length /\ n + 1 # 0 /\ n + 1 - 1 = n
      OBVIOUS
    <2>3. f[n + 1] = NextOf(f[n], values[n + 1])
      BY <1>2, <1>3, <2>2 DEF Reads
    <2>4. IsValue(values[n + 1])
      BY <1>1, <1>3, <2>2 DEF AreValues
    <2> QED
      BY <2>1, <2>3, <2>4, NextFits
  <1> HIDE DEF S
  <1>6. Nat \subseteq S
    BY <1>4, <1>5, Induction
  <1> QED
    BY <1>1, <1>2, <1>3, <1>6 DEF S

\* A row that holds in a column is in it as what was meant.
LEMMA HoldsIsHeld ==
  ASSUME NEW column, NEW row, NEW v, Holds(column, row, v)
  PROVE  HoldsInRow(column, row, v)
  <1>1. CASE column[1] = "int" /\ IsCount(column[2][row], v)
    <2>1. Standing(Cell(column, row)) = <<"number", 2 * column[2][row]>>
      BY <1>1 DEF Standing, Cell
    <2> QED
      BY <1>1, <2>1 DEF IsCount, HoldsInRow, Rounds
  <1>2. CASE Standing(<<column[1], column[2][row]>>) = Meaning(v)
    BY <1>2 DEF HoldsInRow, Cell
  <1>3. CASE DurationWraps(v) \/ Rounds(column, row, Meaning(v))
    BY <1>3 DEF HoldsInRow
  <1> QED
    BY <1>1, <1>2, <1>3 DEF Holds, Keeps

\* A column is of a kind, and its rows are of it.
KindHeld(column) ==
  /\ column[1] \in Kinds
  /\ Length(column) \in Nat
  /\ \A row \in 1 .. Length(column) : HeldAs(column[1], column[2][row])

\* The rows a column of a load has, and what is in each.
Reading(column, wrote) ==
  /\ KindHeld(column)
  /\ Len(wrote) \in Nat /\ DOMAIN wrote = 1 .. Len(wrote)
  /\ Length(column) = Len(wrote)
  /\ \A row \in DOMAIN wrote : HoldsInRow(column, row, wrote[row])

\* A column that was read holds the array, row by row.
LEMMA ArrayReads ==
  ASSUME NEW values, AreValues(values), ArrayOf(values) \notin {None, Refused}
  PROVE  Reading(ArrayOf(values), values)
  <1>1. Len(values) \in Nat /\ DOMAIN values = 1 .. Len(values)
    BY DEF AreValues, IsSequence
  <1>2. Fits(ArrayOf(values), values, Len(values))
    BY ArrayFits DEF SoFar
  <1>3. Length(ArrayOf(values)) = Len(values)
    BY <1>1, <1>2, RunRows DEF Fits, Length
  <1>4. ASSUME NEW row \in DOMAIN values
        PROVE  HoldsInRow(ArrayOf(values), row, values[row])
    BY <1>1, <1>2, HoldsIsHeld DEF Fits
  <1>5. ASSUME NEW row \in DOMAIN values
        PROVE  HeldAs(ArrayOf(values)[1], ArrayOf(values)[2][row])
    <2>1. Holds(ArrayOf(values), row, values[row])
      BY <1>1, <1>2 DEF Fits
    <2> QED
      BY <2>1 DEF Holds, Keeps, HeldAs, LocalMoments
  <1> QED
    BY <1>1, <1>2, <1>3, <1>4, <1>5 DEF Reading, KindHeld, Fits

\* A function from the first n naturals is a sequence of n.
LEMMA FunctionLength ==
  ASSUME NEW S, NEW n \in Nat, NEW f \in [1 .. n -> S]
  PROVE  Len(f) = n /\ DOMAIN f = 1 .. n
  <1>1. f \in Seq(S)
    OBVIOUS
  <1> QED
    BY <1>1

\* A typed array of whole numbers.
LEMMA IntsRead ==
  ASSUME NEW ints \in Seq(Int)
  PROVE  Reading(<<"int", ints>>, [i \in DOMAIN ints |-> <<"bigint", ints[i]>>])
  <1> DEFINE wrote == [i \in DOMAIN ints |-> <<"bigint", ints[i]>>]
  <1>1. PICK n \in Nat : n = Len(ints) /\ DOMAIN ints = 1 .. n
    OBVIOUS
  <1>2. Len(wrote) = n /\ DOMAIN wrote = 1 .. n
    <2>1. wrote = [i \in 1 .. n |-> <<"bigint", ints[i]>>]
      BY <1>1
    <2> DEFINE T == {<<"bigint", ints[i]>> : i \in 1 .. n}
    <2>2. wrote \in [1 .. n -> T]
      BY <2>1
    <2> HIDE DEF wrote, T
    <2> QED
      BY <2>2, FunctionLength
  <1>3. ASSUME NEW row \in 1 .. n
        PROVE  HoldsInRow(<<"int", ints>>, row, wrote[row])
    <2>1. ints[row] \in Int /\ wrote[row] = <<"bigint", ints[row]>>
      BY <1>1
    <2>2. Meaning(<<"bigint", ints[row]>>) = <<"number", 2 * ints[row]>>
      BY DEF Meaning
    <2>3. Standing(Cell(<<"int", ints>>, row)) = <<"number", 2 * ints[row]>>
      BY DEF Standing, Cell
    <2> QED
      BY <2>1, <2>2, <2>3 DEF HoldsInRow
  <1>4. Length(<<"int", ints>>) = n
    BY <1>1 DEF Length
  <1> HIDE DEF wrote
  <1>5. Reading(<<"int", ints>>, wrote)
    BY <1>2, <1>3, <1>4 DEF Reading, KindHeld, HeldAs, Kinds, LocalMoments
  <1> QED
    BY <1>5 DEF wrote

\* A typed array of numbers is a column of floats that holds it.
LEMMA FloatsRead ==
  ASSUME NEW values, AreValues(values), \A i \in DOMAIN values : values[i][1] \in Numbers
  PROVE  Reading(<<"float", values>>, values)
  <1>1. Len(values) \in Nat /\ DOMAIN values = 1 .. Len(values)
    BY DEF AreValues, IsSequence
  <1>2. ASSUME NEW row \in DOMAIN values
        PROVE  HoldsInRow(<<"float", values>>, row, values[row])
    BY FloatKept DEF HoldsInRow, Cell
  <1>3. Length(<<"float", values>>) = Len(values)
    BY DEF Length
  <1> QED
    BY <1>1, <1>2, <1>3 DEF Reading, KindHeld, HeldAs, Kinds, LocalMoments

\* A column as it was written.
LEMMA ColumnReads ==
  ASSUME NEW v, IsColumn(v), ColumnOf(v) # Refused
  PROVE  Reading(ColumnOf(v), Wrote(v))
  <1>1. CASE v[1] = "array"
    <2>1. ColumnOf(v) = Whole(ArrayOf(v[2]))
      BY <1>1 DEF ColumnOf, TypedArrays
    <2>2. ColumnOf(v) = ArrayOf(v[2]) /\ ArrayOf(v[2]) \notin {None, Refused}
      BY <2>1 DEF Whole
    <2>3. Wrote(v) = v[2] /\ AreValues(v[2])
      BY <1>1 DEF Wrote, IsColumn
    <2> QED
      BY <2>2, <2>3, ArrayReads
  <1>2. CASE v[1] \in TypedArrays
    <2>1. ColumnOf(v) = Whole(Filled(v))
      BY <1>2 DEF ColumnOf, TypedArrays
    <2>2. ColumnOf(v) = Filled(v) /\ Filled(v) # Refused
      BY <2>1 DEF Whole
    <2>3. CASE v[1] = "Float64Array"
      <3>1. Filled(v) = <<"float", v[2]>> /\ Wrote(v) = v[2]
        BY <2>3 DEF Filled, Wrote
      <3>2. AreValues(v[2]) /\ \A i \in DOMAIN v[2] : v[2][i][1] \in Numbers
        BY <2>3 DEF IsColumn
      <3> QED
        BY <2>2, <3>1, <3>2, FloatsRead
    <2>4. CASE v[1] # "Float64Array"
      <3>1. Filled(v) = <<"int", v[2]>>
        BY <1>2, <2>2, <2>4 DEF Filled, TypedArrays
      <3>2. v[2] \in Seq(Int)
        BY <1>2, <2>2, <2>4 DEF IsColumn, Filled
      <3>3. Wrote(v) = [i \in DOMAIN v[2] |-> <<"bigint", v[2][i]>>]
        BY <1>2, <2>4 DEF Wrote, TypedArrays
      <3> QED
        BY <2>2, <3>1, <3>2, <3>3, IntsRead
    <2> QED
      BY <2>3, <2>4
  <1>3. CASE v[1] \notin TypedArrays \union {"array"}
    <2>1. ColumnOf(v) = Whole(Refused)
      BY <1>3 DEF ColumnOf
    <2> QED
      BY <2>1 DEF Whole
  <1> QED
    BY <1>1, <1>2, <1>3

-----------------------------------------------------------------------------
(***************************************************************************)
(* A plan.                                                                 *)
(***************************************************************************)
ColumnsOf(options) ==
  [i \in DOMAIN options.columns |-> ColumnOf(options.columns[i])]

\* A double that counts.
LEMMA WholeIsInt ==
  ASSUME NEW v, IsValue(v), v[1] \in Numbers, IsWhole(v)
  PROVE  WholeOf(v) \in Int
  BY WholeNumber DEF IsCount

\* A division rounded down or up stays on the side of a multiple it is past.
LEMMA StepsPast ==
  ASSUME NEW n \in Int, NEW h \in Nat, h > 0, NEW e \in Nat, e > 0,
         NEW step \in Int, (2 * h) * step <= n, n < (2 * h) * step + 2 * h
  PROVE  /\ n > (2 * e) * h => step >= e
         /\ n < -((2 * e) * h) => step + 1 <= -e
  <1> DEFINE p == 2 * h
  <1>1. p \in Nat /\ p > 0 /\ (2 * e) * h = p * e
    OBVIOUS
  <1>2. p * step <= n /\ n < p * step + p
    OBVIOUS
  <1> HIDE DEF p
  <1>3. p * (step + 1) = p * step + p /\ p * step \in Int /\ p * e \in Int
    BY <1>1
  <1>4. ASSUME n > p * e
        PROVE  step >= e
    <2> SUFFICES ASSUME step + 1 <= e
                 PROVE  FALSE
      OBVIOUS
    <2>1. PICK k \in Nat : e = step + 1 + k
      <3>1. e - (step + 1) \in Nat /\ e = step + 1 + (e - (step + 1))
        OBVIOUS
      <3> QED
        BY <3>1
    <2>2. p * e = p * (step + 1) + p * k /\ p * k \in Nat
      BY <1>1, <2>1
    <2>3. PICK a, b, c \in Int : a = p * e /\ b = p * step /\ c = p * k
      BY <1>3, <2>2
    <2>4. a = b + p + c /\ c \in Nat
      BY <1>3, <2>2, <2>3
    <2>5. n > a /\ n < b + p
      BY <1>2, <1>4, <2>3
    <2> QED
      BY <1>1, <2>3, <2>4, <2>5
  <1>5. ASSUME n < -(p * e)
        PROVE  step + 1 <= -e
    <2> SUFFICES ASSUME step >= -e
                 PROVE  FALSE
      OBVIOUS
    <2>1. PICK k \in Nat : step = -e + k
      <3>1. step + e \in Nat /\ step = -e + (step + e)
        OBVIOUS
      <3> QED
        BY <3>1
    <2>2. p * step = -(p * e) + p * k /\ p * k \in Nat
      BY <1>1, <2>1
    <2> QED
      BY <1>2, <1>3, <1>5, <2>2
  <1> QED
    BY <1>1, <1>4, <1>5

\* An integer as a double is a whole number, itself within Exact and no nearer
\* to zero than that beyond it.
LEMMA DoubleOf ==
  ASSUME NEW n \in Int64
  PROVE  \E d \in Int : /\ AsNumber(n) = <<"number", 2 * d>>
                        /\ WholeOf(AsNumber(n)) = d
                        /\ d = n \/ (n > Exact /\ d >= Exact) \/ (n < -Exact /\ d < 0)
  <1> DEFINE p    == Spacing(n)
             step == n \div p
             up   == 2 * (n % p) > p \/ (2 * (n % p) = p /\ step % 2 = 1)
             d    == p * (IF up THEN step + 1 ELSE step)
  <1>1. n \in Int
    BY Constants DEF Int64
  <1>2. p \in Spacings /\ p \in Nat /\ p > 0
    <2>1. p \in Spacings
      BY SpacingThere
    <2> HIDE DEF p
    <2> QED
      BY <2>1, ValuesAssumption
  <1>3. AsNumber(n) = <<"number", 2 * d>>
    BY DEF AsNumber
  <1>4. step \in Int /\ p * step <= n /\ n < p * step + p
    <2> HIDE DEF p
    <2>1. n \div p \in Int /\ p * (n \div p) <= n /\ n < p * (n \div p) + p
      BY <1>1, <1>2
    <2> HIDE DEF step
    <2> QED
      BY <2>1 DEF step
  <1>5. p * step \in Int /\ p * (step + 1) \in Int
    BY <1>2, <1>4
  <1> HIDE DEF p, step, up
  <1>6. d \in {p * step, p * (step + 1)}
    OBVIOUS
  <1>7. d \in Int
    BY <1>5, <1>6
  <1> HIDE DEF d
  <1>8. WholeOf(<<"number", 2 * d>>) = (2 * d) \div 2
    BY DEF WholeOf
  <1>9. (2 * d) \div 2 = d
    BY <1>7
  <1>10. CASE n \in -Exact .. Exact
    <2>1. <<"number", 2 * d>> = <<"number", 2 * n>>
      BY <1>1, <1>3, <1>10, AsDouble
    <2>2. d = n
      BY <1>1, <1>7, <2>1
    <2> QED
      BY <1>3, <1>7, <1>8, <1>9, <2>2
  <1>11. CASE n \notin -Exact .. Exact
    <2>1. p # 1
      BY <1>1, <1>11, SpacingThere, Constants DEF p, Reaches
    <2>2. p % 2 = 0 /\ p \div 2 \in Spacings
      BY <1>2, <2>1, ValuesAssumption
    <2>3. PICK h \in Nat : h > 0 /\ p = 2 * h /\ h \in Spacings
      <3>1. p \div 2 \in Nat /\ p \div 2 > 0 /\ p = 2 * (p \div 2)
        BY <1>2, <2>2
      <3> QED
        BY <2>2, <3>1
    <2>4. ~Reaches(h, n)
      <3>1. Reaches(h, n) => p <= h
        BY <2>3, SpacingThere DEF p
      <3> QED
        BY <2>3, <3>1
    <2>5. PICK e \in Nat : e > 0 /\ Exact = 2 * e
      <3>1. Exact \div 2 \in Nat /\ Exact \div 2 > 0 /\ Exact = 2 * (Exact \div 2)
        BY Constants
      <3> QED
        BY <3>1
    <2>6. (2 * e) * h \in Int
      BY <2>3, <2>5
    <2>7. n > (2 * e) * h \/ n < -((2 * e) * h)
      BY <1>1, <2>4, <2>5, <2>6 DEF Reaches
    <2>8. /\ n > (2 * e) * h => step >= e
          /\ n < -((2 * e) * h) => step + 1 <= -e
      BY <1>1, <1>4, <2>3, <2>5, StepsPast
    <2>9. \A k \in Int : (k >= e => p * k >= Exact) /\ (k <= -e => p * k < 0)
      <3> SUFFICES ASSUME NEW k \in Int
                   PROVE  (k >= e => p * k >= Exact) /\ (k <= -e => p * k < 0)
        OBVIOUS
      <3>1. (k >= e => h * k >= e) /\ (k <= -e => h * k < 0) /\ h * k \in Int
        <4>1. ASSUME k >= e
              PROVE  h * k >= e
          BY <2>3, <2>5, <4>1
        <4>2. ASSUME k <= -e
              PROVE  h * k < 0
          BY <2>3, <2>5, <4>2
        <4> QED
          BY <2>3, <4>1, <4>2
      <3>2. p * k = 2 * (h * k)
        BY <2>3
      <3> QED
        BY <2>5, <3>1, <3>2
    <2>10. (n > Exact /\ d >= Exact) \/ (n < -Exact /\ d < 0)
      <3>1. n > (2 * e) * h => d >= Exact
        BY <1>4, <1>6, <2>5, <2>8, <2>9
      <3>2. n < -((2 * e) * h) => d < 0
        BY <1>4, <1>6, <2>5, <2>8, <2>9
      <3>3. (2 * e) * h >= 2 * e
        BY <2>3, <2>5
      <3> QED
        BY <1>1, <1>11, <2>5, <2>6, <2>7, <3>1, <3>2, <3>3
    <2> QED
      BY <1>3, <1>7, <1>8, <1>9, <2>10
  <1> QED
    BY <1>10, <1>11

\* A count is a natural number.
LEMMA CountedIsNat ==
  ASSUME NEW v, IsValue(v), Counted(v) # None
  PROVE  \E n \in Nat : Counted(v) = <<n>>
  <1>1. CASE v[1] = "bigint"
    <2>1. v[2] \in Int
      BY <1>1 DEF IsValue, Numbers
    <2>2. Wrapped(v[2]) \in Int64
      BY <2>1, Constants DEF Wrapped, Int64
    <2>3. WholeOf(AsNumber(Wrapped(v[2]))) \in Int
      BY <2>2, DoubleOf
    <2> DEFINE count == AsNumber(Wrapped(v[2]))
    <2>4. Counted(v) = IF count[1] \in Numbers /\ IsWhole(count) /\ WholeOf(count) >= 0
                         THEN <<WholeOf(count)>> ELSE None
      BY <1>1 DEF Counted, Some
    <2> HIDE DEF count
    <2>5. WholeOf(count) >= 0 /\ Counted(v) = <<WholeOf(count)>>
      BY <2>4
    <2> QED
      BY <2>3, <2>5 DEF count
  <1>2. CASE v[1] # "bigint"
    <2>1. v[1] \in Numbers /\ IsWhole(v) /\ WholeOf(v) >= 0 /\ Counted(v) = <<WholeOf(v)>>
      BY <1>2 DEF Counted, Some
    <2> QED
      BY <2>1, WholeIsInt
  <1> QED
    BY <1>1, <1>2

\* A column has a length.
LEMMA LengthIsNat ==
  ASSUME NEW v, IsColumn(v), ColumnOf(v) # Refused
  PROVE  Length(ColumnOf(v)) \in Nat
  BY ColumnReads DEF Reading

\* What a plan that is none is made of.
IsPlanOf(plan, options) ==
  LET columns == ColumnsOf(options)
      pairs == PairsOf(options.edges, plan.rows)
  IN  /\ plan.columns = columns
      /\ \A i \in DOMAIN columns :
           columns[i] # Refused /\ Length(columns[i]) = plan.rows
      /\ plan.rows \in Nat
      /\ None \notin ToSet(pairs)
      /\ plan.pairs = {pair[1] : pair \in ToSet(pairs)}

\* The rows of a plan are the rows of its columns, and those told.
LEMMA RowsAgree ==
  ASSUME NEW options, IsOptions(options),
         Refused \notin ToSet(ColumnsOf(options)),
         RowsOf(options.rows, ColumnsOf(options)) # None
  PROVE  \E n \in Nat :
           /\ RowsOf(options.rows, ColumnsOf(options)) = <<n>>
           /\ ColumnsOf(options) # <<>> => n = Length(ColumnsOf(options)[1])
  <1> DEFINE columns == ColumnsOf(options)
             rows == options.rows
  <1>1. columns # <<>> => Length(columns[1]) \in Nat
    <2> SUFFICES ASSUME columns # <<>>
                 PROVE  Length(columns[1]) \in Nat
      OBVIOUS
    <2>1. 1 \in DOMAIN options.columns
      <3>1. options.columns \in Seq(ToSet(options.columns))
        BY DEF IsOptions, IsSequence
      <3>2. options.columns # <<>>
        BY DEF ColumnsOf
      <3> QED
        BY <3>1, <3>2
    <2>2. columns[1] = ColumnOf(options.columns[1]) /\ columns[1] \in ToSet(columns)
      BY <2>1 DEF ColumnsOf, ToSet
    <2> QED
      BY <2>1, <2>2, LengthIsNat DEF IsOptions
  <1>2. CASE rows[1] \in {"undefined", "null"}
    BY <1>1, <1>2 DEF RowsOf, Some
  <1>3. CASE rows[1] \notin {"undefined", "null"}
    <2>1. RowsOf(rows, columns) = Agreed(Counted(rows), columns)
      BY <1>3 DEF RowsOf
    <2>2. /\ RowsOf(rows, columns) = Counted(rows) /\ Counted(rows) # None
          /\ columns = <<>> \/ Counted(rows) = <<Length(columns[1])>>
      BY <2>1 DEF Agreed, Some
    <2>3. PICK n \in Nat : Counted(rows) = <<n>>
      BY <2>2, CountedIsNat DEF IsOptions
    <2> QED
      BY <2>2, <2>3
  <1> QED
    BY <1>2, <1>3

\* A plan is the rows, the edges and the columns of what was told.
LEMMA PlanParts ==
  ASSUME NEW options, IsOptions(options), PlanOf(options) # None
  PROVE  IsPlanOf(PlanOf(options)[1], options)
  <1> DEFINE columns == ColumnsOf(options)
  <1>1. PlanOf(options) = WithColumns(options, columns)
    BY DEF PlanOf, ColumnsOf
  <1>2. /\ Refused \notin ToSet(columns)
        /\ \A i \in DOMAIN columns : Length(columns[i]) = Length(columns[1])
        /\ PlanOf(options) = WithRows(options, columns, RowsOf(options.rows, columns))
    BY <1>1 DEF WithColumns
  <1>3. RowsOf(options.rows, columns) # None
    BY <1>2 DEF WithRows
  <1>4. PICK n \in Nat : /\ RowsOf(options.rows, columns) = <<n>>
                         /\ columns # <<>> => n = Length(columns[1])
    BY <1>2, <1>3, RowsAgree
  <1> DEFINE pairs == PairsOf(options.edges, n)
  <1>5. PlanOf(options) = WithPairs(columns, n, pairs)
    BY <1>2, <1>3, <1>4 DEF WithRows
  <1>6. /\ None \notin ToSet(pairs)
        /\ PlanOf(options)[1] = [rows |-> n, columns |-> columns,
                                 pairs |-> {pair[1] : pair \in ToSet(pairs)}]
    BY <1>5 DEF WithPairs, Some
  <1>7. ASSUME NEW i \in DOMAIN columns
        PROVE  columns[i] # Refused /\ Length(columns[i]) = n
    <2>1. columns[i] \in ToSet(columns)
      BY DEF ToSet, ColumnsOf
    <2>2. columns # <<>>
      OBVIOUS
    <2> QED
      BY <1>2, <1>4, <2>1, <2>2
  <1> HIDE DEF columns
  <1> QED
    BY <1>4, <1>6, <1>7 DEF IsPlanOf, columns

-----------------------------------------------------------------------------
(***************************************************************************)
(* The ends of an edge.                                                    *)
(***************************************************************************)
LEMMA WithinIsRow ==
  ASSUME NEW end \in Int, NEW rows \in Nat, rows <= RowWord, Within(end, rows) # None
  PROVE  Within(end, rows) = <<end>> /\ end \in 0 .. rows - 1
  <1>1. RowWord \in Nat /\ RowWord > 0
    BY LoadAssumption, Constants
  <1>2. 0 <= end /\ end < rows /\ Within(end, rows) = <<end % RowWord>>
    BY DEF Within, Some
  <1>3. end % RowWord = end
    BY <1>1, <1>2
  <1> QED
    BY <1>2, <1>3

\* An end of an edge that was read is the row it names.
LEMMA EndIsRow ==
  ASSUME NEW v, IsValue(v), NEW rows \in Nat, rows <= RowWord, EndOf(v, rows) # None
  PROVE  EndOf(v, rows) = <<Row(v)>> /\ Row(v) \in 0 .. rows - 1
  <1>1. RowWord <= Exact /\ RowWord \in Nat /\ Exact \in Nat
    BY LoadAssumption, Constants
  <1>2. CASE v[1] = "bigint" /\ v[2] \in Int64
    <2>1. v[2] \in Int
      BY <1>2, Constants DEF Int64
    <2>2. PICK d \in Int : /\ WholeOf(AsNumber(v[2])) = d
                           /\ d = v[2] \/ (v[2] > Exact /\ d >= Exact)
                                       \/ (v[2] < -Exact /\ d < 0)
      BY <1>2, DoubleOf
    <2>3. EndOf(v, rows) = Within(d, rows)
      BY <1>2, <2>2 DEF EndOf, Numbers
    <2>4. Within(d, rows) = <<d>> /\ d \in 0 .. rows - 1
      BY <2>3, WithinIsRow
    <2>5. d = v[2]
      BY <1>1, <2>1, <2>2, <2>4
    <2> QED
      BY <1>2, <2>3, <2>4, <2>5 DEF Row
  <1>3. CASE v[1] \in Numbers /\ IsWhole(v)
    <2>1. EndOf(v, rows) = Within(WholeOf(v), rows)
      BY <1>3 DEF EndOf, Numbers
    <2>2. WholeOf(v) \in Int
      BY <1>3, WholeIsInt
    <2>3. Row(v) = WholeOf(v)
      BY <1>3 DEF Row, Numbers
    <2> QED
      BY <2>1, <2>2, <2>3, WithinIsRow
  <1> QED
    BY <1>2, <1>3 DEF EndOf

\* Two ends make a pair.
LEMMA EndsJoin ==
  ASSUME NEW a, NEW b
  PROVE  Ends(<<a>>, <<b>>)[1] = <<a, b>>
  <1>1. None \notin {<<a>>, <<b>>}
    BY DEF None
  <1> QED
    BY <1>1 DEF Ends, Some

\* The pairs of rows of a table.
RowPairs(rows) == (0 .. rows - 1) \X (0 .. rows - 1)

\* A pair that was read is the two rows it names.
LEMMA PairIsRows ==
  ASSUME NEW v, IsEdge(v), NEW rows \in Nat, rows <= RowWord, Pair(v, rows) # None
  PROVE  /\ Pair(v, rows)[1] = <<Row(v[2][1]), Row(v[2][2])>>
         /\ <<Row(v[2][1]), Row(v[2][2])>> \in RowPairs(rows)
  <1>1. /\ v[1] = "array" /\ Len(v[2]) = 2
        /\ Pair(v, rows) = Ends(EndOf(v[2][1], rows), EndOf(v[2][2], rows))
    BY DEF Pair
  <1>2. IsValue(v[2][1]) /\ IsValue(v[2][2])
    BY <1>1 DEF IsEdge, AreValues, IsSequence
  <1>3. EndOf(v[2][1], rows) # None /\ EndOf(v[2][2], rows) # None
    BY <1>1 DEF Ends
  <1>4. /\ EndOf(v[2][1], rows) = <<Row(v[2][1])>> /\ Row(v[2][1]) \in 0 .. rows - 1
        /\ EndOf(v[2][2], rows) = <<Row(v[2][2])>> /\ Row(v[2][2]) \in 0 .. rows - 1
    BY <1>2, <1>3, EndIsRow
  <1>5. Pair(v, rows)[1] = <<Row(v[2][1]), Row(v[2][2])>>
    BY <1>1, <1>3, <1>4, EndsJoin
  <1> QED
    BY <1>4, <1>5 DEF RowPairs

\* So is a pair of a flat list.
LEMMA FlatIsRows ==
  ASSUME NEW flat \in Seq(Int), NEW at \in Int, 2 * at - 1 \in DOMAIN flat,
         2 * at \in DOMAIN flat,
         NEW rows \in Nat, rows <= RowWord, FlatPair(flat, at, rows) # None
  PROVE  /\ FlatPair(flat, at, rows)[1] = <<flat[2 * at - 1], flat[2 * at]>>
         /\ <<flat[2 * at - 1], flat[2 * at]>> \in RowPairs(rows)
  <1>1. PICK a \in Int, b \in Int : a = flat[2 * at - 1] /\ b = flat[2 * at]
    OBVIOUS
  <1>2. FlatPair(flat, at, rows) = Ends(Within(a, rows), Within(b, rows))
    BY <1>1 DEF FlatPair
  <1>3. Within(a, rows) # None /\ Within(b, rows) # None
    BY <1>2 DEF Ends
  <1>4. /\ Within(a, rows) = <<a>> /\ a \in 0 .. rows - 1
        /\ Within(b, rows) = <<b>> /\ b \in 0 .. rows - 1
    BY <1>3, WithinIsRow
  <1>5. Ends(Within(a, rows), Within(b, rows))[1] = <<a, b>>
    BY <1>2, <1>4, EndsJoin
  <1> QED
    BY <1>1, <1>2, <1>4, <1>5 DEF RowPairs

\* The pairs of a list that was read are the rows it names.
LEMMA PairsAreRows ==
  ASSUME NEW v, IsEdgeList(v), NEW rows \in Nat, rows <= RowWord,
         None \notin ToSet(PairsOf(v, rows))
  PROVE  /\ {pair[1] : pair \in ToSet(PairsOf(v, rows))} = Joined(v)
         /\ Joined(v) \subseteq RowPairs(rows)
  <1> DEFINE pairs == PairsOf(v, rows)
  <1>1. CASE v[1] = "array"
    <2> DEFINE D == DOMAIN v[2]
               g == [at \in D |-> <<Row(v[2][at][2][1]), Row(v[2][at][2][2])>>]
    <2>1. pairs = [at \in D |-> Pair(v[2][at], rows)]
      BY <1>1 DEF PairsOf
    <2>2. \A at \in D : Pair(v[2][at], rows) # None
      BY <2>1 DEF ToSet
    <2>3. \A at \in D : IsEdge(v[2][at])
      BY <1>1 DEF IsEdgeList
    <2>4. \A at \in D : pairs[at][1] = g[at] /\ g[at] \in RowPairs(rows)
      BY <2>1, <2>2, <2>3, PairIsRows
    <2>5. Joined(v) = {g[at] : at \in D}
      BY <1>1 DEF Joined
    <2>6. DOMAIN pairs = D
      BY <2>1
    <2> HIDE DEF D, g, pairs
    <2>7. /\ {pair[1] : pair \in ToSet(pairs)} = {g[at] : at \in D}
          /\ {g[at] : at \in D} \subseteq RowPairs(rows)
      BY <2>4, <2>6 DEF ToSet
    <2> QED
      BY <2>5, <2>7 DEF pairs
  <1>2. CASE v[1] \in {"Int32Array", "Uint32Array"} /\ Len(v[2]) % 2 = 0
    <2> DEFINE D == 1 .. Len(v[2]) \div 2
               g == [at \in D |-> <<v[2][2 * at - 1], v[2][2 * at]>>]
    <2>1. pairs = [at \in D |-> FlatPair(v[2], at, rows)]
      BY <1>2 DEF PairsOf
    <2>2. \A at \in D : FlatPair(v[2], at, rows) # None
      BY <2>1 DEF ToSet
    <2>3. v[2] \in Seq(Int)
      BY <1>2 DEF IsEdgeList
    <2>4. ASSUME NEW at \in D
          PROVE  pairs[at][1] = g[at] /\ g[at] \in RowPairs(rows)
      <3>1. PICK n \in Nat : n = Len(v[2]) /\ DOMAIN v[2] = 1 .. n
        BY <2>3
      <3>2. at \in Int /\ 1 <= at /\ at <= n \div 2
        <4>1. n \div 2 \in Int
          OBVIOUS
        <4>2. at \in 1 .. n \div 2
          BY <3>1, Zenon
        <4> QED
          BY <4>1, <4>2
      <3>3. 2 * at - 1 \in 1 .. n /\ 2 * at \in 1 .. n
        BY <3>2
      <3> QED
        BY <2>1, <2>2, <2>3, <3>1, <3>2, <3>3, FlatIsRows
    <2>5. Joined(v) = {g[at] : at \in D}
      BY <1>2 DEF Joined
    <2>6. DOMAIN pairs = D
      BY <2>1
    <2> HIDE DEF D, g, pairs
    <2>7. /\ {pair[1] : pair \in ToSet(pairs)} = {g[at] : at \in D}
          /\ {g[at] : at \in D} \subseteq RowPairs(rows)
      BY <2>4, <2>6 DEF ToSet
    <2> QED
      BY <2>5, <2>7 DEF pairs
  <1>3. CASE v[1] \in {"undefined", "null"}
    <2>1. pairs = <<>> /\ Joined(v) = {}
      BY <1>3 DEF PairsOf, Joined
    <2> QED
      BY <2>1 DEF ToSet
  <1>4. CASE /\ v[1] \notin {"array", "undefined", "null"}
             /\ ~(v[1] \in {"Int32Array", "Uint32Array"} /\ Len(v[2]) % 2 = 0)
    <2>1. pairs = <<None>>
      BY <1>4 DEF PairsOf
    <2> QED
      BY <2>1 DEF ToSet
  <1> QED
    BY <1>1, <1>2, <1>3, <1>4

-----------------------------------------------------------------------------
(***************************************************************************)
(* The files.                                                              *)
(***************************************************************************)
Stages == {"idle", "refused", "queued", "created", "built", "done", "failed"}

\* The stages of a call that has a plan.
Planned == {"queued", "created", "built", "done"}

\* What a file holds.
Table(rows, edges, columns, stage) ==
  [rows |-> rows, edges |-> edges, columns |-> columns, stage |-> stage]

\* A call is a record, and carries the plan of what it was told from the queue
\* on.
IsBare(call) == call = [stage |-> call.stage]

\* And a record of what it was told, with its plan.
IsTold(call) ==
  call = [stage |-> call.stage, told |-> call.told, plan |-> call.plan]

\* The plan is the one of what it was told.
IsPlanned(c, call) ==
  /\ IsTold(call)
  /\ call.told \in Options[c]
  /\ PlanOf(call.told) # None
  /\ call.plan = PlanOf(call.told)[1]

\* The record of a call at its stage.
CallShape(c, call) ==
  /\ call.stage \in Stages
  /\ IsBare(call) \/ IsTold(call)
  /\ call.stage \in Planned => IsPlanned(c, call)

\* The records of the calls, and of the connect.
CallsTyped ==
  /\ calls = [c \in Calls |-> calls[c]]
  /\ \A c \in Calls : CallShape(c, calls[c])

ConnTyped ==
  \/ conn = [stage |-> conn.stage]
  \/ conn = [stage |-> conn.stage, spelling |-> conn.spelling]

\* What a call under way has made of the file.
Makes(call) ==
  /\ call.stage = "created" => file = Table(0, {}, <<>>, "created")
  /\ call.stage = "built" =>
       file = Table(call.plan.rows, call.plan.pairs, <<>>, "built")
  /\ call.stage = "done" =>
       file = Table(call.plan.rows, call.plan.pairs, call.plan.columns, "built")

\* The stages of a call that has made its file.
Writing == {"created", "built", "done"}

\* One call at most has made the file, and it is as far as the call is.
OneWriter ==
  /\ \A c \in Calls : \A d \in Calls :
       calls[c].stage \in Writing /\ calls[d].stage \in Writing => c = d
  /\ \A c \in Calls : Makes(calls[c])

\* A file was made by a call that went that far, or by the connect.
MadeBySomebody ==
  \/ file = Absent
  \/ \E c \in Calls : calls[c].stage \in Writing \union {"failed"}
  \/ conn.stage \notin {"none", "refused"}

\* The inductive invariant.
IInv == CallsTyped /\ ConnTyped /\ OneWriter /\ MadeBySomebody

\* There is no file before the first call.
LEMMA Starts == Init => IInv
  <1> SUFFICES ASSUME Init PROVE IInv
    OBVIOUS
  <1>1. ASSUME NEW c \in Calls
        PROVE  calls[c] = [stage |-> "idle"] /\ calls[c].stage = "idle"
    BY DEF Init
  <1>2. CallsTyped
    <2>1. calls = [c \in Calls |-> calls[c]]
      BY DEF Init
    <2> QED
      BY <1>1, <2>1 DEF CallsTyped, CallShape, IsBare, Stages, Planned
  <1>3. ConnTyped
    BY DEF Init, ConnTyped
  <1>4. OneWriter
    BY <1>1 DEF OneWriter, Makes, Writing
  <1>5. MadeBySomebody
    BY DEF Init, MadeBySomebody
  <1> QED
    BY <1>2, <1>3, <1>4, <1>5 DEF IInv

\* What a step of one call leaves of the others, and makes of its own.
LEMMA OneMoves ==
  ASSUME CallsTyped, NEW c \in Calls, NEW stage, Moves(c, stage)
  PROVE  /\ calls' = [d \in Calls |-> calls'[d]]
         /\ \A d \in Calls : d # c => calls'[d] = calls[d]
         /\ calls'[c].stage = stage
         /\ IsBare(calls[c]) => IsBare(calls'[c])
         /\ IsTold(calls[c]) =>
              /\ IsTold(calls'[c])
              /\ calls'[c].told = calls[c].told /\ calls'[c].plan = calls[c].plan
  <1>1. calls' = [d \in Calls |-> IF d = c THEN [calls[c] EXCEPT !.stage = stage]
                                  ELSE calls[d]]
    BY DEF CallsTyped, Moves
  <1>2. calls'[c] = [calls[c] EXCEPT !.stage = stage]
    BY <1>1
  <1>3. IsBare(calls[c]) => calls'[c] = [stage |-> stage]
    BY <1>2 DEF IsBare
  <1>4. IsTold(calls[c]) =>
          calls'[c] = [stage |-> stage, told |-> calls[c].told, plan |-> calls[c].plan]
    BY <1>2 DEF IsTold
  <1>5. IsBare(calls[c]) \/ IsTold(calls[c])
    BY DEF CallsTyped, CallShape
  <1> QED
    BY <1>1, <1>3, <1>4, <1>5 DEF IsBare, IsTold

\* A stage along the way keeps the shape of a call.
LEMMA MovesKeepShape ==
  ASSUME CallsTyped, NEW c \in Calls, NEW stage \in Stages, Moves(c, stage),
         calls[c].stage \in Planned
  PROVE  CallsTyped'
  <1>1. CallShape(c, calls'[c])
    <2>1. IsPlanned(c, calls[c])
      BY DEF CallsTyped, CallShape
    <2>2. /\ IsTold(calls'[c]) /\ calls'[c].stage = stage
          /\ calls'[c].told = calls[c].told /\ calls'[c].plan = calls[c].plan
      BY <2>1, OneMoves DEF IsPlanned
    <2>3. IsPlanned(c, calls'[c])
      BY <2>1, <2>2 DEF IsPlanned
    <2> QED
      BY <2>2, <2>3 DEF CallShape
  <1>2. ASSUME NEW d \in Calls
        PROVE  CallShape(d, calls'[d])
    <2>1. CASE d = c
      BY <1>1, <2>1
    <2>2. CASE d # c
      BY <2>2, OneMoves DEF CallsTyped
    <2> QED
      BY <2>1, <2>2
  <1> QED
    BY <1>2, OneMoves DEF CallsTyped

\* What the step of one call keeps of the rest, given what it makes.
LEMMA WriterMoves ==
  ASSUME IInv, NEW c \in Calls, NEW stage, Moves(c, stage),
         \A d \in Calls : calls[d].stage \in Writing => d = c,
         Makes(calls[c])'
  PROVE  OneWriter'
  <1>1. \A d \in Calls : d # c => calls'[d] = calls[d]
    BY OneMoves DEF IInv
  <1>2. \A d \in Calls : calls'[d].stage \in Writing => d = c
    BY <1>1
  <1>3. ASSUME NEW d \in Calls
        PROVE  Makes(calls[d])'
    <2>1. CASE d = c
      BY <2>1
    <2>2. CASE d # c
      <3>1. calls'[d].stage \notin Writing
        BY <1>2, <2>2
      <3> QED
        BY <3>1 DEF Makes, Writing
    <2> QED
      BY <2>1, <2>2
  <1> QED
    BY <1>2, <1>3 DEF OneWriter

\* A call that fails leaves what it made, and the file is nobody's.
LEMMA FailureKeeps ==
  ASSUME IInv, NEW c \in Calls, calls[c].stage \in Planned,
         Moves(c, "failed"), file' = file, UNCHANGED conn
  PROVE  IInv'
  <1>1. CallsTyped' /\ calls'[c].stage = "failed"
    BY MovesKeepShape, OneMoves DEF IInv, Stages
  <1>2. OneWriter'
    <2>1. \A d \in Calls : d # c => calls'[d] = calls[d]
      BY OneMoves DEF IInv
    <2>2. ASSUME NEW d \in Calls
          PROVE  Makes(calls[d])'
      <3>1. CASE d = c
        BY <1>1, <3>1 DEF Makes
      <3>2. CASE d # c
        BY <2>1, <3>2 DEF IInv, OneWriter, Makes
      <3> QED
        BY <3>1, <3>2
    <2>3. \A d \in Calls : calls'[d].stage \in Writing => d # c /\ calls[d].stage \in Writing
      BY <1>1, <2>1 DEF Writing
    <2> QED
      BY <2>2, <2>3 DEF IInv, OneWriter
  <1>3. MadeBySomebody'
    BY <1>1 DEF MadeBySomebody
  <1> QED
    BY <1>1, <1>2, <1>3 DEF IInv, ConnTyped

\* A call of load() touches no file: it is refused, or gets its plan.
LEMMA CallLoadKeeps ==
  ASSUME IInv, NEW c \in Calls, NEW options \in Options[c], CallLoad(c, options)
  PROVE  IInv'
  <1>1. PICK call : /\ calls' = [calls EXCEPT ![c] = call]
                    /\ \/ call = [stage |-> "refused"]
                       \/ /\ PlanOf(options) # None
                          /\ call = [stage |-> "queued", told |-> options,
                                     plan |-> PlanOf(options)[1]]
    BY DEF CallLoad
  <1>2. /\ calls' = [d \in Calls |-> calls'[d]] /\ calls'[c] = call
        /\ \A d \in Calls : d # c => calls'[d] = calls[d]
    BY <1>1 DEF IInv, CallsTyped
  <1>3. CallShape(c, call) /\ call.stage \in {"refused", "queued"}
    BY <1>1 DEF CallShape, Stages, Planned, IsBare, IsTold, IsPlanned
  <1>4. CallsTyped'
    <2>1. ASSUME NEW d \in Calls
          PROVE  CallShape(d, calls'[d])
      BY <1>2, <1>3 DEF IInv, CallsTyped
    <2> QED
      BY <1>2, <2>1 DEF CallsTyped
  <1>5. file' = file /\ conn' = conn /\ calls[c].stage = "idle"
    BY DEF CallLoad, At
  <1>6. OneWriter'
    <2>1. ASSUME NEW d \in Calls
          PROVE  Makes(calls[d])'
      <3>1. CASE d = c
        BY <1>2, <1>3, <3>1 DEF Makes
      <3>2. CASE d # c
        BY <1>2, <1>5, <3>2 DEF IInv, OneWriter, Makes
      <3> QED
        BY <3>1, <3>2
    <2>2. \A d \in Calls : calls'[d].stage \in Writing => d # c /\ calls[d].stage \in Writing
      BY <1>2, <1>3 DEF Writing
    <2> QED
      BY <2>1, <2>2 DEF IInv, OneWriter
  <1>7. MadeBySomebody'
    <2>1. ASSUME NEW d \in Calls, calls[d].stage \in Writing \union {"failed"}
          PROVE  calls'[d].stage \in Writing \union {"failed"}
      BY <1>2, <1>5, <2>1 DEF Writing
    <2> QED
      BY <1>5, <2>1 DEF IInv, MadeBySomebody
  <1> QED
    BY <1>4, <1>5, <1>6, <1>7 DEF IInv, ConnTyped

\* Where there is no file no call has made one.
LEMMA NoWriterYet ==
  ASSUME IInv, file = Absent
  PROVE  \A d \in Calls : calls[d].stage \notin Writing
  <1> SUFFICES ASSUME NEW d \in Calls, calls[d].stage \in Writing
               PROVE  FALSE
    OBVIOUS
  <1>1. Makes(calls[d])
    BY DEF IInv, OneWriter
  <1>2. file.stage \in {"created", "built"}
    BY <1>1 DEF Makes, Writing, Table
  <1> QED
    BY <1>2 DEF Absent

\* A file is created by the one call that finds none.
LEMMA CreateFileKeeps ==
  ASSUME IInv, NEW c \in Calls, CreateFile(c)
  PROVE  IInv'
  <1>1. CASE file = Absent /\ file' = [Absent EXCEPT !.stage = "created"]
               /\ Moves(c, "created")
    <2>1. CallsTyped' /\ calls'[c].stage = "created"
      BY <1>1, MovesKeepShape, OneMoves DEF IInv, Stages, CreateFile, At, Planned
    <2>2. file' = Table(0, {}, <<>>, "created")
      BY <1>1 DEF Absent, Table
    <2>4. \A d \in Calls : calls[d].stage \notin Writing
      BY <1>1, NoWriterYet
    <2>5. Makes(calls[c])'
      BY <2>1, <2>2 DEF Makes
    <2>6. OneWriter'
      BY <1>1, <2>4, <2>5, WriterMoves
    <2>7. MadeBySomebody'
      BY <2>1 DEF MadeBySomebody, Writing
    <2> QED
      BY <2>1, <2>6, <2>7 DEF IInv, ConnTyped, CreateFile
  <1>2. CASE file' = file /\ Moves(c, "failed")
    BY <1>2, FailureKeeps DEF CreateFile, At, Planned
  <1> QED
    BY <1>1, <1>2 DEF CreateFile

\* The rows and the edges go into the file of the call that made it.
LEMMA BuildGraphKeeps ==
  ASSUME IInv, NEW c \in Calls, BuildGraph(c)
  PROVE  IInv'
  <1> DEFINE plan == calls[c].plan
             end == IF plan.columns = <<>> THEN "done" ELSE "built"
  <1>1. CASE file' = [file EXCEPT !.rows = plan.rows, !.edges = plan.pairs, !.stage = "built"]
               /\ Moves(c, end)
    <2>1. CallsTyped' /\ calls'[c].stage = end /\ calls'[c].plan = plan
      <3>1. IsTold(calls[c])
        BY DEF IInv, CallsTyped, CallShape, BuildGraph, At, Planned, IsPlanned
      <3> QED
        BY <1>1, <3>1, MovesKeepShape, OneMoves DEF IInv, Stages, BuildGraph, At, Planned
    <2>2. file = Table(0, {}, <<>>, "created")
      BY DEF IInv, OneWriter, Makes, BuildGraph, At
    <2>3. file' = Table(plan.rows, plan.pairs, <<>>, "built")
      BY <1>1, <2>2 DEF Table
    <2>4. \A d \in Calls : calls[d].stage \in Writing => d = c
      BY DEF IInv, OneWriter, BuildGraph, At, Writing
    <2>5. Makes(calls[c])'
      BY <2>1, <2>3 DEF Makes
    <2>6. OneWriter'
      BY <1>1, <2>4, <2>5, WriterMoves
    <2>7. MadeBySomebody'
      BY <2>1 DEF MadeBySomebody, Writing
    <2> QED
      BY <2>1, <2>6, <2>7 DEF IInv, ConnTyped, BuildGraph
  <1>2. CASE file' = file /\ Moves(c, "failed")
    BY <1>2, FailureKeeps DEF BuildGraph, At, Planned
  <1> QED
    BY <1>1, <1>2 DEF BuildGraph

\* And so do the columns, which end the call.
LEMMA StoreColumnsKeeps ==
  ASSUME IInv, NEW c \in Calls, StoreColumns(c)
  PROVE  IInv'
  <1> DEFINE plan == calls[c].plan
  <1>1. CASE file' = [file EXCEPT !.columns = plan.columns] /\ Moves(c, "done")
    <2>1. CallsTyped' /\ calls'[c].stage = "done" /\ calls'[c].plan = plan
      <3>1. IsTold(calls[c])
        BY DEF IInv, CallsTyped, CallShape, StoreColumns, At, Planned, IsPlanned
      <3> QED
        BY <1>1, <3>1, MovesKeepShape, OneMoves DEF IInv, Stages, StoreColumns, At, Planned
    <2>2. file = Table(plan.rows, plan.pairs, <<>>, "built")
      BY DEF IInv, OneWriter, Makes, StoreColumns, At
    <2>3. file' = Table(plan.rows, plan.pairs, plan.columns, "built")
      BY <1>1, <2>2 DEF Table
    <2>4. \A d \in Calls : calls[d].stage \in Writing => d = c
      BY DEF IInv, OneWriter, StoreColumns, At, Writing
    <2>5. Makes(calls[c])'
      BY <2>1, <2>3 DEF Makes
    <2>6. OneWriter'
      BY <1>1, <2>4, <2>5, WriterMoves
    <2>7. MadeBySomebody'
      BY <2>1 DEF MadeBySomebody, Writing
    <2> QED
      BY <2>1, <2>6, <2>7 DEF IInv, ConnTyped, StoreColumns
  <1>2. CASE file' = file /\ Moves(c, "failed")
    BY <1>2, FailureKeeps DEF StoreColumns, At, Planned
  <1> QED
    BY <1>1, <1>2 DEF StoreColumns

\* A connect is none of the calls, and what it makes is its own.
LEMMA CallConnectKeeps ==
  ASSUME IInv, NEW options, NEW present, CallConnect(options, present)
  PROVE  IInv'
  <1>1. file' = file /\ calls' = calls /\ conn.stage = "none"
    BY DEF CallConnect
  <1>2. ConnTyped'
    BY DEF CallConnect, ConnTyped
  <1>3. CallsTyped' /\ OneWriter'
    BY <1>1 DEF IInv, CallsTyped, OneWriter, Makes
  <1>4. MadeBySomebody'
    BY <1>1 DEF IInv, MadeBySomebody
  <1> QED
    BY <1>2, <1>3, <1>4 DEF IInv

\* A connect that opens makes a file without a table where there is none.
LEMMA OpenKeeps ==
  ASSUME IInv, Open
  PROVE  IInv'
  <1>1. PICK stage \in {"in memory", "on file", "failed"} : Opened(stage)
    BY DEF Open
  <1>2. ConnTyped' /\ conn'.stage = stage
    <2>1. CASE conn = [stage |-> conn.stage]
      BY <1>1, <2>1 DEF ConnTyped, Opened
    <2>2. CASE conn = [stage |-> conn.stage, spelling |-> conn.spelling]
      BY <1>1, <2>2 DEF ConnTyped, Opened
    <2> QED
      BY <2>1, <2>2 DEF IInv, ConnTyped
  <1>3. calls' = calls
    BY DEF Open
  <1>4. file' = file \/ file = Absent
    BY DEF Open
  <1>5. OneWriter'
    <2>1. CASE file' = file
      BY <1>3, <2>1 DEF IInv, OneWriter, Makes
    <2>2. CASE file = Absent
      <3>1. \A d \in Calls : calls'[d].stage \notin Writing
        BY <1>3, <2>2, NoWriterYet
      <3> QED
        BY <3>1 DEF OneWriter, Makes, Writing
    <2> QED
      BY <1>4, <2>1, <2>2
  <1>6. MadeBySomebody'
    BY <1>1, <1>2 DEF MadeBySomebody
  <1> QED
    BY <1>2, <1>3, <1>5, <1>6 DEF IInv, CallsTyped

(***************************************************************************)
(* What the files are like, at every moment: one call at most makes a      *)
(* file, as far as it says it is, of what it was told.                     *)
(***************************************************************************)
THEOREM FilesInvariant == Spec => []IInv
  <1>1. ASSUME IInv, [Next]_vars
        PROVE  IInv'
    <2>1. ASSUME NEW c \in Calls, NEW options \in Options[c], CallLoad(c, options)
          PROVE  IInv'
      BY <1>1, <2>1, CallLoadKeeps
    <2>2. ASSUME NEW c \in Calls, CreateFile(c)
          PROVE  IInv'
      BY <1>1, <2>2, CreateFileKeeps
    <2>3. ASSUME NEW c \in Calls, BuildGraph(c)
          PROVE  IInv'
      BY <1>1, <2>3, BuildGraphKeeps
    <2>4. ASSUME NEW c \in Calls, StoreColumns(c)
          PROVE  IInv'
      BY <1>1, <2>4, StoreColumnsKeeps
    <2>5. ASSUME NEW options \in Connects, NEW present \in BOOLEAN,
                 CallConnect(options, present)
          PROVE  IInv'
      BY <1>1, <2>5, CallConnectKeeps
    <2>6. CASE Open
      BY <1>1, <2>6, OpenKeeps
    <2>7. CASE UNCHANGED vars
      BY <1>1, <2>7 DEF vars, IInv, CallsTyped, ConnTyped, OneWriter, Makes, MadeBySomebody
    <2> QED
      BY <1>1, <2>1, <2>2, <2>3, <2>4, <2>5, <2>6, <2>7 DEF Next
  <1> QED
    BY <1>1, Starts, PTL DEF Spec

(***************************************************************************)
(* Nothing is at the path while every call was refused or is still to run  *)
(* (src/load.rs plan, src/conn.rs compute).                                *)
(***************************************************************************)
THEOREM RefusalsMakeNothing == Spec => []RefusedMakesNothing
  <1>1. IInv => RefusedMakesNothing
    BY DEF IInv, MadeBySomebody, RefusedMakesNothing, Writing
  <1> QED
    BY <1>1, FilesInvariant, PTL

-----------------------------------------------------------------------------
\* A load that is done has made the file of what it was told.
LEMMA DoneMade ==
  ASSUME IInv, NEW c \in Calls, IsDone(c)
  PROVE  /\ IsOptions(calls[c].told)
         /\ IsPlanOf(calls[c].plan, calls[c].told)
         /\ file.rows = calls[c].plan.rows
         /\ file.edges = calls[c].plan.pairs
         /\ file.columns = calls[c].plan.columns
  <1>1. IsPlanned(c, calls[c])
    BY DEF IInv, CallsTyped, CallShape, IsDone, At, Planned
  <1>2. IsOptions(calls[c].told)
    BY <1>1, LoadAssumption DEF IsPlanned
  <1>3. IsPlanOf(calls[c].plan, calls[c].told)
    BY <1>1, <1>2, PlanParts DEF IsPlanned
  <1>4. file = Table(calls[c].plan.rows, calls[c].plan.pairs, calls[c].plan.columns, "built")
    BY DEF IInv, OneWriter, Makes, IsDone, At
  <1> QED
    BY <1>2, <1>3, <1>4 DEF Table

(***************************************************************************)
(* The edges of a table that was loaded join the rows they were written    *)
(* with, and rows that there are (src/load.rs pairs).                      *)
(***************************************************************************)
THEOREM EdgesHold == Spec => []EdgesNameRows
  <1>1. ASSUME IInv, NEW c \in Calls, IsDone(c), file.rows <= RowWord
        PROVE  /\ file.edges = Joined(calls[c].told.edges)
               /\ file.edges \subseteq (0 .. file.rows - 1) \X (0 .. file.rows - 1)
    <2> DEFINE plan == calls[c].plan
               edges == calls[c].told.edges
    <2>1. /\ IsOptions(calls[c].told) /\ IsPlanOf(plan, calls[c].told)
          /\ file.rows = plan.rows /\ file.edges = plan.pairs
      BY <1>1, DoneMade
    <2>2. IsEdgeList(edges)
      BY <2>1 DEF IsOptions
    <2>3. /\ plan.rows \in Nat /\ None \notin ToSet(PairsOf(edges, plan.rows))
          /\ plan.pairs = {pair[1] : pair \in ToSet(PairsOf(edges, plan.rows))}
      BY <2>1 DEF IsPlanOf
    <2>4. plan.rows <= RowWord
      BY <1>1, <2>1
    <2> HIDE DEF plan, edges
    <2>5. plan.pairs = Joined(edges) /\ Joined(edges) \subseteq RowPairs(plan.rows)
      BY <2>2, <2>3, <2>4, PairsAreRows
    <2> QED
      BY <2>1, <2>5 DEF RowPairs, edges
  <1>2. IInv => EdgesNameRows
    BY <1>1 DEF EdgesNameRows
  <1> QED
    BY <1>2, FilesInvariant, PTL

(***************************************************************************)
(* A table that was loaded has the columns it was loaded with, and the     *)
(* values in them (src/load.rs run, column; src/buffer.rs widening_push).  *)
(***************************************************************************)
THEOREM ColumnsHold == Spec => []LoadedAsWritten
  <1>1. ASSUME IInv, NEW c \in Calls, IsDone(c)
        PROVE  /\ Len(file.columns) = Len(calls[c].told.columns)
               /\ DOMAIN file.columns = DOMAIN calls[c].told.columns
               /\ \A i \in DOMAIN file.columns :
                    /\ Reading(file.columns[i], Wrote(calls[c].told.columns[i]))
                    /\ file.rows = Length(file.columns[i])
    <2> DEFINE told == calls[c].told.columns
    <2>1. /\ IsOptions(calls[c].told) /\ IsPlanOf(calls[c].plan, calls[c].told)
          /\ file.rows = calls[c].plan.rows
          /\ file.columns = calls[c].plan.columns
      BY <1>1, DoneMade
    <2>2. /\ file.columns = [i \in DOMAIN told |-> ColumnOf(told[i])]
          /\ \A i \in DOMAIN told : file.columns[i] # Refused
                                    /\ Length(file.columns[i]) = file.rows
      BY <2>1 DEF IsPlanOf, ColumnsOf
    <2>3. told \in Seq(ToSet(told)) /\ \A i \in DOMAIN told : IsColumn(told[i])
      BY <2>1 DEF IsOptions, IsSequence
    <2> HIDE DEF told
    <2>4. PICK n \in Nat : n = Len(told) /\ DOMAIN told = 1 .. n
      BY <2>3
    <2>5. Len(file.columns) = n /\ DOMAIN file.columns = 1 .. n
      <3>1. file.columns \in [1 .. n -> {ColumnOf(told[i]) : i \in 1 .. n}]
        BY <2>2, <2>4
      <3> QED
        BY <3>1, FunctionLength
    <2>6. ASSUME NEW i \in 1 .. n
          PROVE  /\ Reading(file.columns[i], Wrote(told[i]))
                 /\ file.rows = Length(file.columns[i])
      BY <2>2, <2>3, <2>4, ColumnReads
    <2> QED
      BY <2>4, <2>5, <2>6 DEF told
  <1>2. ASSUME IInv, NEW c \in Calls, IsDone(c)
        PROVE  /\ Len(file.columns) = Len(calls[c].told.columns)
               /\ \A i \in DOMAIN file.columns :
                    LET wrote == Wrote(calls[c].told.columns[i])
                    IN  /\ Length(file.columns[i]) = Len(wrote)
                        /\ file.rows = Len(wrote)
                        /\ \A row \in DOMAIN wrote :
                             HoldsInRow(file.columns[i], row, wrote[row])
    BY <1>1, <1>2 DEF Reading
  <1>3. IInv => LoadedAsWritten
    BY <1>2 DEF LoadedAsWritten
  <1> QED
    BY <1>3, FilesInvariant, PTL

-----------------------------------------------------------------------------
(***************************************************************************)
(* What a parameter binds as, node by node.                                *)
(***************************************************************************)
\* What an object binds as is one of the engine's values.
LEMMA ObjectHeld ==
  ASSUME NEW v, IsNode(v)
  PROVE  \/ FromObject(v) = Refused
         \/ IsHeld(FromObject(v)) /\ FromObject(v)[1] \notin {"float", "node"}
  <1>1. CASE v[1] \in Classes
    <2>1. FromObject(v) = TemporalOf(v)
      BY <1>1 DEF FromObject, Classes, IsTemporal
    <2>2. IsHeld(TemporalOf(v)) /\ TemporalOf(v)[1] \in Moments
      BY <1>1, ClassHeld DEF IsNode
    <2>3. TemporalOf(v)[1] \notin {"float", "node"}
      BY <2>2 DEF Moments
    <2> QED
      BY <2>1, <2>2, <2>3
  <1>2. CASE IsTemporal(v)
    <2>1. FromObject(v) = FromTemporal(v)
      BY <1>2 DEF FromObject, IsTemporal, Classes
    <2>2. \/ FromTemporal(v) = Refused
          \/ IsHeld(FromTemporal(v)) /\ FromTemporal(v)[1] \in Moments
      BY <1>2, TemporalHeld DEF IsNode
    <2> QED
      BY <2>1, <2>2 DEF Moments
  <1>3. CASE v[1] \notin Classes /\ ~IsTemporal(v)
    <2>1. CASE v[1] = "ZuDecimal"
      BY <1>3, <2>1 DEF FromObject, IsHeld
    <2>2. CASE v[1] = "Uint8Array"
      BY <1>3, <2>2 DEF FromObject, IsHeld
    <2>3. CASE v[1] = "Int32Array"
      BY <1>3, <2>3 DEF FromObject
    <2>4. CASE v[1] = "array"
      <3>1. v[2] \in Nat
        BY <1>3, <2>4 DEF IsNode, Numbers, Hollow
      <3> QED
        BY <1>3, <2>4, <3>1 DEF FromObject, IsHeld
    <2>5. CASE v[1] \notin {"ZuDecimal", "Uint8Array", "Int32Array", "array"}
      <3>1. FromObject(v) = <<"record", OwnFields(v)>>
        BY <1>3, <2>5 DEF FromObject
      <3>2. OwnFields(v) \in Nat
        BY <2>5 DEF OwnFields, IsNode, Numbers, Hollow, Classes, IsTemporal
      <3> QED
        BY <3>1, <3>2 DEF IsHeld
    <2> QED
      BY <2>1, <2>2, <2>3, <2>4, <2>5
  <1> QED
    BY <1>1, <1>2, <1>3

\* A whole number that binds as one is of 64 bits.
LEMMA WholeFits ==
  ASSUME NEW v, IsValue(v), v[1] \in Numbers, BindsWhole(v)
  PROVE  WholeOf(v) \in Int64 /\ Meaning(v) = <<"number", 2 * WholeOf(v)>>
  <1>1. v[1] = "number" /\ IsCount(WholeOf(v), v)
    BY WholeNumber DEF BindsWhole, IsWhole
  <1>2. WholeOf(v) \in -Exact .. Exact /\ WholeOf(v) \in Int
    BY <1>1 DEF BindsWhole, WithinExact, IsCount
  <1>3. Exact \in Nat /\ Word \in Nat /\ Exact < Word
    BY Constants, ValuesAssumption
  <1>4. WholeOf(v) \in Int64
    BY <1>2, <1>3 DEF Int64
  <1>5. Meaning(v) # <<"negativeZero">>
    BY <1>1 DEF Meaning
  <1> QED
    BY <1>1, <1>4, <1>5 DEF IsCount

\* The kinds of the values that are no objects.
Bare == {"null", "undefined", "boolean", "string", "bigint", "symbol", "function"}
          \union Numbers

\* One of the engine's that a node binds as, and no whole number a float.
IsBound(h) ==
  /\ IsHeld(h) /\ h[1] # "node"
  /\ h[1] = "float" => ~BindsWhole(h[2])

\* A node that binds is one of the engine's.
LEMMA NodeHeld ==
  ASSUME NEW v, IsNode(v), NEW depth
  PROVE  Nested(v, depth) = Refused \/ IsBound(Nested(v, depth))
  <1> DEFINE h == Nested(v, depth)
  <1>1. CASE depth > Deep
    BY <1>1 DEF Nested
  <1>2. CASE ~(depth > Deep)
    <2>1. CASE v[1] \in {"null", "undefined"}
      <3>1. h = <<"null">>
        BY <1>2, <2>1 DEF Nested, Numbers
      <3> QED
        BY <3>1 DEF IsHeld, IsBound
    <2>2. CASE v[1] \in {"boolean", "string"}
      <3>1. h = v
        BY <1>2, <2>2 DEF Nested, Numbers
      <3>2. v = <<v[1], v[2]>>
        BY <2>2 DEF IsNode, IsValue, Numbers
      <3>3. IsHeld(v) /\ v[1] \notin {"node", "float"}
        BY <2>2, <3>2 DEF IsHeld
      <3> QED
        BY <3>1, <3>3 DEF IsBound
    <2>3. CASE v[1] = "bigint"
      <3>1. h = IF v[2] \in Int64 THEN <<"int", v[2]>> ELSE Refused
        BY <1>2, <2>3 DEF Nested, Numbers
      <3>2. v[2] \in Int64 => IsBound(<<"int", v[2]>>)
        BY DEF IsHeld, IsBound
      <3> QED
        BY <3>1, <3>2
    <2>4. CASE v[1] \in Numbers
      <3>1. h = IF BindsWhole(v) THEN <<"int", WholeOf(v)>> ELSE <<"float", v>>
        BY <1>2, <2>4 DEF Nested, Numbers
      <3>2. IsValue(v)
        BY DEF IsNode
      <3>3. BindsWhole(v) => WholeOf(v) \in Int64
        BY <2>4, <3>2, WholeFits
      <3>4. BindsWhole(v) => IsBound(<<"int", WholeOf(v)>>)
        BY <3>3 DEF IsHeld, IsBound
      <3>5. ~BindsWhole(v) => IsBound(<<"float", v>>)
        BY <2>4, <3>2 DEF IsHeld, IsBound
      <3> QED
        BY <3>1, <3>4, <3>5
    <2>5. CASE v[1] \in {"symbol", "function"}
      BY <1>2, <2>5 DEF Nested, Numbers
    <2>6. CASE v[1] \notin Bare
      <3>1. h = FromObject(v)
        BY <1>2, <2>6 DEF Nested, Bare
      <3> QED
        BY <3>1, ObjectHeld DEF IsBound
    <2> QED
      BY <2>1, <2>2, <2>3, <2>4, <2>5, <2>6 DEF Bare
  <1> QED
    BY <1>1, <1>2

-----------------------------------------------------------------------------
\* A value of a class is the moment it means, unless its offset wraps.
LEMMA ClassMeant ==
  ASSUME NEW v, IsValue(v), v[1] \in Classes
  PROVE  TemporalOf(v) = Meaning(v) \/ OffsetWraps(v)
  <1>1. CASE v[1] = "ZuDate"
    BY <1>1 DEF TemporalOf, Meaning
  <1>2. CASE v[1] = "ZuDuration"
    BY <1>2 DEF TemporalOf, Meaning
  <1>3. CASE v[1] \in {"ZuTime", "ZuTimestamp"}
    <2>1. v[3] \in Seq(Int) /\ Len(v[3]) <= 1
      BY <1>3 DEF IsValue, Numbers
    <2> DEFINE local == IF v[1] = "ZuTime" THEN "localTime" ELSE "localDatetime"
               zoned == IF v[1] = "ZuTime" THEN "zonedTime" ELSE "zonedDatetime"
    <2>2. TemporalOf(v) = <<IF v[3] = None THEN local ELSE zoned, v[2]>> \o OffsetOf(v[3])
      BY <1>3 DEF TemporalOf
    <2>3. CASE v[3] = None
      <3>1. OffsetOf(v[3]) = <<>>
        BY <2>3 DEF OffsetOf, None
      <3>2. TemporalOf(v) = <<local, v[2]>>
        BY <2>2, <2>3, <3>1, PairGrows
      <3>3. Meaning(v) = <<local, v[2]>>
        BY <1>3, <2>3 DEF Meaning
      <3> QED
        BY <3>2, <3>3
    <2>4. CASE v[3] # None
      <3> SUFFICES ASSUME ~OffsetWraps(v)
                   PROVE  TemporalOf(v) = Meaning(v)
        OBVIOUS
      <3>1. v[3][1] \in Int16
        BY <1>3, <2>4 DEF OffsetWraps
      <3>2. OffsetOf(v[3]) = <<v[3][1]>>
        BY <2>1, <2>4, <3>1, OffsetFits
      <3>3. TemporalOf(v) = <<zoned, v[2], v[3][1]>>
        BY <2>2, <2>4, <3>2, PairGrows
      <3>4. Meaning(v) = <<zoned, v[2], v[3][1]>>
        BY <1>3, <2>4 DEF Meaning
      <3> QED
        BY <3>3, <3>4
    <2> QED
      BY <2>3, <2>4
  <1> QED
    BY <1>1, <1>2, <1>3 DEF Classes

\* The spans are positive.
LEMMA SpansArePositive == Second > 0 /\ Minute > 0 /\ Day > 0 /\ Second \in Nat /\ Minute \in Nat /\ Day \in Nat
  <1>1. /\ Thousand \in Nat /\ Thousand > 0 /\ Sixty \in Nat /\ Sixty > 0
        /\ HourCount \in Nat /\ HourCount > 0
    BY TemporalAssumption
  <1>2. Thousand * Thousand \in Nat /\ Thousand * Thousand > 0
    BY <1>1
  <1>3. Second > 0
    BY <1>1, <1>2 DEF Second
  <1>4. Minute > 0
    BY <1>1, <1>3, Spans DEF Minute
  <1>5. Hour > 0
    BY <1>1, <1>4, Spans DEF Hour
  <1>6. Day > 0
    BY <1>1, <1>5, Spans DEF Day
  <1> QED
    BY <1>3, <1>4, <1>6, Spans

\* The division of Rust is division, of what divides.
LEMMA MinuteDivides ==
  ASSUME NEW n \in Int, Rest(n, Minute) = 0
  PROVE  n % Minute = 0 /\ n \div Minute = Quot(n, Minute)
  <1>1. PICK d \in Nat : d = Minute /\ d > 0
    <2>1. Sixty \in Nat /\ Sixty > 0 /\ Thousand \in Nat /\ Thousand > 0
      BY TemporalAssumption
    <2>2. Thousand * Thousand \in Nat /\ Thousand * Thousand > 0
      BY <2>1
    <2>3. Second \in Nat /\ Second > 0
      BY <2>1, <2>2 DEF Second
    <2>4. Minute \in Nat /\ Minute > 0
      BY <2>1, <2>3 DEF Minute
    <2> QED
      BY <2>4
  <1>2. PICK q \in Int : q = Quot(n, d)
    BY <1>1, QuotIsInt
  <1>3. n = d * q
    <2>1. n - d * q = 0 /\ d * q \in Int
      BY <1>1, <1>2 DEF Rest
    <2> QED
      BY <2>1
  <1>4. n \div d = q /\ n % d = 0
    BY <1>1, <1>2, <1>3
  <1> QED
    BY <1>1, <1>2, <1>4

\* So is a Temporal value that is taken, unless a duration wraps.
LEMMA TemporalMeant ==
  ASSUME NEW v, IsValue(v), IsTemporal(v), FromTemporal(v) # Refused
  PROVE  FromTemporal(v) = Meaning(v) \/ DurationWraps(v)
  <1> DEFINE h == FromTemporal(v)
  <1>1. IsHeld(h) /\ h[1] \in Moments
    BY TemporalHeld
  <1>2. CASE h[1] \in LocalMoments
    <2>1. h = <<h[1], h[2]>>
      BY <1>1, <1>2 DEF IsHeld, LocalMoments
    <2> QED
      BY <1>2, <2>1, TemporalKept
  <1>3. CASE h[1] \notin LocalMoments
    <2>1. CASE v[1] = "Instant"
      <3>1. h = Since(v[2], <<0>>)
        BY <2>1 DEF FromTemporal
      <3>2. h = <<"zonedDatetime", v[2], 0>>
        BY <3>1 DEF Since
      <3> QED
        BY <2>1, <3>2 DEF Meaning
    <2>2. CASE v[1] = "ZonedDateTime"
      <3>1. h = Since(v[2], Offset(v[3])) /\ v[3] \in Int
        BY <2>2 DEF FromTemporal, IsValue, Numbers
      <3>2. Offset(v[3]) # <<>> /\ h = <<"zonedDatetime", v[2], Offset(v[3])[1]>>
        BY <3>1 DEF Since
      <3>3. Rest(v[3], Minute) = 0 /\ Offset(v[3])[1] = Quot(v[3], Minute)
        BY <3>2 DEF Offset
      <3>4. v[3] % Minute = 0 /\ v[3] \div Minute = Quot(v[3], Minute)
        BY <3>1, <3>3, MinuteDivides
      <3> QED
        BY <2>2, <3>2, <3>3, <3>4 DEF Meaning
    <2>3. CASE v[1] \in {"PlainDate", "PlainTime", "PlainDateTime", "Duration", "PlainYearMonth"}
      <3>1. h[1] \in LocalMoments \union {"refused"}
        BY <2>3 DEF FromTemporal, DaysOf, Epoch, DurationOf, LocalMoments, Refused
      <3> QED
        BY <1>1, <1>3, <3>1 DEF Moments
    <2> QED
      BY <2>1, <2>2, <2>3 DEF IsTemporal
  <1> QED
    BY <1>2, <1>3

\* What a node binds as, if it does, is what it means, but for what wraps or is
\* hollow.
LEMMA NodeMeant ==
  ASSUME NEW v, IsNode(v), NEW depth, Nested(v, depth) # Refused
  PROVE  \/ Standing(Nested(v, depth)) = Means(v)
         \/ OffsetWraps(v) \/ DurationWraps(v) \/ Hollow(v)
  <1> SUFFICES ASSUME ~OffsetWraps(v), ~DurationWraps(v), ~Hollow(v)
               PROVE  Standing(Nested(v, depth)) = Means(v)
    OBVIOUS
  <1>1. ~(depth > Deep) /\ IsValue(v)
    BY DEF Nested, IsNode
  <1>2. v[1] \notin {"array", "object"} => Means(v) = Meaning(v)
    BY DEF Means
  <1>3. CASE v[1] \in {"null", "undefined"}
    <2>1. Nested(v, depth) = <<"null">>
      BY <1>1, <1>3 DEF Nested, Numbers
    <2>2. v[1] = "null" => v = <<"null">>
      BY DEF IsNode, Numbers, Classes, IsTemporal, Hollow
    <2>3. Meaning(v) = <<"null">>
      BY <1>3, <2>2 DEF Meaning
    <2>4. Standing(<<"null">>) = <<"null">>
      BY DEF Standing
    <2> QED
      BY <1>2, <1>3, <2>1, <2>3, <2>4
  <1>4. CASE v[1] \in {"boolean", "string"}
    <2>1. Nested(v, depth) = v
      BY <1>1, <1>4 DEF Nested, Numbers
    <2>2. Meaning(v) = v /\ Standing(v) = v
      BY <1>4 DEF Meaning, Standing
    <2> QED
      BY <1>2, <1>4, <2>1, <2>2
  <1>5. CASE v[1] = "bigint"
    <2>1. Nested(v, depth) = IF v[2] \in Int64 THEN <<"int", v[2]>> ELSE Refused
      BY <1>1, <1>5 DEF Nested, Numbers
    <2>2. Standing(<<"int", v[2]>>) = <<"number", 2 * v[2]>> /\ Meaning(v) = <<"number", 2 * v[2]>>
      BY <1>5 DEF Standing, Meaning
    <2> QED
      BY <1>2, <1>5, <2>1, <2>2
  <1>6. CASE v[1] \in Numbers
    <2>1. Nested(v, depth) = IF BindsWhole(v) THEN <<"int", WholeOf(v)>> ELSE <<"float", v>>
      BY <1>1, <1>6 DEF Nested, Numbers
    <2>2. BindsWhole(v) => Standing(<<"int", WholeOf(v)>>) = Meaning(v)
      <3>1. Standing(<<"int", WholeOf(v)>>) = <<"number", 2 * WholeOf(v)>>
        BY DEF Standing
      <3> QED
        BY <1>1, <1>6, <3>1, WholeFits
    <2>3. Standing(<<"float", v>>) = Meaning(v)
      BY <1>6, FloatKept
    <2>4. v[1] \notin {"array", "object"}
      BY <1>6 DEF Numbers
    <2> QED
      BY <1>2, <2>1, <2>2, <2>3, <2>4
  <1>7. CASE v[1] \in {"symbol", "function"}
    BY <1>1, <1>7 DEF Nested, Numbers
  <1>8. CASE v[1] \notin Bare
    <2>1. Nested(v, depth) = FromObject(v)
      BY <1>1, <1>8 DEF Nested, Bare
    <2>2. CASE v[1] \in Classes
      <3>1. FromObject(v) = TemporalOf(v)
        BY <2>2 DEF FromObject, Classes, IsTemporal
      <3>2. TemporalOf(v)[1] \in Moments /\ TemporalOf(v) = Meaning(v)
        BY <1>1, <2>2, ClassHeld, ClassMeant
      <3>3. Standing(TemporalOf(v)) = TemporalOf(v)
        BY <3>2 DEF Standing, Moments
      <3>4. Means(v) = Meaning(v)
        BY <1>2, <2>2 DEF Classes
      <3> QED
        BY <2>1, <3>1, <3>2, <3>3, <3>4
    <2>3. CASE IsTemporal(v)
      <3>1. FromObject(v) = FromTemporal(v)
        BY <2>3 DEF FromObject, IsTemporal, Classes
      <3>2. FromTemporal(v)[1] \in Moments /\ FromTemporal(v) = Meaning(v)
        BY <1>1, <2>1, <2>3, <3>1, TemporalHeld, TemporalMeant
      <3>3. Standing(FromTemporal(v)) = FromTemporal(v)
        BY <3>2 DEF Standing, Moments
      <3>4. Means(v) = Meaning(v)
        BY <1>2, <2>3 DEF IsTemporal
      <3> QED
        BY <2>1, <3>1, <3>2, <3>3, <3>4
    <2>4. CASE v[1] = "array"
      <3>1. FromObject(v) = <<"list", v[2]>> /\ Means(v) = <<"list", v[2]>>
        BY <2>4 DEF FromObject, Means, Classes, IsTemporal
      <3>2. Standing(<<"list", v[2]>>) = <<"list", v[2]>>
        BY DEF Standing
      <3> QED
        BY <2>1, <3>1, <3>2
    <2>5. CASE v[1] = "object"
      <3>1. FromObject(v) = <<"record", v[2]>> /\ Means(v) = <<"record", v[2]>>
        BY <2>5 DEF FromObject, Means, OwnFields, Classes, IsTemporal
      <3>2. Standing(<<"record", v[2]>>) = <<"record", v[2]>>
        BY DEF Standing
      <3> QED
        BY <2>1, <3>1, <3>2
    <2>6. CASE v[1] \in {"ZuDecimal", "Uint8Array", "Int32Array"}
      <3>1. FromObject(v) = IF v[1] = "ZuDecimal" THEN <<"decimal", v[2], v[3]>>
                            ELSE IF v[1] = "Uint8Array" THEN <<"bytes", v[2]>>
                            ELSE Refused
        BY <2>6 DEF FromObject, Classes, IsTemporal
      <3>2. v[1] = "ZuDecimal" => Meaning(v) = <<"decimal", v[2], v[3]>>
        BY DEF Meaning
      <3>3. v[1] = "Uint8Array" => Meaning(v) = <<"bytes", v[2]>>
        BY DEF Meaning
      <3>4. /\ Standing(<<"decimal", v[2], v[3]>>) = <<"decimal", v[2], v[3]>>
            /\ Standing(<<"bytes", v[2]>>) = <<"bytes", v[2]>>
        BY DEF Standing
      <3> QED
        BY <1>2, <2>1, <2>6, <3>1, <3>2, <3>3, <3>4
    <2> QED
      BY <1>8, <2>2, <2>3, <2>4, <2>5, <2>6 DEF IsNode, Bare
  <1> QED
    BY <1>3, <1>4, <1>5, <1>6, <1>7, <1>8 DEF Bare

-----------------------------------------------------------------------------
(***************************************************************************)
(* How an engine's value is spelled, and what that means.                  *)
(***************************************************************************)
Modes == {"bigint", "number"}

\* The moments that have a Temporal type are those that come back.
LEMMA HeldIsMoment ==
  ASSUME NEW h, IsHeld(h), h[1] \in Moments \ {"zonedTime"}
  PROVE  IsMoment(h)
  <1>1. h[1] \in {"date", "localTime"} => h = <<h[1], h[2]>> /\ h[2] \in Int
    BY DEF IsHeld
  <1>2. h[1] \in {"localDatetime", "yearMonth", "dayTime"} =>
          h = <<h[1], h[2]>> /\ h[2] \in Int64
    BY DEF IsHeld
  <1>3. h[1] = "zonedDatetime" => h = <<h[1], h[2], h[3]>> /\ h[2] \in Int64 /\ h[3] \in Int16
    BY DEF IsHeld
  <1> QED
    BY <1>1, <1>2, <1>3 DEF IsMoment, Moments

\* An INT64, in either of the modes.
LEMMA IntThere ==
  ASSUME NEW n \in Int64, NEW ints \in Modes
  PROVE  \/ IntTo(n, ints) = <<"bigint", n>>
         \/ IntTo(n, ints) = Refused /\ n \notin -Exact + 1 .. Exact - 1
         \/ IntTo(n, ints) = <<"number", 2 * n>> /\ n \in -Exact .. Exact
  <1>1. n \in Int
    BY Constants DEF Int64
  <1>2. CASE ints = "bigint"
    BY <1>2 DEF IntTo
  <1>3. CASE ints = "number" /\ n \notin -(Exact - 1) .. Exact - 1
    <2>1. -(Exact - 1) = -Exact + 1
      BY Constants
    <2>2. IntTo(n, ints) = Refused
      BY <1>3 DEF IntTo
    <2> QED
      BY <1>3, <2>1, <2>2
  <1>4. CASE ints = "number" /\ n \in -(Exact - 1) .. Exact - 1
    <2>1. n \in -Exact .. Exact
      BY <1>1, <1>4, Constants
    <2>2. IntTo(n, ints) = AsNumber(n)
      BY <1>4 DEF IntTo
    <2> QED
      BY <1>1, <2>1, <2>2, AsDouble
  <1> QED
    BY <1>2, <1>3, <1>4 DEF Modes

\* The class a moment is spelled as is read as it was, and means it.
LEMMA ClassThere ==
  ASSUME NEW h, IsHeld(h), h[1] \in Moments
  PROVE  /\ AsClass(h)[1] \in Classes
         /\ TemporalOf(AsClass(h)) = h /\ Meaning(AsClass(h)) = h
  <1> DEFINE v == AsClass(h)
  <1>1. CASE h[1] = "date"
    <2>1. h = <<"date", h[2]>> /\ v = <<"ZuDate", h[2]>>
      BY <1>1 DEF IsHeld, AsClass
    <2> QED
      BY <2>1 DEF TemporalOf, Meaning, Classes
  <1>2. CASE h[1] \in {"yearMonth", "dayTime"}
    <2>1. h = <<h[1], h[2]>> /\ v = <<"ZuDuration", h[2], h[1]>>
      BY <1>2 DEF IsHeld, AsClass
    <2> QED
      BY <2>1 DEF TemporalOf, Meaning, Classes
  <1>3. CASE h[1] \in {"localTime", "localDatetime"}
    <2> DEFINE class == IF h[1] = "localTime" THEN "ZuTime" ELSE "ZuTimestamp"
    <2>1. h = <<h[1], h[2]>>
      BY <1>3 DEF IsHeld
    <2>2. v = <<class, h[2], None>>
      BY <1>3 DEF AsClass
    <2>3. v[1] = class /\ v[2] = h[2] /\ v[3] = None
      BY <2>2
    <2>4. OffsetOf(None) = <<>>
      BY DEF OffsetOf, None
    <2> HIDE DEF v
    <2>5. TemporalOf(v) = <<h[1], h[2]>> \o <<>>
      BY <1>3, <2>3, <2>4 DEF TemporalOf
    <2>6. Meaning(v) = <<h[1], h[2]>>
      BY <1>3, <2>3 DEF Meaning
    <2>7. v[1] \in Classes /\ TemporalOf(v) = h /\ Meaning(v) = h
      BY <2>1, <2>3, <2>5, <2>6, PairGrows DEF Classes
    <2> QED
      BY <2>7 DEF v
  <1>4. CASE h[1] \in {"zonedTime", "zonedDatetime"}
    <2> DEFINE class == IF h[1] = "zonedTime" THEN "ZuTime" ELSE "ZuTimestamp"
    <2>1. h = <<h[1], h[2], h[3]>> /\ h[3] \in Int16
      BY <1>4 DEF IsHeld
    <2> DEFINE offset == <<h[3]>>
    <2>2. v = <<class, h[2], offset>>
      BY <1>4 DEF AsClass, Some
    <2>3. v[1] = class /\ v[2] = h[2] /\ v[3] = offset
      BY <2>2
    <2>4. offset \in Seq(Int) /\ Len(offset) <= 1 /\ offset # None /\ offset[1] = h[3]
      <3>1. h[3] \in Int
        BY <2>1, TemporalAssumption DEF Int16
      <3> QED
        BY <3>1 DEF None
    <2> HIDE DEF v, offset
    <2>5. OffsetOf(offset) = <<h[3]>>
      BY <2>1, <2>4, OffsetFits
    <2>6. TemporalOf(v) = <<h[1], h[2]>> \o <<h[3]>>
      BY <1>4, <2>3, <2>4, <2>5 DEF TemporalOf
    <2>7. Meaning(v) = <<h[1], h[2], h[3]>>
      BY <1>4, <2>3, <2>4 DEF Meaning
    <2>8. v[1] \in Classes /\ TemporalOf(v) = h /\ Meaning(v) = h
      BY <2>1, <2>3, <2>6, <2>7, PairGrows DEF Classes
    <2> QED
      BY <2>8 DEF v
  <1> QED
    BY <1>1, <1>2, <1>3, <1>4 DEF Moments

\* What the Temporal values mean.
LEMMA TemporalSays ==
  ASSUME NEW v
  PROVE  /\ v[1] = "PlainDate" /\ v[3] = "iso8601" =>
              Meaning(v) = <<"date", DayCount(v[2])>>
         /\ v[1] = "PlainTime" => Meaning(v) = <<"localTime", ClockCount(v[2])>>
         /\ v[1] = "PlainDateTime" /\ v[4] = "iso8601" =>
              Meaning(v) = <<"localDatetime", DayCount(v[2]) * Day + ClockCount(v[3])>>
         /\ v[1] = "ZonedDateTime" /\ v[3] % Minute = 0 =>
              Meaning(v) = <<"zonedDatetime", v[2], v[3] \div Minute>>
         /\ v[1] = "Duration" => Meaning(v) = DurationMeans(v[2])
  <1>1. v[1] = "PlainDate" /\ v[3] = "iso8601" =>
          Meaning(v) = <<"date", DayCount(v[2])>>
    BY DEF Meaning, IsISO
  <1>2. v[1] = "PlainTime" => Meaning(v) = <<"localTime", ClockCount(v[2])>>
    BY DEF Meaning
  <1>3. v[1] = "PlainDateTime" /\ v[4] = "iso8601" =>
          Meaning(v) = <<"localDatetime", DayCount(v[2]) * Day + ClockCount(v[3])>>
    BY DEF Meaning, IsISO
  <1>4. v[1] = "ZonedDateTime" /\ v[3] % Minute = 0 =>
          Meaning(v) = <<"zonedDatetime", v[2], v[3] \div Minute>>
    BY DEF Meaning
  <1>5. v[1] = "Duration" => Meaning(v) = DurationMeans(v[2])
    BY DEF Meaning
  <1> QED
    BY <1>1, <1>2, <1>3, <1>4, <1>5

\* The Temporal value a moment is spelled as means it, but for no months.
LEMMA TemporalThere ==
  ASSUME NEW h, IsHeld(h), h[1] \in Moments \ {"zonedTime"}, ToTemporal(h) # Thrown
  PROVE  /\ IsTemporal(ToTemporal(h))
         /\ Meaning(ToTemporal(h)) = h \/ h = <<"yearMonth", 0>>
  <1>0. PICK v : v = ToTemporal(h)
    OBVIOUS
  <1> SUFFICES IsTemporal(v) /\ (Meaning(v) = h \/ h = <<"yearMonth", 0>>)
    BY <1>0
  <1>1. CASE h[1] = "date"
    <2>1. PICK n \in Int : h = <<"date", n>>
      BY <1>1 DEF IsHeld
    <2>2. v = <<"PlainDate", Civil(n), "iso8601">>
      BY <1>0, <2>1 DEF ToTemporal, Built
    <2>3. DayCount(Civil(n)) = n
      BY CivilIsDate, CivilDaysCount, CivilComesBack
    <2>4. v[1] = "PlainDate" /\ v[2] = Civil(n) /\ v[3] = "iso8601"
      BY <2>2
    <2>5. IsTemporal(v) /\ Meaning(v) = <<"date", n>>
      BY <2>3, <2>4, TemporalSays DEF IsTemporal
    <2> QED
      BY <2>1, <2>5
  <1>2. CASE h[1] = "localTime"
    <2>1. PICK n \in Int : h = <<"localTime", n>>
      BY <1>2 DEF IsHeld
    <2>2. IsClock(Clock(n)) /\ v = <<"PlainTime", Clock(n)>>
      BY <1>0, <2>1 DEF ToTemporal, Built
    <2>3. ClockCount(Clock(n)) = n
      BY <2>2, ClockCounts, ClockComesBack
    <2>4. v[1] = "PlainTime" /\ v[2] = Clock(n)
      BY <2>2
    <2>5. IsTemporal(v) /\ Meaning(v) = <<"localTime", n>>
      BY <2>3, <2>4, TemporalSays DEF IsTemporal
    <2> QED
      BY <2>1, <2>5
  <1>3. CASE h[1] = "localDatetime"
    <2>1. PICK n \in Int : h = <<"localDatetime", n>>
      BY <1>3, Constants DEF IsHeld, Int64
    <2>2. PICK days, rest : days = n \div Day /\ rest = n % Day
      OBVIOUS
    <2>3. days \in Int /\ rest \in 0 .. Day - 1 /\ days * Day + rest = n
      <3>1. PICK d \in Nat : d = Day /\ d > 0
        BY SpansArePositive
      <3>2. n % d \in 0 .. d - 1
        BY <3>1
      <3> QED
        BY <2>2, <3>1, <3>2, DayAndRest
    <2>4. v = <<"PlainDateTime", Civil(days), Clock(rest), "iso8601">>
      BY <1>0, <2>1, <2>2 DEF ToTemporal
    <2>5. DayCount(Civil(days)) = days
      BY <2>3, CivilIsDate, CivilDaysCount, CivilComesBack
    <2>6. ClockCount(Clock(rest)) = rest
      <3>1. rest \in Int
        BY <2>3, Spans
      <3> QED
        BY <2>3, <3>1, ClockIsClock, ClockCounts, ClockComesBack
    <2>7. /\ v[1] = "PlainDateTime" /\ v[2] = Civil(days)
          /\ v[3] = Clock(rest) /\ v[4] = "iso8601"
      BY <2>4
    <2>8. IsTemporal(v) /\ Meaning(v) = <<"localDatetime", days * Day + rest>>
      BY <2>5, <2>6, <2>7, TemporalSays DEF IsTemporal
    <2> QED
      BY <2>1, <2>3, <2>8
  <1>4. CASE h[1] = "zonedDatetime"
    <2>1. PICK n \in Int64, o \in Int : h = <<"zonedDatetime", n, o>>
      BY <1>4, TemporalAssumption DEF IsHeld, Int16
    <2>2. PICK d \in Nat : d = Minute /\ d > 0
      BY SpansArePositive
    <2>3. PICK zone \in Int : zone = o * d
      OBVIOUS
    <2>4. v = <<"ZonedDateTime", n, zone>>
      BY <1>0, <2>1, <2>2, <2>3 DEF ToTemporal, Built
    <2>5. Quot(zone, d) = o /\ Rest(zone, d) = 0
      BY <2>2, <2>3, QuotOfProduct
    <2>6. zone % Minute = 0 /\ zone \div Minute = o
      BY <2>2, <2>5, MinuteDivides
    <2>7. v[1] = "ZonedDateTime" /\ v[2] = n /\ v[3] = zone
      BY <2>4
    <2>8. IsTemporal(v) /\ Meaning(v) = <<"zonedDatetime", n, o>>
      BY <2>6, <2>7, TemporalSays DEF IsTemporal
    <2> QED
      BY <2>1, <2>8
  <1>5. CASE h[1] = "yearMonth"
    <2>1. PICK n \in Int : h = <<"yearMonth", n>>
      BY <1>5, Constants DEF IsHeld, Int64
    <2>2. v = <<"Duration", Fields(n, 0, 0)>>
      BY <1>0, <2>1 DEF ToTemporal, Built
    <2>3. MonthsOf(Fields(n, 0, 0)) = n /\ LengthOf(Fields(n, 0, 0)) = 0
      <3>1. 0 \in Int /\ 0 * Second + 0 = 0
        BY Spans
      <3> QED
        BY <3>1, FieldsCount
    <2>4. n # 0 => DurationMeans(Fields(n, 0, 0)) = <<"yearMonth", n>>
      BY <2>3 DEF DurationMeans
    <2>5. v[1] = "Duration" /\ v[2] = Fields(n, 0, 0)
      BY <2>2
    <2>6. IsTemporal(v) /\ Meaning(v) = DurationMeans(Fields(n, 0, 0))
      BY <2>5, TemporalSays DEF IsTemporal
    <2> QED
      BY <2>1, <2>4, <2>6
  <1>6. CASE h[1] = "dayTime"
    <2>1. PICK n \in Int : h = <<"dayTime", n>>
      BY <1>6, Constants DEF IsHeld, Int64
    <2>2. PICK q, r : q = Quot(n, Second) /\ r = Rest(n, Second)
      OBVIOUS
    <2>3. q \in Int /\ r \in Int /\ q * Second + r = n
      <3>1. PICK s \in Nat : s = Second /\ s > 0
        BY SpansArePositive
      <3>2. q \in Int
        BY <2>2, <3>1, QuotIsInt
      <3>3. r = n - s * q
        BY <2>2, <3>1 DEF Rest
      <3>4. s * q \in Int /\ s * q = q * s
        BY <3>1, <3>2
      <3> QED
        BY <3>1, <3>2, <3>3, <3>4
    <2>4. v = <<"Duration", Fields(0, q, r)>>
      BY <1>0, <2>1, <2>2 DEF ToTemporal, Built, Seconds
    <2>5. MonthsOf(Fields(0, q, r)) = 0 /\ LengthOf(Fields(0, q, r)) = n
      <3>1. 0 \in Int
        OBVIOUS
      <3> QED
        BY <2>3, <3>1, FieldsCount
    <2>6. DurationMeans(Fields(0, q, r)) = <<"dayTime", n>>
      BY <2>5 DEF DurationMeans
    <2>7. v[1] = "Duration" /\ v[2] = Fields(0, q, r)
      BY <2>4
    <2>8. IsTemporal(v) /\ Meaning(v) = DurationMeans(Fields(0, q, r))
      BY <2>7, TemporalSays DEF IsTemporal
    <2> QED
      BY <2>1, <2>6, <2>8
  <1> QED
    BY <1>1, <1>2, <1>3, <1>4, <1>5, <1>6 DEF Moments

\* What a node is spelled as.
IsSpelled(a, h) ==
  /\ a \notin {Refused, Thrown}
  /\ Means(a) = Standing(h) \/ h = <<"yearMonth", 0>>

\* A moment is spelled as what it means, or Temporal has none.
LEMMA MomentSpelled ==
  ASSUME NEW h, IsHeld(h), h[1] \in Moments, NEW temporal
  PROVE  LET a == MomentTo(h, temporal)
         IN  \/ a = Thrown /\ HasNoTemporal(h)
             \/ IsSpelled(a, h) /\ (a[1] \in Classes \/ IsTemporal(a))
  <1>1. Standing(h) = h
    BY DEF Standing, Moments
  <1>2. CASE MomentTo(h, temporal) = AsClass(h)
    <2>1. /\ AsClass(h)[1] \in Classes
          /\ Meaning(AsClass(h)) = h
      BY ClassThere
    <2>2. Means(AsClass(h)) = h
      BY <2>1 DEF Means, Classes
    <2>3. AsClass(h) \notin {Refused, Thrown}
      BY <2>1 DEF Refused, Thrown, Classes
    <2> QED
      BY <1>1, <1>2, <2>1, <2>2, <2>3 DEF IsSpelled
  <1>3. CASE MomentTo(h, temporal) = ToTemporal(h) /\ HasType(h)
    <2>1. h[1] \in Moments \ {"zonedTime"}
      BY <1>3 DEF HasType
    <2>2. ThereAndBack(h)
      BY <2>1, HeldIsMoment, MomentsComeBack
    <2>3. CASE ToTemporal(h) = Thrown
      BY <1>3, <2>2, <2>3 DEF ThereAndBack
    <2>4. CASE ToTemporal(h) # Thrown
      <3>1. /\ IsTemporal(ToTemporal(h))
            /\ Meaning(ToTemporal(h)) = h \/ h = <<"yearMonth", 0>>
        BY <2>1, <2>4, TemporalThere
      <3>2. Means(ToTemporal(h)) = Meaning(ToTemporal(h))
        BY <3>1 DEF Means, IsTemporal
      <3>3. ToTemporal(h) # Refused
        BY <3>1 DEF Refused, IsTemporal
      <3> QED
        BY <1>1, <1>3, <2>4, <3>1, <3>2, <3>3 DEF IsSpelled
    <2> QED
      BY <2>3, <2>4
  <1> QED
    BY <1>2, <1>3 DEF MomentTo

\* A value of the engine that is no moment is spelled as what it means, and an
\* integer past what numbers hold is refused.
LEMMA PlainSpelled ==
  ASSUME NEW h, IsHeld(h), h[1] \notin Moments, NEW spelling, spelling.ints \in Modes
  PROVE  LET a == Spelled(h, spelling)
         IN  (a = Refused /\ PastNumbers(h)) \/ IsSpelled(a, h)
  <1>0. PICK a : a = Spelled(h, spelling)
    OBVIOUS
  <1> SUFFICES (a = Refused /\ PastNumbers(h)) \/ IsSpelled(a, h)
    BY <1>0
  <1>1. CASE h[1] \in {"null", "boolean", "string"}
    <2>1. a = h
      BY <1>0, <1>1 DEF Spelled
    <2>2. Means(h) = h /\ Standing(h) = h
      BY <1>1 DEF Means, Meaning, Standing
    <2>3. h \notin {Refused, Thrown}
      BY <1>1 DEF Refused, Thrown
    <2> QED
      BY <2>1, <2>2, <2>3 DEF IsSpelled
  <1>2. CASE h[1] = "int"
    <2>1. PICK n \in Int64 : h = <<"int", n>>
      BY <1>2 DEF IsHeld
    <2>2. a = IntTo(n, spelling.ints) /\ Standing(h) = <<"number", 2 * n>>
      BY <1>0, <2>1 DEF Spelled, Standing
    <2>3. CASE a = <<"bigint", n>>
      <3>1. a[1] = "bigint" /\ a[2] = n
        BY <2>3
      <3>2. Means(a) = <<"number", 2 * n>> /\ a \notin {Refused, Thrown}
        BY <3>1 DEF Means, Meaning, Refused, Thrown
      <3> QED
        BY <2>2, <3>2 DEF IsSpelled
    <2>4. CASE a = <<"number", 2 * n>>
      <3>1. a[1] = "number"
        BY <2>4
      <3>2. Means(a) = a /\ a \notin {Refused, Thrown}
        BY <3>1 DEF Means, Meaning, Refused, Thrown
      <3> QED
        BY <2>2, <2>4, <3>2 DEF IsSpelled
    <2>5. CASE a = Refused /\ n \notin -Exact + 1 .. Exact - 1
      BY <2>1, <2>5 DEF PastNumbers
    <2>6. \/ a = <<"bigint", n>> \/ a = <<"number", 2 * n>>
          \/ a = Refused /\ n \notin -Exact + 1 .. Exact - 1
      BY <2>2, IntThere
    <2> QED
      BY <2>3, <2>4, <2>5, <2>6
  <1>3. CASE h[1] = "float"
    <2>1. h[2][1] \in Numbers /\ a = h[2] /\ Standing(h) = h[2]
      BY <1>0, <1>3 DEF IsHeld, Spelled, Standing
    <2>2. a[1] \in Numbers
      BY <2>1
    <2>3. Meaning(a) = a
      BY <2>2 DEF Meaning, Numbers
    <2>4. Means(a) = a /\ a \notin {Refused, Thrown}
      BY <2>2, <2>3 DEF Means, Refused, Thrown, Numbers
    <2> QED
      BY <2>1, <2>4 DEF IsSpelled
  <1>4. CASE h[1] = "bytes"
    <2>1. h = <<"bytes", h[2]>> /\ Standing(h) = h
      BY <1>4 DEF IsHeld, Standing
    <2>2. a = <<"Uint8Array", h[2]>>
      BY <1>0, <1>4 DEF Spelled
    <2>3. a[1] = "Uint8Array" /\ a[2] = h[2]
      BY <2>2
    <2>4. Means(a) = <<"bytes", h[2]>> /\ a \notin {Refused, Thrown}
      BY <2>3 DEF Means, Meaning, Refused, Thrown
    <2> QED
      BY <2>1, <2>4 DEF IsSpelled
  <1>5. CASE h[1] \in {"decimal", "node"}
    <2>1. h = <<h[1], h[2], h[3]>> /\ Standing(h) = h
      BY <1>5 DEF IsHeld, Standing
    <2> DEFINE class == IF h[1] = "decimal" THEN "ZuDecimal" ELSE "ZuNode"
    <2>2. a = <<class, h[2], h[3]>>
      BY <1>0, <1>5 DEF Spelled
    <2>3. a[1] = class /\ a[2] = h[2] /\ a[3] = h[3]
      BY <2>2
    <2>4. Means(a) = <<h[1], h[2], h[3]>> /\ a \notin {Refused, Thrown}
      BY <1>5, <2>3 DEF Means, Meaning, Refused, Thrown
    <2> QED
      BY <2>1, <2>4 DEF IsSpelled
  <1>6. CASE h[1] \in {"list", "record"}
    <2>1. h = <<h[1], h[2]>> /\ Standing(h) = h
      BY <1>6 DEF IsHeld, Standing
    <2> DEFINE kind == IF h[1] = "list" THEN "array" ELSE "object"
    <2>2. a = <<kind, h[2]>>
      BY <1>0, <1>6 DEF Spelled
    <2>3. a[1] = kind /\ a[2] = h[2]
      BY <2>2
    <2>4. Means(a) = <<h[1], h[2]>> /\ a \notin {Refused, Thrown}
      BY <1>6, <2>3 DEF Means, Refused, Thrown
    <2> QED
      BY <2>1, <2>4 DEF IsSpelled
  <1>7. h[1] \in {"null", "boolean", "string", "int", "float", "bytes", "decimal", "node",
                  "list", "record"}
    BY DEF IsHeld, Moments
  <1> QED
    BY <1>1, <1>2, <1>3, <1>4, <1>5, <1>6, <1>7

\* So is a moment, but for what Temporal has none of.
LEMMA NodeSpelled ==
  ASSUME NEW h, IsHeld(h), NEW spelling, spelling.ints \in Modes
  PROVE  LET a == Spelled(h, spelling)
         IN  \/ a = Refused /\ PastNumbers(h)
             \/ a = Thrown /\ HasNoTemporal(h)
             \/ IsSpelled(a, h)
  <1>1. CASE h[1] \in Moments
    <2>1. Spelled(h, spelling) = MomentTo(h, spelling.temporal)
      BY <1>1 DEF Spelled, Moments
    <2> QED
      BY <1>1, <2>1, MomentSpelled
  <1>2. CASE h[1] \notin Moments
    BY <1>2, PlainSpelled
  <1> QED
    BY <1>1, <1>2

\* And what it is spelled as is bound as the value itself.
LEMMA PlainBack ==
  ASSUME NEW h, IsBound(h), h[1] \notin Moments,
         NEW spelling, spelling.ints \in Modes, Spelled(h, spelling) # Refused,
         NEW depth, ~(depth > Deep)
  PROVE  Nested(Spelled(h, spelling), depth) = h
  <1>0. PICK a : a = Spelled(h, spelling)
    OBVIOUS
  <1> SUFFICES Nested(a, depth) = h
    BY <1>0
  <1>1. CASE h[1] = "null"
    <2>1. h = <<"null">> /\ a[1] = "null"
      BY <1>0, <1>1 DEF IsBound, IsHeld, Spelled
    <2> QED
      BY <2>1 DEF Nested, Numbers
  <1>2. CASE h[1] \in {"boolean", "string"}
    <2>1. a = h
      BY <1>0, <1>2 DEF Spelled
    <2> QED
      BY <1>2, <2>1 DEF Nested, Numbers
  <1>3. CASE h[1] = "int"
    <2>1. PICK n \in Int64 : h = <<"int", n>>
      BY <1>3 DEF IsBound, IsHeld
    <2>2. a = IntTo(n, spelling.ints)
      BY <1>0, <2>1 DEF Spelled
    <2>3. CASE a = <<"bigint", n>>
      <3>1. a[1] = "bigint" /\ a[2] = n
        BY <2>3
      <3> QED
        BY <2>1, <3>1 DEF Nested, Numbers
    <2>4. CASE a = <<"number", 2 * n>> /\ n \in -Exact .. Exact
      <3>1. a[1] = "number" /\ a[2] = 2 * n /\ n \in Int
        BY <2>4, Constants DEF Int64
      <3>2. a[2] % 2 = 0 /\ a[2] \div 2 = n
        BY <3>1
      <3>3. WholeOf(a) = n /\ BindsWhole(a)
        BY <2>4, <3>1, <3>2 DEF WholeOf, BindsWhole, IsWhole, WithinExact
      <3>4. a[1] \in Numbers
        BY <3>1 DEF Numbers
      <3> QED
        BY <2>1, <3>1, <3>3, <3>4 DEF Nested, Numbers
    <2>5. \/ a = <<"bigint", n>>
          \/ a = <<"number", 2 * n>> /\ n \in -Exact .. Exact
      BY <1>0, <2>2, IntThere
    <2> QED
      BY <2>3, <2>4, <2>5
  <1>4. CASE h[1] = "float"
    <2>1. h = <<"float", h[2]>> /\ h[2][1] \in Numbers /\ ~BindsWhole(h[2]) /\ a = h[2]
      BY <1>0, <1>4 DEF IsBound, IsHeld, Spelled
    <2>2. Nested(a, depth) = <<"float", a>>
      BY <2>1 DEF Nested, Numbers
    <2> QED
      BY <2>1, <2>2
  <1>5. CASE h[1] = "bytes"
    <2>1. h = <<"bytes", h[2]>> /\ a = <<"Uint8Array", h[2]>>
      BY <1>0, <1>5 DEF IsBound, IsHeld, Spelled
    <2>2. a[1] = "Uint8Array" /\ a[2] = h[2]
      BY <2>1
    <2>3. Nested(a, depth) = FromObject(a)
      BY <2>2 DEF Nested, Numbers
    <2>4. FromObject(a) = <<"bytes", a[2]>>
      BY <2>2 DEF FromObject, Classes, IsTemporal
    <2> QED
      BY <2>1, <2>2, <2>3, <2>4
  <1>6. CASE h[1] = "decimal"
    <2>1. h = <<"decimal", h[2], h[3]>> /\ a = <<"ZuDecimal", h[2], h[3]>>
      BY <1>0, <1>6 DEF IsBound, IsHeld, Spelled
    <2>2. a[1] = "ZuDecimal" /\ a[2] = h[2] /\ a[3] = h[3]
      BY <2>1
    <2>3. Nested(a, depth) = FromObject(a)
      BY <2>2 DEF Nested, Numbers
    <2>4. FromObject(a) = <<"decimal", a[2], a[3]>>
      BY <2>2 DEF FromObject, Classes, IsTemporal
    <2> QED
      BY <2>1, <2>2, <2>3, <2>4
  <1>7. CASE h[1] = "list"
    <2>1. h = <<"list", h[2]>> /\ a = <<"array", h[2]>>
      BY <1>0, <1>7 DEF IsBound, IsHeld, Spelled
    <2>2. a[1] = "array" /\ a[2] = h[2]
      BY <2>1
    <2>3. Nested(a, depth) = FromObject(a)
      BY <2>2 DEF Nested, Numbers
    <2>4. FromObject(a) = <<"list", a[2]>>
      BY <2>2 DEF FromObject, Classes, IsTemporal
    <2> QED
      BY <2>1, <2>2, <2>3, <2>4
  <1>8. CASE h[1] = "record"
    <2>1. h = <<"record", h[2]>> /\ a = <<"object", h[2]>>
      BY <1>0, <1>8 DEF IsBound, IsHeld, Spelled
    <2>2. a[1] = "object" /\ a[2] = h[2]
      BY <2>1
    <2>3. Nested(a, depth) = FromObject(a)
      BY <2>2 DEF Nested, Numbers
    <2>4. FromObject(a) = <<"record", a[2]>>
      BY <2>2 DEF FromObject, Classes, IsTemporal, OwnFields
    <2> QED
      BY <2>1, <2>2, <2>3, <2>4
  <1>9. h[1] \in {"null", "boolean", "string", "int", "float", "bytes", "decimal",
                  "list", "record"}
    BY DEF IsBound, IsHeld, Moments
  <1> QED
    BY <1>1, <1>2, <1>3, <1>4, <1>5, <1>6, <1>7, <1>8, <1>9

\* A moment too, but for the two that lose their way.
LEMMA MomentBack ==
  ASSUME NEW h, IsHeld(h), h[1] \in Moments, NEW temporal,
         MomentTo(h, temporal) # Thrown, NEW depth, ~(depth > Deep)
  PROVE  Nested(MomentTo(h, temporal), depth) = h \/ LosesItsWay(h)
  <1>0. PICK a : a = MomentTo(h, temporal)
    OBVIOUS
  <1> SUFFICES Nested(a, depth) = h \/ LosesItsWay(h)
    BY <1>0
  <1>1. CASE a = AsClass(h)
    <2>1. a[1] \in Classes /\ TemporalOf(a) = h
      BY <1>1, ClassThere
    <2>2. Nested(a, depth) = FromObject(a)
      BY <2>1 DEF Nested, Numbers, Classes
    <2>3. FromObject(a) = TemporalOf(a)
      BY <2>1 DEF FromObject, Classes, IsTemporal
    <2> QED
      BY <2>1, <2>2, <2>3
  <1>2. CASE a = ToTemporal(h) /\ HasType(h)
    <2>1. h[1] \in Moments \ {"zonedTime"}
      BY <1>2 DEF HasType
    <2>2. ThereAndBack(h)
      BY <2>1, HeldIsMoment, MomentsComeBack
    <2>3. FromTemporal(a) = h \/ LosesItsWay(h)
      BY <1>0, <1>2, <2>2 DEF ThereAndBack
    <2>4. IsTemporal(a)
      BY <1>0, <1>2, <2>1, TemporalThere
    <2>5. Nested(a, depth) = FromObject(a)
      BY <2>4 DEF Nested, Numbers, IsTemporal
    <2>6. FromObject(a) = FromTemporal(a)
      BY <2>4 DEF FromObject, IsTemporal, Classes
    <2> QED
      BY <2>3, <2>5, <2>6
  <1> QED
    BY <1>0, <1>1, <1>2 DEF MomentTo

\* So does every node that was bound.
LEMMA NodeBack ==
  ASSUME NEW h, IsBound(h), NEW spelling, spelling.ints \in Modes,
         Spelled(h, spelling) \notin {Refused, Thrown},
         NEW depth, ~(depth > Deep)
  PROVE  Nested(Spelled(h, spelling), depth) = h \/ LosesItsWay(h)
  <1>1. CASE h[1] \in Moments
    <2>1. Spelled(h, spelling) = MomentTo(h, spelling.temporal)
      BY <1>1 DEF Spelled, Moments
    <2> QED
      BY <1>1, <2>1, MomentBack DEF IsBound
  <1>2. CASE h[1] \notin Moments
    BY <1>2, PlainBack
  <1> QED
    BY <1>1, <1>2

-----------------------------------------------------------------------------
(***************************************************************************)
(* A column, read by its type, its unit and its zone.                      *)
(***************************************************************************)
\* A row of a result: a value with all that it holds, or a cell of a column that
\* was loaded.
IsRow(tree) ==
  \/ IsTree(tree) /\ \A path \in DOMAIN tree : IsHeld(tree[path])
  \/ \E kind \in Kinds, x \in {tree[<<>>][2]} : tree = Leaf(<<kind, x>>) /\ HeldAs(kind, x)

\* What was read of a row is what it holds.
ReadsAs(read, held) ==
  /\ DOMAIN read = DOMAIN held
  /\ \A path \in DOMAIN held :
       read[path] = Standing(held[path]) \/ held[path] = <<"yearMonth", 0>>

\* A value that holds no other is all there is of it.
LEMMA AloneInTree ==
  ASSUME NEW tree, IsTree(tree), Root(tree)[1] \notin Containers
  PROVE  DOMAIN tree = {<<>>}
  <1>1. <<>> \in DOMAIN tree
    BY DEF IsTree
  <1>2. ASSUME NEW path \in DOMAIN tree, path # <<>>
        PROVE  FALSE
    <2>1. path \in Seq(Nat) /\ Len(path) \in Nat /\ Len(path) # 0
      BY <1>2 DEF IsTree
    <2>2. 0 \in 0 .. Len(path) - 1
      BY <2>1
    <2>3. tree[SubSeq(path, 1, 0)][1] \in Containers
      BY <2>2 DEF IsTree
    <2>4. SubSeq(path, 1, 0) = <<>>
      BY <2>1
    <2> QED
      BY <2>3, <2>4 DEF Root
  <1> QED
    BY <1>1, <1>2

\* What is at the root of a row.
LEMMA RowParts ==
  ASSUME NEW tree, IsRow(tree)
  PROVE  LET root == Root(tree)
         IN  /\ root[1] \notin Plain => \A path \in DOMAIN tree : IsHeld(tree[path])
             /\ root[1] \notin Containers => DOMAIN tree = {<<>>}
             /\ root[1] = "null" => root = <<"null">>
             /\ root[1] \in Plain \union LocalMoments => root = <<root[1], root[2]>>
             /\ root[1] \in {"zonedTime", "zonedDatetime"} =>
                  root = <<root[1], root[2], root[3]>>
             /\ <<>> \in DOMAIN tree
  <1>0. PICK root : root = Root(tree)
    OBVIOUS
  <1>1. CASE IsTree(tree) /\ \A path \in DOMAIN tree : IsHeld(tree[path])
    <2>1. IsHeld(root) /\ <<>> \in DOMAIN tree
      BY <1>0, <1>1 DEF Root, IsTree
    <2>2. root[1] = "null" => root = <<"null">>
      BY <2>1 DEF IsHeld
    <2>3. root[1] \in Plain \union LocalMoments => root = <<root[1], root[2]>>
      BY <2>1 DEF IsHeld, Plain, LocalMoments
    <2>4. root[1] \in {"zonedTime", "zonedDatetime"} => root = <<root[1], root[2], root[3]>>
      BY <2>1 DEF IsHeld
    <2>5. root[1] \notin Containers => DOMAIN tree = {<<>>}
      BY <1>0, <1>1, AloneInTree
    <2> QED
      BY <1>0, <1>1, <2>1, <2>2, <2>3, <2>4, <2>5
  <1>2. ASSUME NEW kind \in Kinds, NEW x, tree = Leaf(<<kind, x>>), HeldAs(kind, x)
        PROVE  /\ root[1] \notin Plain => \A path \in DOMAIN tree : IsHeld(tree[path])
               /\ DOMAIN tree = {<<>>} /\ root = <<kind, x>>
    <2>1. DOMAIN tree = {<<>>} /\ tree[<<>>] = <<kind, x>>
      BY <1>2 DEF Leaf
    <2>2. root = <<kind, x>> /\ root[1] = kind
      BY <1>0, <2>1 DEF Root
    <2>3. kind \notin Plain => IsHeld(<<kind, x>>)
      BY <1>2 DEF HeldAs, Kinds, Plain
    <2> QED
      BY <2>1, <2>2, <2>3
  <1>3. CASE \E kind \in Kinds, x \in {tree[<<>>][2]} :
               tree = Leaf(<<kind, x>>) /\ HeldAs(kind, x)
    <2>1. PICK kind \in Kinds, x \in {tree[<<>>][2]} :
            tree = Leaf(<<kind, x>>) /\ HeldAs(kind, x)
      BY <1>3
    <2>2. /\ root[1] \notin Plain => \A path \in DOMAIN tree : IsHeld(tree[path])
          /\ DOMAIN tree = {<<>>} /\ root = <<kind, x>>
      BY <1>2, <2>1
    <2>3. root[1] = kind /\ root[2] = x
      BY <2>2
    <2>4. root[1] \notin {"null", "zonedTime", "zonedDatetime"}
      BY <2>3 DEF Kinds, LocalMoments
    <2> QED
      BY <1>0, <2>2, <2>3, <2>4
  <1> QED
    BY <1>1, <1>3 DEF IsRow

\* A column has one type, which is the one of each row that has a value.
LEMMA OneType ==
  ASSUME NEW values, ~OfSeveralTypes(values), NEW i \in Valid(values)
  PROVE  (CHOOSE t \in TypesOf(values) : TRUE)
           = <<Root(values[i])[1], Zone(Root(values[i]))>>
  BY DEF OfSeveralTypes, TypesOf

\* A row without a value.
LEMMA NullReads ==
  ASSUME NEW tree, IsRow(tree), Root(tree) = <<"null">>
  PROVE  ReadsAs(Leaf(<<"null">>), tree)
  <1>1. Root(tree)[1] \notin Containers
    BY DEF Containers
  <1>2. DOMAIN tree = {<<>>}
    BY <1>1, RowParts
  <1>3. Standing(<<"null">>) = <<"null">>
    BY DEF Standing
  <1> QED
    BY <1>2, <1>3 DEF ReadsAs, Leaf, Root

\* A row of values that came over as they are.
LEMMA BoxedReads ==
  ASSUME NEW tree, IsRow(tree), Root(tree)[1] \notin Plain,
         NEW spelling, spelling.ints \in Modes, ~Fails(ToJs(tree, spelling))
  PROVE  ReadsAs([path \in DOMAIN ToJs(tree, spelling) |->
                    Means(ToJs(tree, spelling)[path])], tree)
  <1> DEFINE item == ToJs(tree, spelling)
  <1>1. DOMAIN item = DOMAIN tree
    BY DEF ToJs
  <1>2. ASSUME NEW path \in DOMAIN tree
        PROVE  Means(item[path]) = Standing(tree[path]) \/ tree[path] = <<"yearMonth", 0>>
    <2>1. item[path] = Spelled(tree[path], spelling)
      BY DEF ToJs
    <2>2. item[path] \notin {Refused, Thrown}
      BY <1>1 DEF Fails
    <2>3. IsHeld(tree[path])
      BY RowParts
    <2>4. IsSpelled(item[path], tree[path])
      BY <2>1, <2>2, <2>3, NodeSpelled
    <2> QED
      BY <2>4 DEF IsSpelled
  <1> HIDE DEF item
  <1>3. ReadsAs([path \in DOMAIN item |-> Means(item[path])], tree)
    BY <1>1, <1>2 DEF ReadsAs
  <1> QED
    BY <1>3 DEF item

\* The kind that is read is the kind there was.
LEMMA KindFound ==
  ASSUME NEW h, h[1] \in Plain \union Moments
  PROVE  /\ KindRead(TypeName(h[1]), UnitOf(h[1]), Zone(h)) = h[1]
         /\ TypeName(h[1]) \notin {"null", "value"}
  <1>1. h[1] \in {"zonedTime", "zonedDatetime"} => Zone(h) # None
    BY DEF Zone, Some, None
  <1>2. h[1] \notin {"zonedTime", "zonedDatetime"} => Zone(h) = None
    BY DEF Zone
  <1>3. CASE h[1] = "boolean"
    BY <1>3 DEF KindRead, TypeName
  <1>4. CASE h[1] = "localTime"
    <2>1. TypeName(h[1]) = "time"
      BY <1>4 DEF TypeName
    <2> QED
      BY <1>2, <1>4, <2>1 DEF KindRead
  <1>5. CASE h[1] = "zonedTime"
    <2>1. TypeName(h[1]) = "time"
      BY <1>5 DEF TypeName
    <2> QED
      BY <1>1, <1>5, <2>1 DEF KindRead
  <1>6. CASE h[1] = "localDatetime"
    <2>1. TypeName(h[1]) = "datetime"
      BY <1>6 DEF TypeName
    <2> QED
      BY <1>2, <1>6, <2>1 DEF KindRead
  <1>7. CASE h[1] = "zonedDatetime"
    <2>1. TypeName(h[1]) = "datetime"
      BY <1>7 DEF TypeName
    <2> QED
      BY <1>1, <1>7, <2>1 DEF KindRead
  <1>8. CASE h[1] = "yearMonth"
    <2>1. TypeName(h[1]) = "duration" /\ UnitOf(h[1]) = Some("months")
      BY <1>8 DEF TypeName, UnitOf, Moments
    <2> QED
      BY <1>8, <2>1 DEF KindRead
  <1>9. CASE h[1] = "dayTime"
    <2>1. TypeName(h[1]) = "duration" /\ UnitOf(h[1]) # Some("months")
      BY <1>9 DEF TypeName, UnitOf, Moments, Some
    <2> QED
      BY <1>9, <2>1 DEF KindRead
  <1>10. CASE h[1] \in {"int", "float", "string", "bytes", "date"}
    <2>1. TypeName(h[1]) = h[1]
      BY <1>10 DEF TypeName
    <2> QED
      BY <1>10, <2>1 DEF KindRead
  <1> QED
    BY <1>3, <1>4, <1>5, <1>6, <1>7, <1>8, <1>9, <1>10 DEF Plain, Moments

\* A value is its kind, its cell and its zone.
LEMMA CellIsRow ==
  ASSUME NEW tree, IsRow(tree), Root(tree)[1] \in Plain \union Moments
  PROVE  <<Root(tree)[1], Root(tree)[2]>> \o Zone(Root(tree)) = Root(tree)
  <1>0. PICK h : h = Root(tree)
    OBVIOUS
  <1>1. CASE h[1] \in {"zonedTime", "zonedDatetime"}
    <2>1. Zone(h) = <<h[3]>> /\ h = <<h[1], h[2], h[3]>>
      BY <1>0, <1>1, RowParts DEF Zone, Some
    <2> QED
      BY <1>0, <2>1, PairGrows
  <1>2. CASE h[1] \in Plain \union LocalMoments
    <2>1. Zone(h) = <<>> /\ h = <<h[1], h[2]>>
      BY <1>0, <1>2, RowParts DEF Zone, None, Plain, LocalMoments
    <2> QED
      BY <1>0, <2>1, PairGrows
  <1> QED
    BY <1>0, <1>1, <1>2 DEF Moments, LocalMoments, Plain

\* A row that has a value, in a column of values.
LEMMA ValueIsRead ==
  ASSUME NEW read, NEW row, read.validity = None \/ read.validity[row],
         read.type = "value"
  PROVE  ReadRow(read, row) =
           [path \in DOMAIN read.items[row] |-> Means(read.items[row][path])]
  BY DEF ReadRow

\* And in one of cells.
LEMMA CellIsRead ==
  ASSUME NEW read, NEW row, read.validity = None \/ read.validity[row],
         read.type \notin {"null", "value"}
  PROVE  ReadRow(read, row) =
           Leaf(Standing(<<KindRead(read.type, read.unit, read.zone), read.values[row]>>
                           \o read.zone))
  BY DEF ReadRow

\* And one that has none.
LEMMA NoneIsRead ==
  ASSUME NEW read, NEW row,
         read.type = "null" \/ (read.validity # None /\ ~read.validity[row])
  PROVE  ReadRow(read, row) = Leaf(<<"null">>)
  BY DEF ReadRow

\* The object that is read of a column.
LEMMA DescribedParts ==
  ASSUME NEW column, NEW spelling, NEW read,
         Described(column, spelling) = <<"read", read>>
  PROVE  /\ read.type = TypeName(column.kind) /\ read.unit = UnitOf(column.kind)
         /\ read.zone = column.zone
         /\ column.kind \notin {"null", "complex"} => read.values = column.held
         /\ column.kind = "complex" =>
              /\ read.items = [i \in DOMAIN column.held |-> ToJs(column.held[i], spelling)]
              /\ \A i \in DOMAIN column.held : ~Fails(ToJs(column.held[i], spelling))
         /\ \/ read.validity = None /\ \A i \in DOMAIN column.valid : column.valid[i]
            \/ read.validity = column.valid
  <1> DEFINE items == IF column.kind = "complex"
                        THEN [i \in DOMAIN column.held |-> ToJs(column.held[i], spelling)]
                        ELSE None
             fails == \E i \in DOMAIN items : Fails(items[i])
             object == [type     |-> TypeName(column.kind),
                        unit     |-> UnitOf(column.kind),
                        zone     |-> column.zone,
                        values   |-> IF column.kind \in {"null", "complex"} THEN None
                                     ELSE column.held,
                        items    |-> items,
                        validity |-> IF \A i \in DOMAIN column.valid : column.valid[i]
                                       THEN None ELSE column.valid]
  <1>1. Described(column, spelling) = IF fails THEN <<"refused">> ELSE <<"read", object>>
    BY DEF Described
  <1>2. column.kind = "complex" =>
          /\ items = [i \in DOMAIN column.held |-> ToJs(column.held[i], spelling)]
          /\ ~fails => \A i \in DOMAIN column.held : ~Fails(ToJs(column.held[i], spelling))
    OBVIOUS
  <1>3. /\ object.type = TypeName(column.kind) /\ object.unit = UnitOf(column.kind)
        /\ object.zone = column.zone
        /\ column.kind \notin {"null", "complex"} => object.values = column.held
        /\ object.items = items
        /\ \/ object.validity = None /\ \A i \in DOMAIN column.valid : column.valid[i]
           \/ object.validity = column.valid
    OBVIOUS
  <1> HIDE DEF items, fails, object
  <1>4. ~fails /\ read = object
    BY <1>1
  <1> QED
    BY <1>2, <1>3, <1>4

\* What the sink makes of a column without a value in it.
LEMMA SunkEmpty ==
  ASSUME NEW values, Valid(values) = {}, NEW asValues
  PROVE  Sunk(values, asValues).kind = "null"
  BY DEF Sunk, Plain

\* And of one with a value in some row.
LEMMA SunkParts ==
  ASSUME NEW values, ~OfSeveralTypes(values), NEW i \in Valid(values), NEW asValues
  PROVE  LET h == Root(values[i])
             sunk == Sunk(values, asValues)
         IN  /\ DOMAIN sunk.valid = DOMAIN values /\ DOMAIN sunk.held = DOMAIN values
             /\ \A row \in DOMAIN values : sunk.valid[row] <=> row \in Valid(values)
             /\ \/ /\ sunk.kind = "complex" /\ h[1] \notin Plain
                   /\ sunk.zone = None /\ \A row \in DOMAIN values : sunk.held[row] = values[row]
                \/ /\ sunk.kind = h[1] /\ h[1] \in Plain \union Moments \union {"null"}
                   /\ sunk.zone = Zone(h)
                   /\ \A row \in Valid(values) : sunk.held[row] = Root(values[row])[2]
  <1> DEFINE h == Root(values[i])
             type == IF Valid(values) = {} THEN <<"null", None>>
                     ELSE CHOOSE t \in TypesOf(values) : TRUE
             boxed == type[1] \notin Plain \union {"null"}
                        /\ (type[1] \in Moments => asValues)
             sunk == [kind  |-> IF boxed THEN "complex" ELSE type[1],
                      zone  |-> IF boxed THEN None ELSE type[2],
                      valid |-> [row \in DOMAIN values |-> row \in Valid(values)],
                      held  |-> [row \in DOMAIN values |->
                                   CASE boxed -> values[row]
                                     [] ~boxed /\ row \in Valid(values) -> Root(values[row])[2]
                                     [] OTHER -> "filler"]]
  <1>1. Sunk(values, asValues) = sunk
    BY DEF Sunk
  <1>2. type = <<h[1], Zone(h)>>
    BY OneType
  <1>3. type[1] = h[1] /\ type[2] = Zone(h)
    BY <1>2
  <1> HIDE DEF h, type
  <1>4. boxed => h[1] \notin Plain
    BY <1>3
  <1>5. ~boxed => h[1] \in Plain \union Moments \union {"null"}
    BY <1>3
  <1>6. Valid(values) \subseteq DOMAIN values
    BY DEF Valid
  <1> HIDE DEF boxed
  <1>7. /\ DOMAIN sunk.valid = DOMAIN values /\ DOMAIN sunk.held = DOMAIN values
        /\ \A row \in DOMAIN values : sunk.valid[row] <=> row \in Valid(values)
    OBVIOUS
  <1>8. CASE boxed
    <2>1. sunk.kind = "complex" /\ sunk.zone = None
      BY <1>8
    <2>2. \A row \in DOMAIN values : sunk.held[row] = values[row]
      BY <1>8
    <2> HIDE DEF sunk
    <2> QED
      BY <1>1, <1>4, <1>7, <1>8, <2>1, <2>2 DEF h
  <1>9. CASE ~boxed
    <2>1. sunk.kind = h[1] /\ sunk.zone = Zone(h)
      BY <1>3, <1>9
    <2>2. \A row \in Valid(values) : sunk.held[row] = Root(values[row])[2]
      BY <1>6, <1>9
    <2> HIDE DEF sunk
    <2> QED
      BY <1>1, <1>5, <1>7, <1>9, <2>1, <2>2 DEF h
  <1> QED
    BY <1>8, <1>9

\* A column of rows is read as what is in it.
LEMMA ColumnIsRead ==
  ASSUME NEW values, \A row \in DOMAIN values : IsRow(values[row]),
         NEW asValues, NEW spelling, spelling.ints \in Modes,
         NEW read, Read(values, asValues, spelling) = <<"read", read>>
  PROVE  \A row \in DOMAIN values : ReadsAs(ReadRow(read, row), values[row])
  <1> DEFINE sunk == Sunk(values, asValues)
  <1>1. ~OfSeveralTypes(values) /\ Described(sunk, spelling) = <<"read", read>>
    BY DEF Read, Refused
  <1> SUFFICES ASSUME NEW row \in DOMAIN values
               PROVE  ReadsAs(ReadRow(read, row), values[row])
    OBVIOUS
  <1>2. /\ read.type = TypeName(sunk.kind) /\ read.unit = UnitOf(sunk.kind)
        /\ read.zone = sunk.zone
        /\ sunk.kind \notin {"null", "complex"} => read.values = sunk.held
        /\ sunk.kind = "complex" =>
             /\ read.items = [i \in DOMAIN sunk.held |-> ToJs(sunk.held[i], spelling)]
             /\ \A i \in DOMAIN sunk.held : ~Fails(ToJs(sunk.held[i], spelling))
        /\ \/ read.validity = None /\ \A i \in DOMAIN sunk.valid : sunk.valid[i]
           \/ read.validity = sunk.valid
    BY <1>1, DescribedParts
  <1>3. CASE Valid(values) = {}
    <2>1. read.type = "null"
      BY <1>2, <1>3, SunkEmpty DEF TypeName
    <2>2. Root(values[row]) = <<"null">>
      BY <1>3 DEF Valid
    <2> QED
      BY <2>1, <2>2, NoneIsRead, NullReads
  <1>4. ASSUME NEW i \in Valid(values)
        PROVE  ReadsAs(ReadRow(read, row), values[row])
    <2>1. PICK h : h = Root(values[i])
      OBVIOUS
    <2>2. /\ DOMAIN sunk.valid = DOMAIN values /\ DOMAIN sunk.held = DOMAIN values
          /\ \A r \in DOMAIN values : sunk.valid[r] <=> r \in Valid(values)
          /\ \/ /\ sunk.kind = "complex" /\ h[1] \notin Plain
                /\ sunk.zone = None /\ \A r \in DOMAIN values : sunk.held[r] = values[r]
             \/ /\ sunk.kind = h[1] /\ h[1] \in Plain \union Moments \union {"null"}
                /\ sunk.zone = Zone(h)
                /\ \A r \in Valid(values) : sunk.held[r] = Root(values[r])[2]
      BY <1>1, <2>1, SunkParts
    <2> HIDE DEF sunk
    <2>3. CASE row \notin Valid(values)
      <3>1. ~sunk.valid[row]
        BY <2>2, <2>3
      <3>2. read.validity = sunk.valid
        BY <1>2, <2>2, <3>1
      <3>3. Root(values[row]) = <<"null">>
        BY <2>3 DEF Valid
      <3>4. read.validity # None
        <4>1. DOMAIN None = {}
          BY DEF None
        <4> QED
          BY <2>2, <3>2, <4>1
      <3>5. ReadRow(read, row) = Leaf(<<"null">>)
        BY <3>1, <3>2, <3>4, NoneIsRead
      <3> QED
        BY <3>3, <3>5, NullReads
    <2>4. CASE row \in Valid(values)
      <3>1. PICK tree : tree = values[row] /\ IsRow(tree)
        OBVIOUS
      <3>2. Root(tree)[1] = h[1] /\ Zone(Root(tree)) = Zone(h)
        <4>1. <<Root(tree)[1], Zone(Root(tree))>> = <<h[1], Zone(h)>>
          BY <1>1, <2>1, <2>4, <3>1, OneType
        <4> QED
          BY <4>1
      <3>3. read.validity = None \/ read.validity[row]
        BY <1>2, <2>2, <2>4
      <3>4. CASE sunk.kind = "complex" /\ h[1] \notin Plain
        <4>1. read.type = "value"
          BY <1>2, <3>4 DEF TypeName
        <4>2. read.items[row] = ToJs(tree, spelling) /\ ~Fails(ToJs(tree, spelling))
          <5>1. sunk.held[row] = tree
            BY <2>2, <3>1, <3>4 DEF Plain, Moments
          <5> QED
            BY <1>2, <2>2, <3>4, <5>1
        <4>3. ReadRow(read, row) = [path \in DOMAIN ToJs(tree, spelling) |->
                                      Means(ToJs(tree, spelling)[path])]
          <5>1. ReadRow(read, row) =
                  [path \in DOMAIN read.items[row] |-> Means(read.items[row][path])]
            BY <3>3, <4>1, ValueIsRead
          <5> QED
            BY <4>2, <5>1
        <4> QED
          BY <3>1, <3>2, <3>4, <4>2, <4>3, BoxedReads
      <3>5. CASE sunk.kind = h[1] /\ h[1] \in Plain \union Moments \union {"null"}
                   /\ sunk.zone = Zone(h) /\ sunk.held[row] = Root(tree)[2]
        <4>1. h[1] # "null"
          <5>1. Root(tree) # <<"null">>
            BY <2>4, <3>1 DEF Valid
          <5> QED
            BY <3>1, <3>2, <5>1, RowParts
        <4>2. h[1] \in Plain \union Moments
          BY <3>5, <4>1
        <4>3. /\ KindRead(read.type, read.unit, read.zone) = h[1]
              /\ read.type \notin {"null", "value"}
          BY <1>2, <3>5, <4>2, KindFound
        <4>4. read.values[row] = Root(tree)[2] /\ read.zone = Zone(Root(tree))
          <5>1. h[1] \notin {"null", "complex"}
            BY <4>2 DEF Plain, Moments
          <5> QED
            BY <1>2, <3>2, <3>5, <5>1
        <4>5. <<h[1], Root(tree)[2]>> \o Zone(Root(tree)) = Root(tree)
          BY <3>1, <3>2, <4>2, CellIsRow
        <4>6. ReadRow(read, row) = Leaf(Standing(Root(tree)))
          <5>1. ReadRow(read, row) =
                  Leaf(Standing(<<KindRead(read.type, read.unit, read.zone), read.values[row]>>
                                  \o read.zone))
            BY <3>3, <4>3, CellIsRead
          <5> QED
            BY <4>3, <4>4, <4>5, <5>1
        <4>7. DOMAIN tree = {<<>>}
          <5>1. Root(tree)[1] \notin Containers
            BY <3>2, <4>2 DEF Plain, Moments, Containers
          <5> QED
            BY <3>1, <5>1, RowParts
        <4>8. ReadsAs(Leaf(Standing(Root(tree))), tree)
          BY <4>7 DEF ReadsAs, Leaf, Root
        <4> QED
          BY <3>1, <4>6, <4>8
      <3> QED
        BY <2>2, <2>4, <3>1, <3>4, <3>5
    <2> QED
      BY <2>3, <2>4
  <1> QED
    BY <1>3, <1>4

-----------------------------------------------------------------------------
(***************************************************************************)
(* The values that cross, at every moment.                                 *)
(***************************************************************************)
(***************************************************************************)
(* A connection whose values cross loads and opens as Load has it: a value *)
(* that crosses leaves the path, the loads and the connect alone           *)
(* (src/value.rs, src/columns.rs).                                         *)
(***************************************************************************)
THEOREM CrossingLoads == SpecCrossing => Spec
  <1>1. InitCrossing => Init
    BY DEF InitCrossing
  <1>2. [NextCrossing]_varsCrossing => [Next]_vars
    BY DEF NextCrossing, varsCrossing, Exchange, ReadColumn
  <1> QED
    BY <1>1, <1>2, PTL DEF SpecCrossing, Spec

(***************************************************************************)
(* So what is proved of the loads holds beside them: nothing made by what  *)
(* was refused, edges that name rows, tables as they were written          *)
(* (src/load.rs plan, pairs, run).                                         *)
(***************************************************************************)
THEOREM TablesStay ==
  SpecCrossing => [](RefusedMakesNothing /\ EdgesNameRows /\ LoadedAsWritten)
  BY CrossingLoads, RefusalsMakeNothing, EdgesHold, ColumnsHold, PTL

\* A connection that there is has one of the two modes.
SpellingKnown ==
  conn.stage \notin {"none", "refused"} =>
    /\ conn = [stage |-> conn.stage, spelling |-> conn.spelling]
    /\ conn.spelling.ints \in Modes

ColumnsTyped == \A i \in DOMAIN file.columns : KindHeld(file.columns[i])

AreRows(values) == \A row \in DOMAIN values : IsRow(values[row])

\* The last value is a parameter with its answer, the last column is of rows.
ValueCrossed(given, spelling) ==
  /\ last = <<"value", given, FromJs(given), Answer(FromJs(given), spelling)>>
  /\ given \in Parameters

ColumnCrossed(values, asValues, spelling) ==
  /\ last = <<"column", values, Read(values, asValues, spelling)>>
  /\ AreRows(values)

LastMade ==
  \/ last = Quiet
  \/ \E spelling :
       /\ spelling.ints \in Modes
       /\ \/ \E given : ValueCrossed(given, spelling)
          \/ \E values, asValues : ColumnCrossed(values, asValues, spelling)

\* The inductive invariant of what crosses: in what way the connection spells, what
\* the columns of the file hold, and what the last value or column was made of.
CrossingInv == SpellingKnown /\ ColumnsTyped /\ LastMade

\* The columns of the file, and the way a connection spells, as the load and the
\* connect step.
LEMMA LoadStepKeeps ==
  ASSUME IInv, SpellingKnown, ColumnsTyped, Next
  PROVE  SpellingKnown' /\ ColumnsTyped'
  <1>1. ASSUME NEW c \in Calls, NEW options \in Options[c], CallLoad(c, options)
        PROVE  SpellingKnown' /\ ColumnsTyped'
    BY <1>1 DEF CallLoad, SpellingKnown, ColumnsTyped
  <1>2. ASSUME NEW c \in Calls, CreateFile(c)
        PROVE  SpellingKnown' /\ ColumnsTyped'
    <2>1. file' = file \/ file'.columns = <<>>
      BY <1>2 DEF CreateFile, Absent
    <2> QED
      BY <1>2, <2>1 DEF CreateFile, SpellingKnown, ColumnsTyped
  <1>3. ASSUME NEW c \in Calls, BuildGraph(c)
        PROVE  SpellingKnown' /\ ColumnsTyped'
    <2>1. file = Table(0, {}, <<>>, "created")
      BY <1>3 DEF IInv, OneWriter, Makes, BuildGraph, At
    <2>2. file' = file \/ file'.columns = <<>>
      BY <1>3, <2>1 DEF BuildGraph, Table
    <2> QED
      BY <1>3, <2>2 DEF BuildGraph, SpellingKnown, ColumnsTyped
  <1>4. ASSUME NEW c \in Calls, StoreColumns(c)
        PROVE  SpellingKnown' /\ ColumnsTyped'
    <2> DEFINE plan == calls[c].plan
               told == calls[c].told.columns
    <2>1. conn' = conn
      BY <1>4 DEF StoreColumns
    <2>2. CASE file' = file
      BY <2>1, <2>2 DEF SpellingKnown, ColumnsTyped
    <2>3. CASE file' = [file EXCEPT !.columns = plan.columns]
      <3>1. file = Table(plan.rows, plan.pairs, <<>>, "built")
        BY <1>4 DEF IInv, OneWriter, Makes, StoreColumns, At
      <3>2. file'.columns = plan.columns
        BY <2>3, <3>1 DEF Table
      <3>3. IsPlanned(c, calls[c])
        BY <1>4 DEF IInv, CallsTyped, CallShape, StoreColumns, At, Planned
      <3>4. IsOptions(calls[c].told) /\ IsPlanOf(plan, calls[c].told)
        BY <3>3, LoadAssumption, PlanParts DEF IsPlanned
      <3>5. /\ plan.columns = [i \in DOMAIN told |-> ColumnOf(told[i])]
            /\ \A i \in DOMAIN told : plan.columns[i] # Refused
            /\ \A i \in DOMAIN told : IsColumn(told[i])
        BY <3>4 DEF IsPlanOf, ColumnsOf, IsOptions
      <3> HIDE DEF plan, told
      <3>6. ASSUME NEW i \in DOMAIN told
            PROVE  KindHeld(plan.columns[i])
        BY <3>5, ColumnReads DEF Reading
      <3>7. DOMAIN plan.columns = DOMAIN told
        BY <3>5
      <3> QED
        BY <2>1, <3>2, <3>6, <3>7 DEF SpellingKnown, ColumnsTyped
    <2> QED
      BY <1>4, <2>2, <2>3 DEF StoreColumns
  <1>5. ASSUME NEW options \in Connects, NEW present \in BOOLEAN,
               CallConnect(options, present)
        PROVE  SpellingKnown' /\ ColumnsTyped'
    <2>1. ColumnsTyped'
      BY <1>5 DEF CallConnect, ColumnsTyped
    <2> DEFINE spelling == [ints |-> options.ints, temporal |-> options.temporal]
    <2>2. \/ conn' = [stage |-> "refused"]
          \/ /\ conn' = [stage |-> Opening(options), spelling |-> spelling]
             /\ options.ints \in Modes
      BY <1>5 DEF CallConnect, SpellingIs, Modes
    <2>3. spelling.ints = options.ints
      OBVIOUS
    <2> HIDE DEF spelling
    <2>4. SpellingKnown'
      BY <2>2, <2>3 DEF SpellingKnown
    <2> QED
      BY <2>1, <2>4
  <1>6. CASE Open
    <2>1. file' = file \/ file'.columns = <<>>
      BY <1>6 DEF Open, Absent
    <2>2. ColumnsTyped'
      BY <2>1 DEF ColumnsTyped
    <2>3. PICK stage : conn' = [conn EXCEPT !.stage = stage]
      BY <1>6 DEF Open, Opened
    <2>4. conn.stage \notin {"none", "refused"}
      BY <1>6 DEF Open
    <2>5. /\ conn = [stage |-> conn.stage, spelling |-> conn.spelling]
          /\ conn.spelling.ints \in Modes
      BY <2>4 DEF SpellingKnown
    <2>6. conn' = [stage |-> stage, spelling |-> conn.spelling]
      BY <2>3, <2>5
    <2>7. SpellingKnown'
      BY <2>5, <2>6 DEF SpellingKnown
    <2> QED
      BY <2>2, <2>7
  <1> QED
    BY <1>1, <1>2, <1>3, <1>4, <1>5, <1>6 DEF Next

\* The rows of a column of the file are rows that a reader may read.
LEMMA StoredAreRows ==
  ASSUME NEW column, KindHeld(column)
  PROVE  AreRows(RowsIn(column))
  <1> DEFINE rows == RowsIn(column)
  <1>1. DOMAIN rows = 1 .. Length(column)
    BY DEF RowsIn
  <1>2. ASSUME NEW row \in 1 .. Length(column)
        PROVE  IsRow(rows[row])
    <2>1. rows[row] = Leaf(<<column[1], column[2][row]>>)
      BY DEF RowsIn, Cell
    <2>2. rows[row][<<>>] = <<column[1], column[2][row]>>
      BY <2>1 DEF Leaf
    <2>3. rows[row][<<>>][2] = column[2][row]
      BY <2>2
    <2>4. column[1] \in Kinds /\ HeldAs(column[1], column[2][row])
      BY DEF KindHeld
    <2> HIDE DEF rows
    <2> QED
      BY <2>1, <2>3, <2>4 DEF IsRow
  <1> HIDE DEF rows
  <1>3. AreRows(rows)
    BY <1>1, <1>2 DEF AreRows
  <1> QED
    BY <1>3 DEF rows

\* What crosses is made of what the program has.
LEMMA CrossingKeeps ==
  ASSUME IInv, CrossingInv, [NextCrossing]_varsCrossing
  PROVE  CrossingInv'
  <1>1. CASE Next /\ UNCHANGED last
    <2>1. LastMade'
      BY <1>1 DEF CrossingInv, LastMade, ValueCrossed, ColumnCrossed
    <2> QED
      BY <1>1, <2>1, LoadStepKeeps DEF CrossingInv
  <1>2. ASSUME UNCHANGED vars
        PROVE  SpellingKnown' /\ ColumnsTyped'
    BY <1>2 DEF CrossingInv, vars, SpellingKnown, ColumnsTyped
  <1>3. ASSUME IsOpen
        PROVE  conn.spelling.ints \in Modes
    BY <1>3 DEF CrossingInv, SpellingKnown, IsOpen
  <1>4. ASSUME NEW given \in Parameters, Exchange(given)
        PROVE  CrossingInv'
    <2>1. last' = <<"value", given, FromJs(given), Answer(FromJs(given), conn.spelling)>>
      BY <1>4 DEF Exchange
    <2> DEFINE spelling == conn.spelling
    <2>2. spelling.ints \in Modes
      BY <1>3, <1>4 DEF Exchange
    <2>3. last' = <<"value", given, FromJs(given), Answer(FromJs(given), spelling)>>
      BY <2>1
    <2>4. LastMade'
      BY <2>2, <2>3 DEF LastMade, ValueCrossed
    <2> QED
      BY <1>2, <1>4, <2>4 DEF CrossingInv, Exchange
  <1>5. ASSUME NEW values, AreRows(values), ReadColumn(values)
        PROVE  CrossingInv'
    <2>1. PICK asValues \in BOOLEAN :
            last' = <<"column", values, Read(values, asValues, conn.spelling)>>
      BY <1>5 DEF ReadColumn
    <2>2. PICK spelling : spelling = conn.spelling /\ spelling.ints \in Modes
      BY <1>3, <1>5 DEF ReadColumn
    <2>3. last' = <<"column", values, Read(values, asValues, spelling)>>
      BY <2>1, <2>2
    <2>4. LastMade'
      BY <1>5, <2>2, <2>3 DEF LastMade, ColumnCrossed
    <2> QED
      BY <1>2, <1>5, <2>4 DEF CrossingInv, ReadColumn
  <1>6. \A values \in Results : AreRows(values)
    BY CrossingAssumption DEF AreHeld, AreRows, IsRow
  <1>7. \A values \in Stored : AreRows(values)
    BY StoredAreRows DEF Stored, CrossingInv, ColumnsTyped
  <1>8. CASE UNCHANGED varsCrossing
    <2>1. LastMade'
      BY <1>8 DEF varsCrossing, CrossingInv, LastMade, ValueCrossed, ColumnCrossed
    <2> QED
      BY <1>2, <1>8, <2>1 DEF varsCrossing, CrossingInv
  <1> QED
    BY <1>1, <1>4, <1>5, <1>6, <1>7, <1>8 DEF NextCrossing

(***************************************************************************)
(* What crosses, at every moment, on a connection that was opened with one *)
(* of the two modes (src/conn.rs compute, src/value.rs).                   *)
(***************************************************************************)
THEOREM CrossingInvariant == SpecCrossing => []CrossingInv
  <1>1. InitCrossing => CrossingInv
    BY DEF InitCrossing, Init, CrossingInv, SpellingKnown, ColumnsTyped, LastMade, Absent
  <1>2. SpecCrossing => []IInv
    BY CrossingLoads, FilesInvariant, PTL
  <1>3. IInv /\ CrossingInv /\ [NextCrossing]_varsCrossing => CrossingInv'
    BY CrossingKeeps
  <1> QED
    BY <1>1, <1>2, <1>3, PTL DEF SpecCrossing

\* What is bound in a parameter is bound by a node of it.
LEMMA BoundThere ==
  ASSUME NEW given \in Parameters, NEW held, held = FromJs(given), ~Fails(held)
  PROVE  /\ DOMAIN held = DOMAIN given
         /\ \A path \in DOMAIN given :
              /\ IsNode(given[path]) /\ IsBound(held[path])
              /\ held[path] = Nested(given[path], Len(path))
              /\ held[path] # Refused /\ ~(Len(path) > Deep)
  <1>1. DOMAIN held = DOMAIN given
    BY DEF FromJs
  <1>2. ASSUME NEW path \in DOMAIN given
        PROVE  /\ IsNode(given[path]) /\ IsBound(held[path])
               /\ held[path] = Nested(given[path], Len(path))
               /\ held[path] # Refused /\ ~(Len(path) > Deep)
    <2>1. IsNode(given[path])
      BY CrossingAssumption
    <2>2. held[path] = Nested(given[path], Len(path)) /\ held[path] # Refused
      BY <1>1 DEF FromJs, Fails
    <2>3. ~(Len(path) > Deep)
      BY <2>2 DEF Nested
    <2> QED
      BY <2>1, <2>2, <2>3, NodeHeld
  <1> QED
    BY <1>1, <1>2

(***************************************************************************)
(* Every value in every parameter that is bound means what it was bound    *)
(* as, at whatever depth, but for what wraps and for an object with no     *)
(* fields of its own (src/value.rs nested, from_object; src/temporal.rs    *)
(* from_temporal).                                                         *)
(***************************************************************************)
THEOREM ParametersKept == SpecCrossing => []KeptAsMeant
  <1>1. ASSUME CrossingInv
        PROVE  KeptAsMeant
    <2> SUFFICES ASSUME last[1] = "value", ~Fails(last[3]), NEW path \in DOMAIN last[2]
                 PROVE  \/ Standing(last[3][path]) = Means(last[2][path])
                        \/ OffsetWraps(last[2][path]) \/ DurationWraps(last[2][path])
                        \/ Hollow(last[2][path])
      BY DEF KeptAsMeant
    <2>1. PICK given, spelling : ValueCrossed(given, spelling)
      BY <1>1 DEF CrossingInv, LastMade, ColumnCrossed, Quiet
    <2>2. last[2] = given /\ last[3] = FromJs(given) /\ given \in Parameters
      BY <2>1 DEF ValueCrossed
    <2>3. /\ IsNode(given[path]) /\ last[3][path] = Nested(given[path], Len(path))
          /\ last[3][path] # Refused
      BY <2>2, BoundThere
    <2> QED
      BY <2>2, <2>3, NodeMeant
  <1> QED
    BY <1>1, CrossingInvariant, PTL

(***************************************************************************)
(* The answer to a parameter binds again as what was bound, node by node,  *)
(* in each spelling; nothing is refused but an integer past what numbers   *)
(* hold, and Temporal throws at nothing it has (src/value.rs to_js,        *)
(* src/temporal.rs to_temporal).                                           *)
(***************************************************************************)
THEOREM AnswersComeBack == SpecCrossing => []ComesBackItself
  <1>1. ASSUME CrossingInv
        PROVE  ComesBackItself
    <2> SUFFICES ASSUME last[1] = "value", ~Fails(last[3]), NEW path \in DOMAIN last[3]
                 PROVE  CASE last[4][path] = Refused -> PastNumbers(last[3][path])
                          [] last[4][path] = Thrown -> HasNoTemporal(last[3][path])
                          [] OTHER -> \/ FromJs(last[4])[path] = last[3][path]
                                      \/ LosesItsWay(last[3][path])
      BY DEF ComesBackItself
    <2>1. PICK given, spelling :
            spelling.ints \in Modes /\ ValueCrossed(given, spelling)
      BY <1>1 DEF CrossingInv, LastMade, ColumnCrossed, Quiet
    <2>2. PICK held : held = FromJs(given)
      OBVIOUS
    <2>3. last[3] = held /\ last[4] = ToJs(held, spelling) /\ given \in Parameters
      BY <2>1, <2>2 DEF ValueCrossed, Answer
    <2>4. PICK h : h = held[path]
      OBVIOUS
    <2>5. IsBound(h) /\ ~(Len(path) > Deep)
      BY <2>2, <2>3, <2>4, BoundThere
    <2>6. PICK a : a = Spelled(h, spelling)
      OBVIOUS
    <2>7. last[4][path] = a /\ DOMAIN last[4] = DOMAIN held
      BY <2>3, <2>4, <2>6 DEF ToJs
    <2>8. FromJs(last[4])[path] = Nested(a, Len(path))
      BY <2>3, <2>7 DEF FromJs
    <2>9. \/ a = Refused /\ PastNumbers(h)
          \/ a = Thrown /\ HasNoTemporal(h)
          \/ IsSpelled(a, h)
      BY <2>1, <2>5, <2>6, NodeSpelled DEF IsBound
    <2>10. a \notin {Refused, Thrown} => Nested(a, Len(path)) = h \/ LosesItsWay(h)
      BY <2>1, <2>5, <2>6, NodeBack
    <2>11. CASE a = Refused
      <3>1. PastNumbers(h)
        BY <2>9, <2>11 DEF Refused, Thrown, IsSpelled
      <3> QED
        BY <2>3, <2>4, <2>7, <2>11, <3>1 DEF Refused, Thrown
    <2>12. CASE a = Thrown
      <3>1. HasNoTemporal(h)
        BY <2>9, <2>12 DEF Refused, Thrown, IsSpelled
      <3> QED
        BY <2>3, <2>4, <2>7, <2>12, <3>1 DEF Refused, Thrown
    <2>13. CASE a \notin {Refused, Thrown}
      BY <2>3, <2>4, <2>7, <2>8, <2>10, <2>13
    <2> QED
      BY <2>11, <2>12, <2>13
  <1> QED
    BY <1>1, CrossingInvariant, PTL

\* What is read is an object, or nothing is.
LEMMA ReadIsThere ==
  ASSUME NEW values, NEW asValues, NEW spelling, Read(values, asValues, spelling)[1] = "read"
  PROVE  Read(values, asValues, spelling)
           = <<"read", Read(values, asValues, spelling)[2]>>
  <1> DEFINE column == Sunk(values, asValues)
  <1>1. Read(values, asValues, spelling) = Described(column, spelling)
    BY DEF Read, Refused
  <1>2. PICK object : Described(column, spelling) \in {<<"refused">>, <<"read", object>>}
    BY Zenon DEF Described
  <1> HIDE DEF column
  <1>3. Described(column, spelling) = <<"read", object>>
    BY <1>1, <1>2
  <1> QED
    BY <1>1, <1>3

(***************************************************************************)
(* A column of a result, or of a table that was loaded, is read by its     *)
(* type, unit, zone and validity as the values in it (src/columns.rs       *)
(* taken, described).                                                      *)
(***************************************************************************)
THEOREM ColumnsComeBack == SpecCrossing => []ColumnsReadBack
  <1>1. ASSUME CrossingInv
        PROVE  ColumnsReadBack
    <2> SUFFICES ASSUME last[1] = "column", last[3][1] = "read", NEW row \in DOMAIN last[2]
                 PROVE  ReadsAs(ReadRow(last[3][2], row), last[2][row])
      BY DEF ColumnsReadBack, ReadsAs
    <2>1. PICK spelling, values, asValues :
            spelling.ints \in Modes /\ ColumnCrossed(values, asValues, spelling)
      BY <1>1 DEF CrossingInv, LastMade, ValueCrossed, Quiet
    <2>2. /\ last[2] = values /\ last[3] = Read(values, asValues, spelling)
          /\ AreRows(values)
      BY <2>1 DEF ColumnCrossed
    <2>3. Read(values, asValues, spelling) = <<"read", last[3][2]>>
      BY <2>2, ReadIsThere
    <2> QED
      BY <2>1, <2>2, <2>3, ColumnIsRead DEF AreRows
  <1> QED
    BY <1>1, CrossingInvariant, PTL
=============================================================================
