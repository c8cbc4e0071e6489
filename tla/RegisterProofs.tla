-------------------------- MODULE RegisterProofs ---------------------------
(***************************************************************************)
(* Proofs about Frame and Register, for any column in any number of        *)
(* chunks, any names and any number of calls at once: what a column is     *)
(* described as gives its rows back, lends a buffer only where its rows    *)
(* are one run of one array, and holds what it points at; a registered     *)
(* frame answers the caller's rows; and a hole that a column is refused    *)
(* for is its first.                                                       *)
(*                                                                         *)
(* Most of it is about a description, for every vector, and most of that   *)
(* about sequences put end to end: of rows, of characters, of offsets.     *)
(* What a fold over a sequence gives is proved by induction on how far it  *)
(* has come.  The library's induction theorems take an operator, which no  *)
(* prover here can instantiate; but induction is needed for sets of        *)
(* numbers alone, and that follows from finite sets being well founded.    *)
(*                                                                         *)
(* The state machine is the last part, and the short one: every frame of   *)
(* the session, and every one that a call is on its way with, is what the  *)
(* caller's column is described as, and a call that was told of a hole was *)
(* told of that column's first.                                            *)
(***************************************************************************)
EXTENDS Register, FiniteSetTheorems, TLAPS

-----------------------------------------------------------------------------
(***************************************************************************)
(* Induction.                                                              *)
(***************************************************************************)

\* A set of naturals has a least one: the sets 0..n of its members are finite,
\* and finite sets do not shrink for ever.
LEMMA Least ==
  ASSUME NEW S \in SUBSET Nat, S # {}
  PROVE  \E m \in S : \A k \in S : m <= k
  <1> DEFINE T == {0..n : n \in S}
  <1>1. IsWellFoundedOn(StrictSubsetOrdering(Nat), FiniteSubsetsOf(Nat))
    BY FS_StrictSubsetOrderingWellFounded
  <1>2. ASSUME NEW n \in S
        PROVE  0..n \in FiniteSubsetsOf(Nat)
    <2>1. IsFiniteSet(0..n)
      BY FS_Interval
    <2> QED
      BY <2>1 DEF FiniteSubsetsOf
  <1>3. T \subseteq FiniteSubsetsOf(Nat) /\ T # {}
    BY <1>2
  <1> HIDE DEF T
  <1>4. PICK x \in T : \A y \in T : ~ (<<y, x>> \in StrictSubsetOrdering(Nat))
    BY <1>1, <1>3, WFMin
  <1> USE DEF T
  <1>5. PICK m \in S : x = 0..m
    OBVIOUS
  <1>6. ASSUME NEW k \in S, ~(m <= k)
        PROVE  FALSE
    <2>1. 0..k \in T
      OBVIOUS
    <2>2. 0..k \subseteq 0..m /\ 0..k # 0..m /\ 0..m \subseteq Nat
      BY <1>6
    <2>3. <<0..k, 0..m>> \in StrictSubsetOrdering(Nat)
      BY <2>2 DEF StrictSubsetOrdering
    <2> QED
      BY <1>4, <1>5, <2>1, <2>3
  <1> QED
    BY <1>6

\* Induction over the naturals, for a set: it needs no operator of its own.
LEMMA Induction ==
  ASSUME NEW S, 0 \in S, \A n \in Nat : n \in S => n + 1 \in S
  PROVE  Nat \subseteq S
  <1> SUFFICES ASSUME NEW z \in Nat, z \notin S
               PROVE  FALSE
    OBVIOUS
  <1>1. PICK m \in Nat \ S : \A k \in Nat \ S : m <= k
    BY Least
  <1>2. m # 0 /\ m - 1 \in Nat /\ m - 1 \in S
    BY <1>1
  <1> QED
    BY <1>2

-----------------------------------------------------------------------------
(***************************************************************************)
(* Sequences put end to end.                                               *)
(***************************************************************************)

\* The sequences s[1] to s[n] end to end, one after the other.
Joins(f, s, n) ==
  f = [i \in 1..n |-> IF i = 1 THEN s[i] ELSE f[i - 1] \o s[i]]

\* There is such a function, for any length.
LEMMA Joining ==
  ASSUME NEW s, NEW n \in Nat
  PROVE  \E f : Joins(f, s, n)
  <1> DEFINE S == {m \in Nat : \E f : Joins(f, s, m)}
  <1>1. 0 \in S
    <2>1. Joins([i \in 1..0 |-> s[i]], s, 0)
      BY DEF Joins
    <2> QED
      BY <2>1
  <1>2. ASSUME NEW m \in Nat, m \in S
        PROVE  m + 1 \in S
    <2>1. PICK f : Joins(f, s, m)
      BY <1>2
    <2> DEFINE g == [i \in 1..(m + 1) |-> IF i # m + 1 THEN f[i]
                                          ELSE IF i = 1 THEN s[i]
                                          ELSE f[i - 1] \o s[i]]
    <2>2. ASSUME NEW i \in 1..(m + 1)
          PROVE  g[i] = IF i = 1 THEN s[i] ELSE g[i - 1] \o s[i]
      <3>1. CASE i = m + 1
        <4>1. i # 1 => g[i - 1] = f[i - 1]
          BY <3>1
        <4> QED
          BY <3>1, <4>1
      <3>2. CASE i # m + 1
        <4>1. i \in 1..m /\ g[i] = f[i] /\ (i # 1 => g[i - 1] = f[i - 1])
          BY <3>2
        <4>2. f[i] = IF i = 1 THEN s[i] ELSE f[i - 1] \o s[i]
          BY <2>1, <4>1 DEF Joins
        <4> QED
          BY <4>1, <4>2
      <3> QED
        BY <3>1, <3>2
    <2>3. g = [i \in 1..(m + 1) |-> g[i]]
      OBVIOUS
    <2> HIDE DEF g
    <2>4. Joins(g, s, m + 1)
      BY <2>2, <2>3 DEF Joins
    <2> QED
      BY <2>4
  <1> HIDE DEF S
  <1>3. Nat \subseteq S
    BY <1>1, <1>2, Induction
  <1> QED
    BY <1>3 DEF S

\* What FlattenSeq is.
LEMMA FlattenIsJoin ==
  ASSUME NEW T, NEW s \in Seq(T), Len(s) > 0
  PROVE  \E f : Joins(f, s, Len(s)) /\ FlattenSeq(s) = f[Len(s)]
  <1>1. Len(s) \in Nat
    OBVIOUS
  <1>2. \E f : f = [i \in 1..Len(s) |-> IF i = 1 THEN s[i]
                                        ELSE f[i - 1] \o s[i]]
    BY <1>1, Joining DEF Joins
  <1> DEFINE F == CHOOSE f : f = [i \in 1..Len(s) |->
                                    IF i = 1 THEN s[i] ELSE f[i - 1] \o s[i]]
  <1>3. F = [i \in 1..Len(s) |-> IF i = 1 THEN s[i] ELSE F[i - 1] \o s[i]]
    BY <1>2
  <1>4. FlattenSeq(s) = F[Len(s)]
    BY <1>1 DEF FlattenSeq
  <1> QED
    BY <1>3, <1>4 DEF Joins

\* One sequence after another.
LEMMA OneAfterAnother ==
  ASSUME NEW S, NEW s \in Seq(S), NEW t \in Seq(S)
  PROVE  /\ s \o t \in Seq(S)
         /\ Len(s \o t) = Len(s) + Len(t)
         /\ \A i \in 1..Len(s) : (s \o t)[i] = s[i]
         /\ \A i \in 1..Len(t) : (s \o t)[Len(s) + i] = t[i]
  OBVIOUS

\* Where each of some sequences ends when they are put end to end.
EndsUpTo(L, s, n) ==
  /\ L \in [0..n -> Nat]
  /\ L[0] = 0
  /\ \A k \in 1..n : L[k] = L[k - 1] + Len(s[k])

Ends(L, s) == EndsUpTo(L, s, Len(s))

\* The sequence x is the first i of them end to end: each is where the ones
\* before it end.
IsJoined(x, T, s, L, i) ==
  /\ x \in Seq(T)
  /\ Len(x) = L[i]
  /\ \A k \in 1..i : L[k] <= L[i]
  /\ \A k \in 1..i : \A j \in 1..Len(s[k]) : x[L[k - 1] + j] = s[k][j]

\* It is so when the next one is put after it.
LEMMA JoinedOneMore ==
  ASSUME NEW T, NEW s \in Seq(Seq(T)), NEW L, Ends(L, s),
         NEW i \in 0..Len(s), i + 1 \in 1..Len(s),
         NEW x, IsJoined(x, T, s, L, i)
  PROVE  IsJoined(x \o s[i + 1], T, s, L, i + 1)
  <1>1. /\ Len(s) \in Nat
        /\ i \in Nat
        /\ \A k \in 1..Len(s) : s[k] \in Seq(T) /\ Len(s[k]) \in Nat
    OBVIOUS
  <1>2. \A k \in 0..Len(s) : L[k] \in Nat
    BY DEF Ends, EndsUpTo
  <1>3. \A k \in 1..Len(s) : L[k] = L[k - 1] + Len(s[k])
    BY DEF Ends, EndsUpTo
  <1>4. /\ x \in Seq(T)
        /\ Len(x) = L[i]
        /\ \A k \in 1..i : L[k] <= L[i]
        /\ \A k \in 1..i : \A j \in 1..Len(s[k]) : x[L[k - 1] + j] = s[k][j]
    BY DEF IsJoined
  <1>5. PICK t \in Seq(T) : t = s[i + 1]
    BY <1>1
  <1>6. /\ x \o t \in Seq(T)
        /\ Len(x \o t) = Len(x) + Len(t)
        /\ \A j \in 1..Len(x) : (x \o t)[j] = x[j]
        /\ \A j \in 1..Len(t) : (x \o t)[Len(x) + j] = t[j]
    <2>1. x \in Seq(T) /\ t \in Seq(T)
      BY <1>4, <1>5
    <2> QED
      BY <2>1, OneAfterAnother
  <1>7. PICK y : y = x \o t
    OBVIOUS
  <1>8. /\ y \in Seq(T)
        /\ Len(y) = Len(x) + Len(t)
        /\ \A j \in 1..Len(x) : y[j] = x[j]
        /\ \A j \in 1..Len(t) : y[Len(x) + j] = t[j]
    BY <1>6, <1>7
  <1>9. (i + 1) - 1 = i
    BY <1>1
  <1>10. L[i + 1] = L[i] + Len(t)
    BY <1>3, <1>5, <1>9
  <1>11. ASSUME NEW k \in 1..(i + 1)
         PROVE  /\ L[k] <= L[i + 1]
                /\ \A j \in 1..Len(s[k]) : y[L[k - 1] + j] = s[k][j]
    <2>1. CASE k = i + 1
      <3>1. L[i + 1] \in Nat
        BY <1>2
      <3>2. \A j \in 1..Len(s[k]) : y[L[k - 1] + j] = s[k][j]
        BY <1>4, <1>5, <1>8, <1>9, <2>1
      <3> QED
        BY <2>1, <3>1, <3>2
    <2>2. CASE k # i + 1
      <3>1. /\ k \in 1..i /\ k \in 1..Len(s)
            /\ k - 1 \in 0..Len(s) /\ k \in 0..Len(s)
        BY <1>1, <2>2
      <3>2. L[k] \in Nat /\ L[i] \in Nat /\ L[k] <= L[i]
            /\ Len(t) \in Nat
        BY <1>2, <1>4, <3>1
      <3>3. L[k] <= L[i + 1]
        BY <1>10, <3>2
      <3>4. ASSUME NEW j \in 1..Len(s[k])
            PROVE  y[L[k - 1] + j] = s[k][j]
        <4>1. L[k - 1] \in Nat /\ L[k] = L[k - 1] + Len(s[k])
              /\ Len(s[k]) \in Nat
          BY <1>1, <1>2, <1>3, <3>1
        <4>2. L[k - 1] + j \in 1..Len(x)
          <5>1. PICK a \in Nat, b \in Nat, c \in Nat, len \in Nat :
                  /\ a = L[k - 1] /\ b = L[k] /\ c = L[i] /\ len = Len(s[k])
                  /\ b = a + len
                  /\ b <= c
            BY <3>2, <4>1
          <5>2. j \in 1..len
            BY <5>1
          <5>3. b = a + len /\ b <= c
            BY <5>1
          <5>4. a + j \in 1..c
            BY <5>2, <5>3
          <5> QED
            BY <1>4, <5>1, <5>4
        <4>3. x[L[k - 1] + j] = s[k][j]
          BY <1>4, <3>1
        <4> QED
          BY <1>8, <4>2, <4>3
      <3> QED
        BY <3>3, <3>4
    <2> QED
      BY <2>1, <2>2
  <1>12. Len(y) = L[i + 1]
    BY <1>4, <1>8, <1>10
  <1>13. IsJoined(y, T, s, L, i + 1)
    BY <1>8, <1>11, <1>12 DEF IsJoined
  <1> QED
    BY <1>5, <1>7, <1>13

\* Put end to end, each is where the ones before it end.
LEMMA Flattened ==
  ASSUME NEW T, NEW s \in Seq(Seq(T)), NEW L, Ends(L, s)
  PROVE  IsJoined(FlattenSeq(s), T, s, L, Len(s))
  <1>1. /\ Len(s) \in Nat
        /\ \A k \in 1..Len(s) : s[k] \in Seq(T)
        /\ L[0] = 0
    BY DEF Ends, EndsUpTo
  <1>2. IsJoined(<<>>, T, s, L, 0)
    <2>1. <<>> \in Seq(T) /\ Len(<<>>) = 0 /\ 1..0 = {}
      OBVIOUS
    <2> QED
      BY <1>1, <2>1 DEF IsJoined
  <1>3. CASE Len(s) = 0
    <2>1. FlattenSeq(s) = <<>>
      BY <1>3 DEF FlattenSeq
    <2> QED
      BY <1>2, <1>3, <2>1
  <1>4. CASE Len(s) > 0
    <2>1. PICK f : Joins(f, s, Len(s)) /\ FlattenSeq(s) = f[Len(s)]
      BY <1>4, FlattenIsJoin
    <2> DEFINE S == {n \in Nat : n + 1 \in 1..Len(s)
                                   => IsJoined(f[n + 1], T, s, L, n + 1)}
    <2>2. 0 \in S
      <3>1. f[0 + 1] = <<>> \o s[0 + 1]
        <4>1. f[1] = s[1] /\ s[1] \in Seq(T)
          BY <1>1, <1>4, <2>1 DEF Joins
        <4> QED
          BY <4>1
      <3>2. 0 \in 0..Len(s) /\ 0 + 1 \in 1..Len(s)
        BY <1>1, <1>4
      <3>3. IsJoined(<<>> \o s[0 + 1], T, s, L, 0 + 1)
        BY <1>2, <3>2, JoinedOneMore
      <3> QED
        BY <3>1, <3>3
    <2>3. ASSUME NEW n \in Nat, n \in S
          PROVE  n + 1 \in S
      <3>1. SUFFICES ASSUME (n + 1) + 1 \in 1..Len(s)
                     PROVE  IsJoined(f[(n + 1) + 1], T, s, L, (n + 1) + 1)
        OBVIOUS
      <3>2. PICK i \in 0..Len(s) : i = n + 1 /\ i \in 1..Len(s)
        BY <1>1, <3>1
      <3>3. IsJoined(f[i], T, s, L, i)
        BY <2>3, <3>2
      <3>4. i + 1 # 1 /\ (i + 1) - 1 = i /\ i + 1 \in 1..Len(s)
        BY <3>1, <3>2
      <3>5. f[i + 1] = f[i] \o s[i + 1]
        BY <2>1, <3>4 DEF Joins
      <3>6. IsJoined(f[i] \o s[i + 1], T, s, L, i + 1)
        BY <3>3, <3>4, JoinedOneMore
      <3> QED
        BY <3>2, <3>5, <3>6
    <2>4. Nat \subseteq S
      <3> HIDE DEF S
      <3> QED
        BY <2>2, <2>3, Induction
    <2>5. Len(s) - 1 \in Nat /\ (Len(s) - 1) + 1 = Len(s)
          /\ Len(s) \in 1..Len(s)
      BY <1>1, <1>4
    <2>6. Len(s) - 1 \in S
      BY <2>4, <2>5
    <2>7. IsJoined(f[Len(s)], T, s, L, Len(s))
      BY <2>5, <2>6
    <2> QED
      BY <2>1, <2>7
  <1> QED
    BY <1>1, <1>3, <1>4

\* They can be put end to end in one way.
LEMMA EndsThere ==
  ASSUME NEW T, NEW s \in Seq(Seq(T))
  PROVE  \E L : Ends(L, s)
  <1>1. Len(s) \in Nat /\ \A k \in 1..Len(s) : Len(s[k]) \in Nat
    <2>1. Len(s) \in Nat /\ \A k \in 1..Len(s) : s[k] \in Seq(T)
      OBVIOUS
    <2> QED
      BY <2>1
  <1> DEFINE S == {m \in Nat : m <= Len(s) => \E L : EndsUpTo(L, s, m)}
  <1>2. 0 \in S
    <2>1. EndsUpTo([k \in 0..0 |-> 0], s, 0)
      BY DEF EndsUpTo
    <2> QED
      BY <2>1
  <1>3. ASSUME NEW m \in Nat, m \in S
        PROVE  m + 1 \in S
    <2>1. SUFFICES ASSUME m + 1 <= Len(s) PROVE \E L : EndsUpTo(L, s, m + 1)
      OBVIOUS
    <2>2. m <= Len(s) /\ m + 1 \in 1..Len(s)
      BY <1>1, <2>1
    <2>3. PICK L : EndsUpTo(L, s, m)
      BY <1>3, <2>2
    <2> DEFINE M == [k \in 0..(m + 1) |-> IF k = m + 1 THEN L[m] + Len(s[k])
                                                       ELSE L[k]]
    <2>4. \A k \in 0..m : M[k] = L[k] /\ L[k] \in Nat
      BY <2>3 DEF EndsUpTo
    <2>5. M[m + 1] = L[m] + Len(s[m + 1]) /\ L[m] \in Nat
      BY <2>3 DEF EndsUpTo
    <2>6. ASSUME NEW k \in 0..(m + 1)
          PROVE  M[k] \in Nat
      <3>1. CASE k = m + 1
        <4>1. M[k] = L[m] + Len(s[m + 1]) /\ Len(s[m + 1]) \in Nat
          BY <1>1, <2>2, <2>5, <3>1
        <4> HIDE DEF M
        <4> QED
          BY <2>5, <4>1
      <3>2. CASE k # m + 1
        <4>1. k \in 0..m
          BY <3>2
        <4> HIDE DEF M
        <4> QED
          BY <2>4, <4>1
      <3> QED
        BY <3>1, <3>2
    <2>7. ASSUME NEW k \in 1..(m + 1)
          PROVE  M[k] = M[k - 1] + Len(s[k])
      <3>1. CASE k = m + 1
        <4>1. k - 1 = m /\ m \in 0..m
          BY <3>1
        <4> QED
          BY <2>4, <2>5, <3>1, <4>1
      <3>2. CASE k # m + 1
        <4>1. k \in 1..m /\ k \in 0..m /\ k - 1 \in 0..m
          BY <3>2
        <4> QED
          BY <2>3, <2>4, <4>1 DEF EndsUpTo
      <3> QED
        BY <3>1, <3>2
    <2>8. M = [k \in 0..(m + 1) |-> M[k]] /\ M[0] = 0
      BY <2>3, <2>4 DEF EndsUpTo
    <2> HIDE DEF M
    <2>9. M \in [0..(m + 1) -> Nat]
      BY <2>6, <2>8
    <2>10. EndsUpTo(M, s, m + 1)
      BY <2>7, <2>8, <2>9 DEF EndsUpTo
    <2> QED
      BY <2>10
  <1>4. Nat \subseteq S
    <2> HIDE DEF S
    <2> QED
      BY <1>2, <1>3, Induction
  <1>5. Len(s) \in S /\ Len(s) <= Len(s)
    <2> HIDE DEF S
    <2> QED
      BY <1>1, <1>4
  <1>6. \E L : EndsUpTo(L, s, Len(s))
    BY <1>5
  <1> QED
    BY <1>6 DEF Ends

\* A later one ends no sooner.
LEMMA Growing ==
  ASSUME NEW T, NEW s \in Seq(Seq(T)), NEW L, Ends(L, s),
         NEW i \in 0..Len(s), NEW k \in i..Len(s)
  PROVE  L[i] <= L[k]
  <1>1. Len(s) \in Nat /\ \A m \in 1..Len(s) : Len(s[m]) \in Nat
    <2>1. Len(s) \in Nat /\ \A m \in 1..Len(s) : s[m] \in Seq(T)
      OBVIOUS
    <2> QED
      BY <2>1
  <1>2. /\ \A m \in 0..Len(s) : L[m] \in Nat
        /\ \A m \in 1..Len(s) : L[m] = L[m - 1] + Len(s[m])
    BY DEF Ends, EndsUpTo
  <1> DEFINE S == {d \in Nat : i + d <= Len(s) => L[i] <= L[i + d]}
  <1>3. 0 \in S
    <2>1. i + 0 = i /\ L[i] \in Nat
      BY <1>1, <1>2
    <2> QED
      BY <2>1
  <1>4. ASSUME NEW d \in Nat, d \in S
        PROVE  d + 1 \in S
    <2>1. SUFFICES ASSUME i + (d + 1) <= Len(s)
                   PROVE  L[i] <= L[i + (d + 1)]
      OBVIOUS
    <2>2. PICK m \in 1..Len(s) : m = i + (d + 1) /\ m - 1 = i + d
      BY <1>1, <2>1
    <2>3. L[i] <= L[m - 1]
      BY <1>1, <1>4, <2>2
    <2>4. /\ L[m] = L[m - 1] + Len(s[m])
          /\ L[m - 1] \in Nat /\ L[i] \in Nat /\ Len(s[m]) \in Nat
      BY <1>1, <1>2
    <2>5. L[i] <= L[m]
      BY <2>3, <2>4
    <2> QED
      BY <2>2, <2>5
  <1>5. Nat \subseteq S
    <2> HIDE DEF S
    <2> QED
      BY <1>3, <1>4, Induction
  <1>6. k - i \in Nat /\ i + (k - i) = k /\ k <= Len(s)
    BY <1>1
  <1>7. k - i \in S
    BY <1>5, <1>6
  <1> QED
    BY <1>6, <1>7

\* Whatever is in them end to end is in one of them.
LEMMA Placed ==
  ASSUME NEW T, NEW s \in Seq(Seq(T)), NEW L, Ends(L, s),
         NEW r \in 1..L[Len(s)]
  PROVE  \E k \in 1..Len(s) : \E j \in 1..Len(s[k]) : r = L[k - 1] + j
  <1>1. Len(s) \in Nat /\ \A m \in 1..Len(s) : Len(s[m]) \in Nat
    <2>1. Len(s) \in Nat /\ \A m \in 1..Len(s) : s[m] \in Seq(T)
      OBVIOUS
    <2> QED
      BY <2>1
  <1>2. /\ \A m \in 0..Len(s) : L[m] \in Nat
        /\ \A m \in 1..Len(s) : L[m] = L[m - 1] + Len(s[m])
        /\ L[0] = 0
    BY DEF Ends, EndsUpTo
  <1>3. L[Len(s)] \in Nat /\ r \in Nat /\ 1 <= r /\ r <= L[Len(s)]
    BY <1>1, <1>2
  <1> DEFINE S == {k \in Nat : k <= Len(s) /\ r <= L[k]}
  <1>4. Len(s) \in S /\ S \subseteq Nat
    BY <1>1, <1>3
  <1>5. PICK k \in S : \A m \in S : k <= m
    <2> HIDE DEF S
    <2> QED
      BY <1>4, Least
  <1>6. k \in Nat /\ k <= Len(s) /\ r <= L[k]
    OBVIOUS
  <1>7. k # 0
    BY <1>2, <1>3, <1>6
  <1>8. k \in 1..Len(s) /\ k - 1 \in Nat /\ k - 1 \in 0..Len(s)
    BY <1>1, <1>6, <1>7
  <1>9. ~(r <= L[k - 1])
    <2>1. k - 1 \notin S
      <3> HIDE DEF S
      <3> QED
        BY <1>5, <1>6, <1>8
    <2> QED
      BY <1>1, <1>8, <2>1
  <1>10. L[k - 1] \in Nat /\ L[k] = L[k - 1] + Len(s[k]) /\ Len(s[k]) \in Nat
    BY <1>1, <1>2, <1>8
  <1>11. r - L[k - 1] \in 1..Len(s[k]) /\ r = L[k - 1] + (r - L[k - 1])
    BY <1>3, <1>6, <1>9, <1>10
  <1> QED
    BY <1>8, <1>11

-----------------------------------------------------------------------------
(***************************************************************************)
(* Rows and chunks.                                                        *)
(***************************************************************************)

\* What is in a sequence.
LEMMA InSequence ==
  ASSUME NEW S, NEW s \in Seq(S)
  PROVE  \A k \in 1..Len(s) : s[k] \in S
  OBVIOUS

\* A sequence by its members.
LEMMA MadeOf ==
  ASSUME NEW S, NEW n \in Nat, NEW f \in [1..n -> S]
  PROVE  f \in Seq(S) /\ Len(f) = n /\ DOMAIN f = 1..n
  OBVIOUS

\* What a caller's column is made of.
LEMMA VectorParts ==
  ASSUME NEW v, IsVector(v)
  PROVE  /\ Len(v.chunks) \in Nat
         /\ DOMAIN v.chunks = 1..Len(v.chunks)
         /\ \A k \in 1..Len(v.chunks) :
              /\ v.chunks[k].from \in Nat
              /\ v.chunks[k].rows \in Nat
              /\ v.chunks[k].from + v.chunks[k].rows <= Base
              /\ v.chunks[k].empty \subseteq 1..Base
  <1>1. v.chunks \in Seq([from : 0..Base, rows : 0..Base,
                          empty : SUBSET (1..Base)])
    BY DEF IsVector
  <1>2. \A k \in DOMAIN v.chunks : v.chunks[k].from + v.chunks[k].rows <= Base
    BY DEF IsVector
  <1>3. Len(v.chunks) \in Nat /\ DOMAIN v.chunks = 1..Len(v.chunks)
    BY <1>1
  <1>4. \A k \in 1..Len(v.chunks) :
          v.chunks[k] \in [from : 0..Base, rows : 0..Base,
                           empty : SUBSET (1..Base)]
    BY <1>1, InSequence
  <1>5. Base \in Nat
    BY FrameAssumption
  <1> QED
    BY <1>2, <1>3, <1>4, <1>5

\* The rows of each chunk, by number.
Numbered(v) ==
  [k \in 1..Len(v.chunks) |-> [r \in 1..v.chunks[k].rows |-> r]]

\* They are a sequence for each chunk, as long as it.
LEMMA NumberedParts ==
  ASSUME NEW v, IsVector(v)
  PROVE  /\ Numbered(v) \in Seq(Seq(Nat))
         /\ Len(Numbered(v)) = Len(v.chunks)
         /\ \A k \in 1..Len(v.chunks) :
              Len(Numbered(v)[k]) = v.chunks[k].rows
  <1>1. /\ Len(v.chunks) \in Nat
        /\ \A k \in 1..Len(v.chunks) : v.chunks[k].rows \in Nat
    BY VectorParts
  <1>2. ASSUME NEW k \in 1..Len(v.chunks)
        PROVE  /\ [r \in 1..v.chunks[k].rows |-> r] \in Seq(Nat)
               /\ Len([r \in 1..v.chunks[k].rows |-> r]) = v.chunks[k].rows
    BY <1>1
  <1>3. Numbered(v) \in [1..Len(v.chunks) -> Seq(Nat)]
    BY <1>2 DEF Numbered
  <1>4. ASSUME NEW k \in 1..Len(v.chunks)
        PROVE  Len(Numbered(v)[k]) = v.chunks[k].rows
    <2>1. Numbered(v)[k] = [r \in 1..v.chunks[k].rows |-> r]
      BY DEF Numbered
    <2> QED
      BY <1>2, <2>1
  <1>5. Numbered(v) \in Seq(Seq(Nat)) /\ Len(Numbered(v)) = Len(v.chunks)
    BY <1>1, <1>3, MadeOf
  <1> QED
    BY <1>4, <1>5

\* Where the rows of each chunk end.
RowEnds(v) == [k \in 0..Len(v.chunks) |-> RowsBefore(v, k + 1)]

\* They are counted one chunk after another.
LEMMA RowsAddUp ==
  ASSUME NEW v, IsVector(v)
  PROVE  /\ RowEnds(v) \in [0..Len(v.chunks) -> Nat]
         /\ RowEnds(v)[0] = 0
         /\ \A k \in 1..Len(v.chunks) :
              RowEnds(v)[k] = RowEnds(v)[k - 1] + v.chunks[k].rows
         /\ \A k \in 1..Len(v.chunks) : RowsBefore(v, k) = RowEnds(v)[k - 1]
         /\ RowCount(v) = RowEnds(v)[Len(v.chunks)]
  <1>1. /\ Len(v.chunks) \in Nat
        /\ \A k \in 1..Len(v.chunks) : v.chunks[k].rows \in Nat
    BY VectorParts
  <1> DEFINE n == Len(v.chunks)
  <1>2. PICK s \in Seq(Seq(Nat)) :
          /\ Len(s) = n
          /\ \A k \in 1..n : Len(s[k]) = v.chunks[k].rows
    BY NumberedParts
  <1>3. PICK L : Ends(L, s)
    BY EndsThere
  <1>4. /\ \A k \in 0..n : L[k] \in Nat
        /\ L[0] = 0
        /\ \A k \in 1..n : L[k] = L[k - 1] + v.chunks[k].rows
    <2>1. /\ L \in [0..n -> Nat]
          /\ L[0] = 0
          /\ \A k \in 1..n : L[k] = L[k - 1] + Len(s[k])
      BY <1>2, <1>3 DEF Ends, EndsUpTo
    <2> QED
      BY <1>2, <2>1
  <1> DEFINE B == [j \in 1..(n + 1) |-> L[j - 1]]
             F == CHOOSE f : f = [j \in 1..(n + 1) |->
                    IF j = 1 THEN 0 ELSE f[j - 1] + v.chunks[j - 1].rows]
  <1>5. B = [j \in 1..(n + 1) |->
               IF j = 1 THEN 0 ELSE B[j - 1] + v.chunks[j - 1].rows]
    <2>1. ASSUME NEW j \in 1..(n + 1)
          PROVE  L[j - 1] = IF j = 1 THEN 0
                            ELSE B[j - 1] + v.chunks[j - 1].rows
      <3>1. CASE j = 1
        BY <1>4, <3>1
      <3>2. CASE j # 1
        <4>1. PICK k \in 1..n : k = j - 1 /\ k \in 1..(n + 1)
          BY <1>1, <3>2
        <4>2. B[k] = L[k - 1] /\ L[k] = L[k - 1] + v.chunks[k].rows
          BY <1>4, <4>1
        <4> QED
          BY <3>2, <4>1, <4>2
      <3> QED
        BY <3>1, <3>2
    <2> QED
      BY <2>1
  <1>6. F = [j \in 1..(n + 1) |->
               IF j = 1 THEN 0 ELSE F[j - 1] + v.chunks[j - 1].rows]
    BY <1>5
  <1>7. \A k \in 1..(n + 1) : RowsBefore(v, k) = F[k]
    BY DEF RowsBefore
  <1> HIDE DEF F, B
  <1>8. \A k \in 0..n : F[k + 1] = L[k]
    <2> DEFINE S == {k \in Nat : k <= n => F[k + 1] = L[k]}
    <2>1. 0 \in S
      BY <1>1, <1>4, <1>6
    <2>2. ASSUME NEW k \in Nat, k \in S
          PROVE  k + 1 \in S
      <3>1. SUFFICES ASSUME k + 1 <= n PROVE F[(k + 1) + 1] = L[k + 1]
        OBVIOUS
      <3>2. F[k + 1] = L[k]
        BY <1>1, <2>2, <3>1
      <3>3. PICK i \in 1..n : i = k + 1 /\ i - 1 = k /\ i + 1 \in 1..(n + 1)
                              /\ i + 1 # 1 /\ (i + 1) - 1 = i
        BY <1>1, <3>1
      <3>4. F[i + 1] = F[i] + v.chunks[i].rows
        BY <1>6, <3>3
      <3>5. L[i] = L[i - 1] + v.chunks[i].rows
        BY <1>4
      <3> QED
        BY <3>2, <3>3, <3>4, <3>5
    <2>3. Nat \subseteq S
      <3> HIDE DEF S
      <3> QED
        BY <2>1, <2>2, Induction
    <2> QED
      BY <1>1, <2>3
  <1>9. \A k \in 0..n : RowsBefore(v, k + 1) = L[k]
    <2>1. \A k \in 0..n : k + 1 \in 1..(n + 1)
      BY <1>1
    <2> QED
      BY <1>7, <1>8, <2>1
  <1>10. \A k \in 0..n : RowEnds(v)[k] = L[k]
    BY <1>9 DEF RowEnds
  <1>11. RowEnds(v) \in [0..n -> Nat]
    BY <1>4, <1>9 DEF RowEnds
  <1>12. ASSUME NEW k \in 1..n
         PROVE  /\ RowEnds(v)[k] = RowEnds(v)[k - 1] + v.chunks[k].rows
                /\ RowsBefore(v, k) = RowEnds(v)[k - 1]
    <2>1. k \in 0..n /\ k - 1 \in 0..n /\ (k - 1) + 1 = k
      BY <1>1
    <2>2. RowsBefore(v, (k - 1) + 1) = L[k - 1]
      BY <1>9, <2>1
    <2> QED
      BY <1>4, <1>10, <2>1, <2>2
  <1>13. RowCount(v) = RowEnds(v)[n] /\ RowEnds(v)[0] = 0
    <2>1. n \in 0..n /\ 0 \in 0..n
      BY <1>1
    <2>2. RowsBefore(v, n + 1) = L[n]
      BY <1>9, <2>1
    <2> QED
      BY <1>4, <1>10, <2>1, <2>2 DEF RowCount
  <1> QED
    BY <1>11, <1>12, <1>13

\* A chunk's worth from every chunk, end to end, is where its rows are.
FillsChunks(s, v, T) ==
  /\ s \in [1..Len(v.chunks) -> Seq(T)]
  /\ \A k \in 1..Len(v.chunks) : Len(s[k]) = v.chunks[k].rows

\* Its j-th row comes right after the rows of the chunks before.
LEMMA ChunksJoined ==
  ASSUME NEW v, IsVector(v), NEW T, NEW s, FillsChunks(s, v, T)
  PROVE  /\ FlattenSeq(s) \in Seq(T)
         /\ Len(FlattenSeq(s)) = RowCount(v)
         /\ \A k \in 1..Len(v.chunks) : \A j \in 1..v.chunks[k].rows :
              FlattenSeq(s)[RowEnds(v)[k - 1] + j] = s[k][j]
  <1>1. Len(v.chunks) \in Nat
    BY VectorParts
  <1>2. s \in Seq(Seq(T)) /\ Len(s) = Len(v.chunks)
    BY <1>1 DEF FillsChunks
  <1>3. Ends(RowEnds(v), s)
    BY <1>2, RowsAddUp DEF Ends, EndsUpTo, FillsChunks
  <1>4. IsJoined(FlattenSeq(s), T, s, RowEnds(v), Len(s))
    BY <1>2, <1>3, Flattened
  <1> QED
    BY <1>2, <1>4, RowsAddUp DEF IsJoined, FillsChunks

\* Every row is in a chunk, and every row of a chunk is a row.
LEMMA RowInChunk ==
  ASSUME NEW v, IsVector(v), NEW r \in 1..RowCount(v)
  PROVE  \E k \in 1..Len(v.chunks) : \E j \in 1..v.chunks[k].rows :
           r = RowEnds(v)[k - 1] + j
  <1>2. PICK s :
          /\ s \in Seq(Seq(Nat))
          /\ Len(s) = Len(v.chunks)
          /\ \A k \in 1..Len(v.chunks) : Len(s[k]) = v.chunks[k].rows
    BY NumberedParts
  <1>3. Ends(RowEnds(v), s)
    BY <1>2, RowsAddUp DEF Ends, EndsUpTo
  <1>4. r \in 1..RowEnds(v)[Len(s)]
    BY <1>2, RowsAddUp
  <1>5. PICK L : L = RowEnds(v)
    OBVIOUS
  <1>6. \E k \in 1..Len(s) : \E j \in 1..Len(s[k]) : r = L[k - 1] + j
    <2>1. PICK T : T = Nat
      OBVIOUS
    <2>2. Ends(L, s) /\ r \in 1..L[Len(s)] /\ s \in Seq(Seq(T))
      BY <1>2, <1>3, <1>4, <1>5, <2>1
    <2> QED
      BY <2>2, Placed
  <1> QED
    BY <1>2, <1>5, <1>6

\* A later chunk's rows end no sooner.
LEMMA RowsGoOn ==
  ASSUME NEW v, IsVector(v), NEW i \in 0..Len(v.chunks),
         NEW k \in i..Len(v.chunks)
  PROVE  RowEnds(v)[i] <= RowEnds(v)[k]
  <1>1. PICK s :
          /\ s \in Seq(Seq(Nat))
          /\ Len(s) = Len(v.chunks)
          /\ \A m \in 1..Len(v.chunks) : Len(s[m]) = v.chunks[m].rows
    BY NumberedParts
  <1>2. PICK L : L = RowEnds(v)
    OBVIOUS
  <1>3. Ends(L, s)
    BY <1>1, <1>2, RowsAddUp DEF Ends, EndsUpTo
  <1>4. PICK T : T = Nat
    OBVIOUS
  <1>5. s \in Seq(Seq(T)) /\ i \in 0..Len(s) /\ k \in i..Len(s)
    BY <1>1, <1>4
  <1>6. L[i] <= L[k]
    BY <1>3, <1>5, Growing
  <1> QED
    BY <1>2, <1>6

\* No chunk's rows end after the last.
LEMMA RowsWithin ==
  ASSUME NEW v, IsVector(v), NEW k \in 0..Len(v.chunks)
  PROVE  RowEnds(v)[k] <= RowCount(v)
  <1>1. Len(v.chunks) \in k..Len(v.chunks)
    BY VectorParts
  <1>2. RowEnds(v)[k] <= RowEnds(v)[Len(v.chunks)]
    BY <1>1, RowsGoOn
  <1> QED
    BY <1>2, RowsAddUp

\* The cells of an array: where they are, and at which place.
Cells == Nat \X Nat

\* Row i of the array that chunk k is a slice of.
RowOf(v, k, i) ==
  IF v.elem # "strings" THEN <<<<k, i>>>>
  ELSE [j \in 1..(Cuts[i + 1] - Cuts[i]) |-> <<k, Cuts[i] + j>>]

\* The cuts of an array go up.
LEMMA CutsGoUp ==
  ASSUME NEW i \in 1..(Base + 1), NEW j \in i..(Base + 1)
  PROVE  Cuts[i] \in Nat /\ Cuts[j] \in Nat /\ Cuts[i] <= Cuts[j]
  <1>1. /\ Base \in Nat
        /\ \A m \in 1..(Base + 1) : Cuts[m] \in Nat
        /\ \A m \in 1..Base : Cuts[m] <= Cuts[m + 1]
    BY FrameAssumption
  <1> DEFINE S == {d \in Nat : i + d <= Base + 1 => Cuts[i] <= Cuts[i + d]}
  <1>2. 0 \in S
    <2>1. i + 0 = i /\ Cuts[i] \in Nat
      BY <1>1
    <2> QED
      BY <2>1
  <1>3. ASSUME NEW d \in Nat, d \in S
        PROVE  d + 1 \in S
    <2>1. SUFFICES ASSUME i + (d + 1) <= Base + 1
                   PROVE  Cuts[i] <= Cuts[i + (d + 1)]
      OBVIOUS
    <2>2. PICK m \in 1..Base : m = i + d /\ m + 1 = i + (d + 1)
      BY <1>1, <2>1
    <2>3. Cuts[i] <= Cuts[m]
      BY <1>1, <1>3, <2>2
    <2>4. /\ Cuts[m] <= Cuts[m + 1]
          /\ Cuts[i] \in Nat /\ Cuts[m] \in Nat /\ Cuts[m + 1] \in Nat
      BY <1>1
    <2>5. Cuts[i] <= Cuts[m + 1]
      BY <2>3, <2>4
    <2> QED
      BY <2>2, <2>5
  <1>4. Nat \subseteq S
    <2> HIDE DEF S
    <2> QED
      BY <1>2, <1>3, Induction
  <1>5. j - i \in Nat /\ i + (j - i) = j /\ j <= Base + 1
    BY <1>1
  <1>6. j - i \in S
    BY <1>4, <1>5
  <1>7. Cuts[i] <= Cuts[j]
    BY <1>5, <1>6
  <1> QED
    BY <1>1, <1>7

\* A row of a chunk is a row of its array.
LEMMA RowInArray ==
  ASSUME NEW v, IsVector(v), NEW k \in 1..Len(v.chunks),
         NEW j \in 1..v.chunks[k].rows
  PROVE  /\ v.chunks[k].from \in Nat
         /\ v.chunks[k].from + j \in 1..Base
         /\ v.chunks[k].from + j + 1 \in 1..(Base + 1)
  <1>1. /\ v.chunks[k].from \in Nat
        /\ v.chunks[k].rows \in Nat
        /\ v.chunks[k].from + v.chunks[k].rows <= Base
    BY VectorParts
  <1>2. Base \in Nat
    BY FrameAssumption
  <1>3. PICK from \in Nat, rows \in Nat :
          from = v.chunks[k].from /\ rows = v.chunks[k].rows
    BY <1>1
  <1>4. j \in 1..rows /\ from + rows <= Base
    BY <1>1, <1>3
  <1>5. from + j \in 1..Base /\ from + j + 1 \in 1..(Base + 1)
    BY <1>2, <1>4
  <1> QED
    BY <1>3, <1>5

\* It is a sequence of cells.
LEMMA RowIsCells ==
  ASSUME NEW v, IsVector(v), NEW k \in 1..Len(v.chunks),
         NEW j \in 1..v.chunks[k].rows
  PROVE  RowOf(v, k, v.chunks[k].from + j) \in Seq(Cells)
  <1>1. PICK i \in 1..Base : i = v.chunks[k].from + j
    BY RowInArray
  <1>2. k \in Nat /\ i \in Nat /\ Base \in Nat
    BY FrameAssumption, VectorParts
  <1>3. CASE v.elem # "strings"
    BY <1>1, <1>2, <1>3 DEF RowOf, Cells
  <1>4. CASE v.elem = "strings"
    <2>1. Cuts[i] \in Nat /\ Cuts[i + 1] \in Nat /\ Cuts[i] <= Cuts[i + 1]
      <3>1. i \in 1..(Base + 1) /\ i + 1 \in i..(Base + 1)
        BY <1>2
      <3> QED
        BY <3>1, CutsGoUp
    <2>2. PICK m \in Nat : m = Cuts[i + 1] - Cuts[i]
      BY <2>1
    <2>3. \A x \in 1..m : <<k, Cuts[i] + x>> \in Cells
      BY <1>2, <2>1 DEF Cells
    <2>4. PICK f \in [1..m -> Cells] : f = [x \in 1..m |-> <<k, Cuts[i] + x>>]
      BY <2>3
    <2>5. f \in Seq(Cells)
      BY MadeOf
    <2> QED
      BY <1>1, <1>4, <2>2, <2>4, <2>5 DEF RowOf
  <1> QED
    BY <1>3, <1>4

\* The caller's rows, one chunk's after another's.
LEMMA RowsPlaced ==
  ASSUME NEW v, IsVector(v)
  PROVE  /\ RowsOf(v) \in Seq(Seq(Cells))
         /\ Len(RowsOf(v)) = RowCount(v)
         /\ \A k \in 1..Len(v.chunks) : \A j \in 1..v.chunks[k].rows :
              RowsOf(v)[RowEnds(v)[k - 1] + j]
                = RowOf(v, k, v.chunks[k].from + j)
  <1> DEFINE n == Len(v.chunks)
             s == [k \in 1..n |-> [r \in 1..v.chunks[k].rows |->
                                     RowOf(v, k, v.chunks[k].from + r)]]
  <1>1. DOMAIN v.chunks = 1..n /\ \A k \in 1..n : v.chunks[k].rows \in Nat
    BY VectorParts
  <1>2. RowsOf(v) = FlattenSeq(s)
    BY <1>1 DEF RowsOf, RowOf
  <1>3. ASSUME NEW k \in 1..n
        PROVE  s[k] \in Seq(Seq(Cells)) /\ Len(s[k]) = v.chunks[k].rows
    <2>1. \A r \in 1..v.chunks[k].rows :
            RowOf(v, k, v.chunks[k].from + r) \in Seq(Cells)
      BY RowIsCells
    <2>2. s[k] \in [1..v.chunks[k].rows -> Seq(Cells)]
      BY <2>1
    <2> HIDE DEF s
    <2> QED
      BY <1>1, <2>2, MadeOf
  <1>4. s \in [1..n -> Seq(Seq(Cells))]
    BY <1>3
  <1>5. \A k \in 1..n : \A j \in 1..v.chunks[k].rows :
          s[k][j] = RowOf(v, k, v.chunks[k].from + j)
    OBVIOUS
  <1> HIDE DEF s
  <1>6. /\ FlattenSeq(s) \in Seq(Seq(Cells))
        /\ Len(FlattenSeq(s)) = RowCount(v)
        /\ \A k \in 1..n : \A j \in 1..v.chunks[k].rows :
             FlattenSeq(s)[RowEnds(v)[k - 1] + j] = s[k][j]
    <2>1. FillsChunks(s, v, Seq(Cells))
      BY <1>3, <1>4 DEF FillsChunks
    <2> QED
      BY <2>1, ChunksJoined
  <1> QED
    BY <1>2, <1>5, <1>6

-----------------------------------------------------------------------------
(***************************************************************************)
(* What is read through a layout.                                          *)
(***************************************************************************)

\* The `n` cells of array `k` after the first `a`.
Run(k, a, n) == [i \in 1..n |-> <<k, a + i>>]

\* A run is a sequence of cells, counted from where it begins.
LEMMA RunIsCells ==
  ASSUME NEW k \in Nat, NEW a \in Nat, NEW n \in Nat
  PROVE  /\ Run(k, a, n) \in Seq(Cells)
         /\ Len(Run(k, a, n)) = n
         /\ \A i \in 1..n : Run(k, a, n)[i] = <<k, a + i>>
  <1>1. \A i \in 1..n : <<k, a + i>> \in Cells
    BY DEF Cells
  <1>2. PICK f \in [1..n -> Cells] : f = Run(k, a, n)
    BY <1>1 DEF Run
  <1>3. f \in Seq(Cells) /\ Len(f) = n
    BY MadeOf
  <1> QED
    BY <1>2, <1>3 DEF Run

\* Part of a sequence, by its members.
LEMMA PartOf ==
  ASSUME NEW S, NEW s \in Seq(S), NEW b \in Nat, NEW m \in Nat,
         b + m <= Len(s)
  PROVE  /\ SubSeq(s, b + 1, b + m) = [i \in 1..m |-> s[b + i]]
         /\ SubSeq(s, b + 1, b + m) \in Seq(S)
         /\ Len(SubSeq(s, b + 1, b + m)) = m
  <1>1. PICK t : t = SubSeq(s, b + 1, b + m)
    OBVIOUS
  <1>2. t \in Seq(S) /\ Len(t) = m /\ DOMAIN t = 1..m
    BY <1>1
  <1>3. \A i \in 1..m : t[i] = s[b + i]
    BY <1>1
  <1>4. t = [i \in 1..m |-> t[i]]
    BY <1>2
  <1>5. t = [i \in 1..m |-> s[b + i]]
    BY <1>3, <1>4
  <1> QED
    BY <1>1, <1>2, <1>5

\* The `m` members of a sequence after the first `b`.
Part(s, b, m) == SubSeq(s, b + 1, b + m)

\* A part of a buffer is a run when its cells follow one another.
Follow(s, b, m, k, a) ==
  b + m <= Len(s) /\ \A i \in 1..m : s[b + i] = <<k, a + i>>

\* Then it is that run.
LEMMA RunWithin ==
  ASSUME NEW s \in Seq(Cells), NEW b \in Nat, NEW m \in Nat,
         NEW k, NEW a, Follow(s, b, m, k, a)
  PROVE  Part(s, b, m) = Run(k, a, m)
  <1>1. Part(s, b, m) = [i \in 1..m |-> s[b + i]]
    BY PartOf DEF Part, Follow
  <1> QED
    BY <1>1 DEF Run, Follow

\* What the pieces of a column are.
LEMMA PieceParts ==
  ASSUME NEW v, IsVector(v)
  PROVE  /\ Len(Pieces(v)) = Len(v.chunks)
         /\ DOMAIN Pieces(v) = 1..Len(v.chunks)
         /\ \A k \in 1..Len(v.chunks) :
              /\ Pieces(v)[k].rows = v.chunks[k].rows
              /\ Pieces(v)[k].at = v.chunks[k].from
              /\ Pieces(v)[k].values = ValuesOf(v.elem, k, v.chunks[k])
              /\ v.elem = "strings"
                   => Pieces(v)[k].offsets = CutsOf(v, k, v.chunks[k])
  <1>1. Len(v.chunks) \in Nat /\ DOMAIN v.chunks = 1..Len(v.chunks)
    BY VectorParts
  <1>2. Pieces(v) = [k \in 1..Len(v.chunks) |-> Piece(v, k)]
    BY <1>1 DEF Pieces
  <1>3. DOMAIN Pieces(v) = 1..Len(v.chunks)
    BY <1>2
  <1>4. Len(Pieces(v)) = Len(v.chunks)
    BY <1>1, <1>2
  <1>5. \A k \in 1..Len(v.chunks) : Pieces(v)[k] = Piece(v, k)
    BY <1>2
  <1>6. \A k \in 1..Len(v.chunks) :
          /\ Piece(v, k).rows = v.chunks[k].rows
          /\ Piece(v, k).at = v.chunks[k].from
          /\ Piece(v, k).values = ValuesOf(v.elem, k, v.chunks[k])
          /\ v.elem = "strings"
               => Piece(v, k).offsets = CutsOf(v, k, v.chunks[k])
    BY DEF Piece
  <1> QED
    BY <1>3, <1>4, <1>5, <1>6

\* The cells of its buffers, by what it is a column of.
LEMMA PieceCells ==
  ASSUME NEW v, IsVector(v), NEW k \in 1..Len(v.chunks)
  PROVE  /\ Pieces(v)[k].values.of = <<k, "values">>
         /\ v.elem = "words" => Pieces(v)[k].values.cells
                = Run(k, v.chunks[k].from, v.chunks[k].rows)
         /\ v.elem = "bits" => Pieces(v)[k].values.cells = Run(k, 0, Base)
         /\ v.elem = "strings"
              => Pieces(v)[k].values.cells = Run(k, 0, Cuts[Base + 1])
  <1>1. Pieces(v)[k].values = ValuesOf(v.elem, k, v.chunks[k])
    BY PieceParts
  <1>2. ValuesOf(v.elem, k, v.chunks[k]).of = <<k, "values">>
    BY DEF ValuesOf, Buffer
  <1>3. v.elem = "words" => ValuesOf(v.elem, k, v.chunks[k]).cells
          = Run(k, v.chunks[k].from, v.chunks[k].rows)
    BY DEF ValuesOf, Buffer, Run
  <1>4. [i \in 1..Base |-> <<k, i>>] = Run(k, 0, Base)
    BY DEF Run
  <1>5. [i \in 1..Cuts[Base + 1] |-> <<k, i>>] = Run(k, 0, Cuts[Base + 1])
    BY DEF Run
  <1>6. v.elem = "bits"
          => ValuesOf(v.elem, k, v.chunks[k]).cells = Run(k, 0, Base)
    BY <1>4 DEF ValuesOf, Buffer
  <1>7. v.elem = "strings"
          => ValuesOf(v.elem, k, v.chunks[k]).cells = Run(k, 0, Cuts[Base + 1])
    BY <1>5 DEF ValuesOf, Buffer
  <1> QED
    BY <1>1, <1>2, <1>3, <1>6, <1>7

\* Where the characters of its rows begin and end.
LEMMA PieceCuts ==
  ASSUME NEW v, IsVector(v), v.elem = "strings", NEW k \in 1..Len(v.chunks)
  PROVE  /\ Pieces(v)[k].offsets.of = <<k, "offsets">>
         /\ Pieces(v)[k].offsets.wide = v.wide
         /\ \A j \in 1..(v.chunks[k].rows + 1) :
              Pieces(v)[k].offsets.cells[j] = Cuts[v.chunks[k].from + j]
         /\ From(Pieces(v)[k]) = Cuts[v.chunks[k].from + 1]
         /\ To(Pieces(v)[k])
              = Cuts[v.chunks[k].from + v.chunks[k].rows + 1]
  <1>1. PICK from \in Nat, rows \in Nat :
          /\ from = v.chunks[k].from
          /\ rows = v.chunks[k].rows
          /\ from + rows <= Base
    BY VectorParts
  <1>2. Pieces(v)[k].offsets = CutsOf(v, k, v.chunks[k])
        /\ Pieces(v)[k].rows = rows
    BY <1>1, PieceParts
  <1>3. PICK p : p = Pieces(v)[k]
    OBVIOUS
  <1>4. Cuts \in Seq(Nat) /\ Len(Cuts) = Base + 1 /\ Base \in Nat
    <2>1. Base \in Nat /\ Base + 1 \in Nat /\ Cuts \in [1..(Base + 1) -> Nat]
      BY FrameAssumption
    <2> QED
      BY <2>1, MadeOf
  <1>5. p.offsets = [of |-> <<k, "offsets">>, wide |-> v.wide,
                     cells |-> SubSeq(Cuts, from + 1, from + rows + 1)]
    BY <1>1, <1>2, <1>3 DEF CutsOf, Offsets
  <1>6. p.offsets.cells = [i \in 1..(rows + 1) |-> Cuts[from + i]]
    <2>1. from + (rows + 1) <= Len(Cuts)
      <3>1. PICK base \in Nat : base = Base /\ Len(Cuts) = base + 1
        BY <1>4
      <3>2. from + rows <= base
        BY <1>1, <3>1
      <3>3. from + (rows + 1) <= base + 1
        BY <3>2
      <3> QED
        BY <3>1, <3>3
    <2>2. SubSeq(Cuts, from + 1, from + (rows + 1))
            = [i \in 1..(rows + 1) |-> Cuts[from + i]]
      BY <1>4, <2>1, PartOf
    <2>3. from + (rows + 1) = from + rows + 1
      OBVIOUS
    <2> QED
      BY <1>5, <2>2, <2>3
  <1>7. From(p) = Cuts[from + 1] /\ To(p) = Cuts[from + rows + 1]
    <2>1. 1 \in 1..(rows + 1) /\ rows + 1 \in 1..(rows + 1)
          /\ from + (rows + 1) = from + rows + 1
      OBVIOUS
    <2>2. /\ p.offsets.cells[1] = Cuts[from + 1]
          /\ p.offsets.cells[rows + 1] = Cuts[from + (rows + 1)]
      BY <1>6, <2>1
    <2>3. p.rows = rows
      BY <1>2, <1>3
    <2> QED
      BY <2>1, <2>2, <2>3 DEF From, To
  <1>8. p.offsets.of = <<k, "offsets">> /\ p.offsets.wide = v.wide
    BY <1>5
  <1>9. \A j \in 1..(rows + 1) : p.offsets.cells[j] = Cuts[from + j]
    BY <1>6
  <1> QED
    BY <1>1, <1>3, <1>7, <1>8, <1>9

\* A layout gives back the caller's rows, chunk by chunk.
Reads(v, l) ==
  \A k \in 1..Len(v.chunks) : \A j \in 1..v.chunks[k].rows :
    ReadRow(v.elem, l, RowEnds(v)[k - 1] + j)
      = RowOf(v, k, v.chunks[k].from + j)

\* It is read word by word, or bit by bit, when each is where its row is.
OneByOne(v, l) ==
  \A k \in 1..Len(v.chunks) : \A j \in 1..v.chunks[k].rows :
    l.data.cells[l.at + (RowEnds(v)[k - 1] + j)] = <<k, v.chunks[k].from + j>>

\* Words and bits are read so.
LEMMA ReadOneByOne ==
  ASSUME NEW v, IsVector(v), v.elem # "strings", NEW l, OneByOne(v, l)
  PROVE  Reads(v, l)
  BY DEF Reads, ReadRow, RowOf, OneByOne

\* A layout of cells of this module's own that are those rows.
LEMMA JoinedReads ==
  ASSUME NEW v, IsVector(v), v.elem # "strings",
         NEW s \in [1..Len(v.chunks) -> Seq(Cells)],
         \A k \in 1..Len(v.chunks) :
           s[k] = Run(k, v.chunks[k].from, v.chunks[k].rows)
  PROVE  Reads(v, Layout(Joined(s), 0, NoOffsets, FALSE))
  <1>1. \A k \in 1..Len(v.chunks) :
          /\ Len(s[k]) = v.chunks[k].rows
          /\ \A j \in 1..v.chunks[k].rows :
               s[k][j] = <<k, v.chunks[k].from + j>>
    <2>1. \A k \in 1..Len(v.chunks) :
            k \in Nat /\ v.chunks[k].from \in Nat /\ v.chunks[k].rows \in Nat
      BY VectorParts
    <2>2. ASSUME NEW k \in 1..Len(v.chunks)
          PROVE  /\ Len(s[k]) = v.chunks[k].rows
                 /\ \A j \in 1..v.chunks[k].rows :
                      s[k][j] = <<k, v.chunks[k].from + j>>
      <3>1. PICK from \in Nat, rows \in Nat :
              from = v.chunks[k].from /\ rows = v.chunks[k].rows
        BY <2>1
      <3>2. s[k] = [i \in 1..rows |-> <<k, from + i>>]
        BY <3>1 DEF Run
      <3>3. Len(s[k]) = rows
        BY <3>2
      <3>4. \A j \in 1..rows : s[k][j] = <<k, from + j>>
        BY <3>2
      <3> QED
        BY <3>1, <3>3, <3>4
    <2> QED
      BY <2>2
  <1>2. ASSUME NEW k \in 1..Len(v.chunks), NEW j \in 1..v.chunks[k].rows
        PROVE  FlattenSeq(s)[RowEnds(v)[k - 1] + j]
                 = <<k, v.chunks[k].from + j>>
    <2>1. FlattenSeq(s)[RowEnds(v)[k - 1] + j] = s[k][j]
      <3>1. \A i \in 1..Len(v.chunks) : Len(s[i]) = v.chunks[i].rows
        BY <1>1
      <3>2. \A i \in 1..Len(v.chunks) : \A r \in 1..v.chunks[i].rows :
              FlattenSeq(s)[RowEnds(v)[i - 1] + r] = s[i][r]
        <4>1. FillsChunks(s, v, Cells)
          BY <3>1 DEF FillsChunks
        <4> QED
          BY <4>1, ChunksJoined
      <3> QED
        BY <3>2
    <2> QED
      BY <1>1, <2>1
  <1>3. PICK l : l = Layout(Joined(s), 0, NoOffsets, FALSE)
    OBVIOUS
  <1>4. l.data.cells = FlattenSeq(s) /\ l.at = 0
    BY <1>3 DEF Layout, Joined, Buffer
  <1>5. ASSUME NEW k \in 1..Len(v.chunks), NEW j \in 1..v.chunks[k].rows
        PROVE  l.data.cells[l.at + (RowEnds(v)[k - 1] + j)]
                 = <<k, v.chunks[k].from + j>>
    <2>1. RowEnds(v)[k - 1] \in Nat /\ j \in Nat
      <3>1. k - 1 \in 0..Len(v.chunks) /\ v.chunks[k].rows \in Nat
        BY VectorParts
      <3> QED
        BY <3>1, RowsAddUp
    <2>2. l.at + (RowEnds(v)[k - 1] + j) = RowEnds(v)[k - 1] + j
      BY <1>4, <2>1
    <2> QED
      BY <1>2, <1>4, <2>2
  <1>6. OneByOne(v, l)
    BY <1>5 DEF OneByOne
  <1>7. OneByOne(v, l)
    BY <1>6 DEF OneByOne
  <1>8. v.elem # "strings"
    OBVIOUS
  <1> QED
    BY <1>3, <1>7, <1>8, ReadOneByOne

\* Words put together.
LEMMA WordsCopiedReads ==
  ASSUME NEW v, IsVector(v), v.elem = "words"
  PROVE  Reads(v, WordsCopied(Pieces(v)).layout)
  <1> DEFINE s == [k \in DOMAIN Pieces(v) |->
                     SubSeq(Pieces(v)[k].values.cells, 1, Pieces(v)[k].rows)]
  <1>1. DOMAIN Pieces(v) = 1..Len(v.chunks)
    BY PieceParts
  <1>2. ASSUME NEW k \in 1..Len(v.chunks)
        PROVE  /\ s[k] = Run(k, v.chunks[k].from, v.chunks[k].rows)
               /\ s[k] \in Seq(Cells)
    <2>1. PICK from \in Nat, rows \in Nat :
            from = v.chunks[k].from /\ rows = v.chunks[k].rows
      BY VectorParts
    <2>2. s[k] = SubSeq(Run(k, from, rows), 1, rows)
      BY <1>1, <2>1, PieceCells, PieceParts
    <2>3. /\ k \in Nat
          /\ Run(k, from, rows) \in Seq(Cells)
          /\ Len(Run(k, from, rows)) = rows
      <3>1. k \in Nat
        BY VectorParts
      <3> QED
        BY <3>1, RunIsCells
    <2> HIDE DEF s
    <2>4. PICK t \in Seq(Cells) : t = Run(k, from, rows)
      BY <2>3
    <2>5. SubSeq(t, 0 + 1, 0 + rows) = Run(k, from, rows)
      <3>1. 0 + rows <= Len(t)
        BY <2>3, <2>4
      <3>2. \A i \in 1..rows : t[0 + i] = <<k, from + i>>
        BY <2>4 DEF Run
      <3>3. PICK b \in Nat : b = 0
        OBVIOUS
      <3>4. Follow(t, b, rows, k, from)
        BY <3>1, <3>2, <3>3 DEF Follow
      <3>5. Part(t, b, rows) = Run(k, from, rows)
        BY <3>4, RunWithin
      <3> QED
        BY <3>3, <3>5 DEF Part
    <2>6. 0 + 1 = 1 /\ 0 + rows = rows
      OBVIOUS
    <2> QED
      BY <2>1, <2>2, <2>3, <2>4, <2>5, <2>6
  <1>3. s \in [1..Len(v.chunks) -> Seq(Cells)]
    BY <1>1, <1>2
  <1>4. WordsCopied(Pieces(v)).layout = Layout(Joined(s), 0, NoOffsets, FALSE)
    BY DEF WordsCopied, Plain, Described
  <1> HIDE DEF s
  <1>5. Reads(v, Layout(Joined(s), 0, NoOffsets, FALSE))
    <2>1. v.elem # "strings"
      OBVIOUS
    <2> QED
      BY <1>2, <1>3, <2>1, JoinedReads
  <1> QED
    BY <1>4, <1>5

\* Bits put together, each from the byte it is in.
LEMMA BitsRebuiltReads ==
  ASSUME NEW v, IsVector(v), v.elem = "bits"
  PROVE  Reads(v, BitsRebuilt(Pieces(v)).layout)
  <1> DEFINE s == [k \in DOMAIN Pieces(v) |->
                     [r \in 1..Pieces(v)[k].rows |->
                        Pieces(v)[k].values.cells[Pieces(v)[k].at + r]]]
  <1>1. DOMAIN Pieces(v) = 1..Len(v.chunks)
    BY PieceParts
  <1>2. ASSUME NEW k \in 1..Len(v.chunks)
        PROVE  /\ s[k] = Run(k, v.chunks[k].from, v.chunks[k].rows)
               /\ s[k] \in Seq(Cells)
    <2>1. PICK from \in Nat, rows \in Nat :
            /\ from = v.chunks[k].from
            /\ rows = v.chunks[k].rows
            /\ from + rows <= Base
      BY VectorParts
    <2>2. s[k] = [r \in 1..rows |-> Run(k, 0, Base)[from + r]]
      BY <1>1, <2>1, PieceCells, PieceParts
    <2>3. k \in Nat /\ Base \in Nat
      BY FrameAssumption
    <2>4. \A i \in 1..Base : Run(k, 0, Base)[i] = <<k, 0 + i>>
      BY DEF Run
    <2> HIDE DEF s
    <2>5. ASSUME NEW r \in 1..rows
          PROVE  Run(k, 0, Base)[from + r] = <<k, from + r>>
      <3>1. PICK i \in 1..Base : i = from + r /\ 0 + i = i
        BY <2>1, <2>3
      <3> QED
        BY <2>4, <3>1
    <2>6. s[k] = Run(k, from, rows)
      BY <2>2, <2>5 DEF Run
    <2>7. Run(k, from, rows) \in Seq(Cells)
      BY <2>3, RunIsCells
    <2> QED
      BY <2>1, <2>6, <2>7
  <1>3. s \in [1..Len(v.chunks) -> Seq(Cells)]
    BY <1>1, <1>2
  <1>4. BitsRebuilt(Pieces(v)).layout = Layout(Joined(s), 0, NoOffsets, FALSE)
    BY DEF BitsRebuilt, Plain, Described
  <1> HIDE DEF s
  <1>5. Reads(v, Layout(Joined(s), 0, NoOffsets, FALSE))
    <2>1. v.elem # "strings"
      OBVIOUS
    <2> QED
      BY <1>2, <1>3, <2>1, JoinedReads
  <1> QED
    BY <1>4, <1>5

\* One chunk of words, where it is.
LEMMA WordsLentReads ==
  ASSUME NEW v, IsVector(v), v.elem = "words", Len(v.chunks) = 1
  PROVE  Reads(v, Layout(Pieces(v)[1].values, 0, NoOffsets, FALSE))
  <1>1. 1 \in 1..Len(v.chunks) /\ RowEnds(v)[0] = 0
    BY RowsAddUp
  <1>2. PICK from \in Nat, rows \in Nat :
          from = v.chunks[1].from /\ rows = v.chunks[1].rows
    BY <1>1, VectorParts
  <1>3. PICK l : l = Layout(Pieces(v)[1].values, 0, NoOffsets, FALSE)
    OBVIOUS
  <1>4. l.data.cells = Run(1, from, rows) /\ l.at = 0
    BY <1>1, <1>2, <1>3, PieceCells DEF Layout
  <1>5. \A i \in 1..rows : Run(1, from, rows)[i] = <<1, from + i>>
    BY DEF Run
  <1>6. ASSUME NEW k \in 1..Len(v.chunks), NEW j \in 1..v.chunks[k].rows
        PROVE  l.data.cells[l.at + (RowEnds(v)[k - 1] + j)]
                 = <<k, v.chunks[k].from + j>>
    <2>1. k = 1 /\ k - 1 = 0 /\ j \in 1..rows /\ 0 + (0 + j) = j
      BY <1>2
    <2> QED
      BY <1>1, <1>2, <1>4, <1>5, <2>1
  <1>7. OneByOne(v, l)
    BY <1>6 DEF OneByOne
  <1>8. v.elem # "strings"
    OBVIOUS
  <1> QED
    BY <1>3, <1>7, <1>8, ReadOneByOne

\* One chunk of bits, from the byte it starts at.
LEMMA BitsLentReads ==
  ASSUME NEW v, IsVector(v), v.elem = "bits", Len(v.chunks) = 1,
         v.chunks[1].from % Byte = 0
  PROVE  Reads(v, BitsLent(Pieces(v)[1]).layout)
  <1>1. 1 \in 1..Len(v.chunks) /\ RowEnds(v)[0] = 0
    BY RowsAddUp
  <1>2. PICK from \in Nat, rows \in Nat :
          /\ from = v.chunks[1].from
          /\ rows = v.chunks[1].rows
          /\ from + rows <= Base
    BY <1>1, VectorParts
  <1>3. (from \div Byte) * Byte = from
    <2>1. Byte \in Nat \ {0} /\ from % Byte = 0
      BY <1>2, FrameAssumption
    <2> QED
      BY <2>1
  <1>4. PICK l : l = BitsLent(Pieces(v)[1]).layout
    OBVIOUS
  <1>5. l.data.cells = Run(1, 0, Base) /\ l.at = from
    <2>1. Pieces(v)[1].values.cells = Run(1, 0, Base)
          /\ Pieces(v)[1].at = from
      BY <1>1, <1>2, PieceCells, PieceParts
    <2> QED
      BY <1>3, <1>4, <2>1 DEF BitsLent, Described, Layout
  <1>6. \A i \in 1..Base : Run(1, 0, Base)[i] = <<1, 0 + i>>
    BY DEF Run
  <1>7. ASSUME NEW k \in 1..Len(v.chunks), NEW j \in 1..v.chunks[k].rows
        PROVE  l.data.cells[l.at + (RowEnds(v)[k - 1] + j)]
                 = <<k, v.chunks[k].from + j>>
    <2>1. k = 1 /\ k - 1 = 0 /\ j \in 1..rows /\ 0 + j = j
      BY <1>2
    <2>2. from + j \in 1..Base /\ 0 + (from + j) = from + j
      <3>1. Base \in Nat
        BY FrameAssumption
      <3> QED
        BY <1>2, <2>1, <3>1
    <2> QED
      BY <1>1, <1>2, <1>5, <1>6, <2>1, <2>2
  <1>8. OneByOne(v, l)
    BY <1>7 DEF OneByOne
  <1>9. v.elem # "strings"
    OBVIOUS
  <1> QED
    BY <1>4, <1>8, <1>9, ReadOneByOne

\* Where the characters of a row are: `m` of them after the first `b`.
CutRight(v, l, k, j, b, m) ==
  LET i == v.chunks[k].from + j
      r == RowEnds(v)[k - 1] + j
  IN  /\ b \in Nat
      /\ m \in Nat
      /\ m = Cuts[i + 1] - Cuts[i]
      /\ l.at + l.offsets.cells[r] = b
      /\ l.at + l.offsets.cells[r + 1] = b + m
      /\ Follow(l.data.cells, b, m, k, Cuts[i])

\* It is read by its offsets, when they cut each row's characters out.
LEMMA ReadByCuts ==
  ASSUME NEW v, IsVector(v), v.elem = "strings", NEW l,
         l.wide = l.offsets.wide,
         l.data.cells \in Seq(Cells),
         \A k \in 1..Len(v.chunks) : \A j \in 1..v.chunks[k].rows :
           \E b, m : CutRight(v, l, k, j, b, m)
  PROVE  Reads(v, l)
  <1> SUFFICES ASSUME NEW k \in 1..Len(v.chunks),
                      NEW j \in 1..v.chunks[k].rows
               PROVE  ReadRow(v.elem, l, RowEnds(v)[k - 1] + j)
                        = RowOf(v, k, v.chunks[k].from + j)
    BY DEF Reads
  <1>1. PICK b, m : CutRight(v, l, k, j, b, m)
    OBVIOUS
  <1>2. PICK i, r : i = v.chunks[k].from + j /\ r = RowEnds(v)[k - 1] + j
    OBVIOUS
  <1>3. /\ b \in Nat
        /\ m \in Nat
        /\ m = Cuts[i + 1] - Cuts[i]
        /\ l.at + l.offsets.cells[r] = b
        /\ l.at + l.offsets.cells[r + 1] = b + m
        /\ Follow(l.data.cells, b, m, k, Cuts[i])
    BY <1>1, <1>2 DEF CutRight
  <1>4. PICK s \in Seq(Cells) : s = l.data.cells
    OBVIOUS
  <1>5. Part(s, b, m) = Run(k, Cuts[i], m)
    <2>1. PICK a : a = Cuts[i]
      OBVIOUS
    <2>2. Follow(s, b, m, k, a)
      BY <1>3, <1>4, <2>1
    <2>3. b \in Nat /\ m \in Nat
      BY <1>3
    <2>4. Part(s, b, m) = Run(k, a, m)
      BY <2>2, <2>3, RunWithin
    <2> QED
      BY <2>1, <2>4
  <1>6. ReadRow(v.elem, l, r) = Part(s, b, m)
    BY <1>3, <1>4 DEF ReadRow, Part
  <1>7. RowOf(v, k, i) = Run(k, Cuts[i], m)
    BY <1>3 DEF RowOf, Run
  <1> QED
    BY <1>2, <1>5, <1>6, <1>7

\* Where the rows of a slice are cut.
LEMMA WithinSlice ==
  ASSUME NEW from \in Nat, NEW rows \in Nat, NEW base \in Nat,
         from + rows <= base, NEW j \in 1..rows
  PROVE  /\ from + 1 \in 1..(base + 1)
         /\ from + j \in (from + 1)..(base + 1)
         /\ from + j \in 1..(base + 1)
         /\ from + j + 1 \in (from + j)..(base + 1)
         /\ from + j + 1 \in 1..(base + 1)
         /\ from + rows + 1 \in (from + j + 1)..(base + 1)
         /\ from + rows + 1 \in 1..(base + 1)
         /\ base + 1 \in (from + rows + 1)..(base + 1)
  OBVIOUS

\* The characters of a chunk's rows are within those of the chunk, and those
\* within the array's.
LEMMA CutsInOrder ==
  ASSUME NEW v, IsVector(v), NEW k \in 1..Len(v.chunks),
         NEW j \in 1..v.chunks[k].rows
  PROVE  LET from == v.chunks[k].from
             rows == v.chunks[k].rows
         IN  /\ Cuts[from + 1] \in Nat
             /\ Cuts[from + j] \in Nat
             /\ Cuts[from + j + 1] \in Nat
             /\ Cuts[from + rows + 1] \in Nat
             /\ Cuts[Base + 1] \in Nat
             /\ Cuts[from + 1] <= Cuts[from + j]
             /\ Cuts[from + j] <= Cuts[from + j + 1]
             /\ Cuts[from + j + 1] <= Cuts[from + rows + 1]
             /\ Cuts[from + rows + 1] <= Cuts[Base + 1]
  <1>1. PICK from \in Nat, rows \in Nat, base \in Nat :
          /\ from = v.chunks[k].from
          /\ rows = v.chunks[k].rows
          /\ base = Base
          /\ from + rows <= base
    BY VectorParts, FrameAssumption
  <1>2. j \in 1..rows
    BY <1>1
  <1>3. /\ from + 1 \in 1..(base + 1)
        /\ from + j \in (from + 1)..(base + 1)
        /\ from + j \in 1..(base + 1)
        /\ from + j + 1 \in (from + j)..(base + 1)
        /\ from + j + 1 \in 1..(base + 1)
        /\ from + rows + 1 \in (from + j + 1)..(base + 1)
        /\ from + rows + 1 \in 1..(base + 1)
        /\ base + 1 \in (from + rows + 1)..(base + 1)
    <2>1. from + rows <= base
      BY <1>1
    <2> QED
      BY <1>2, <2>1, WithinSlice
  <1>7. /\ Cuts[from + 1] \in Nat
        /\ Cuts[from + j] \in Nat
        /\ Cuts[from + 1] <= Cuts[from + j]
    BY <1>1, <1>3, CutsGoUp
  <1>8. /\ Cuts[from + j + 1] \in Nat
        /\ Cuts[from + j] <= Cuts[from + j + 1]
    BY <1>1, <1>3, CutsGoUp
  <1>9. /\ Cuts[from + rows + 1] \in Nat
        /\ Cuts[from + j + 1] <= Cuts[from + rows + 1]
    BY <1>1, <1>3, CutsGoUp
  <1>10. /\ Cuts[base + 1] \in Nat
         /\ Cuts[from + rows + 1] <= Cuts[base + 1]
    BY <1>1, <1>3, CutsGoUp
  <1> QED
    BY <1>1, <1>7, <1>8, <1>9, <1>10

\* One chunk of strings, whose characters stay where they are.
LEMMA OneChunkReads ==
  ASSUME NEW v, IsVector(v), v.elem = "strings", Len(v.chunks) = 1, NEW l,
         l.wide = l.offsets.wide,
         l.data = Pieces(v)[1].values,
         \A j \in 1..(v.chunks[1].rows + 1) :
           l.at + l.offsets.cells[j] = Cuts[v.chunks[1].from + j]
  PROVE  Reads(v, l)
  <1>1. 1 \in 1..Len(v.chunks) /\ RowEnds(v)[0] = 0
    BY RowsAddUp
  <1>2. PICK from \in Nat, rows \in Nat :
          from = v.chunks[1].from /\ rows = v.chunks[1].rows
    BY <1>1, VectorParts
  <1>3. PICK all \in Nat : all = Cuts[Base + 1]
    <2>1. Base + 1 \in 1..(Base + 1)
      BY FrameAssumption
    <2> QED
      BY <2>1, FrameAssumption
  <1>4. PICK s \in Seq(Cells) : s = l.data.cells /\ s = Run(1, 0, all)
    <2>1. Run(1, 0, all) \in Seq(Cells)
      BY RunIsCells
    <2>2. l.data.cells = Run(1, 0, all)
      BY <1>1, <1>3, PieceCells
    <2> QED
      BY <2>1, <2>2
  <1>5. Len(s) = all
    BY <1>4, RunIsCells
  <1>6. ASSUME NEW k \in 1..Len(v.chunks), NEW j \in 1..v.chunks[k].rows
        PROVE  \E b, m : CutRight(v, l, k, j, b, m)
    <2>1. k = 1 /\ k - 1 = 0 /\ j \in 1..rows /\ j \in 1..(rows + 1)
          /\ j + 1 \in 1..(rows + 1) /\ 0 + j = j
          /\ from + (j + 1) = from + j + 1
      <3>1. k = 1
        OBVIOUS
      <3>2. j \in 1..rows
        BY <1>2, <3>1
      <3> QED
        BY <3>1, <3>2
    <2>2. /\ Cuts[from + j] \in Nat
          /\ Cuts[from + j + 1] \in Nat
          /\ Cuts[from + j] <= Cuts[from + j + 1]
          /\ Cuts[from + j + 1] <= all
      <3>1. /\ Cuts[from + rows + 1] \in Nat
            /\ Cuts[from + j + 1] <= Cuts[from + rows + 1]
            /\ Cuts[from + rows + 1] <= all
            /\ Cuts[from + j] \in Nat
            /\ Cuts[from + j + 1] \in Nat
            /\ Cuts[from + j] <= Cuts[from + j + 1]
        BY <1>2, <1>3, <2>1, CutsInOrder
      <3> QED
        BY <3>1
    <2>3. PICK b \in Nat, m \in Nat :
            b = Cuts[from + j] /\ m = Cuts[from + j + 1] - Cuts[from + j]
      BY <2>2
    <2>4. b + m = Cuts[from + j + 1] /\ b + m <= all
      BY <2>2, <2>3
    <2>5. Follow(s, b, m, k, b)
      <3>1. b + m <= Len(s)
        BY <1>5, <2>4
      <3>2. ASSUME NEW i \in 1..m
            PROVE  s[b + i] = <<k, b + i>>
        <4>1. b + i \in 1..all /\ 0 + (b + i) = b + i
          BY <2>4
        <4> QED
          BY <1>4, <2>1, <4>1 DEF Run
      <3> QED
        BY <3>1, <3>2 DEF Follow
    <2>6. /\ l.at + l.offsets.cells[j] = b
          /\ l.at + l.offsets.cells[j + 1] = b + m
      BY <1>2, <2>1, <2>3, <2>4
    <2>7. CutRight(v, l, k, j, b, m)
      BY <1>1, <1>2, <1>4, <2>1, <2>3, <2>5, <2>6 DEF CutRight
    <2> QED
      BY <2>7
  <1> QED
    BY <1>4, <1>6, ReadByCuts

\* Lent with the offsets it came with.
LEMMA StringsLentReads ==
  ASSUME NEW v, IsVector(v), v.elem = "strings", Len(v.chunks) = 1
  PROVE  Reads(v, StringsLent(v, Pieces(v)[1]).layout)
  <1>1. PICK l : l = StringsLent(v, Pieces(v)[1]).layout
    OBVIOUS
  <1>2. /\ l.data = Pieces(v)[1].values
        /\ l.at = 0
        /\ l.offsets = Pieces(v)[1].offsets
        /\ l.wide = v.wide
    BY <1>1 DEF StringsLent, Described, Layout
  <1>3. 1 \in 1..Len(v.chunks)
    OBVIOUS
  <1>4. l.offsets.wide = v.wide
    <2>1. Pieces(v)[1].offsets.wide = v.wide
      BY <1>3, PieceCuts
    <2> QED
      BY <1>2, <2>1
  <1>5. ASSUME NEW j \in 1..(v.chunks[1].rows + 1)
        PROVE  l.at + l.offsets.cells[j] = Cuts[v.chunks[1].from + j]
    <2>1. l.offsets.cells[j] = Cuts[v.chunks[1].from + j]
      BY <1>2, <1>3, PieceCuts
    <2>2. Cuts[v.chunks[1].from + j] \in Nat
      <3>1. PICK from \in Nat, rows \in Nat, base \in Nat :
              /\ from = v.chunks[1].from
              /\ rows = v.chunks[1].rows
              /\ base = Base
              /\ from + rows <= base
        BY <1>3, VectorParts, FrameAssumption
      <3>2. from + j \in 1..(base + 1)
        BY <3>1
      <3> QED
        BY <3>1, <3>2, FrameAssumption
    <2> QED
      BY <1>2, <2>1, <2>2
  <1>6. l.wide = l.offsets.wide
    BY <1>2, <1>4
  <1> QED
    BY <1>1, <1>2, <1>5, <1>6, OneChunkReads

\* Lent with offsets of this module's own, counted from where its first row's
\* characters are.
LEMMA RebasedReads ==
  ASSUME NEW v, IsVector(v), v.elem = "strings", Len(v.chunks) = 1,
         Rebased(Pieces(v)[1]).why = "none"
  PROVE  Reads(v, Rebased(Pieces(v)[1]).layout)
  <1>1. 1 \in 1..Len(v.chunks)
    OBVIOUS
  <1>2. PICK from \in Nat, rows \in Nat, base \in Nat :
          /\ from = v.chunks[1].from
          /\ rows = v.chunks[1].rows
          /\ base = Base
          /\ from + rows <= base
    BY <1>1, VectorParts, FrameAssumption
  <1>3. \A j \in 1..(rows + 1) : Cuts[from + j] \in Nat
    <2>1. \A j \in 1..(rows + 1) : from + j \in 1..(base + 1)
      BY <1>2
    <2> QED
      BY <1>2, <2>1, FrameAssumption
  <1>4. PICK p : p = Pieces(v)[1]
    OBVIOUS
  <1>5. /\ p.rows = rows
        /\ \A j \in 1..(rows + 1) : p.offsets.cells[j] = Cuts[from + j]
        /\ From(p) = Cuts[from + 1]
    BY <1>1, <1>2, <1>4, PieceCuts, PieceParts
  <1>6. PICK f : f = [i \in 1..(rows + 1) |-> p.offsets.cells[i] - From(p)]
    OBVIOUS
  <1>7. Rebased(p) = Narrow(p.values, From(p), f, {p.values.of})
    BY <1>5, <1>6 DEF Rebased
  <1>8. PICK l : l = Rebased(p).layout
    OBVIOUS
  <1>9. l = Layout(p.values, From(p), Offsets(Own, FALSE, f), FALSE)
    <2>1. Rebased(p).why = "none"
      BY <1>4
    <2>2. ~(\E i \in DOMAIN f : f[i] > Reach)
      <3>1. Refusal("reach").why # "none"
        BY DEF Refusal
      <3> QED
        BY <1>7, <2>1, <3>1 DEF Narrow
    <2>3. Rebased(p) = Described(Layout(p.values, From(p),
                                        Offsets(Own, FALSE, f), FALSE),
                                 {p.values.of})
      BY <1>7, <2>2 DEF Narrow
    <2> QED
      BY <1>8, <2>3 DEF Described
  <1>10. /\ l.data = p.values
         /\ l.at = From(p)
         /\ l.offsets.cells = f
         /\ l.wide = l.offsets.wide
    BY <1>9 DEF Layout, Offsets
  <1>11. ASSUME NEW j \in 1..(rows + 1)
         PROVE  l.at + l.offsets.cells[j] = Cuts[from + j]
    <2>1. 1 \in 1..(rows + 1)
      OBVIOUS
    <2>2. Cuts[from + 1] \in Nat /\ Cuts[from + j] \in Nat
      BY <1>3, <2>1
    <2>3. l.offsets.cells[j] = Cuts[from + j] - Cuts[from + 1]
      BY <1>5, <1>6, <1>10
    <2> QED
      BY <1>5, <1>10, <2>2, <2>3
  <1>12. l.data = Pieces(v)[1].values
         /\ \A j \in 1..(v.chunks[1].rows + 1) :
              l.at + l.offsets.cells[j] = Cuts[v.chunks[1].from + j]
    BY <1>2, <1>4, <1>10, <1>11
  <1>13. Reads(v, l)
    BY <1>10, <1>12, OneChunkReads
  <1> QED
    BY <1>4, <1>8, <1>13

-----------------------------------------------------------------------------
(***************************************************************************)
(* Strings, put together from several chunks.                              *)
(***************************************************************************)

\* The characters of a chunk's rows.
CharactersOf(v, k) == Characters(Pieces(v)[k])

\* How many there are of them, and before the end of a row.
Long(v, k) ==
  Cuts[v.chunks[k].from + v.chunks[k].rows + 1] - Cuts[v.chunks[k].from + 1]
UpTo(v, k, j) == Cuts[v.chunks[k].from + j + 1] - Cuts[v.chunks[k].from + 1]

\* They are one run of the array, from one cut to another.
LEMMA CharactersAre ==
  ASSUME NEW v, IsVector(v), v.elem = "strings", NEW k \in 1..Len(v.chunks)
  PROVE  /\ Long(v, k) \in Nat
         /\ CharactersOf(v, k)
              = Run(k, Cuts[v.chunks[k].from + 1], Long(v, k))
         /\ CharactersOf(v, k) \in Seq(Cells)
         /\ Len(CharactersOf(v, k)) = Long(v, k)
  <1>1. PICK from \in Nat, rows \in Nat, base \in Nat :
          /\ from = v.chunks[k].from
          /\ rows = v.chunks[k].rows
          /\ base = Base
          /\ from + rows <= base
    BY VectorParts, FrameAssumption
  <1>2. k \in Nat
    BY VectorParts
  <1>3. /\ from + 1 \in 1..(base + 1)
        /\ from + rows + 1 \in (from + 1)..(base + 1)
        /\ from + rows + 1 \in 1..(base + 1)
        /\ base + 1 \in (from + rows + 1)..(base + 1)
    <2>1. from + rows <= base
      BY <1>1
    <2> QED
      BY <2>1
  <1>4. PICK a \in Nat, z \in Nat, all \in Nat :
          /\ a = Cuts[from + 1]
          /\ z = Cuts[from + rows + 1]
          /\ all = Cuts[base + 1]
          /\ a <= z
          /\ z <= all
    <2>1. /\ Cuts[from + 1] \in Nat
          /\ Cuts[from + rows + 1] \in Nat
          /\ Cuts[from + 1] <= Cuts[from + rows + 1]
      BY <1>1, <1>3, CutsGoUp
    <2>2. /\ Cuts[base + 1] \in Nat
          /\ Cuts[from + rows + 1] <= Cuts[base + 1]
      BY <1>1, <1>3, CutsGoUp
    <2> QED
      BY <2>1, <2>2
  <1>5. PICK m \in Nat : m = z - a /\ a + m = z /\ m = Long(v, k)
    <2>1. a <= z
      BY <1>4
    <2>2. z - a \in Nat /\ a + (z - a) = z
      BY <2>1
    <2>3. Long(v, k) = z - a
      BY <1>1, <1>4 DEF Long
    <2> QED
      BY <2>2, <2>3
  <1>6. PICK s \in Seq(Cells) : s = Run(k, 0, all)
    BY <1>2, RunIsCells
  <1>7. Len(s) = all
    BY <1>2, <1>6, RunIsCells
  <1>8. Follow(s, a, m, k, a)
    <2>1. a + m <= Len(s)
      BY <1>4, <1>5, <1>7
    <2>2. ASSUME NEW i \in 1..m
          PROVE  s[a + i] = <<k, a + i>>
      <3>1. a + i \in 1..all /\ 0 + (a + i) = a + i
        <4>1. a + m = z /\ z <= all
          BY <1>4, <1>5
        <4> QED
          BY <4>1
      <3> QED
        BY <1>6, <3>1 DEF Run
    <2> QED
      BY <2>1, <2>2 DEF Follow
  <1>9. Part(s, a, m) = Run(k, a, m)
    BY <1>8, RunWithin
  <1>10. CharactersOf(v, k) = Part(s, a, m)
    <2>1. /\ From(Pieces(v)[k]) = a
          /\ To(Pieces(v)[k]) = z
          /\ Pieces(v)[k].values.cells = s
      BY <1>1, <1>4, <1>6, PieceCells, PieceCuts
    <2> QED
      BY <1>5, <2>1 DEF CharactersOf, Characters, Part
  <1>11. CharactersOf(v, k) = Run(k, a, m)
    BY <1>9, <1>10
  <1>12. Run(k, a, m) \in Seq(Cells) /\ Len(Run(k, a, m)) = m
    BY <1>2, RunIsCells
  <1> QED
    BY <1>1, <1>4, <1>5, <1>11, <1>12

\* How far a row's characters reach into those of its chunk.
LEMMA UpToARow ==
  ASSUME NEW v, IsVector(v), v.elem = "strings", NEW k \in 1..Len(v.chunks),
         NEW j \in 1..v.chunks[k].rows
  PROVE  /\ UpTo(v, k, j) \in Nat
         /\ UpTo(v, k, j) <= Long(v, k)
         /\ UpTo(v, k, v.chunks[k].rows) = Long(v, k)
         /\ j - 1 \in 1..v.chunks[k].rows
              => /\ UpTo(v, k, j - 1)
                      = Cuts[v.chunks[k].from + j] - Cuts[v.chunks[k].from + 1]
                 /\ UpTo(v, k, j - 1) <= UpTo(v, k, j)
  <1>1. PICK from \in Nat, rows \in Nat :
          from = v.chunks[k].from /\ rows = v.chunks[k].rows
    BY VectorParts
  <1>2. /\ Cuts[from + 1] \in Nat
        /\ Cuts[from + j] \in Nat
        /\ Cuts[from + j + 1] \in Nat
        /\ Cuts[from + rows + 1] \in Nat
        /\ Cuts[from + 1] <= Cuts[from + j]
        /\ Cuts[from + j] <= Cuts[from + j + 1]
        /\ Cuts[from + j + 1] <= Cuts[from + rows + 1]
    BY <1>1, CutsInOrder
  <1>3. /\ UpTo(v, k, j) = Cuts[from + j + 1] - Cuts[from + 1]
        /\ Long(v, k) = Cuts[from + rows + 1] - Cuts[from + 1]
        /\ UpTo(v, k, v.chunks[k].rows) = Long(v, k)
    BY <1>1 DEF UpTo, Long
  <1>4. UpTo(v, k, j - 1) = Cuts[from + j] - Cuts[from + 1]
    <2>1. j \in Nat
      BY <1>1
    <2>2. from + (j - 1) + 1 = from + j
      BY <2>1
    <2> QED
      BY <1>1, <2>2 DEF UpTo
  <1>5. /\ UpTo(v, k, j) \in Nat
        /\ UpTo(v, k, j) <= Long(v, k)
        /\ UpTo(v, k, j - 1) <= UpTo(v, k, j)
    <2>1. PICK first \in Nat, here \in Nat, next \in Nat, last \in Nat :
            /\ first = Cuts[from + 1]
            /\ here = Cuts[from + j]
            /\ next = Cuts[from + j + 1]
            /\ last = Cuts[from + rows + 1]
            /\ first <= here
            /\ here <= next
            /\ next <= last
      BY <1>2
    <2>2. first <= here /\ here <= next /\ next <= last
      BY <2>1
    <2>3. /\ next - first \in Nat
          /\ next - first <= last - first
          /\ here - first <= next - first
      BY <2>2
    <2> QED
      BY <1>3, <1>4, <2>1, <2>3
  <1> QED
    BY <1>1, <1>3, <1>4, <1>5

\* The characters of all the chunks, and where those of each end.
AllCharacters(v) == [k \in 1..Len(v.chunks) |-> CharactersOf(v, k)]

\* They are a sequence of cells for each chunk, which has its ends.
LEMMA CharactersTogether ==
  ASSUME NEW v, IsVector(v), v.elem = "strings"
  PROVE  /\ AllCharacters(v) \in Seq(Seq(Cells))
         /\ Len(AllCharacters(v)) = Len(v.chunks)
         /\ \A k \in 1..Len(v.chunks) : Len(AllCharacters(v)[k]) = Long(v, k)
         /\ \E C : Ends(C, AllCharacters(v))
  <1>1. Len(v.chunks) \in Nat
    BY VectorParts
  <1>2. PICK s : s = AllCharacters(v)
    OBVIOUS
  <1>3. s \in [1..Len(v.chunks) -> Seq(Cells)]
    BY <1>2, CharactersAre DEF AllCharacters
  <1>4. s \in Seq(Seq(Cells)) /\ Len(s) = Len(v.chunks)
    BY <1>1, <1>3, MadeOf
  <1>5. \A k \in 1..Len(v.chunks) : Len(s[k]) = Long(v, k)
    BY <1>2, CharactersAre DEF AllCharacters
  <1>6. \E C : Ends(C, s)
    BY <1>4, EndsThere
  <1> QED
    BY <1>2, <1>4, <1>5, <1>6

\* What is before the characters of a chunk, as `strings` counts it.
LEMMA CountedBefore ==
  ASSUME NEW v, IsVector(v), v.elem = "strings",
         NEW C, Ends(C, AllCharacters(v)), NEW k \in 1..Len(v.chunks)
  PROVE  Len(FlattenSeq([j \in 1..(k - 1) |-> CharactersOf(v, j)])) = C[k - 1]
  <1>1. Len(v.chunks) \in Nat /\ k \in Nat /\ k - 1 \in Nat
    BY VectorParts
  <1>2. PICK n \in Nat : n = k - 1 /\ n <= Len(v.chunks)
    BY <1>1
  <1>3. PICK t : t = [j \in 1..n |-> CharactersOf(v, j)]
    OBVIOUS
  <1>4. \A j \in 1..n : j \in 1..Len(v.chunks)
    BY <1>1, <1>2
  <1>5. t \in [1..n -> Seq(Cells)]
    BY <1>3, <1>4, CharactersAre
  <1>6. t \in Seq(Seq(Cells)) /\ Len(t) = n
    BY <1>5, MadeOf
  <1>7. \A j \in 1..n : t[j] = AllCharacters(v)[j]
    BY <1>3, <1>4 DEF AllCharacters
  <1>8. PICK D : D = [j \in 0..n |-> C[j]]
    OBVIOUS
  <1>9. /\ C \in [0..Len(v.chunks) -> Nat]
        /\ C[0] = 0
        /\ \A j \in 1..Len(v.chunks) :
             C[j] = C[j - 1] + Len(AllCharacters(v)[j])
    BY CharactersTogether DEF Ends, EndsUpTo
  <1>10. Ends(D, t)
    <2>1. D \in [0..n -> Nat] /\ D[0] = 0
      <3>1. \A j \in 0..n : j \in 0..Len(v.chunks)
        BY <1>1, <1>2
      <3>2. \A j \in 0..n : C[j] \in Nat
        BY <1>9, <3>1
      <3>3. 0 \in 0..n
        OBVIOUS
      <3> QED
        BY <1>8, <1>9, <3>2, <3>3
    <2>2. ASSUME NEW j \in 1..n
          PROVE  D[j] = D[j - 1] + Len(t[j])
      <3>1. j \in 0..n /\ j - 1 \in 0..n
        OBVIOUS
      <3>2. D[j] = C[j] /\ D[j - 1] = C[j - 1]
        BY <1>8, <3>1
      <3> QED
        BY <1>4, <1>7, <1>9, <3>2
    <2> QED
      BY <1>6, <2>1, <2>2 DEF Ends, EndsUpTo
  <1>11. IsJoined(FlattenSeq(t), Cells, t, D, Len(t))
    BY <1>6, <1>10, Flattened
  <1>12. Len(FlattenSeq(t)) = D[n]
    BY <1>6, <1>11 DEF IsJoined
  <1>13. D[n] = C[n]
    BY <1>8
  <1> QED
    BY <1>2, <1>3, <1>12, <1>13

\* Where the characters of each row end, counted from the first of all.
EndsOf(v, C, k) ==
  [j \in 1..v.chunks[k].rows |-> C[k - 1] + UpTo(v, k, j)]
AllEnds(v, C) == [k \in 1..Len(v.chunks) |-> EndsOf(v, C, k)]

\* Where the characters of each chunk end, in numbers.
LEMMA EndsAddUp ==
  ASSUME NEW v, IsVector(v), v.elem = "strings",
         NEW C, Ends(C, AllCharacters(v))
  PROVE  /\ \A k \in 0..Len(v.chunks) : C[k] \in Nat
         /\ C[0] = 0
         /\ \A k \in 1..Len(v.chunks) : C[k] = C[k - 1] + Long(v, k)
  BY CharactersTogether DEF Ends, EndsUpTo

\* They are put after one another, row by row.
LEMMA EndsPlaced ==
  ASSUME NEW v, IsVector(v), v.elem = "strings",
         NEW C, Ends(C, AllCharacters(v))
  PROVE  /\ FlattenSeq(AllEnds(v, C)) \in Seq(Nat)
         /\ Len(FlattenSeq(AllEnds(v, C))) = RowCount(v)
         /\ \A k \in 1..Len(v.chunks) : \A j \in 1..v.chunks[k].rows :
              FlattenSeq(AllEnds(v, C))[RowEnds(v)[k - 1] + j]
                = C[k - 1] + UpTo(v, k, j)
  <1>1. ASSUME NEW k \in 1..Len(v.chunks)
        PROVE  /\ EndsOf(v, C, k) \in Seq(Nat)
               /\ Len(EndsOf(v, C, k)) = v.chunks[k].rows
               /\ \A j \in 1..v.chunks[k].rows :
                    EndsOf(v, C, k)[j] = C[k - 1] + UpTo(v, k, j)
    <2>1. PICK rows \in Nat : rows = v.chunks[k].rows
      BY VectorParts
    <2>2. C[k - 1] \in Nat
      <3>1. k - 1 \in 0..Len(v.chunks)
        BY VectorParts
      <3> QED
        BY <3>1, EndsAddUp
    <2>3. \A j \in 1..rows : UpTo(v, k, j) \in Nat
      BY <2>1, UpToARow
    <2>4. \A j \in 1..rows : C[k - 1] + UpTo(v, k, j) \in Nat
      BY <2>2, <2>3
    <2>5. PICK f \in [1..rows -> Nat] : f = EndsOf(v, C, k)
      BY <2>1, <2>4 DEF EndsOf
    <2>6. f \in Seq(Nat) /\ Len(f) = rows
      BY MadeOf
    <2>7. \A j \in 1..rows : f[j] = C[k - 1] + UpTo(v, k, j)
      BY <2>1, <2>5 DEF EndsOf
    <2> QED
      BY <2>1, <2>5, <2>6, <2>7
  <1>2. PICK s : s = AllEnds(v, C)
    OBVIOUS
  <1>3. \A k \in 1..Len(v.chunks) : s[k] = EndsOf(v, C, k)
    BY <1>2 DEF AllEnds
  <1>4. s \in [1..Len(v.chunks) -> Seq(Nat)]
    BY <1>1, <1>2 DEF AllEnds
  <1>5. FillsChunks(s, v, Nat)
    BY <1>1, <1>3, <1>4 DEF FillsChunks
  <1>6. /\ FlattenSeq(s) \in Seq(Nat)
        /\ Len(FlattenSeq(s)) = RowCount(v)
        /\ \A k \in 1..Len(v.chunks) : \A j \in 1..v.chunks[k].rows :
             FlattenSeq(s)[RowEnds(v)[k - 1] + j] = s[k][j]
    <2>1. PICK T : T = Nat
      OBVIOUS
    <2>2. FillsChunks(s, v, T)
      BY <1>5, <2>1
    <2>3. /\ FlattenSeq(s) \in Seq(T)
          /\ Len(FlattenSeq(s)) = RowCount(v)
          /\ \A k \in 1..Len(v.chunks) : \A j \in 1..v.chunks[k].rows :
               FlattenSeq(s)[RowEnds(v)[k - 1] + j] = s[k][j]
      BY <2>2, ChunksJoined
    <2> QED
      BY <2>1, <2>3
  <1>7. ASSUME NEW k \in 1..Len(v.chunks), NEW j \in 1..v.chunks[k].rows
        PROVE  FlattenSeq(s)[RowEnds(v)[k - 1] + j] = C[k - 1] + UpTo(v, k, j)
    <2>1. FlattenSeq(s)[RowEnds(v)[k - 1] + j] = s[k][j]
      BY <1>6
    <2> QED
      BY <1>1, <1>3, <2>1
  <1> QED
    BY <1>2, <1>6, <1>7

\* What `strings` makes of several chunks.
LEMMA ConcatenatedIs ==
  ASSUME NEW v, IsVector(v), v.elem = "strings",
         NEW C, Ends(C, AllCharacters(v))
  PROVE  Concatenated(Pieces(v))
           = Narrow(Joined(AllCharacters(v)), 0,
                    <<0>> \o FlattenSeq(AllEnds(v, C)), {})
  <1>1. DOMAIN Pieces(v) = 1..Len(v.chunks)
    BY PieceParts
  <1>2. [k \in DOMAIN Pieces(v) |-> Characters(Pieces(v)[k])]
          = AllCharacters(v)
    BY <1>1 DEF AllCharacters, CharactersOf
  <1>3. ASSUME NEW k \in 1..Len(v.chunks)
        PROVE  [r \in 1..Pieces(v)[k].rows |->
                  Pieces(v)[k].offsets.cells[r + 1] - From(Pieces(v)[k])
                    + Len(FlattenSeq([j \in 1..(k - 1) |->
                                        Characters(Pieces(v)[j])]))]
                 = EndsOf(v, C, k)
    <2>1. PICK from \in Nat, rows \in Nat :
            from = v.chunks[k].from /\ rows = v.chunks[k].rows
      BY VectorParts
    <2>2. PICK p : p = Pieces(v)[k]
      OBVIOUS
    <2>3. /\ p.rows = rows
          /\ From(p) = Cuts[from + 1]
          /\ \A j \in 1..(rows + 1) : p.offsets.cells[j] = Cuts[from + j]
      <3>1. p.rows = rows
        BY <2>1, <2>2, PieceParts
      <3>2. From(Pieces(v)[k]) = Cuts[v.chunks[k].from + 1]
        BY PieceCuts
      <3>3. \A j \in 1..(v.chunks[k].rows + 1) :
              Pieces(v)[k].offsets.cells[j] = Cuts[v.chunks[k].from + j]
        BY PieceCuts
      <3> QED
        BY <2>1, <2>2, <3>1, <3>2, <3>3
    <2>4. PICK c \in Nat : c = C[k - 1]
      <3>1. k - 1 \in 0..Len(v.chunks)
        BY VectorParts
      <3> QED
        BY <3>1, EndsAddUp
    <2>5. Len(FlattenSeq([j \in 1..(k - 1) |-> Characters(Pieces(v)[j])])) = c
      BY <2>4, CountedBefore DEF CharactersOf
    <2>6. ASSUME NEW r \in 1..rows
          PROVE  p.offsets.cells[r + 1] - From(p) + c
                   = C[k - 1] + UpTo(v, k, r)
      <3>1. r + 1 \in 1..(rows + 1) /\ from + (r + 1) = from + r + 1
        OBVIOUS
      <3>2. p.offsets.cells[r + 1] = Cuts[from + r + 1]
        BY <2>3, <3>1
      <3>3. /\ Cuts[from + r + 1] \in Nat
            /\ Cuts[from + 1] \in Nat
        BY <2>1, CutsInOrder
      <3>4. UpTo(v, k, r) = Cuts[from + r + 1] - Cuts[from + 1]
        BY <2>1 DEF UpTo
      <3>5. Cuts[from + r + 1] - Cuts[from + 1] + c
              = c + (Cuts[from + r + 1] - Cuts[from + 1])
        BY <3>3
      <3> QED
        BY <2>3, <2>4, <3>2, <3>4, <3>5
    <2>7. [r \in 1..rows |-> p.offsets.cells[r + 1] - From(p) + c]
            = [r \in 1..rows |-> C[k - 1] + UpTo(v, k, r)]
      BY <2>6
    <2>8. EndsOf(v, C, k) = [r \in 1..rows |-> C[k - 1] + UpTo(v, k, r)]
      BY <2>1 DEF EndsOf
    <2> QED
      BY <2>2, <2>3, <2>5, <2>7, <2>8
  <1>4. [k \in DOMAIN Pieces(v) |->
           [r \in 1..Pieces(v)[k].rows |->
              Pieces(v)[k].offsets.cells[r + 1] - From(Pieces(v)[k])
                + Len(FlattenSeq([j \in 1..(k - 1) |->
                                    Characters(Pieces(v)[j])]))]]
          = AllEnds(v, C)
    BY <1>1, <1>3 DEF AllEnds
  <1> QED
    BY <1>2, <1>4 DEF Concatenated

\* The rows before the end of a chunk end where its characters do.
LEMMA ChunksEnd ==
  ASSUME NEW v, IsVector(v), v.elem = "strings",
         NEW C, Ends(C, AllCharacters(v)), NEW k \in 0..Len(v.chunks)
  PROVE  IF RowEnds(v)[k] = 0 THEN C[k] = 0
         ELSE FlattenSeq(AllEnds(v, C))[RowEnds(v)[k]] = C[k]
  <1>1. PICK F : F = FlattenSeq(AllEnds(v, C))
    OBVIOUS
  <1>2. PICK n \in Nat : n = Len(v.chunks)
    BY VectorParts
  <1>3. PICK L : L = RowEnds(v)
    OBVIOUS
  <1>4. /\ \A i \in 0..n : L[i] \in Nat
        /\ L[0] = 0
        /\ \A i \in 1..n : L[i] = L[i - 1] + v.chunks[i].rows
    BY <1>2, <1>3, RowsAddUp
  <1>5. /\ \A i \in 0..n : C[i] \in Nat
        /\ C[0] = 0
        /\ \A i \in 1..n : C[i] = C[i - 1] + Long(v, i)
    BY <1>2, EndsAddUp
  <1> DEFINE Right(i) == IF L[i] = 0 THEN C[i] = 0 ELSE F[L[i]] = C[i]
             S == {i \in Nat : i <= n => Right(i)}
  <1>6. 0 \in S
    BY <1>4, <1>5
  <1>7. ASSUME NEW i \in Nat, i \in S
        PROVE  i + 1 \in S
    <2>1. SUFFICES ASSUME i + 1 <= n PROVE Right(i + 1)
      OBVIOUS
    <2>2. PICK m \in 1..n : m = i + 1 /\ m - 1 = i
      BY <1>2, <2>1
    <2>3. Right(m - 1)
      BY <1>2, <1>7, <2>1, <2>2
    <2>4. PICK rows \in Nat : rows = v.chunks[m].rows
      BY <1>2, VectorParts
    <2>5. m \in 0..n /\ m - 1 \in 0..n
      BY <1>2
    <2>6. /\ L[m] = L[m - 1] + rows /\ L[m - 1] \in Nat
          /\ C[m] = C[m - 1] + Long(v, m) /\ C[m - 1] \in Nat
      BY <1>4, <1>5, <2>4, <2>5
    <2>7. CASE rows = 0
      <3>1. Long(v, m) = 0
        <4>1. PICK from \in Nat : from = v.chunks[m].from
          BY <1>2, VectorParts
        <4>2. Long(v, m) = Cuts[from + 1] - Cuts[from + 1]
          <5>1. from + 0 + 1 = from + 1
            OBVIOUS
          <5> QED
            BY <2>4, <2>7, <4>1, <5>1 DEF Long
        <4>3. Cuts[from + 1] \in Nat
          <5>1. PICK base \in Nat : base = Base
            BY FrameAssumption
          <5>2. v.chunks[m].from + v.chunks[m].rows <= Base
            BY <1>2, VectorParts
          <5>3. from + 1 \in 1..(base + 1)
            <6>1. from + rows <= base
              BY <2>4, <4>1, <5>1, <5>2
            <6> QED
              BY <6>1
          <5> QED
            BY <5>1, <5>3, FrameAssumption
        <4> QED
          BY <4>2, <4>3
      <3>2. L[m] = L[m - 1] /\ C[m] = C[m - 1]
        BY <2>6, <2>7, <3>1
      <3> QED
        BY <2>2, <2>3, <3>2
    <2>8. CASE rows # 0
      <3>1. rows \in 1..rows
        BY <2>8
      <3>2. F[L[m - 1] + rows] = C[m - 1] + UpTo(v, m, rows)
        BY <1>1, <1>2, <1>3, <2>4, <3>1, EndsPlaced
      <3>3. UpTo(v, m, rows) = Long(v, m)
        BY <1>2, <2>4, <3>1, UpToARow
      <3>4. F[L[m]] = C[m] /\ L[m] # 0
        BY <2>6, <2>8, <3>2, <3>3
      <3> QED
        BY <2>2, <3>4
    <2> QED
      BY <2>7, <2>8
  <1>8. Nat \subseteq S
    <2> HIDE DEF S
    <2> QED
      BY <1>6, <1>7, Induction
  <1>9. k \in Nat /\ k <= n
    BY <1>2
  <1>10. Right(k)
    BY <1>8, <1>9
  <1> QED
    BY <1>1, <1>3, <1>10

\* A sequence after its first.
LEMMA AfterFirst ==
  ASSUME NEW F \in Seq(Nat)
  PROVE  /\ (<<0>> \o F)[1] = 0
         /\ \A r \in 1..Len(F) : (<<0>> \o F)[r + 1] = F[r]
  OBVIOUS

\* Put together, every row is cut where its characters are.
LEMMA ConcatenatedReads ==
  ASSUME NEW v, IsVector(v), v.elem = "strings",
         Concatenated(Pieces(v)).why = "none"
  PROVE  Reads(v, Concatenated(Pieces(v)).layout)
  <1>1. PICK C : Ends(C, AllCharacters(v))
    BY CharactersTogether
  <1>2. PICK F : F = FlattenSeq(AllEnds(v, C))
    OBVIOUS
  <1>3. F \in Seq(Nat) /\ Len(F) = RowCount(v)
    BY <1>1, <1>2, EndsPlaced
  <1>4. PICK data : data = FlattenSeq(AllCharacters(v))
    OBVIOUS
  <1>5. IsJoined(data, Cells, AllCharacters(v), C, Len(AllCharacters(v)))
    BY <1>1, <1>4, CharactersTogether, Flattened
  <1>6. /\ data \in Seq(Cells)
        /\ Len(data) = C[Len(v.chunks)]
        /\ \A k \in 1..Len(v.chunks) : C[k] <= Len(data)
        /\ \A k \in 1..Len(v.chunks) : \A x \in 1..Long(v, k) :
             data[C[k - 1] + x] = AllCharacters(v)[k][x]
    BY <1>5, CharactersTogether DEF IsJoined
  <1>7. PICK l : l = Concatenated(Pieces(v)).layout
    OBVIOUS
  <1>8. /\ l.data.cells = data
        /\ l.at = 0
        /\ l.offsets.cells = <<0>> \o F
        /\ l.wide = l.offsets.wide
    <2>1. Concatenated(Pieces(v))
            = Narrow(Joined(AllCharacters(v)), 0, <<0>> \o F, {})
      BY <1>1, <1>2, ConcatenatedIs
    <2>2. ~(\E i \in DOMAIN (<<0>> \o F) : (<<0>> \o F)[i] > Reach)
      <3>1. Refusal("reach").why # "none"
        BY DEF Refusal
      <3> QED
        BY <2>1, <3>1 DEF Narrow
    <2>3. l = Layout(Joined(AllCharacters(v)), 0,
                     Offsets(Own, FALSE, <<0>> \o F), FALSE)
      <3>1. Concatenated(Pieces(v))
              = Described(Layout(Joined(AllCharacters(v)), 0,
                                 Offsets(Own, FALSE, <<0>> \o F), FALSE), {})
        BY <2>1, <2>2 DEF Narrow
      <3> QED
        BY <1>7, <3>1 DEF Described
    <2> QED
      BY <1>4, <2>3 DEF Layout, Joined, Buffer, Offsets
  <1>9. ASSUME NEW k \in 1..Len(v.chunks), NEW j \in 1..v.chunks[k].rows
        PROVE  \E b, m : CutRight(v, l, k, j, b, m)
    <2>1. PICK from \in Nat, rows \in Nat :
            from = v.chunks[k].from /\ rows = v.chunks[k].rows
      BY VectorParts
    <2>2. PICK first \in Nat, here \in Nat, next \in Nat, last \in Nat :
            /\ first = Cuts[from + 1]
            /\ here = Cuts[from + j]
            /\ next = Cuts[from + j + 1]
            /\ last = Cuts[from + rows + 1]
            /\ first <= here
            /\ here <= next
            /\ next <= last
      <3>1. /\ Cuts[from + 1] \in Nat
            /\ Cuts[from + j] \in Nat
            /\ Cuts[from + j + 1] \in Nat
            /\ Cuts[from + rows + 1] \in Nat
            /\ Cuts[from + 1] <= Cuts[from + j]
            /\ Cuts[from + j] <= Cuts[from + j + 1]
            /\ Cuts[from + j + 1] <= Cuts[from + rows + 1]
        BY <2>1, CutsInOrder
      <3> QED
        BY <3>1
    <2>3. PICK p \in Nat, q \in Nat :
            /\ p = C[k - 1]
            /\ q = C[k]
            /\ q = p + (last - first)
            /\ q <= Len(data)
      <3>1. k \in 0..Len(v.chunks) /\ k - 1 \in 0..Len(v.chunks)
        BY VectorParts
      <3>2. Long(v, k) = last - first
        BY <2>1, <2>2 DEF Long
      <3>3. C[k - 1] \in Nat /\ C[k] \in Nat /\ C[k] = C[k - 1] + Long(v, k)
        BY <1>1, <3>1, EndsAddUp
      <3> QED
        BY <1>6, <3>2, <3>3
    <2>4. PICK b \in Nat, m \in Nat :
            b = p + (here - first) /\ m = next - here
      <3>1. first <= here /\ here <= next
        BY <2>2
      <3>2. p + (here - first) \in Nat /\ next - here \in Nat
        BY <3>1
      <3> QED
        BY <3>2
    <2>5. PICK before \in Nat : before = RowEnds(v)[k - 1]
      <3>1. k - 1 \in 0..Len(v.chunks)
        BY VectorParts
      <3> QED
        BY <3>1, RowsAddUp
    <2>6. before + rows <= Len(F)
      <3>1. k \in 0..Len(v.chunks)
        BY VectorParts
      <3>2. RowEnds(v)[k] <= RowCount(v)
        BY <3>1, RowsWithin
      <3> QED
        BY <1>3, <2>1, <2>5, <3>2, RowsAddUp
    <2>7. l.offsets.cells[(before + j) + 1] = b + m
      <3>1. before + j \in 1..Len(F)
        BY <1>3, <2>1, <2>6
      <3>2. (<<0>> \o F)[(before + j) + 1] = F[before + j]
        BY <1>3, <3>1, AfterFirst
      <3>3. F[before + j] = C[k - 1] + UpTo(v, k, j)
        BY <1>1, <1>2, <2>5, EndsPlaced
      <3>4. UpTo(v, k, j) = next - first
        BY <2>1, <2>2 DEF UpTo
      <3>5. l.offsets.cells[(before + j) + 1] = p + (next - first)
        BY <1>8, <2>3, <3>2, <3>3, <3>4
      <3>6. p + (next - first) = b + m
        <4>1. b = p + (here - first) /\ m = next - here
          BY <2>4
        <4> QED
          BY <4>1
      <3> QED
        BY <3>5, <3>6
    <2>8. l.offsets.cells[before + j] = b
      <3>1. CASE j = 1
        <4>1. b = p
          BY <2>2, <2>4, <3>1
        <4>2. k - 1 \in 0..Len(v.chunks)
          BY VectorParts
        <4>3. IF before = 0 THEN p = 0 ELSE F[before] = p
          BY <1>1, <1>2, <2>3, <2>5, <4>2, ChunksEnd
        <4>4. CASE before = 0
          BY <1>3, <1>8, <3>1, <4>1, <4>3, <4>4, AfterFirst
        <4>5. CASE before # 0
          <5>1. before \in 1..Len(F)
            BY <1>3, <2>6, <4>5
          <5>2. (<<0>> \o F)[before + 1] = F[before]
            BY <1>3, <5>1, AfterFirst
          <5> QED
            BY <1>8, <3>1, <4>1, <4>3, <4>5, <5>2
        <4> QED
          BY <4>4, <4>5
      <3>2. CASE j # 1
        <4>1. j - 1 \in 1..rows /\ before + (j - 1) \in 1..Len(F)
              /\ (before + (j - 1)) + 1 = before + j
          <5>1. j \in 1..rows
            BY <2>1
          <5>2. PICK len \in Nat : len = Len(F) /\ before + rows <= len
            BY <1>3, <2>6
          <5>3. before + rows <= len
            BY <5>2
          <5>4. j - 1 \in 1..rows /\ before + (j - 1) \in 1..len
                /\ (before + (j - 1)) + 1 = before + j
            BY <3>2, <5>1, <5>3
          <5> QED
            BY <5>2, <5>4
        <4>2. (<<0>> \o F)[(before + (j - 1)) + 1] = F[before + (j - 1)]
          BY <1>3, <4>1, AfterFirst
        <4>3. F[before + (j - 1)] = C[k - 1] + UpTo(v, k, j - 1)
          BY <1>1, <1>2, <2>1, <2>5, <4>1, EndsPlaced
        <4>4. UpTo(v, k, j - 1) = here - first
          BY <2>1, <2>2, <4>1, UpToARow
        <4> QED
          BY <1>8, <2>3, <2>4, <4>1, <4>2, <4>3, <4>4
      <3> QED
        BY <3>1, <3>2
    <2>9. Follow(data, b, m, k, here)
      <3>1. b + m <= Len(data)
        <4>1. /\ b = p + (here - first) /\ m = next - here
              /\ next <= last /\ q = p + (last - first)
          BY <2>2, <2>3, <2>4
        <4>2. b + m <= q
          BY <4>1
        <4>3. PICK len \in Nat : len = Len(data)
          BY <1>6
        <4>4. q <= len
          BY <2>3, <4>3
        <4>5. b + m <= len
          BY <4>2, <4>4
        <4> QED
          BY <4>3, <4>5
      <3>2. ASSUME NEW i \in 1..m
            PROVE  data[b + i] = <<k, here + i>>
        <4>1. PICK x \in Nat :
                /\ x = (here - first) + i
                /\ x \in 1..(last - first)
                /\ p + x = b + i
                /\ first + x = here + i
          <5>1. /\ first <= here /\ here <= next /\ next <= last
                /\ b = p + (here - first) /\ m = next - here
            BY <2>2, <2>4
          <5>2. /\ (here - first) + i \in Nat
                /\ (here - first) + i \in 1..(last - first)
                /\ p + ((here - first) + i) = b + i
                /\ first + ((here - first) + i) = here + i
            BY <5>1
          <5> QED
            BY <5>2
        <4>2. Long(v, k) = last - first
          BY <2>1, <2>2 DEF Long
        <4>3. data[p + x] = AllCharacters(v)[k][x]
          BY <1>6, <2>3, <4>1, <4>2
        <4>4. AllCharacters(v)[k] = Run(k, first, last - first)
          BY <2>1, <2>2, <4>2, CharactersAre DEF AllCharacters
        <4>5. Run(k, first, last - first)[x] = <<k, first + x>>
          BY <4>1 DEF Run
        <4> QED
          BY <4>1, <4>3, <4>4, <4>5
      <3> QED
        BY <3>1, <3>2 DEF Follow
    <2>10. l.at + l.offsets.cells[before + j] = b
           /\ l.at + l.offsets.cells[(before + j) + 1] = b + m
      <3>1. l.at = 0 /\ 0 + b = b /\ 0 + (b + m) = b + m
        BY <1>8
      <3> QED
        BY <2>7, <2>8, <3>1
    <2>11. CutRight(v, l, k, j, b, m)
      <3>1. Follow(l.data.cells, b, m, k, Cuts[from + j])
        BY <1>8, <2>2, <2>9
      <3>2. m = Cuts[from + j + 1] - Cuts[from + j]
        BY <2>2, <2>4
      <3> QED
        BY <2>1, <2>5, <2>10, <3>1, <3>2 DEF CutRight
    <2> QED
      BY <2>11
  <1>10. Reads(v, l)
    BY <1>6, <1>8, <1>9, ReadByCuts
  <1> QED
    BY <1>7, <1>10

-----------------------------------------------------------------------------
(***************************************************************************)
(* What each kind of column is described as.                               *)
(***************************************************************************)

\* A column that is one run of bytes of the caller's, in a form that is lent.
InOneRun(v) ==
  /\ v.shape # "plain"
  /\ Len(v.chunks) = 1
  /\ v.elem = "bits" => v.chunks[1].from % Byte = 0

\* Whatever it points at is held.
Holds(d) == {d.layout.data.of, d.layout.offsets.of} \ {Own} \subseteq d.held

\* What a description has to be.
Faithful(v, d) ==
  d.why = "none" =>
    /\ Holds(d)
    /\ RowCount(v) # 0 => /\ Reads(v, d.layout)
                          /\ Lent(d.layout.data) <=> InOneRun(v)

\* A description made of this module's own buffers.
LEMMA OwnHolds ==
  ASSUME NEW d, d.layout.data.of = Own, d.layout.offsets.of = Own
  PROVE  Holds(d) /\ ~Lent(d.layout.data)
  BY DEF Holds, Lent

\* Words, bits and strings put together are.
LEMMA CopiesAreOwn ==
  ASSUME NEW ps
  PROVE  /\ WordsCopied(ps).layout.data.of = Own
         /\ WordsCopied(ps).layout.offsets.of = Own
         /\ BitsRebuilt(ps).layout.data.of = Own
         /\ BitsRebuilt(ps).layout.offsets.of = Own
         /\ Concatenated(ps).layout.data.of = Own
         /\ Concatenated(ps).layout.offsets.of = Own
  <1>1. \A parts : Joined(parts).of = Own
    BY DEF Joined, Buffer
  <1>2. NoOffsets.of = Own /\ NoLayout.data.of = Own
        /\ NoLayout.offsets.of = Own
    BY DEF NoOffsets, Offsets, NoLayout, Layout, Buffer
  <1>3. \A parts : LET d == Plain(Joined(parts), {})
                   IN  d.layout.data.of = Own /\ d.layout.offsets.of = Own
    BY <1>1, <1>2 DEF Plain, Described, Layout
  <1>4. \A parts, cells :
          LET d == Narrow(Joined(parts), 0, cells, {})
          IN  d.layout.data.of = Own /\ d.layout.offsets.of = Own
    <2>1. Refusal("reach").layout.data.of = Own
          /\ Refusal("reach").layout.offsets.of = Own
      BY <1>2 DEF Refusal
    <2>2. \A parts, cells :
            LET d == Described(Layout(Joined(parts), 0,
                                      Offsets(Own, FALSE, cells), FALSE), {})
            IN  d.layout.data.of = Own /\ d.layout.offsets.of = Own
      BY <1>1 DEF Described, Layout, Offsets
    <2> QED
      BY <2>1, <2>2 DEF Narrow
  <1>5. WordsCopied(ps).layout.data.of = Own
        /\ WordsCopied(ps).layout.offsets.of = Own
    BY <1>3 DEF WordsCopied
  <1>6. BitsRebuilt(ps).layout.data.of = Own
        /\ BitsRebuilt(ps).layout.offsets.of = Own
    BY <1>3 DEF BitsRebuilt
  <1>7. Concatenated(ps).layout.data.of = Own
        /\ Concatenated(ps).layout.offsets.of = Own
    BY <1>4 DEF Concatenated
  <1> QED
    BY <1>5, <1>6, <1>7

\* The values of the caller's are not this module's own.
LEMMA NotOwn == <<1, "values">> # Own /\ <<1, "offsets">> # Own
  BY DEF Own

\* A column of no rows points at nothing.
LEMMA EmptyIsFaithful ==
  ASSUME NEW v, RowCount(v) = 0
  PROVE  Faithful(v, Described(NoLayout, {}))
  <1>1. Described(NoLayout, {}).layout = NoLayout
    BY DEF Described
  <1>2. NoLayout.data.of = Own /\ NoLayout.offsets.of = Own
    BY DEF NoOffsets, Offsets, NoLayout, Layout, Buffer
  <1> QED
    BY <1>1, <1>2, OwnHolds DEF Faithful

\* A column that could not be described.
LEMMA RefusalIsFaithful ==
  ASSUME NEW v, NEW why, why # "none"
  PROVE  Faithful(v, Refusal(why))
  BY DEF Faithful, Refusal

\* A table's column of words, lent or copied.
LEMMA WordsAreFaithful ==
  ASSUME NEW v, IsVector(v), v.elem = "words", v.shape # "plain"
  PROVE  Faithful(v, Words(Pieces(v)))
  <1>1. PICK d : d = Words(Pieces(v))
    OBVIOUS
  <1>2. Len(Pieces(v)) = Len(v.chunks)
    BY PieceParts
  <1>3. CASE Len(v.chunks) = 1
    <2>1. d = Plain(Pieces(v)[1].values, {Pieces(v)[1].values.of})
      BY <1>1, <1>2, <1>3 DEF Words
    <2>2. /\ d.layout = Layout(Pieces(v)[1].values, 0, NoOffsets, FALSE)
          /\ d.held = {Pieces(v)[1].values.of}
      BY <2>1 DEF Plain, Described
    <2>3. d.layout.data = Pieces(v)[1].values /\ d.layout.offsets.of = Own
      BY <2>2 DEF Layout, NoOffsets, Offsets
    <2>4. Reads(v, d.layout)
      BY <1>3, <2>2, WordsLentReads
    <2>5. d.layout.data.of = <<1, "values">>
      <3>1. 1 \in 1..Len(v.chunks)
        BY <1>3
      <3> QED
        BY <2>3, <3>1, PieceCells
    <2>6. Holds(d)
      BY <2>2, <2>3 DEF Holds
    <2>7. Lent(d.layout.data) /\ InOneRun(v)
      <3>1. v.elem # "bits"
        OBVIOUS
      <3> QED
        BY <1>3, <2>5, <3>1, NotOwn DEF Lent, InOneRun
    <2> QED
      BY <1>1, <2>4, <2>6, <2>7 DEF Faithful
  <1>4. CASE Len(v.chunks) # 1
    <2>1. d = WordsCopied(Pieces(v))
      BY <1>1, <1>2, <1>4 DEF Words
    <2>2. Reads(v, d.layout)
      BY <2>1, WordsCopiedReads
    <2>3. Holds(d) /\ ~Lent(d.layout.data)
      BY <2>1, CopiesAreOwn, OwnHolds
    <2>4. ~InOneRun(v)
      BY <1>4 DEF InOneRun
    <2> QED
      BY <1>1, <2>2, <2>3, <2>4 DEF Faithful
  <1> QED
    BY <1>3, <1>4

\* A table's column of bits, lent from where its first bit is, or copied.
LEMMA BitsAreFaithful ==
  ASSUME NEW v, IsVector(v), v.elem = "bits", v.shape # "plain"
  PROVE  Faithful(v, Bits(Pieces(v)))
  <1>1. PICK d : d = Bits(Pieces(v))
    OBVIOUS
  <1>2. Len(Pieces(v)) = Len(v.chunks)
    BY PieceParts
  <1>3. Len(v.chunks) = 1 => Pieces(v)[1].at = v.chunks[1].from
    BY PieceParts
  <1>4. CASE Len(v.chunks) = 1 /\ v.chunks[1].from % Byte = 0
    <2>1. d = BitsLent(Pieces(v)[1])
      BY <1>1, <1>2, <1>3, <1>4 DEF Bits
    <2>2. /\ d.layout.data = Pieces(v)[1].values
          /\ d.layout.offsets.of = Own
          /\ d.held = {Pieces(v)[1].values.of}
      BY <2>1 DEF BitsLent, Described, Layout, NoOffsets, Offsets
    <2>3. Reads(v, d.layout)
      BY <1>4, <2>1, BitsLentReads
    <2>4. d.layout.data.of = <<1, "values">>
      <3>1. 1 \in 1..Len(v.chunks)
        BY <1>4
      <3> QED
        BY <2>2, <3>1, PieceCells
    <2>5. Holds(d)
      BY <2>2 DEF Holds
    <2>6. Lent(d.layout.data) /\ InOneRun(v)
      BY <1>4, <2>4, NotOwn DEF Lent, InOneRun
    <2> QED
      BY <1>1, <2>3, <2>5, <2>6 DEF Faithful
  <1>5. CASE ~(Len(v.chunks) = 1 /\ v.chunks[1].from % Byte = 0)
    <2>1. d = BitsRebuilt(Pieces(v))
      BY <1>1, <1>2, <1>3, <1>5 DEF Bits
    <2>2. Reads(v, d.layout)
      BY <2>1, BitsRebuiltReads
    <2>3. Holds(d) /\ ~Lent(d.layout.data)
      BY <2>1, CopiesAreOwn, OwnHolds
    <2>4. ~InOneRun(v)
      BY <1>5 DEF InOneRun
    <2> QED
      BY <1>1, <2>2, <2>3, <2>4 DEF Faithful
  <1> QED
    BY <1>4, <1>5

\* A table's column of strings, which has offsets of its own.
LEMMA StringsAreFaithful ==
  ASSUME NEW v, IsVector(v), v.elem = "strings", v.shape # "plain",
         RowCount(v) # 0
  PROVE  Faithful(v, Strings(v, Pieces(v)))
  <1>1. PICK d : d = Strings(v, Pieces(v))
    OBVIOUS
  <1> SUFFICES ASSUME d.why = "none"
               PROVE  /\ Holds(d)
                      /\ Reads(v, d.layout)
                      /\ Lent(d.layout.data) <=> InOneRun(v)
    BY <1>1 DEF Faithful
  <1>2. Len(Pieces(v)) = Len(v.chunks)
    BY PieceParts
  <1>3. CASE Len(v.chunks) # 1
    <2>5. Len(v.chunks) > 1
      <3>1. Len(v.chunks) # 0 /\ Len(v.chunks) \in Nat
        BY RowsAddUp, VectorParts
      <3>2. PICK n \in Nat : n = Len(v.chunks)
        BY <3>1
      <3>3. n # 0 /\ n # 1
        BY <1>3, <3>1, <3>2
      <3>4. n > 1
        BY <3>3
      <3> QED
        BY <3>2, <3>4
    <2>1. d = Concatenated(Pieces(v))
      BY <1>1, <1>2, <2>5 DEF Strings
    <2>2. Reads(v, d.layout)
      BY <2>1, ConcatenatedReads
    <2>3. Holds(d) /\ ~Lent(d.layout.data)
      BY <2>1, CopiesAreOwn, OwnHolds
    <2>4. ~InOneRun(v)
      BY <1>3 DEF InOneRun
    <2> QED
      BY <2>2, <2>3, <2>4
  <1>4. CASE Len(v.chunks) = 1
    <2>1. PICK p : p = Pieces(v)[1]
      OBVIOUS
    <2>2. 1 \in 1..Len(v.chunks) /\ InOneRun(v)
      <3>1. v.elem # "bits"
        OBVIOUS
      <3> QED
        BY <1>4, <3>1 DEF InOneRun
    <2>3. p.values.of = <<1, "values">> /\ Lent(p.values)
      BY <2>1, <2>2, PieceCells, NotOwn DEF Lent
    <2>4. CASE From(p) = 0
      <3>1. d = StringsLent(v, p)
        BY <1>1, <1>2, <1>4, <2>1, <2>4 DEF Strings
      <3>2. Reads(v, d.layout)
        BY <1>4, <2>1, <3>1, StringsLentReads
      <3>3. /\ d.layout.data = p.values
            /\ d.layout.offsets = p.offsets
            /\ d.held = {p.values.of, p.offsets.of}
        BY <3>1 DEF StringsLent, Described, Layout
      <3> QED
        BY <2>2, <2>3, <3>2, <3>3 DEF Holds
    <2>5. CASE From(p) # 0
      <3>1. d = Rebased(p)
        BY <1>1, <1>2, <1>4, <2>1, <2>5 DEF Strings
      <3>2. Reads(v, d.layout)
        BY <1>4, <2>1, <3>1, RebasedReads
      <3>3. PICK f : d = Narrow(p.values, From(p), f, {p.values.of})
        BY <3>1 DEF Rebased
      <3>4. d = Described(Layout(p.values, From(p), Offsets(Own, FALSE, f),
                                 FALSE), {p.values.of})
        <4>1. Refusal("reach").why # "none"
          BY DEF Refusal
        <4> QED
          BY <3>3, <4>1 DEF Narrow
      <3>5. /\ d.layout.data = p.values
            /\ d.layout.offsets.of = Own
            /\ d.held = {p.values.of}
        BY <3>4 DEF Described, Layout, Offsets
      <3> QED
        BY <2>2, <2>3, <3>2, <3>5 DEF Holds
    <2> QED
      BY <2>4, <2>5
  <1> QED
    BY <1>3, <1>4

\* A plain array is copied.
LEMMA PackedIsFaithful ==
  ASSUME NEW v, IsVector(v), v.shape = "plain", HasMeaning(v)
  PROVE  Faithful(v, Packed(v))
  <1>1. CASE RowCount(v) = 0
    <2>1. Packed(v) = Refusal("empty")
      BY <1>1 DEF Packed
    <2> QED
      BY <2>1, RefusalIsFaithful
  <1>2. CASE RowCount(v) # 0
    <2>1. ~InOneRun(v)
      BY DEF InOneRun
    <2>2. CASE v.elem = "words"
      <3>1. Packed(v) = WordsCopied(Pieces(v))
        BY <1>2, <2>2 DEF Packed
      <3> QED
        BY <2>1, <2>2, <3>1, CopiesAreOwn, OwnHolds, WordsCopiedReads
        DEF Faithful
    <2>3. CASE v.elem = "bits"
      <3>1. Packed(v) = BitsRebuilt(Pieces(v))
        BY <1>2, <2>3 DEF Packed
      <3> QED
        BY <2>1, <2>3, <3>1, CopiesAreOwn, OwnHolds, BitsRebuiltReads
        DEF Faithful
    <2>4. CASE v.elem = "strings"
      <3>1. Packed(v) = Concatenated(Pieces(v))
        BY <1>2, <2>4 DEF Packed
      <3> QED
        BY <2>1, <2>4, <3>1, CopiesAreOwn, OwnHolds, ConcatenatedReads
        DEF Faithful
    <2> QED
      BY <2>2, <2>3, <2>4 DEF HasMeaning
  <1> QED
    BY <1>1, <1>2

\* A vector's is lent where it can be.
LEMMA LaidIsFaithful ==
  ASSUME NEW v, IsVector(v), v.shape # "plain", HasMeaning(v)
  PROVE  Faithful(v, Laid(v))
  <1>1. CASE RowCount(v) = 0
    <2>1. Laid(v) = Described(NoLayout, {})
      BY <1>1 DEF Laid
    <2> QED
      BY <1>1, <2>1, EmptyIsFaithful
  <1>2. CASE RowCount(v) # 0
    <2>1. CASE v.elem = "words"
      <3>1. Laid(v) = Words(Pieces(v))
        BY <1>2, <2>1 DEF Laid
      <3> QED
        BY <2>1, <3>1, WordsAreFaithful
    <2>2. CASE v.elem = "bits"
      <3>1. Laid(v) = Bits(Pieces(v))
        BY <1>2, <2>2 DEF Laid
      <3> QED
        BY <2>2, <3>1, BitsAreFaithful
    <2>3. CASE v.elem = "strings"
      <3>1. Laid(v) = Strings(v, Pieces(v))
        BY <1>2, <2>3 DEF Laid
      <3> QED
        BY <1>2, <2>3, <3>1, StringsAreFaithful
    <2> QED
      BY <2>1, <2>2, <2>3 DEF HasMeaning
  <1> QED
    BY <1>1, <1>2

\* What `read` describes gives the caller's rows back, lends what is one run
\* of bytes and nothing else, and holds what it points at.
THEOREM DescriptionsAreFaithful ==
  ASSUME NEW v, IsVector(v)
  PROVE  Faithful(v, Describe(v))
  <1>1. Faithful(v, ColumnOf(v)) \/ ~HasMeaning(v)
    BY LaidIsFaithful, PackedIsFaithful DEF ColumnOf
  <1>2. \A why \in {"type", "hole", "ragged"} : Faithful(v, Refusal(why))
    BY RefusalIsFaithful
  <1> QED
    BY <1>1, <1>2 DEF Describe

-----------------------------------------------------------------------------
(***************************************************************************)
(* Holes, and the first of them.                                           *)
(***************************************************************************)

\* The rows of a column that hold nothing, by their own count.
EmptyRowsOf(v) ==
  {r \in 1..RowCount(v) :
     \E k \in DOMAIN v.chunks : \E i \in v.chunks[k].empty :
       /\ i > v.chunks[k].from
       /\ r = RowsBefore(v, k) + i - v.chunks[k].from
       /\ r <= RowsBefore(v, k) + v.chunks[k].rows}

\* Row `r` is empty when it is a hole of a chunk.
LEMMA EmptyIsHole ==
  ASSUME NEW v, IsVector(v)
  PROVE  /\ \A r \in EmptyRowsOf(v) :
              \E k \in 1..Len(v.chunks) : \E j \in Hole(v.chunks[k]) :
                r = RowEnds(v)[k - 1] + j
         /\ \A k \in 1..Len(v.chunks) : \A j \in Hole(v.chunks[k]) :
              RowEnds(v)[k - 1] + j \in EmptyRowsOf(v)
  <1>1. DOMAIN v.chunks = 1..Len(v.chunks)
    BY VectorParts
  <1>2. ASSUME NEW r \in EmptyRowsOf(v)
        PROVE  \E k \in 1..Len(v.chunks) : \E j \in Hole(v.chunks[k]) :
                 r = RowEnds(v)[k - 1] + j
    <2> DEFINE At(k, i) == /\ i > v.chunks[k].from
                           /\ r = RowsBefore(v, k) + i - v.chunks[k].from
                           /\ r <= RowsBefore(v, k) + v.chunks[k].rows
    <2>0. PICK k \in 1..Len(v.chunks) : \E i \in v.chunks[k].empty : At(k, i)
      BY <1>1 DEF EmptyRowsOf
    <2>1. PICK i \in v.chunks[k].empty : At(k, i)
      BY <2>0
    <2>2. PICK from \in Nat, rows \in Nat, before \in Nat :
            /\ from = v.chunks[k].from
            /\ rows = v.chunks[k].rows
            /\ before = RowsBefore(v, k)
            /\ before = RowEnds(v)[k - 1]
      <3>1. k - 1 \in 0..Len(v.chunks)
        BY VectorParts
      <3> QED
        BY <3>1, RowsAddUp, VectorParts
    <2>3. i \in Nat
      BY <2>1, FrameAssumption, VectorParts
    <2>4. i > from /\ before + i - from <= before + rows
      BY <2>1, <2>2
    <2>5. i - from \in 1..rows /\ from + (i - from) = i
          /\ before + i - from = before + (i - from)
      BY <2>3, <2>4
    <2>6. i - from \in Hole(v.chunks[k])
      BY <2>1, <2>2, <2>5 DEF Hole
    <2> QED
      BY <2>1, <2>2, <2>5, <2>6
  <1>3. ASSUME NEW k \in 1..Len(v.chunks), NEW j \in Hole(v.chunks[k])
        PROVE  RowEnds(v)[k - 1] + j \in EmptyRowsOf(v)
    <2>1. k \in 0..Len(v.chunks) /\ k - 1 \in 0..Len(v.chunks)
      BY VectorParts
    <2>2. PICK from \in Nat, rows \in Nat, before \in Nat, all \in Nat :
            /\ from = v.chunks[k].from
            /\ rows = v.chunks[k].rows
            /\ before = RowsBefore(v, k)
            /\ before = RowEnds(v)[k - 1]
            /\ all = RowCount(v)
      <3>1. RowCount(v) \in Nat
        <4>1. Len(v.chunks) \in 0..Len(v.chunks)
          BY VectorParts
        <4> QED
          BY <4>1, RowsAddUp
      <3>2. v.chunks[k].from \in Nat /\ v.chunks[k].rows \in Nat
        BY VectorParts
      <3>3. RowEnds(v)[k - 1] \in Nat /\ RowsBefore(v, k) = RowEnds(v)[k - 1]
        BY <2>1, RowsAddUp
      <3> QED
        BY <3>1, <3>2, <3>3
    <2>3. before + rows <= all
      BY <2>1, <2>2, RowsAddUp, RowsWithin
    <2>4. j \in 1..rows /\ from + j \in v.chunks[k].empty
      BY <2>2 DEF Hole
    <2>5. /\ from + j > from
          /\ before + j = before + (from + j) - from
          /\ before + j <= before + rows
          /\ before + j \in 1..all
      BY <2>3, <2>4
    <2> QED
      BY <1>1, <2>2, <2>4, <2>5 DEF EmptyRowsOf
  <1> QED
    BY <1>2, <1>3

\* A column with an empty row has a hole, and one with a hole an empty row.
LEMMA HolesAreEmptyRows ==
  ASSUME NEW v, IsVector(v)
  PROVE  HasHole(v) <=> EmptyRowsOf(v) # {}
  <1>1. DOMAIN v.chunks = 1..Len(v.chunks)
    BY VectorParts
  <1>2. ASSUME EmptyRowsOf(v) # {}
        PROVE  HasHole(v)
    <2>1. PICK k \in 1..Len(v.chunks) : Hole(v.chunks[k]) # {}
      BY <1>2, EmptyIsHole
    <2>2. PICK j \in 1..v.chunks[k].rows :
            v.chunks[k].from + j \in v.chunks[k].empty
      BY <2>1 DEF Hole
    <2>3. PICK from \in Nat, rows \in Nat :
            from = v.chunks[k].from /\ rows = v.chunks[k].rows
      BY VectorParts
    <2>4. from < from + j /\ from + j <= from + rows
      <3>1. j \in 1..rows
        BY <2>3
      <3> QED
        BY <3>1
    <2>5. NullCount(v)
      BY <1>1, <2>2, <2>3, <2>4 DEF NullCount
    <2> QED
      BY <1>1, <2>1, <2>5 DEF HasHole
  <1>3. ASSUME HasHole(v)
        PROVE  EmptyRowsOf(v) # {}
    <2>1. PICK k \in 1..Len(v.chunks) : Hole(v.chunks[k]) # {}
      BY <1>1, <1>3 DEF HasHole
    <2> QED
      BY <2>1, EmptyIsHole
  <1> QED
    BY <1>2, <1>3

\* The row a refusal names is the first of them.
LEMMA FirstHole ==
  ASSUME NEW v, IsVector(v), HasHole(v)
  PROVE  /\ HoleAt(v) \in EmptyRowsOf(v)
         /\ \A r \in EmptyRowsOf(v) : HoleAt(v) <= r
  <1>1. DOMAIN v.chunks = 1..Len(v.chunks) /\ Len(v.chunks) \in Nat
    BY VectorParts
  <1> DEFINE First(k) == /\ Hole(v.chunks[k]) # {}
                         /\ \A j \in 1..(k - 1) : Hole(v.chunks[j]) = {}
             K == CHOOSE k \in DOMAIN v.chunks : First(k)
             R == CHOOSE r \in Hole(v.chunks[K]) :
                    \A s \in Hole(v.chunks[K]) : r <= s
  <1>2. K \in 1..Len(v.chunks) /\ First(K)
    <2>1. PICK S : S = {k \in 1..Len(v.chunks) : Hole(v.chunks[k]) # {}}
      OBVIOUS
    <2>2. S \in SUBSET Nat /\ S # {}
      <3>1. S \in SUBSET Nat
        BY <1>1, <2>1
      <3>2. S # {}
        BY <1>1, <2>1 DEF HasHole
      <3> QED
        BY <3>1, <3>2
    <2>3. PICK k \in S : \A j \in S : k <= j
      BY <2>2, Least
    <2>4. k \in 1..Len(v.chunks) /\ Hole(v.chunks[k]) # {}
      BY <2>1
    <2>5. ASSUME NEW j \in 1..(k - 1)
          PROVE  Hole(v.chunks[j]) = {}
      <3>1. j \in 1..Len(v.chunks) /\ ~(k <= j)
        BY <1>1, <2>4
      <3> QED
        BY <2>1, <2>3, <3>1
    <2>6. First(k)
      BY <2>4, <2>5
    <2> QED
      BY <1>1, <2>4, <2>6
  <1>3. R \in Hole(v.chunks[K]) /\ \A s \in Hole(v.chunks[K]) : R <= s
    <2>1. Hole(v.chunks[K]) \in SUBSET Nat /\ Hole(v.chunks[K]) # {}
      <3>1. v.chunks[K].rows \in Nat
        BY <1>2, VectorParts
      <3>2. Hole(v.chunks[K]) # {}
        BY <1>2
      <3> HIDE DEF K
      <3>3. Hole(v.chunks[K]) \in SUBSET Nat
        BY <3>1 DEF Hole
      <3> QED
        BY <3>2, <3>3
    <2>2. \E r \in Hole(v.chunks[K]) : \A s \in Hole(v.chunks[K]) : r <= s
      BY <2>1, Least
    <2> QED
      BY <2>2
  <1>4. HoleAt(v) = RowsBefore(v, K) + R
    BY DEF HoleAt
  <1> HIDE DEF K, R
  <1>5. HoleAt(v) = RowEnds(v)[K - 1] + R
    BY <1>2, <1>4, RowsAddUp
  <1>6. HoleAt(v) \in EmptyRowsOf(v)
    BY <1>2, <1>3, <1>5, EmptyIsHole
  <1>7. ASSUME NEW r \in EmptyRowsOf(v)
        PROVE  HoleAt(v) <= r
    <2>0. PICK k \in 1..Len(v.chunks) :
            \E j \in Hole(v.chunks[k]) : r = RowEnds(v)[k - 1] + j
      BY EmptyIsHole
    <2>1. PICK j \in Hole(v.chunks[k]) : r = RowEnds(v)[k - 1] + j
      BY <2>0
    <2>2. /\ k \in Nat /\ K \in Nat
          /\ k - 1 \in 0..Len(v.chunks) /\ K - 1 \in 0..Len(v.chunks)
          /\ K \in 0..Len(v.chunks)
      BY <1>1, <1>2
    <2>3. PICK here \in Nat, there \in Nat, last \in Nat, rows \in Nat :
            /\ here = RowEnds(v)[k - 1]
            /\ there = RowEnds(v)[K - 1]
            /\ last = RowEnds(v)[K]
            /\ rows = v.chunks[K].rows
            /\ last = there + rows
      <3>1. K \in 1..Len(v.chunks)
        BY <1>2
      <3>2. v.chunks[K].rows \in Nat
        BY <3>1, VectorParts
      <3>3. /\ RowEnds(v)[k - 1] \in Nat
            /\ RowEnds(v)[K - 1] \in Nat
            /\ RowEnds(v)[K] \in Nat
        BY <2>2, RowsAddUp
      <3>4. RowEnds(v)[K] = RowEnds(v)[K - 1] + v.chunks[K].rows
        BY <3>1, RowsAddUp
      <3> QED
        BY <3>2, <3>3, <3>4
    <2>4. j \in Nat /\ j >= 1 /\ R \in Nat /\ R <= rows
      <3>1. v.chunks[k].rows \in Nat
        BY VectorParts
      <3>2. j \in 1..v.chunks[k].rows
        BY <2>1 DEF Hole
      <3>3. R \in 1..rows
        BY <1>3, <2>3 DEF Hole
      <3> QED
        BY <3>1, <3>2, <3>3
    <2>5. CASE k < K
      <3>1. k \in 1..(K - 1)
        BY <2>2, <2>5
      <3> QED
        BY <1>2, <2>1, <3>1
    <2>6. CASE k = K
      <3>1. R <= j
        BY <1>3, <2>1, <2>6
      <3>2. r = there + j /\ HoleAt(v) = there + R
        BY <1>5, <2>1, <2>3, <2>6
      <3>3. there + R <= there + j
        BY <2>4, <3>1
      <3> QED
        BY <3>2, <3>3
    <2>7. CASE k > K
      <3>1. k - 1 \in K..Len(v.chunks)
        BY <1>1, <2>2, <2>7
      <3>2. last <= here
        BY <2>2, <2>3, <3>1, RowsGoOn
      <3>3. there + rows <= here
        BY <2>3, <3>2
      <3>4. there + R <= here + j
        BY <2>4, <3>3
      <3> QED
        BY <1>5, <2>1, <2>3, <3>4
    <2> QED
      BY <2>2, <2>5, <2>6, <2>7
  <1> QED
    BY <1>6, <1>7

\* A column is refused for a hole when it has one, and named the first.
LEMMA DescribedHoles ==
  ASSUME NEW v, IsVector(v)
  PROVE  /\ EmptyRowsOf(v) # {} => Describe(v).why # "none"
         /\ Describe(v).why = "hole" => HasHole(v)
         /\ Describe(v).why \in {"none", "type", "hole", "reach", "empty",
                                 "ragged"}
  <1>1. \A why : Refusal(why).why = why
    BY DEF Refusal
  <1>2. HasHole(v) => Describe(v).why # "none"
    BY <1>1 DEF Describe
  <1>3. HasMeaning(v)
          => ColumnOf(v).why \in {"none", "reach", "empty"}
    <2>1. \A l, h : Described(l, h).why = "none"
      BY DEF Described
    <2>2. \A data, at, cells, h :
            Narrow(data, at, cells, h).why \in {"none", "reach"}
      BY <1>1, <2>1 DEF Narrow
    <2>3. \A ps : /\ WordsCopied(ps).why = "none"
                  /\ BitsRebuilt(ps).why = "none"
                  /\ Words(ps).why = "none"
                  /\ Bits(ps).why = "none"
      BY <2>1 DEF WordsCopied, BitsRebuilt, Words, Bits, Plain, BitsLent
    <2>4. \A ps : Concatenated(ps).why \in {"none", "reach"}
      BY <2>2 DEF Concatenated
    <2>5. \A ps : Strings(v, ps).why \in {"none", "reach"}
      <3>1. \A p : StringsLent(v, p).why = "none"
        BY <2>1 DEF StringsLent
      <3>2. \A p : Rebased(p).why \in {"none", "reach"}
        BY <2>2 DEF Rebased
      <3> QED
        BY <2>4, <3>1, <3>2 DEF Strings
    <2>6. HasMeaning(v) => Packed(v).why \in {"none", "reach", "empty"}
      BY <1>1, <2>3, <2>4 DEF Packed, HasMeaning
    <2>7. HasMeaning(v) => Laid(v).why \in {"none", "reach"}
      BY <2>1, <2>3, <2>5 DEF Laid, HasMeaning
    <2> QED
      BY <2>6, <2>7 DEF ColumnOf
  <1>4. Describe(v).why = "hole" => HasHole(v)
    BY <1>1, <1>3 DEF Describe
  <1>5. Describe(v).why \in {"none", "type", "hole", "reach", "empty",
                             "ragged"}
    BY <1>1, <1>3 DEF Describe
  <1> QED
    BY <1>2, <1>4, <1>5, HolesAreEmptyRows

-----------------------------------------------------------------------------
(***************************************************************************)
(* The frames of a session.                                                *)
(***************************************************************************)

\* What was read of the caller's column is its description.
IsReading(f) ==
  /\ Describe(given).why = "none"
  /\ f.layout = Describe(given).layout
  /\ f.held = Describe(given).held

\* Every description that is kept, by a call or by the session, is one, and
\* the row that a call was answered is its first hole.
Readings ==
  /\ frames = [n \in DOMAIN frames |-> frames[n]]
  /\ \A n \in DOMAIN frames : IsReading(frames[n])
  /\ described = [c \in Registers |-> described[c]]
  /\ \A c \in Registers : described[c] = NothingRead \/ IsReading(described[c])
  /\ \A c \in Registers : pc[c] = "queued" => IsReading(described[c])
  /\ \A c \in Registers :
       answer[c] = "hole" =>
         Describe(given).why = "hole" /\ row[c] = HoleAt(given)

Inv == TypeOK /\ IsVector(given) /\ Readings

\* The rows of the caller's column, in number.
LEMMA RowsInNumber ==
  ASSUME NEW v, IsVector(v)
  PROVE  /\ RowCount(v) \in Nat
         /\ HasHole(v) => HoleAt(v) \in 0..RowCount(v)
  <1>1. RowCount(v) \in Nat
    <2>1. Len(v.chunks) \in 0..Len(v.chunks)
      BY VectorParts
    <2> QED
      BY <2>1, RowsAddUp
  <1>2. ASSUME HasHole(v)
        PROVE  HoleAt(v) \in 0..RowCount(v)
    <2>1. HoleAt(v) \in EmptyRowsOf(v)
      BY <1>2, FirstHole
    <2>2. HoleAt(v) \in 1..RowCount(v)
      BY <2>1 DEF EmptyRowsOf
    <2> QED
      BY <1>1, <2>2
  <1> QED
    BY <1>1, <1>2

\* A session starts with no frame, and calls that have found nothing.
LEMMA InitInv == Init => Inv
  <1> SUFFICES ASSUME Init PROVE Inv
    OBVIOUS
  <1>1. IsVector(given)
    BY RegisterAssumption DEF Init
  <1>2. RowCount(given) \in Nat
    BY <1>1, RowsInNumber
  <1>3. TypeOK
    <2>1. alive \in BOOLEAN /\ place \in {"slot", "lent", "gone"}
      BY DEF Init, SlotInit
    <2>2. DOMAIN frames = {}
      BY DEF Init
    <2>3. named \in [Calls -> Names]
      BY RegisterAssumption DEF Init
    <2>4. row \in [Registers -> 0..RowCount(given)]
      BY <1>2 DEF Init
    <2>5. pc \in [Calls -> Places] /\ answer \in [Calls -> Answers]
      BY DEF Init, Places, Answers
    <2>6. written \subseteq DOMAIN given.chunks
      BY DEF Init
    <2> QED
      BY <2>1, <2>2, <2>3, <2>4, <2>5, <2>6 DEF TypeOK
  <1>4. Readings
    <2>1. DOMAIN frames = {} /\ frames = [n \in DOMAIN frames |-> frames[n]]
      BY DEF Init
    <2>2. described = [c \in Registers |-> NothingRead]
      BY DEF Init
    <2>3. \A c \in Registers : c \in Calls /\ pc[c] = "new"
                               /\ answer[c] = "none"
      BY DEF Init, Calls
    <2> QED
      BY <2>1, <2>2, <2>3 DEF Readings
  <1> QED
    BY <1>1, <1>3, <1>4 DEF Inv

\* What a call was answered.
LEMMA SettledTypes ==
  ASSUME NEW c \in Calls, NEW what \in Answers, TypeOK, Settle(c, what)
  PROVE  pc' \in [Calls -> Places] /\ answer' \in [Calls -> Answers]
  BY DEF Settle, TypeOK, Places

\* Nobody else is answered by it.
LEMMA SettledAnswers ==
  ASSUME NEW c \in Calls, NEW what, TypeOK, Settle(c, what)
  PROVE  /\ \A d \in Calls : pc'[d] = IF d = c THEN "settled" ELSE pc[d]
         /\ \A d \in Calls : answer'[d] = IF d = c THEN what ELSE answer[d]
  BY DEF Settle, TypeOK

\* A call of register() keeps the invariant.
LEMMA CallRegisterInv ==
  ASSUME Inv, NEW n \in Names, NEW c \in Registers, CallRegister(c, n)
  PROVE  Inv'
  <1>1. /\ TypeOK /\ IsVector(given) /\ Readings
        /\ c \in Calls
        /\ \A d \in Registers : d \in Calls
    BY DEF Inv, Calls
  <1>2. /\ UNCHANGED <<alive, place, given, written, frames>>
        /\ named' = [named EXCEPT ![c] = n]
    BY DEF CallRegister, conn
  <1>3. IsVector(given)' /\ \A f : IsReading(f)' <=> IsReading(f)
    BY <1>1, <1>2 DEF IsReading
  <1>4. named' \in [Calls -> Names]
    BY <1>1, <1>2 DEF TypeOK
  <1>5. CASE ~alive /\ Settle(c, "closed") /\ UNCHANGED <<described, row>>
    <2>1. pc' \in [Calls -> Places] /\ answer' \in [Calls -> Answers]
      BY <1>1, <1>5, SettledTypes DEF Answers
    <2>2. TypeOK'
      BY <1>1, <1>2, <1>4, <1>5, <2>1 DEF TypeOK
    <2>3. \A d \in Registers :
            /\ pc'[d] = "queued" => pc[d] = "queued"
            /\ answer'[d] = "hole" => answer[d] = "hole"
      BY <1>1, <1>5, SettledAnswers
    <2>4. Readings'
      BY <1>1, <1>2, <1>3, <1>5, <2>3 DEF Readings
    <2> QED
      BY <1>3, <2>2, <2>4 DEF Inv
  <1>6. CASE /\ Describe(given).why # "none"
             /\ Settle(c, Describe(given).why)
             /\ row' = [row EXCEPT ![c] = IF Describe(given).why = "hole"
                                            THEN HoleAt(given) ELSE 0]
             /\ UNCHANGED described
    <2>1. Describe(given).why \in Answers
      BY <1>1, DescribedHoles DEF Answers
    <2>2. pc' \in [Calls -> Places] /\ answer' \in [Calls -> Answers]
      BY <1>1, <1>6, <2>1, SettledTypes
    <2>3. row' \in [Registers -> 0..RowCount(given)]
      <3>1. RowCount(given) \in Nat
        BY <1>1, RowsInNumber
      <3>2. Describe(given).why = "hole"
              => HoleAt(given) \in 0..RowCount(given)
        BY <1>1, DescribedHoles, RowsInNumber
      <3>3. row \in [Registers -> 0..RowCount(given)]
        BY <1>1 DEF TypeOK
      <3>4. PICK r \in 0..RowCount(given) : row' = [row EXCEPT ![c] = r]
        <4>1. 0 \in 0..RowCount(given)
          BY <3>1
        <4> QED
          BY <1>6, <3>2, <4>1
      <3> QED
        BY <3>3, <3>4
    <2>4. TypeOK'
      BY <1>1, <1>2, <1>4, <2>2, <2>3 DEF TypeOK
    <2>5. \A d \in Registers :
            /\ pc'[d] = "queued" => pc[d] = "queued"
            /\ answer'[d] = IF d = c THEN Describe(given).why ELSE answer[d]
      BY <1>1, <1>6, SettledAnswers
    <2>6. \A d \in Registers :
            row'[d] = IF d # c THEN row[d]
                      ELSE IF Describe(given).why = "hole"
                             THEN HoleAt(given) ELSE 0
      BY <1>1, <1>6 DEF TypeOK
    <2>7. Readings'
      <3>1. ASSUME NEW d \in Registers, answer'[d] = "hole"
            PROVE  Describe(given).why = "hole" /\ row'[d] = HoleAt(given)
        BY <1>1, <2>5, <2>6, <3>1 DEF Readings
      <3> QED
        BY <1>1, <1>2, <1>3, <1>6, <2>5, <3>1 DEF Readings
    <2> QED
      BY <1>3, <2>4, <2>7 DEF Inv
  <1>7. CASE /\ Describe(given).why = "none"
             /\ described' = [described EXCEPT
                                ![c] = Read(Describe(given), written)]
             /\ pc' = [pc EXCEPT ![c] = "queued"]
             /\ UNCHANGED <<answer, row>>
    <2>1. TypeOK'
      BY <1>1, <1>2, <1>4, <1>7 DEF TypeOK, Places
    <2>2. IsReading(Read(Describe(given), written))
      BY <1>7 DEF IsReading, Read
    <2>3. /\ described' = [d \in Registers |-> described'[d]]
          /\ \A d \in Registers :
               described'[d] = IF d = c THEN Read(Describe(given), written)
                               ELSE described[d]
      BY <1>1, <1>7 DEF Readings
    <2>4. \A d \in Registers : d # c => pc'[d] = pc[d]
      BY <1>1, <1>7 DEF TypeOK
    <2>5. ASSUME NEW d \in Registers
          PROVE  /\ described'[d] = NothingRead \/ IsReading(described'[d])
                 /\ pc'[d] = "queued" => IsReading(described'[d])
      BY <1>1, <2>2, <2>3, <2>4 DEF Readings
    <2>6. Readings'
      BY <1>1, <1>2, <1>3, <1>7, <2>3, <2>5 DEF Readings
    <2> QED
      BY <1>3, <2>1, <2>6 DEF Inv
  <1> QED
    BY <1>5, <1>6, <1>7 DEF CallRegister

\* What a statement may be answered that finds the slot empty.
LEMMA NotHereAnswers == NotHere \in Answers /\ NotHere # "hole"
  BY DEF NotHere, Answers

\* Its turn on the threadpool does.
LEMMA RunRegisterInv ==
  ASSUME Inv, NEW c \in Registers, RunRegister(c)
  PROVE  Inv'
  <1>1. /\ TypeOK /\ IsVector(given) /\ Readings
        /\ c \in Calls
        /\ \A d \in Registers : d \in Calls
    BY DEF Inv, Calls
  <1>2. /\ pc[c] = "queued"
        /\ UNCHANGED <<alive, place, given, written, named, row>>
        /\ described' = [described EXCEPT ![c] = NothingRead]
    BY DEF RunRegister, conn
  <1>3. IsVector(given)' /\ \A f : IsReading(f)' <=> IsReading(f)
    BY <1>1, <1>2 DEF IsReading
  <1>4. PICK what \in Answers : what # "hole" /\ Settle(c, what)
    BY NotHereAnswers DEF RunRegister, Answers
  <1>5. /\ pc' \in [Calls -> Places]
        /\ answer' \in [Calls -> Answers]
        /\ \A d \in Registers :
             /\ pc'[d] = "queued" => pc[d] = "queued" /\ d # c
             /\ answer'[d] = "hole" => answer[d] = "hole"
    BY <1>1, <1>4, SettledAnswers, SettledTypes
  <1>6. /\ described' = [d \in Registers |-> described'[d]]
        /\ \A d \in Registers : described'[d] = IF d = c THEN NothingRead
                                                ELSE described[d]
    BY <1>1, <1>2 DEF Readings
  <1>7. /\ frames' = [n \in DOMAIN frames' |-> frames'[n]]
        /\ DOMAIN frames' \subseteq Names \ Tables
        /\ \A n \in DOMAIN frames' : IsReading(frames'[n])
    <2>1. CASE UNCHANGED frames
      BY <1>1, <2>1 DEF Readings, TypeOK
    <2>2. CASE named[c] \notin Tables
               /\ frames' = With(named[c], described[c])
      <3>1. IsReading(described[c])
        BY <1>1, <1>2 DEF Readings
      <3>2. named[c] \in Names /\ DOMAIN frames \subseteq Names \ Tables
        BY <1>1 DEF TypeOK
      <3>3. /\ DOMAIN frames' = DOMAIN frames \cup {named[c]}
            /\ frames' = [n \in DOMAIN frames' |-> frames'[n]]
            /\ \A n \in DOMAIN frames' :
                 frames'[n] = IF n = named[c] THEN described[c] ELSE frames[n]
        BY <2>2 DEF With
      <3>4. \A n \in DOMAIN frames : IsReading(frames[n])
        BY <1>1 DEF Readings
      <3>5. \A n \in DOMAIN frames' : IsReading(frames'[n])
        BY <3>1, <3>3, <3>4
      <3> QED
        BY <2>2, <3>2, <3>3, <3>5
    <2> QED
      BY <2>1, <2>2 DEF RunRegister
  <1>8. TypeOK'
    BY <1>1, <1>2, <1>5, <1>7 DEF TypeOK
  <1>9. Readings'
    <2>1. \A d \in Registers :
            described'[d] = NothingRead \/ IsReading(described'[d])
      BY <1>1, <1>6 DEF Readings
    <2>2. \A d \in Registers : pc'[d] = "queued" => IsReading(described'[d])
      BY <1>1, <1>5, <1>6 DEF Readings
    <2>3. \A d \in Registers :
            answer'[d] = "hole"
              => Describe(given).why = "hole" /\ row[d] = HoleAt(given)
      BY <1>1, <1>5 DEF Readings
    <2> QED
      BY <1>2, <1>3, <1>6, <1>7, <2>1, <2>2, <2>3 DEF Readings
  <1> QED
    BY <1>3, <1>8, <1>9 DEF Inv

\* A step that reads nothing and answers no register() does.
LEMMA OthersKeepReadings ==
  ASSUME Inv, UNCHANGED <<given, described, row>>,
         frames' = [n \in DOMAIN frames' |-> frames'[n]],
         \A n \in DOMAIN frames' : n \in DOMAIN frames
                                   /\ frames'[n] = frames[n],
         \A c \in Registers : pc'[c] = pc[c] /\ answer'[c] = answer[c]
  PROVE  Readings' /\ IsVector(given)'
  <1>1. IsVector(given) /\ Readings
    BY DEF Inv
  <1>2. \A f : IsReading(f)' <=> IsReading(f)
    BY DEF IsReading
  <1>3. \A n \in DOMAIN frames' : IsReading(frames'[n])
    BY <1>1 DEF Readings
  <1> QED
    BY <1>1, <1>2, <1>3 DEF Readings

\* Both calls of unregister() do.
LEMMA CallUnregisterInv ==
  ASSUME Inv, NEW n \in Names, NEW c \in Unregisters, CallUnregister(c, n)
  PROVE  Inv'
  <1>1. /\ TypeOK /\ Readings
        /\ c \in Calls
        /\ \A d \in Registers : d \in Calls /\ d # c
    BY RegisterAssumption DEF Inv, Calls
  <1>2. /\ UNCHANGED <<alive, place, given, written, frames, described, row>>
        /\ named' = [named EXCEPT ![c] = n]
    BY DEF CallUnregister, conn
  <1>3. /\ pc' \in [Calls -> Places]
        /\ answer' \in [Calls -> Answers]
        /\ \A d \in Registers : pc'[d] = pc[d] /\ answer'[d] = answer[d]
    <2>1. CASE pc' = [pc EXCEPT ![c] = "queued"] /\ UNCHANGED answer
      BY <1>1, <2>1 DEF TypeOK, Places
    <2>2. CASE Settle(c, "closed")
      <3>1. "closed" \in Answers
        BY DEF Answers
      <3> QED
        BY <1>1, <2>2, <3>1, SettledAnswers, SettledTypes
    <2> QED
      BY <2>1, <2>2 DEF CallUnregister
  <1>4. TypeOK'
    BY <1>1, <1>2, <1>3 DEF TypeOK
  <1>5. Readings' /\ IsVector(given)'
    <2>1. frames' = [m \in DOMAIN frames' |-> frames'[m]]
      BY <1>1, <1>2 DEF Readings
    <2> QED
      BY <1>2, <1>3, <2>1, OthersKeepReadings
  <1> QED
    BY <1>4, <1>5 DEF Inv

\* A call of unregister() keeps the invariant.
LEMMA RunUnregisterInv ==
  ASSUME Inv, NEW c \in Unregisters, RunUnregister(c)
  PROVE  Inv'
  <1>1. /\ TypeOK /\ Readings
        /\ c \in Calls
        /\ \A d \in Registers : d \in Calls /\ d # c
    BY RegisterAssumption DEF Inv, Calls
  <1>2. UNCHANGED <<alive, place, given, written, named, described, row>>
    BY DEF RunUnregister, conn
  <1>3. PICK what \in Answers : Settle(c, what)
    BY NotHereAnswers DEF RunUnregister, Answers
  <1>4. /\ pc' \in [Calls -> Places]
        /\ answer' \in [Calls -> Answers]
        /\ \A d \in Registers : pc'[d] = pc[d] /\ answer'[d] = answer[d]
    BY <1>1, <1>3, SettledAnswers, SettledTypes
  <1>5. /\ frames' = [m \in DOMAIN frames' |-> frames'[m]]
        /\ \A m \in DOMAIN frames' : m \in DOMAIN frames
                                     /\ frames'[m] = frames[m]
    <2>1. CASE UNCHANGED frames
      BY <1>1, <2>1 DEF Readings
    <2>2. CASE frames' = Without(named[c])
      BY <2>2 DEF Without
    <2> QED
      BY <2>1, <2>2 DEF RunUnregister
  <1>6. DOMAIN frames' \subseteq Names \ Tables
    BY <1>1, <1>5 DEF TypeOK
  <1>7. TypeOK'
    BY <1>1, <1>2, <1>4, <1>6 DEF TypeOK
  <1>8. Readings' /\ IsVector(given)'
    BY <1>2, <1>4, <1>5, OthersKeepReadings
  <1> QED
    BY <1>7, <1>8 DEF Inv

\* Neither the caller's writes nor the connection underneath disturb it.
LEMMA OthersInv ==
  ASSUME Inv, (\E k \in DOMAIN given.chunks : Write(k)) \/ Underneath
  PROVE  Inv'
  <1>1. TypeOK /\ Readings
    BY DEF Inv
  <1>2. UNCHANGED <<given, pc, named, described, answer, row>>
    BY DEF Write, Underneath
  <1>3. /\ frames' = [m \in DOMAIN frames' |-> frames'[m]]
        /\ \A m \in DOMAIN frames' : m \in DOMAIN frames
                                     /\ frames'[m] = frames[m]
    <2>1. CASE UNCHANGED frames
      BY <1>1, <2>1 DEF Readings
    <2>2. CASE frames' = <<>>
      <3>1. DOMAIN frames' = {}
        BY <2>2
      <3>2. frames' = [m \in DOMAIN frames' |-> frames'[m]]
        BY <2>2
      <3> QED
        BY <3>1, <3>2
    <2> QED
      BY <2>1, <2>2 DEF Write, Underneath
  <1>4. Readings' /\ IsVector(given)'
    BY <1>2, <1>3, OthersKeepReadings
  <1>5. written' \subseteq DOMAIN given.chunks
    BY <1>1 DEF TypeOK, Write, Underneath
  <1>6. alive' \in BOOLEAN /\ place' \in {"slot", "lent", "gone"}
    BY <1>1 DEF TypeOK, Write, Underneath, conn, SlotNext, TakenOut, GivenBack,
                TurnedOff, Emptied
  <1>7. DOMAIN frames' \subseteq Names \ Tables
    BY <1>1, <1>3 DEF TypeOK
  <1>8. TypeOK'
    BY <1>1, <1>2, <1>5, <1>6, <1>7 DEF TypeOK
  <1> QED
    BY <1>4, <1>8 DEF Inv

\* The invariant is one.
LEMMA NextInv == Inv /\ [Next]_vars => Inv'
  <1> SUFFICES ASSUME Inv, [Next]_vars PROVE Inv'
    OBVIOUS
  <1>1. CASE UNCHANGED vars
    <2>1. UNCHANGED <<alive, place, given, written, frames, pc, named,
                      described, answer, row>>
      BY <1>1 DEF vars
    <2>2. TypeOK' /\ IsVector(given)'
      BY <2>1 DEF Inv, TypeOK
    <2>3. Readings'
      BY <2>1 DEF Inv, Readings, IsReading
    <2> QED
      BY <2>2, <2>3 DEF Inv
  <1>2. CASE \E n \in Names : \E c \in Registers : CallRegister(c, n)
    BY <1>2, CallRegisterInv
  <1>3. CASE \E n \in Names : \E c \in Unregisters : CallUnregister(c, n)
    BY <1>3, CallUnregisterInv
  <1>4. CASE \E c \in Registers : RunRegister(c)
    BY <1>4, RunRegisterInv
  <1>5. CASE \E c \in Unregisters : RunUnregister(c)
    BY <1>5, RunUnregisterInv
  <1>6. CASE (\E k \in DOMAIN given.chunks : Write(k)) \/ Underneath
    BY <1>6, OthersInv
  <1> QED
    BY <1>1, <1>2, <1>3, <1>4, <1>5, <1>6 DEF Next

-----------------------------------------------------------------------------
(***************************************************************************)
(* What follows from the invariant.                                        *)
(***************************************************************************)

\* What the session has, and what calls carry to it, was read of the column.
THEOREM InductiveInvariant == Spec => []Inv
  BY InitInv, NextInv, PTL DEF Spec

\* Every word keeps its type, and no frame takes the name of a table of the
\* database: register() is refused it.
THEOREM TypeCorrect == Spec => []TypeOK
  <1>1. Inv => TypeOK
    BY DEF Inv
  <1> QED
    BY <1>1, InductiveInvariant, PTL

\* What the invariant says of every description that is kept.
LEMMA ReadingsAreFaithful ==
  ASSUME Inv, NEW f, IsReading(f)
  PROVE  /\ Holds(f)
         /\ RowCount(given) # 0
              => /\ Reads(given, f.layout)
                 /\ Lent(f.layout.data) <=> InOneRun(given)
  <1>1. Faithful(given, Describe(given))
    BY DescriptionsAreFaithful DEF Inv
  <1> QED
    BY <1>1 DEF IsReading, Faithful, Holds

\* Whatever a description points at is held by it, from the call of register()
\* until its name is taken away or the connection goes.
THEOREM DescriptionsHold == Spec => []PointsOnlyAtHeld
  <1>1. ASSUME Inv
        PROVE  PointsOnlyAtHeld
    <2>1. \A n \in DOMAIN frames : Holds(frames[n])
      BY <1>1, ReadingsAreFaithful DEF Inv, Readings
    <2>2. Holds(NothingRead)
      BY DEF Holds, NothingRead, Read, Refusal, NoLayout, Layout, Buffer,
             NoOffsets, Offsets
    <2>3. \A c \in Registers : Holds(described[c])
      BY <1>1, <2>2, ReadingsAreFaithful DEF Inv, Readings
    <2> QED
      BY <2>1, <2>3 DEF PointsOnlyAtHeld, Holds
  <1> QED
    BY <1>1, InductiveInvariant, PTL

\* A statement over a registered frame reads the caller's rows, whatever
\* slices and chunks they came in, and what the caller wrote since where the
\* frame is a view.
THEOREM FramesAnswerTheRows == Spec => []AnswersTheRows
  <1>1. ASSUME Inv, NEW n \in DOMAIN frames
        PROVE  Answered(frames[n]) = Expected(frames[n])
    <2>1. IsVector(given) /\ IsReading(frames[n])
      BY <1>1 DEF Inv, Readings
    <2>2. PICK f : f = frames[n]
      OBVIOUS
    <2>3. PICK now : now = IF Lent(f.layout.data) THEN written ELSE f.then
      OBVIOUS
    <2>4. RowCount(given) # 0
            => /\ Reads(given, f.layout)
               /\ now = IF IsView THEN written ELSE f.then
      BY <1>1, <2>1, <2>2, <2>3, ReadingsAreFaithful DEF IsView, InOneRun
    <2> DEFINE Seen(cells) ==
                 [i \in DOMAIN cells |-> <<cells[i], cells[i][1] \in now>>]
               Line(r) == ReadRow(given.elem, f.layout, r)
    <2>5. PICK rows : rows = RowsOf(given)
      OBVIOUS
    <2>6. DOMAIN rows = 1..RowCount(given)
      BY <2>1, <2>5, RowsPlaced
    <2>7. ASSUME NEW r \in 1..RowCount(given)
          PROVE  Line(r) = rows[r]
      <3>1. RowCount(given) # 0
        <4>1. RowCount(given) \in Nat
          BY <2>1, RowsInNumber
        <4> QED
          BY <4>1
      <3>2. PICK k \in 1..Len(given.chunks) :
              \E j \in 1..given.chunks[k].rows : r = RowEnds(given)[k - 1] + j
        BY <2>1, RowInChunk
      <3>3. PICK j \in 1..given.chunks[k].rows : r = RowEnds(given)[k - 1] + j
        BY <3>2
      <3>4. Line(r) = RowOf(given, k, given.chunks[k].from + j)
        BY <2>4, <3>1, <3>3 DEF Reads
      <3>5. rows[r] = RowOf(given, k, given.chunks[k].from + j)
        BY <2>1, <2>5, <3>3, RowsPlaced
      <3> QED
        BY <3>4, <3>5
    <2>8. Answered(f) = [r \in 1..RowCount(given) |-> Seen(Line(r))]
      BY <2>3 DEF Answered
    <2> HIDE DEF Line
    <2>9. CASE RowCount(given) # 0
      <3>1. Expected(f) = [r \in DOMAIN rows |-> Seen(rows[r])]
        BY <2>4, <2>5, <2>9 DEF Expected
      <3> QED
        BY <2>2, <2>6, <2>7, <2>8, <3>1
    <2>10. CASE RowCount(given) = 0
      <3>1. 1..RowCount(given) = {} /\ DOMAIN rows = {}
        BY <2>6, <2>10
      <3>2. Answered(f) = [r \in {} |-> r]
        BY <2>8, <3>1
      <3>3. Expected(f) = [r \in {} |-> r]
        BY <2>5, <3>1 DEF Expected
      <3> QED
        BY <2>2, <3>2, <3>3
    <2> QED
      BY <2>9, <2>10
  <1>2. Inv => AnswersTheRows
    BY <1>1 DEF AnswersTheRows
  <1> QED
    BY <1>2, InductiveInvariant, PTL

\* A column with a hole in it is refused, by the row of its first one, and one
\* with holes only outside its slices is not refused for them.
THEOREM FirstHolesAreNamed == Spec => []HolesAreNamed
  <1>1. ASSUME Inv
        PROVE  HolesAreNamed
    <2>1. IsVector(given) /\ Readings
      BY <1>1 DEF Inv
    <2>2. EmptyRows = EmptyRowsOf(given)
      BY DEF EmptyRows, EmptyRowsOf
    <2>3. ASSUME EmptyRows # {}
          PROVE  frames = <<>>
      <3>1. Describe(given).why # "none"
        BY <2>1, <2>2, <2>3, DescribedHoles
      <3>2. DOMAIN frames = {}
        BY <2>1, <3>1 DEF Readings, IsReading
      <3>3. frames = [n \in {} |-> frames[n]]
        BY <2>1, <3>2 DEF Readings
      <3> QED
        BY <3>3
    <2>4. ASSUME NEW c \in Registers, answer[c] = "hole"
          PROVE  /\ row[c] \in EmptyRows
                 /\ \A r \in EmptyRows : row[c] <= r
      <3>1. Describe(given).why = "hole" /\ row[c] = HoleAt(given)
        BY <2>1, <2>4 DEF Readings
      <3>2. HasHole(given)
        BY <2>1, <3>1, DescribedHoles
      <3> QED
        BY <2>1, <2>2, <3>1, <3>2, FirstHole
    <2> QED
      BY <2>3, <2>4 DEF HolesAreNamed
  <1> QED
    BY <1>1, InductiveInvariant, PTL

-----------------------------------------------------------------------------
\* A registry does with the connection what a stream or a close may do with it
\* and nothing else: every behaviour is one of Slot, which Connection implements
\* (src/register.rs).
THEOREM OnASlot == Spec => SlotSpec
  <1>1. Init => SlotInit
    BY DEF Init
  <1>2. [Next]_vars => [SlotNext]_<<alive, place>>
    <2> SUFFICES ASSUME [Next]_vars
                 PROVE  SlotNext \/ UNCHANGED <<alive, place>>
      OBVIOUS
    <2> USE DEF conn
    <2>1. CASE UNCHANGED vars
      BY <2>1 DEF vars
    <2>2. CASE \E n \in Names : \/ \E c \in Registers : CallRegister(c, n)
                                \/ \E c \in Unregisters : CallUnregister(c, n)
      BY <2>2 DEF CallRegister, CallUnregister
    <2>3. CASE \E c \in Registers : RunRegister(c)
      BY <2>3 DEF RunRegister
    <2>4. CASE \E c \in Unregisters : RunUnregister(c)
      BY <2>4 DEF RunUnregister
    <2>5. CASE \E k \in DOMAIN given.chunks : Write(k)
      BY <2>5 DEF Write
    <2>6. CASE Underneath
      BY <2>6 DEF Underneath
    <2> QED
      BY <2>1, <2>2, <2>3, <2>4, <2>5, <2>6 DEF Next
  <1> QED
    BY <1>1, <1>2, PTL DEF Spec, SlotSpec
=============================================================================
