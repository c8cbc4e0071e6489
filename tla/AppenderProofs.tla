--------------------------- MODULE AppenderProofs ---------------------------
(***************************************************************************)
(* Proofs about Appender, for any table, any number of rows and any number *)
(* of flushes: the loop's thread never waits for a flush, the getters are  *)
(* exact, no row is lost or written twice, and a closed appender has       *)
(* written everything.                                                     *)
(*                                                                         *)
(* `busy` and the mutex are two words, and the claim is given up only      *)
(* after the mutex has been.  So the mutex is held by the row the loop's   *)
(* thread is appending, or by the one flush that has the claim, and a call *)
(* that reads `busy` down finds it free.                                   *)
(*                                                                         *)
(* The rows are followed by counting them and then by their values.  The   *)
(* buffers hold the rows the word counts, and one value more where the row *)
(* in hand has been; the words, the file and the history count the same    *)
(* rows, but for a flush that has written and not yet counted; and what is *)
(* at each place is the row kept there.                                    *)
(***************************************************************************)
EXTENDS Appender, TLAPS

\* The flush has the claim.
Claimed(f) == pc[f] \in {"queued", "writing", "written", "emptied", "ending"}

\* It has the mutex too.
Locked(f) == pc[f] \in {"writing", "written", "emptied"}

\* The inductive invariant.
IInv ==
  /\ pc \in [Flushes -> Places]
  /\ lock \in Flushes \cup {Loop, NoOne}
  /\ lock = Loop <=> loop \in {"row", "reentered"}
  /\ \A f \in Flushes : lock = f <=> Locked(f)
  /\ \A f \in Flushes : Claimed(f) => busy
  /\ \A f, g \in Flushes : Claimed(f) /\ Claimed(g) => f = g
  /\ NeverWaits

\* It holds at first.
LEMMA InitIInv == Init => IInv
  BY AppenderAssumption DEF Init, IInv, NeverWaits, Claimed, Locked, Places

\* Every step keeps it.
LEMMA StepIInv == IInv /\ [Next]_vars => IInv'
  <1> SUFFICES ASSUME IInv, [Next]_vars
               PROVE  IInv'
    OBVIOUS
  <1> USE AppenderAssumption DEF IInv, NeverWaits, Claimed, Locked, Places,
        words, conn, flushes, Writable
  <1>1. CASE UNCHANGED vars
    BY <1>1 DEF vars
  <1>2. CASE AppendRows \/ Reenter \/ Discard
    BY <1>2 DEF AppendRows, Reenter, Discard
  <1>3. CASE TakeValue \/ RefuseValue \/ Throw \/ EndRow
    BY <1>3 DEF TakeValue, RefuseValue, Throw, EndRow
  <1>4. ASSUME NEW f \in Flushes, NEW last \in BOOLEAN, Flush(f, last)
        PROVE  IInv'
    BY <1>4 DEF Flush
  <1>5. ASSUME NEW f \in Flushes, Refused(f)
        PROVE  IInv'
    BY <1>5 DEF Refused
  <1>6. ASSUME NEW f \in Flushes, Start(f)
        PROVE  IInv'
    BY <1>6 DEF Start
  <1>7. ASSUME NEW f \in Flushes, Write(f) \/ EmptyOut(f)
        PROVE  IInv'
    BY <1>7 DEF Write, EmptyOut
  <1>8. ASSUME NEW f \in Flushes, Fail(f) \/ Count(f)
        PROVE  IInv'
    BY <1>8 DEF Fail, Count
  <1>9. ASSUME NEW f \in Flushes, Finally(f)
        PROVE  IInv'
    BY <1>9 DEF Finally
  <1>10. CASE Underneath
    BY <1>10 DEF Underneath
  <1> QED
    BY <1>1, <1>2, <1>3, <1>4, <1>5, <1>6, <1>7, <1>8, <1>9, <1>10
    DEF Next, LoopStep, FlushStep

\* What is always true of the claim and the mutex.
THEOREM InductiveInvariant == Spec => []IInv
  BY InitIInv, StepIInv, PTL DEF Spec

\* The loop's thread never waits at the mutex for a flush on the threadpool
\* (src/append.rs `busy`, flushing).
THEOREM LoopNeverWaits == Spec => []NeverWaits
  <1>1. IInv => NeverWaits
    BY DEF IInv
  <1> QED
    BY <1>1, InductiveInvariant, PTL

-----------------------------------------------------------------------------
\* Rows

\* A value put at the end of a sequence.
LEMMA Appended ==
  ASSUME NEW S, NEW s \in Seq(S), NEW e \in S
  PROVE  /\ Append(s, e) \in Seq(S)
         /\ Len(Append(s, e)) = Len(s) + 1
         /\ Append(s, e)[Len(s) + 1] = e
         /\ \A i \in 1..Len(s) : Append(s, e)[i] = s[i]
  OBVIOUS

\* The first values of a sequence.
LEMMA FirstOnes ==
  ASSUME NEW S, NEW s \in Seq(S), NEW n \in 0..Len(s)
  PROVE  /\ SubSeq(s, 1, n) \in Seq(S)
         /\ Len(SubSeq(s, 1, n)) = n
         /\ \A i \in 1..n : SubSeq(s, 1, n)[i] = s[i]
  OBVIOUS

\* A sequence without its last value.
LEMMA LastTakenOff ==
  ASSUME NEW S, NEW s \in Seq(S), Len(s) > 0
  PROVE  /\ Front(s) \in Seq(S)
         /\ Len(Front(s)) = Len(s) - 1
         /\ \A i \in 1..(Len(s) - 1) : Front(s)[i] = s[i]
  <1>1. Len(s) \in Nat /\ Len(s) - 1 \in 0..Len(s)
    OBVIOUS
  <1> QED
    BY <1>1, FirstOnes DEF Front

\* One sequence after another.
LEMMA OneAfterAnother ==
  ASSUME NEW S, NEW s \in Seq(S), NEW t \in Seq(S)
  PROVE  /\ s \o t \in Seq(S)
         /\ Len(s \o t) = Len(s) + Len(t)
         /\ \A i \in 1..Len(s) : (s \o t)[i] = s[i]
         /\ \A i \in 1..Len(t) : (s \o t)[Len(s) + i] = t[i]
  OBVIOUS

\* Two sequences are the same when they have the same values.
LEMMA SameValues ==
  ASSUME NEW S, NEW s \in Seq(S), NEW t \in Seq(S), Len(s) = Len(t),
         \A i \in 1..Len(s) : s[i] = t[i]
  PROVE  s = t
  OBVIOUS

\* A sequence is its first values followed by its last ones.
LEMMA FirstAndLast ==
  ASSUME NEW S, NEW s \in Seq(S), NEW t \in Seq(S), NEW w \in Seq(S),
         Len(s) + Len(t) = Len(w),
         \A i \in 1..Len(s) : s[i] = w[i],
         \A i \in 1..Len(t) : t[i] = w[Len(s) + i]
  PROVE  s \o t = w
  <1>1. /\ s \o t \in Seq(S)
        /\ Len(s \o t) = Len(w)
        /\ \A i \in 1..Len(s) : (s \o t)[i] = s[i]
        /\ \A i \in 1..Len(t) : (s \o t)[Len(s) + i] = t[i]
    BY OneAfterAnother
  <1>2. Len(s) \in Nat /\ Len(t) \in Nat /\ Len(w) \in Nat
    OBVIOUS
  <1>3. ASSUME NEW i \in 1..Len(w), i \notin 1..Len(s)
        PROVE  i - Len(s) \in 1..Len(t) /\ Len(s) + (i - Len(s)) = i
    BY <1>2, <1>3
  <1>4. \A i \in 1..Len(w) : (s \o t)[i] = w[i]
    BY <1>1, <1>3
  <1> QED
    BY <1>1, <1>4, SameValues

\* The row being appended has left a value in the column.
InHand(c) == loop \in {"row", "reentered"} /\ c < at

\* The buffers have a value for every row the word counts, and one more for
\* the row in hand where it has been; after a row was torn they may have more.
Buffers ==
  /\ cols \in [Columns -> Seq(Nat)]
  /\ buffered \in Nat
  /\ at \in Nat
  /\ begun \in Nat
  /\ \A c \in Columns : IF InHand(c) THEN buffered + 1 <= Len(cols[c])
                                     ELSE buffered <= Len(cols[c])

\* They do at first.
LEMMA InitBuffers == Init => Buffers
  <1> SUFFICES ASSUME Init PROVE Buffers
    OBVIOUS
  <1>1. <<>> \in Seq(Nat) /\ Len(<<>>) = 0
    OBVIOUS
  <1> QED
    BY <1>1 DEF Init, Buffers, InHand

\* Every step keeps it so.
LEMMA StepBuffers == IInv /\ Buffers /\ [Next]_vars => Buffers'
  <1> SUFFICES ASSUME IInv, Buffers, [Next]_vars
               PROVE  Buffers'
    OBVIOUS
  <1> USE AppenderAssumption
  <1>1. CASE UNCHANGED <<cols, buffered, at, begun, loop>>
    BY <1>1 DEF Buffers, InHand
  <1>2. CASE AppendRows
    <2>1. /\ UNCHANGED <<cols, buffered>>
          /\ at' = 1 \/ at' = at
          /\ begun' = begun + 1 \/ begun' = begun
          /\ \A c \in Columns : ~InHand(c)
      BY <1>2 DEF AppendRows, InHand
    <2>2. \A c \in Columns : ~InHand(c)'
      BY <1>2 DEF AppendRows, InHand, Columns
    <2> QED
      BY <2>1, <2>2 DEF Buffers
  <1>3. CASE TakeValue
    <2>1. /\ at \in Columns
          /\ at' = at + 1
          /\ cols' = [cols EXCEPT ![at] = Append(@, begun)]
          /\ UNCHANGED <<buffered, begun, loop>>
          /\ loop = "row"
      BY <1>3 DEF TakeValue
    <2>2. /\ Append(cols[at], begun) \in Seq(Nat)
          /\ Len(Append(cols[at], begun)) = Len(cols[at]) + 1
      BY <2>1, Appended DEF Buffers
    <2>3. cols' \in [Columns -> Seq(Nat)]
      BY <2>1, <2>2 DEF Buffers
    <2>4. ASSUME NEW c \in Columns
          PROVE  IF InHand(c)' THEN buffered' + 1 <= Len(cols'[c])
                               ELSE buffered' <= Len(cols'[c])
      <3>1. CASE c = at
        <4>1. Len(cols'[c]) = Len(cols[c]) + 1 /\ ~InHand(c) /\ InHand(c)'
          BY <2>1, <2>2, <3>1 DEF Buffers, InHand, Columns
        <4>2. Len(cols[c]) \in Nat /\ buffered <= Len(cols[c])
          BY <4>1 DEF Buffers
        <4> QED
          BY <2>1, <4>1, <4>2 DEF Buffers
      <3>2. CASE c # at
        <4>1. cols'[c] = cols[c] /\ (InHand(c)' <=> InHand(c))
          BY <2>1, <3>2 DEF Buffers, InHand, Columns
        <4> QED
          BY <2>1, <4>1 DEF Buffers
      <3> QED
        BY <3>1, <3>2
    <2>5. at' \in Nat /\ begun' \in Nat /\ buffered' \in Nat
      BY <2>1 DEF Buffers
    <2> QED
      BY <2>3, <2>4, <2>5 DEF Buffers
  <1>4. CASE RefuseValue
    <2>1. /\ at \in Columns /\ at' = at /\ UNCHANGED <<buffered, begun>>
          /\ cols' = TakenBack
          /\ loop = "row" /\ loop' = "idle"
      BY <1>4 DEF RefuseValue
    <2>2. ASSUME NEW c \in Columns
          PROVE  /\ cols'[c] \in Seq(Nat)
                 /\ buffered' <= Len(cols'[c])
      <3>1. CASE c < at
        <4>1. buffered + 1 <= Len(cols[c]) /\ Len(cols[c]) \in Nat
          BY <2>1, <3>1 DEF Buffers, InHand
        <4>2. cols'[c] = Front(cols[c])
          BY <2>1, <3>1 DEF TakenBack
        <4>3. Len(cols[c]) > 0
          BY <4>1 DEF Buffers
        <4>4. Front(cols[c]) \in Seq(Nat)
              /\ Len(Front(cols[c])) = Len(cols[c]) - 1
          BY <4>3, LastTakenOff DEF Buffers
        <4> QED
          BY <2>1, <4>1, <4>2, <4>4 DEF Buffers
      <3>2. CASE ~(c < at)
        BY <2>1, <3>2 DEF TakenBack, Buffers, InHand
      <3> QED
        BY <3>1, <3>2
    <2>3. cols' = [c \in Columns |-> cols'[c]]
      BY <2>1 DEF TakenBack
    <2>4. cols' \in [Columns -> Seq(Nat)]
      BY <2>2, <2>3
    <2> QED
      BY <2>1, <2>2, <2>4 DEF Buffers, InHand
  <1>5. CASE Throw
    <2>1. /\ UNCHANGED <<cols, buffered, at, begun>>
          /\ loop' = "idle"
      BY <1>5 DEF Throw
    <2>2. ASSUME NEW c \in Columns
          PROVE  buffered <= Len(cols[c])
      <3>1. Len(cols[c]) \in Nat
        BY DEF Buffers
      <3> QED
        BY <3>1 DEF Buffers
    <2> QED
      BY <2>1, <2>2 DEF Buffers, InHand
  <1>6. CASE EndRow
    <2>1. /\ UNCHANGED cols
          /\ loop = "row" /\ at = Width + 1
          /\ buffered' = buffered + 1
          /\ \/ begun' = begun + 1 /\ at' = 1
             \/ loop' = "idle" /\ UNCHANGED <<at, begun>>
      BY <1>6 DEF EndRow
    <2>2. ASSUME NEW c \in Columns
          PROVE  ~InHand(c)' /\ buffered + 1 <= Len(cols[c])
      <3>1. InHand(c)
        BY <2>1 DEF InHand, Columns
      <3>2. ~InHand(c)'
        BY <2>1 DEF InHand, Columns
      <3> QED
        BY <3>1, <3>2 DEF Buffers
    <2> QED
      BY <2>1, <2>2 DEF Buffers
  <1>7. CASE Reenter
    BY <1>7 DEF Reenter, Buffers, InHand
  <1>8. CASE Discard \/ \E f \in Flushes : EmptyOut(f)
    <2>1. CASE UNCHANGED <<cols, buffered, at, begun>> /\ loop' = "blocked"
               /\ loop = "idle"
      BY <2>1 DEF Buffers, InHand
    <2>2. CASE /\ cols' = [c \in Columns |-> <<>>]
               /\ buffered' = 0
               /\ UNCHANGED <<at, begun, loop>>
               /\ loop \notin {"row", "reentered"}
      <3>1. <<>> \in Seq(Nat) /\ Len(<<>>) = 0
        OBVIOUS
      <3> QED
        BY <2>2, <3>1 DEF Buffers, InHand
    <2>3. ASSUME NEW f \in Flushes, EmptyOut(f)
          PROVE  loop \notin {"row", "reentered"}
      BY <2>3 DEF EmptyOut, IInv, Locked
    <2> QED
      BY <1>8, <2>1, <2>2, <2>3 DEF Discard, EmptyOut
  <1>9. ASSUME NEW f \in Flushes, NEW last \in BOOLEAN,
               \/ Flush(f, last) \/ Refused(f) \/ Start(f) \/ Write(f)
               \/ Fail(f) \/ Count(f) \/ Finally(f)
        PROVE  UNCHANGED <<cols, buffered, at, begun, loop>>
    BY <1>9 DEF Flush, Refused, Start, Write, Fail, Count, Finally, words
  <1>10. CASE UNCHANGED vars \/ Underneath
    BY <1>1, <1>10 DEF vars, Underneath
  <1> QED
    BY <1>1, <1>2, <1>3, <1>4, <1>5, <1>6, <1>7, <1>8, <1>9, <1>10
    DEF Next, LoopStep, FlushStep

-----------------------------------------------------------------------------
\* The getters

\* The file has rows of one value for every column.
Filed == file \in Seq([Columns -> Nat])

\* It has none at first.
LEMMA InitFiled == Init => Filed
  <1>1. <<>> \in Seq([Columns -> Nat])
    OBVIOUS
  <1> QED
    BY <1>1 DEF Init, Filed

\* What a flush is about to write is the rows the word counts, each with a
\* value in every column.
LEMMA BatchIsRows ==
  ASSUME Buffers, rows = buffered
  PROVE  /\ Batch \in Seq([Columns -> Nat])
         /\ Len(Batch) = buffered
         /\ \A r \in 1..buffered : \A c \in Columns : Batch[r][c] = cols[c][r]
  <1>1. buffered \in Nat
    BY DEF Buffers
  <1>2. ASSUME NEW r \in 1..buffered, NEW c \in Columns
        PROVE  cols[c][r] \in Nat
    <2>1. /\ cols[c] \in Seq(Nat)
          /\ buffered + 1 <= Len(cols[c]) \/ buffered <= Len(cols[c])
      BY DEF Buffers
    <2>2. r \in 1..Len(cols[c])
      BY <1>1, <2>1
    <2> QED
      BY <2>1, <2>2
  <1>3. Batch = [r \in 1..buffered |-> [c \in Columns |-> cols[c][r]]]
    BY DEF Batch
  <1>4. \A r \in 1..buffered : [c \in Columns |-> cols[c][r]]
                                \in [Columns -> Nat]
    BY <1>2
  <1>5. Batch \in [1..buffered -> [Columns -> Nat]]
    BY <1>3, <1>4
  <1>6. Batch \in Seq([Columns -> Nat]) /\ Len(Batch) = buffered
    BY <1>1, <1>5
  <1>7. \A r \in 1..buffered : \A c \in Columns : Batch[r][c] = cols[c][r]
    BY <1>3
  <1> QED
    BY <1>6, <1>7

\* The words and the history count the same rows: what a flush has written is
\* in the file before it leaves the buffer, and leaves the buffer before it is
\* counted as committed.
Counted ==
  /\ kept \in Seq(Nat)
  /\ committed \in Nat
  /\ rows \in Nat
  /\ \A f \in Flushes : pc[f] \in {"writing", "written"} => rows = buffered
  /\ \A f \in Flushes : pc[f] = "written" =>
       Len(file) = Len(kept) /\ committed + buffered = Len(kept)
  /\ \A f \in Flushes : pc[f] = "emptied" =>
       Len(file) = Len(kept) /\ committed + rows = Len(kept) /\ buffered = 0
  /\ (\A f \in Flushes : pc[f] \notin {"written", "emptied"}) =>
       committed = Len(file) /\ committed + buffered = Len(kept)

\* They agree at first.
LEMMA InitCounted == Init => Counted
  <1>1. <<>> \in Seq(Nat) /\ Len(<<>>) = 0
    OBVIOUS
  <1> QED
    BY <1>1 DEF Init, Counted

\* Every step keeps the count, by what each does to it.
LEMMA StepCounted ==
  IInv /\ Buffers /\ Filed /\ Counted /\ [Next]_vars => Filed' /\ Counted'
  <1> SUFFICES ASSUME IInv, Buffers, Filed, Counted, [Next]_vars
               PROVE  Filed' /\ Counted'
    OBVIOUS
  <1> USE AppenderAssumption
  <1>1. buffered \in Nat /\ pc \in [Flushes -> Places]
    BY DEF Buffers, IInv
  <1>2. CASE UNCHANGED <<kept, committed, rows, pc, file, buffered>>
    BY <1>2 DEF Filed, Counted
  <1>3. CASE EndRow
    <2>1. /\ UNCHANGED <<committed, rows, pc, file>>
          /\ buffered' = buffered + 1
          /\ kept' = Append(kept, begun)
          /\ loop = "row"
      BY <1>3 DEF EndRow, flushes
    <2>2. \A f \in Flushes : pc[f] \notin {"writing", "written", "emptied"}
      BY <2>1 DEF IInv, Locked
    <2>3. kept' \in Seq(Nat) /\ Len(kept') = Len(kept) + 1
      BY <2>1, Appended DEF Buffers, Counted
    <2>4. committed = Len(file) /\ committed + buffered = Len(kept)
      BY <2>2 DEF Counted
    <2>5. committed' + buffered' = Len(kept')
      BY <1>1, <2>1, <2>3, <2>4 DEF Counted
    <2> QED
      BY <2>1, <2>2, <2>3, <2>4, <2>5 DEF Filed, Counted
  <1>4. CASE Discard /\ lock = NoOne
    <2>1. /\ UNCHANGED <<committed, rows, pc, file>>
          /\ buffered' = 0
          /\ kept' = SubSeq(kept, 1, Len(kept) - buffered)
          /\ ~busy
      BY <1>4 DEF Discard, flushes, Writable
    <2>2. \A f \in Flushes : pc[f] \notin {"writing", "written", "emptied"}
      BY <2>1 DEF IInv, Claimed
    <2>3. committed = Len(file) /\ committed + buffered = Len(kept)
      BY <2>2 DEF Counted
    <2>4. Len(kept) - buffered = committed /\ committed \in 0..Len(kept)
      BY <1>1, <2>3 DEF Counted
    <2>5. kept' \in Seq(Nat) /\ Len(kept') = committed
      BY <2>1, <2>4, FirstOnes DEF Counted
    <2>6. committed' + buffered' = Len(kept')
      BY <2>1, <2>5 DEF Counted
    <2> QED
      BY <2>1, <2>2, <2>3, <2>5, <2>6 DEF Filed, Counted
  <1>5. ASSUME NEW f \in Flushes, NEW last \in BOOLEAN,
               Flush(f, last) \/ Refused(f) \/ Finally(f)
        PROVE  Filed' /\ Counted'
    <2>1. /\ UNCHANGED <<kept, committed, rows, file, buffered>>
          /\ \E p \in {"refused", "queued", "settled"} :
               pc' = [pc EXCEPT ![f] = p]
          /\ pc[f] \in {"new", "refused", "ending"}
      BY <1>5 DEF Flush, Refused, Finally
    <2>2. \A g \in Flushes : \A p \in {"writing", "written", "emptied"} :
            pc'[g] = p <=> pc[g] = p
      BY <1>1, <2>1
    <2> QED
      BY <2>1, <2>2 DEF Filed, Counted
  <1>6. ASSUME NEW f \in Flushes, Start(f)
        PROVE  Filed' /\ Counted'
    <2>1. /\ UNCHANGED <<kept, committed, file, buffered>>
          /\ lock = NoOne
          /\ \/ pc' = [pc EXCEPT ![f] = "writing"] /\ rows' = buffered
             \/ pc' = [pc EXCEPT ![f] = "ending"] /\ UNCHANGED rows
      BY <1>6 DEF Start
    <2>2. \A g \in Flushes : pc[g] \notin {"writing", "written", "emptied"}
      BY <2>1 DEF IInv, Locked
    <2>3. \A g \in Flushes : /\ pc'[g] \notin {"written", "emptied"}
                             /\ pc'[g] = "writing" => rows' = buffered
      BY <1>1, <2>1, <2>2
    <2>4. rows' \in Nat
      BY <1>1, <2>1 DEF Counted
    <2>5. committed = Len(file) /\ committed + buffered = Len(kept)
      BY <2>2 DEF Counted
    <2> QED
      BY <2>1, <2>3, <2>4, <2>5 DEF Filed, Counted
  <1>7. ASSUME NEW f \in Flushes,
               Write(f) \/ Fail(f) \/ EmptyOut(f) \/ Count(f)
        PROVE  /\ pc[f] \in {"writing", "written", "emptied"}
               /\ \A g \in Flushes \ {f} :
                    pc[g] \notin {"writing", "written", "emptied"}
    BY <1>7 DEF Write, Fail, EmptyOut, Count, IInv, Claimed
  <1>8. ASSUME NEW f \in Flushes, Write(f)
        PROVE  Filed' /\ Counted'
    <2>1. /\ UNCHANGED <<kept, committed, rows, buffered>>
          /\ file' = file \o Batch
          /\ pc' = [pc EXCEPT ![f] = "written"]
          /\ pc[f] = "writing"
      BY <1>8 DEF Write
    <2>2. \A g \in Flushes \ {f} :
            pc[g] \notin {"writing", "written", "emptied"}
      BY <1>7, <1>8
    <2>3. \A g \in Flushes : IF g = f THEN pc'[g] = "written"
                                      ELSE pc'[g] = pc[g]
      BY <1>1, <2>1
    <2>4. rows = buffered
      BY <2>1 DEF Counted
    <2>5. Batch \in Seq([Columns -> Nat]) /\ Len(Batch) = buffered
      BY <2>4, BatchIsRows
    <2>6. /\ file' \in Seq([Columns -> Nat])
          /\ Len(file') = Len(file) + buffered
      BY <2>1, <2>5, OneAfterAnother DEF Filed
    <2>7. committed = Len(file) /\ committed + buffered = Len(kept)
      BY <2>1, <2>2 DEF Counted
    <2>8. Len(file') = Len(kept)
      BY <2>6, <2>7
    <2> QED
      BY <2>1, <2>2, <2>3, <2>4, <2>6, <2>7, <2>8 DEF Filed, Counted
  <1>9. ASSUME NEW f \in Flushes, Fail(f)
        PROVE  Filed' /\ Counted'
    <2>1. /\ UNCHANGED <<kept, committed, rows, file, buffered>>
          /\ pc' = [pc EXCEPT ![f] = "ending"]
          /\ pc[f] = "writing"
      BY <1>9 DEF Fail
    <2>2. \A g \in Flushes \ {f} :
            pc[g] \notin {"writing", "written", "emptied"}
      BY <1>7, <1>9
    <2>3. \A g \in Flushes : pc'[g] \notin {"writing", "written", "emptied"}
      BY <1>1, <2>1, <2>2
    <2>4. committed = Len(file) /\ committed + buffered = Len(kept)
      BY <2>1, <2>2 DEF Counted
    <2> QED
      BY <2>1, <2>3, <2>4 DEF Filed, Counted
  <1>10. ASSUME NEW f \in Flushes, EmptyOut(f)
         PROVE  Filed' /\ Counted'
    <2>1. /\ UNCHANGED <<kept, committed, rows, file>>
          /\ buffered' = 0
          /\ pc' = [pc EXCEPT ![f] = "emptied"]
          /\ pc[f] = "written"
      BY <1>10 DEF EmptyOut
    <2>2. \A g \in Flushes \ {f} :
            pc[g] \notin {"writing", "written", "emptied"}
      BY <1>7, <1>10
    <2>3. \A g \in Flushes : pc'[g] \notin {"writing", "written"}
      BY <1>1, <2>1, <2>2
    <2>4. /\ Len(file) = Len(kept)
          /\ committed + rows = Len(kept)
      BY <2>1 DEF Counted
    <2>5. pc'[f] = "emptied"
      BY <1>1, <2>1
    <2> QED
      BY <2>1, <2>3, <2>4, <2>5 DEF Filed, Counted
  <1>11. ASSUME NEW f \in Flushes, Count(f)
         PROVE  Filed' /\ Counted'
    <2>1. /\ UNCHANGED <<kept, rows, file, buffered>>
          /\ committed' = committed + rows
          /\ pc' = [pc EXCEPT ![f] = "ending"]
          /\ pc[f] = "emptied"
      BY <1>11 DEF Count
    <2>2. \A g \in Flushes \ {f} :
            pc[g] \notin {"writing", "written", "emptied"}
      BY <1>7, <1>11
    <2>3. \A g \in Flushes : pc'[g] \notin {"writing", "written", "emptied"}
      BY <1>1, <2>1, <2>2
    <2>4. /\ Len(file) = Len(kept)
          /\ committed + rows = Len(kept)
          /\ buffered = 0
      BY <2>1 DEF Counted
    <2>5. /\ committed' \in Nat
          /\ committed' + buffered' = Len(kept)
          /\ committed' = Len(file)
      BY <2>1, <2>4 DEF Counted
    <2> QED
      BY <2>1, <2>3, <2>5 DEF Filed, Counted
  <1>12. CASE \/ UNCHANGED vars \/ AppendRows \/ Reenter \/ Underneath
              \/ TakeValue \/ RefuseValue \/ Throw
              \/ Discard /\ lock # NoOne
    BY <1>2, <1>12
    DEF vars, AppendRows, Reenter, Underneath, TakeValue, RefuseValue, Throw,
        Discard, flushes
  <1> QED
    BY <1>3, <1>4, <1>5, <1>6, <1>8, <1>9, <1>10, <1>11, <1>12
    DEF Next, LoopStep, FlushStep

\* The words, the file and the history agree on how many rows there are
\* (src/append.rs flush, discard).
THEOREM CountsAgree == Spec => [](IInv /\ Buffers /\ Filed /\ Counted)
  <1>1. Init => IInv /\ Buffers /\ Filed /\ Counted
    BY InitIInv, InitBuffers, InitFiled, InitCounted
  <1>2. IInv /\ Buffers /\ Filed /\ Counted /\ [Next]_vars
          => (IInv /\ Buffers /\ Filed /\ Counted)'
    BY StepIInv, StepBuffers, StepCounted
  <1> QED
    BY <1>1, <1>2, PTL DEF Spec

\* The getters are exact when no flush is in flight, and count no row twice
\* when one is (src/append.rs buffered, committed).
THEOREM GettersAreExact == Spec => []GettersAgree
  <1>1. IInv /\ Buffers /\ Filed /\ Counted => GettersAgree
    <2> SUFFICES ASSUME IInv, Buffers, Filed, Counted
                 PROVE  GettersAgree
      OBVIOUS
    <2>1. /\ buffered \in Nat /\ committed \in Nat /\ rows \in Nat
          /\ kept \in Seq(Nat) /\ Len(kept) \in Nat
      BY DEF Buffers, Counted
    <2>2. buffered + committed <= Len(kept)
      <3>1. CASE \E f \in Flushes : pc[f] = "emptied"
        BY <2>1, <3>1 DEF Counted
      <3>2. CASE \E f \in Flushes : pc[f] = "written"
        BY <2>1, <3>2 DEF Counted
      <3>3. CASE \A f \in Flushes : pc[f] \notin {"written", "emptied"}
        BY <2>1, <3>3 DEF Counted
      <3> QED
        BY <3>1, <3>2, <3>3
    <2>3. ASSUME ~busy
          PROVE  committed = Len(file) /\ buffered = Len(kept) - Len(file)
      <3>1. \A f \in Flushes : pc[f] \notin {"written", "emptied"}
        BY <2>3 DEF IInv, Claimed
      <3>2. committed = Len(file) /\ committed + buffered = Len(kept)
        BY <3>1 DEF Counted
      <3> QED
        BY <2>1, <3>2
    <2> QED
      BY <2>2, <2>3 DEF GettersAgree
  <1> QED
    BY <1>1, CountsAgree, PTL

-----------------------------------------------------------------------------
\* The rows themselves

\* There are never more rows in the buffer, or in the file, than were kept.
LEMMA NoMoreThanKept ==
  ASSUME Buffers, Filed, Counted
  PROVE  /\ buffered \in Nat /\ Len(file) \in Nat /\ Len(kept) \in Nat
         /\ buffered <= Len(kept)
         /\ Len(file) <= Len(kept)
  <1>1. buffered \in Nat /\ committed \in Nat /\ rows \in Nat
    BY DEF Buffers, Counted
  <1>2. Len(file) \in Nat /\ Len(kept) \in Nat
    BY DEF Filed, Counted
  <1>3. CASE \E f \in Flushes : pc[f] \in {"written", "emptied"}
    BY <1>1, <1>2, <1>3 DEF Counted
  <1>4. CASE \A f \in Flushes : pc[f] \notin {"written", "emptied"}
    BY <1>1, <1>2, <1>4 DEF Counted
  <1> QED
    BY <1>1, <1>2, <1>3, <1>4

\* A column of the buffer is the last rows kept, and the row in hand where it
\* has been; a column of the file is the first ones.
Fits(c) ==
  /\ IF InHand(c)
       THEN Len(cols[c]) = buffered + 1 /\ cols[c][buffered + 1] = begun
       ELSE Len(cols[c]) = buffered
  /\ \A i \in 1..buffered : cols[c][i] = kept[Len(kept) - buffered + i]
  /\ \A i \in 1..Len(file) : file[i][c] = kept[i]

\* Every column does, until an accessor has torn a row.
Matched == ~torn => \A c \in Columns : Fits(c)

\* There is no row at first.
LEMMA InitMatched == Init => Matched
  <1>1. Len(<<>>) = 0
    OBVIOUS
  <1> QED
    BY <1>1 DEF Init, Matched, Fits, InHand

\* Every step keeps the rows where they are, unless it tears one.
LEMMA StepMatched ==
  IInv /\ Buffers /\ Filed /\ Counted /\ Matched /\ [Next]_vars => Matched'
  <1> SUFFICES ASSUME IInv, Buffers, Filed, Counted, Matched, [Next]_vars,
                      ~torn', NEW c \in Columns
               PROVE  Fits(c)'
    BY DEF Matched
  <1> USE AppenderAssumption
  <1>1. /\ buffered \in Nat /\ Len(file) \in Nat /\ Len(kept) \in Nat
        /\ buffered <= Len(kept)
        /\ Len(file) <= Len(kept)
    BY NoMoreThanKept
  <1>2. /\ cols[c] \in Seq(Nat) /\ begun \in Nat /\ at \in Nat
        /\ kept \in Seq(Nat) /\ c \in Nat /\ Len(cols[c]) \in Nat
    BY DEF Buffers, Counted, Columns
  <1>3. ASSUME Throw
        PROVE  ~torn /\ at = 1 /\ UNCHANGED <<cols, buffered, kept, file>>
               /\ loop' = "idle"
    <2>1. torn' = (torn \/ at > 1)
      BY <1>3 DEF Throw
    <2>2. ~torn /\ ~(at > 1)
      BY <2>1, Zenon
    <2> QED
      BY <1>3, <2>2 DEF Throw, Columns
  <1>4. ~torn
    <2>1. CASE Throw
      BY <1>3, <2>1
    <2>2. CASE ~Throw
      <3>1. UNCHANGED torn
        BY <2>2
        DEF Next, LoopStep, FlushStep, vars, AppendRows, Reenter, Discard,
            TakeValue, RefuseValue, EndRow, Underneath, Flush, Refused, Start,
            Write, Fail, EmptyOut, Count, Finally
      <3> QED
        BY <3>1
    <2> QED
      BY <2>1, <2>2
  <1>5. Fits(c)
    BY <1>4 DEF Matched
  <1>6. CASE UNCHANGED <<cols, buffered, kept, file, loop, at, begun>>
    BY <1>5, <1>6 DEF Fits, InHand
  <1>7. CASE AppendRows
    <2>1. /\ UNCHANGED <<cols, buffered, kept, file>>
          /\ ~InHand(c)
          /\ ~InHand(c)'
      BY <1>7 DEF AppendRows, InHand, Columns
    <2> QED
      BY <1>5, <2>1 DEF Fits
  <1>8. CASE TakeValue
    <2>1. /\ at \in Columns
          /\ at' = at + 1
          /\ cols' = [cols EXCEPT ![at] = Append(@, begun)]
          /\ UNCHANGED <<buffered, begun, loop, kept, file>>
          /\ loop = "row"
      BY <1>8 DEF TakeValue
    <2>2. CASE c = at
      <3>1. ~InHand(c) /\ InHand(c)'
        BY <1>2, <2>1, <2>2 DEF InHand
      <3>2. Len(cols[c]) = buffered
        BY <1>5, <3>1 DEF Fits
      <3>3. cols'[c] = Append(cols[c], begun)
        BY <2>1, <2>2 DEF Buffers
      <3>4. /\ Len(cols'[c]) = buffered + 1
            /\ cols'[c][buffered + 1] = begun
            /\ \A i \in 1..buffered : cols'[c][i] = cols[c][i]
        BY <1>2, <3>2, <3>3, Appended
      <3> QED
        BY <1>5, <2>1, <3>1, <3>4 DEF Fits
    <2>3. CASE c # at
      <3>1. cols'[c] = cols[c] /\ (InHand(c)' <=> InHand(c))
        BY <1>2, <2>1, <2>3 DEF Buffers, InHand, Columns
      <3> QED
        BY <1>5, <2>1, <3>1 DEF Fits
    <2> QED
      BY <2>2, <2>3
  <1>9. CASE RefuseValue
    <2>1. /\ UNCHANGED <<buffered, kept, file>>
          /\ cols' = TakenBack
          /\ loop = "row" /\ loop' = "idle"
      BY <1>9 DEF RefuseValue
    <2>2. ~InHand(c)'
      BY <2>1 DEF InHand
    <2>3. CASE c < at
      <3>1. Len(cols[c]) = buffered + 1
        BY <1>5, <2>1, <2>3 DEF Fits, InHand
      <3>2. cols'[c] = Front(cols[c])
        BY <2>1, <2>3 DEF TakenBack
      <3>3. /\ Len(cols'[c]) = Len(cols[c]) - 1
            /\ \A i \in 1..(Len(cols[c]) - 1) : cols'[c][i] = cols[c][i]
        <4>1. Len(cols[c]) > 0
          BY <1>1, <3>1
        <4>2. /\ Len(Front(cols[c])) = Len(cols[c]) - 1
              /\ \A i \in 1..(Len(cols[c]) - 1) :
                   Front(cols[c])[i] = cols[c][i]
          BY <1>2, <4>1, LastTakenOff
        <4> QED
          BY <3>2, <4>2
      <3>4. Len(cols[c]) - 1 = buffered
        BY <1>1, <3>1
      <3> QED
        BY <1>5, <2>1, <2>2, <3>3, <3>4 DEF Fits
    <2>4. CASE ~(c < at)
      <3>1. cols'[c] = cols[c] /\ ~InHand(c)
        BY <2>1, <2>4 DEF TakenBack, InHand
      <3> QED
        BY <1>5, <2>1, <2>2, <3>1 DEF Fits
    <2> QED
      BY <2>3, <2>4
  <1>10. CASE Throw
    <2>1. ~InHand(c) /\ ~InHand(c)'
      BY <1>3, <1>10 DEF InHand, Columns
    <2> QED
      BY <1>3, <1>5, <1>10, <2>1 DEF Fits
  <1>11. CASE EndRow
    <2>1. /\ UNCHANGED <<cols, file>>
          /\ loop = "row" /\ at = Width + 1
          /\ buffered' = buffered + 1
          /\ kept' = Append(kept, begun)
          /\ at' = 1 \/ loop' = "idle"
      BY <1>11 DEF EndRow
    <2>2. InHand(c) /\ ~InHand(c)'
      BY <2>1 DEF InHand, Columns
    <2>3. Len(cols[c]) = buffered + 1 /\ cols[c][buffered + 1] = begun
      BY <1>5, <2>2 DEF Fits
    <2>4. /\ Len(kept') = Len(kept) + 1
          /\ kept'[Len(kept) + 1] = begun
          /\ \A i \in 1..Len(kept) : kept'[i] = kept[i]
      BY <1>2, <2>1, Appended
    <2>5. ASSUME NEW i \in 1..(buffered + 1)
          PROVE  cols[c][i] = kept'[Len(kept') - (buffered + 1) + i]
      <3>1. Len(kept') - (buffered + 1) + i = Len(kept) - buffered + i
        BY <1>1, <2>4
      <3>2. CASE i = buffered + 1
        <4>1. Len(kept) - buffered + i = Len(kept) + 1
          BY <1>1, <3>2
        <4> QED
          BY <2>3, <2>4, <3>1, <3>2, <4>1
      <3>3. CASE i # buffered + 1
        <4>1. i \in 1..buffered
          BY <1>1, <3>3
        <4>2. Len(kept) - buffered + i \in 1..Len(kept)
          BY <1>1, <4>1
        <4>3. cols[c][i] = kept[Len(kept) - buffered + i]
          BY <1>5, <4>1 DEF Fits
        <4> QED
          BY <2>4, <3>1, <4>2, <4>3
      <3> QED
        BY <3>2, <3>3
    <2>6. ASSUME NEW i \in 1..Len(file)
          PROVE  file[i][c] = kept'[i]
      <3>1. i \in 1..Len(kept)
        BY <1>1
      <3> QED
        BY <1>5, <2>4, <3>1 DEF Fits
    <2> QED
      BY <2>1, <2>2, <2>3, <2>5, <2>6 DEF Fits
  <1>12. CASE Discard /\ lock = NoOne
    <2>1. /\ cols' = [d \in Columns |-> <<>>]
          /\ buffered' = 0
          /\ kept' = SubSeq(kept, 1, Len(kept) - buffered)
          /\ UNCHANGED <<file, loop>>
          /\ ~busy
          /\ loop = "idle"
      BY <1>12 DEF Discard, Writable
    <2>2. \A f \in Flushes : pc[f] \notin {"written", "emptied"}
      BY <2>1 DEF IInv, Claimed
    <2>3. committed \in Nat /\ committed = Len(file)
          /\ committed + buffered = Len(kept)
      BY <2>2 DEF Counted
    <2>4. Len(kept) - buffered = Len(file) /\ Len(file) \in 0..Len(kept)
      BY <1>1, <2>3
    <2>5. \A i \in 1..Len(file) : kept'[i] = kept[i]
      BY <1>2, <2>1, <2>4, FirstOnes
    <2>6. cols'[c] = <<>> /\ Len(<<>>) = 0
      BY <2>1
    <2>7. ~InHand(c)'
      BY <2>1 DEF InHand
    <2>8. Len(cols'[c]) = buffered' /\ 1..buffered' = {}
      BY <2>1, <2>6
    <2>9. \A i \in 1..Len(file) : file[i][c] = kept'[i]
      BY <1>5, <2>5 DEF Fits
    <2> QED
      BY <2>1, <2>7, <2>8, <2>9 DEF Fits
  <1>13. ASSUME NEW f \in Flushes, Write(f) \/ EmptyOut(f)
         PROVE  ~InHand(c) /\ ~InHand(c)'
    <2>1. UNCHANGED loop /\ loop \notin {"row", "reentered"}
      BY <1>13 DEF Write, EmptyOut, IInv, Locked
    <2> QED
      BY <2>1 DEF InHand
  <1>14. ASSUME NEW f \in Flushes, Write(f)
         PROVE  Fits(c)'
    <2>1. /\ UNCHANGED <<cols, buffered, kept>>
          /\ file' = file \o Batch
          /\ pc[f] = "writing"
      BY <1>14 DEF Write
    <2>2. \A g \in Flushes : pc[g] \notin {"written", "emptied"}
      BY <2>1 DEF IInv, Claimed
    <2>3. rows = buffered /\ committed \in Nat /\ committed = Len(file)
          /\ committed + buffered = Len(kept)
      BY <2>1, <2>2 DEF Counted
    <2>4. /\ Batch \in Seq([Columns -> Nat])
          /\ Len(Batch) = buffered
          /\ \A r \in 1..buffered : Batch[r][c] = cols[c][r]
      BY <2>3, BatchIsRows
    <2>5. /\ Len(file') = Len(file) + buffered
          /\ \A i \in 1..Len(file) : file'[i] = file[i]
          /\ \A i \in 1..buffered : file'[Len(file) + i] = Batch[i]
      <3> DEFINE Row == [Columns -> Nat]
      <3>1. file \in Seq(Row) /\ Batch \in Seq(Row)
        BY <2>4 DEF Filed
      <3> HIDE DEF Row
      <3>2. /\ Len(file \o Batch) = Len(file) + Len(Batch)
            /\ \A i \in 1..Len(file) : (file \o Batch)[i] = file[i]
            /\ \A i \in 1..Len(Batch) :
                 (file \o Batch)[Len(file) + i] = Batch[i]
        BY <3>1, OneAfterAnother
      <3> QED
        BY <2>1, <2>4, <3>2
    <2>6. ASSUME NEW i \in 1..Len(file')
          PROVE  file'[i][c] = kept[i]
      <3>1. CASE i \in 1..Len(file)
        BY <1>5, <2>5, <3>1 DEF Fits
      <3>2. CASE i \notin 1..Len(file)
        <4> DEFINE j == i - Len(file)
        <4>1. j \in 1..buffered /\ Len(file) + j = i
          BY <1>1, <2>5, <3>2
        <4>2. Len(kept) - buffered + j = i
          BY <1>1, <2>3, <4>1
        <4>3. cols[c][j] = kept[Len(kept) - buffered + j]
          BY <1>5, <4>1 DEF Fits
        <4>4. file'[i][c] = cols[c][j]
          BY <2>4, <2>5, <4>1
        <4> QED
          BY <4>2, <4>3, <4>4
      <3> QED
        BY <3>1, <3>2
    <2>7. ~InHand(c) /\ ~InHand(c)'
      BY <1>13, <1>14
    <2> QED
      BY <1>5, <2>1, <2>6, <2>7 DEF Fits
  <1>15. ASSUME NEW f \in Flushes, EmptyOut(f)
         PROVE  Fits(c)'
    <2>1. /\ cols' = [d \in Columns |-> <<>>]
          /\ buffered' = 0
          /\ UNCHANGED <<kept, file>>
      BY <1>15 DEF EmptyOut
    <2>2. cols'[c] = <<>> /\ Len(<<>>) = 0
      BY <2>1
    <2>3. ~InHand(c)'
      BY <1>13, <1>15
    <2> QED
      BY <1>5, <2>1, <2>2, <2>3 DEF Fits
  <1>16. ASSUME NEW f \in Flushes, NEW last \in BOOLEAN,
                \/ Flush(f, last) \/ Refused(f) \/ Start(f)
                \/ Fail(f) \/ Count(f) \/ Finally(f)
         PROVE  UNCHANGED <<cols, buffered, kept, file, loop, at, begun>>
    BY <1>16 DEF Flush, Refused, Start, Fail, Count, Finally, words
  <1>17. CASE Reenter
    BY <1>5, <1>17 DEF Reenter, Fits, InHand
  <1>18. CASE Discard /\ lock # NoOne
    BY <1>5, <1>18 DEF Discard, Fits, InHand
  <1>19. CASE UNCHANGED vars \/ Underneath
    BY <1>6, <1>19 DEF vars, Underneath
  <1> QED
    BY <1>6, <1>7, <1>8, <1>9, <1>10, <1>11, <1>12, <1>14, <1>15, <1>16,
       <1>17, <1>18, <1>19
    DEF Next, LoopStep, FlushStep

\* The buffer and the file hold the rows that were kept, in every column
\* (src/append.rs append, refuse, flush, empty).
THEOREM RowsMatch == Spec => []Matched
  <1>1. Init => Matched
    BY InitMatched
  <1>2. IInv /\ Buffers /\ Filed /\ Counted /\ Matched /\ [Next]_vars
          => Matched'
    BY StepMatched
  <1> QED
    BY <1>1, <1>2, CountsAgree, PTL DEF Spec

\* A column of the file, as a sequence.
LEMMA ColumnOfFile ==
  ASSUME Filed, NEW c \in Columns
  PROVE  /\ Column(c) \in Seq(Nat)
         /\ Len(Column(c)) = Len(file)
         /\ \A i \in 1..Len(file) : Column(c)[i] = file[i][c]
  <1>1. Len(file) \in Nat /\ file \in [1..Len(file) -> [Columns -> Nat]]
    BY DEF Filed
  <1>2. \A i \in 1..Len(file) : file[i][c] \in Nat
    BY <1>1
  <1>3. Column(c) \in [1..Len(file) -> Nat]
    BY <1>2 DEF Column
  <1>4. \A i \in 1..Len(file) : Column(c)[i] = file[i][c]
    BY DEF Column
  <1>5. Column(c) \in Seq(Nat) /\ Len(Column(c)) = Len(file)
    BY <1>1, <1>3
  <1> QED
    BY <1>4, <1>5

\* No row is lost, written twice or torn, after any row that was refused
\* halfway and any flush that failed (src/append.rs append, refuse, flush).
THEOREM RowsAreKept == Spec => []NoRowLostOrTwice
  <1>1. IInv /\ Buffers /\ Filed /\ Counted /\ Matched => NoRowLostOrTwice
    <2> SUFFICES ASSUME IInv, Buffers, Filed, Counted, Matched,
                        lock = NoOne, ~torn, NEW c \in Columns
                 PROVE  Column(c) \o cols[c] = kept
      BY DEF NoRowLostOrTwice
    <2>1. /\ buffered \in Nat /\ Len(file) \in Nat /\ Len(kept) \in Nat
          /\ cols[c] \in Seq(Nat) /\ kept \in Seq(Nat)
      BY NoMoreThanKept DEF Buffers, Counted
    <2>2. /\ \A f \in Flushes : pc[f] \notin {"written", "emptied"}
          /\ loop \notin {"row", "reentered"}
      BY AppenderAssumption DEF IInv, Locked
    <2>3. Len(file) + buffered = Len(kept)
      BY <2>2 DEF Counted
    <2>4. /\ Len(cols[c]) = buffered
          /\ \A i \in 1..buffered : cols[c][i] = kept[Len(kept) - buffered + i]
          /\ \A i \in 1..Len(file) : file[i][c] = kept[i]
      BY <2>2 DEF Matched, Fits, InHand
    <2>5. /\ Column(c) \in Seq(Nat)
          /\ Len(Column(c)) = Len(file)
          /\ \A i \in 1..Len(file) : Column(c)[i] = kept[i]
      BY <2>4, ColumnOfFile
    <2>6. Len(Column(c)) + Len(cols[c]) = Len(kept)
      BY <2>3, <2>4, <2>5
    <2>7. Len(kept) - buffered = Len(Column(c))
      BY <2>1, <2>3, <2>5
    <2>8. \A i \in 1..Len(cols[c]) : cols[c][i] = kept[Len(Column(c)) + i]
      BY <2>4, <2>7
    <2>9. \A i \in 1..Len(Column(c)) : Column(c)[i] = kept[i]
      BY <2>5
    <2> QED
      BY <2>1, <2>5, <2>6, <2>8, <2>9, FirstAndLast
  <1> QED
    BY <1>1, CountsAgree, RowsMatch, PTL

-----------------------------------------------------------------------------
\* Closing

\* A closed appender has nothing in its buffers and nothing under way there.
Shut == ~open => /\ buffered = 0
                 /\ loop \notin {"row", "reentered"}
                 /\ \A f \in Flushes : ~Locked(f)

\* It is open at first.
LEMMA InitShut == Init => Shut
  BY DEF Init, Shut

\* What closes it finds nothing there, and nothing comes after.
LEMMA StepShut == IInv /\ Buffers /\ Counted /\ Shut /\ [Next]_vars => Shut'
  <1> SUFFICES ASSUME IInv, Buffers, Counted, Shut, [Next]_vars
               PROVE  Shut'
    OBVIOUS
  <1> USE AppenderAssumption
  <1>1. buffered \in Nat /\ pc \in [Flushes -> Places] /\ open \in {open}
    BY DEF Buffers, IInv
  <1>2. CASE UNCHANGED <<open, buffered, loop, pc>>
    BY <1>2 DEF Shut, Locked
  <1>3. CASE AppendRows \/ Reenter \/ Discard
    <2>1. open /\ UNCHANGED open
      BY <1>3 DEF AppendRows, Reenter, Discard, Writable, words
    <2> QED
      BY <2>1 DEF Shut
  <1>4. CASE TakeValue \/ RefuseValue \/ Throw \/ EndRow
    <2>1. loop = "row" /\ UNCHANGED open
      BY <1>4 DEF TakeValue, RefuseValue, Throw, EndRow, words
    <2>2. open
      BY <2>1 DEF Shut
    <2> QED
      BY <2>1, <2>2 DEF Shut
  <1>5. ASSUME NEW f \in Flushes, NEW last \in BOOLEAN,
               Flush(f, last) \/ Refused(f) \/ Finally(f)
        PROVE  Shut'
    <2>1. /\ UNCHANGED <<open, buffered, loop>>
          /\ \E p \in {"refused", "queued", "settled"} :
               pc' = [pc EXCEPT ![f] = p]
      BY <1>5 DEF Flush, Refused, Finally, words
    <2>2. \A g \in Flushes : Locked(g)' => Locked(g)
      BY <1>1, <2>1 DEF Locked
    <2> QED
      BY <2>1, <2>2 DEF Shut
  <1>6. ASSUME NEW f \in Flushes, Start(f)
        PROVE  Shut'
    <2>1. CASE open /\ buffered > 0
      <3>1. UNCHANGED open
        BY <1>6, <2>1 DEF Start
      <3> QED
        BY <2>1, <3>1 DEF Shut
    <2>2. CASE ~(open /\ buffered > 0)
      <3>1. /\ UNCHANGED <<buffered, loop>>
            /\ lock = NoOne
            /\ pc' = [pc EXCEPT ![f] = "ending"]
        BY <1>6, <2>2 DEF Start
      <3>2. buffered = 0
        BY <1>1, <2>2 DEF Shut
      <3>3. /\ loop \notin {"row", "reentered"}
            /\ \A g \in Flushes : ~Locked(g)
        BY <3>1 DEF IInv
      <3>4. \A g \in Flushes : ~Locked(g)'
        BY <1>1, <3>1, <3>3 DEF Locked
      <3> QED
        BY <3>1, <3>2, <3>3, <3>4 DEF Shut
    <2> QED
      BY <2>1, <2>2
  <1>7. ASSUME NEW f \in Flushes, Write(f) \/ Fail(f) \/ EmptyOut(f)
        PROVE  Shut'
    <2>1. Locked(f) /\ UNCHANGED open
      BY <1>7 DEF Write, Fail, EmptyOut, Locked, words
    <2>2. open
      BY <2>1 DEF Shut
    <2> QED
      BY <2>1, <2>2 DEF Shut
  <1>8. ASSUME NEW f \in Flushes, Count(f)
        PROVE  Shut'
    <2>1. /\ UNCHANGED <<buffered, loop>>
          /\ pc[f] = "emptied"
          /\ pc' = [pc EXCEPT ![f] = "ending"]
      BY <1>8 DEF Count
    <2>2. buffered = 0
      BY <2>1 DEF Counted
    <2>3. /\ loop \notin {"row", "reentered"}
          /\ \A g \in Flushes \ {f} : ~Locked(g)
      BY <2>1 DEF IInv, Locked
    <2>4. \A g \in Flushes : ~Locked(g)'
      BY <1>1, <2>1, <2>3 DEF Locked
    <2> QED
      BY <2>1, <2>2, <2>3, <2>4 DEF Shut
  <1>9. CASE UNCHANGED vars \/ Underneath
    BY <1>2, <1>9 DEF vars, Underneath, flushes
  <1> QED
    BY <1>3, <1>4, <1>5, <1>6, <1>7, <1>8, <1>9 DEF Next, LoopStep, FlushStep

\* A closed appender has written every row it was given, also when the close
\* came after flushes that failed (src/append.rs flush, close).
THEOREM CloseWritesAll == Spec => []ClosedHasWritten
  <1>1. Init => Shut
    BY InitShut
  <1>2. IInv /\ Buffers /\ Counted /\ Shut /\ [Next]_vars => Shut'
    BY StepShut
  <1>3. IInv /\ Buffers /\ Filed /\ Counted /\ Matched /\ Shut
          => ClosedHasWritten
    <2> SUFFICES ASSUME IInv, Buffers, Filed, Counted, Matched, Shut,
                        ~open, ~torn
                 PROVE  Column(1) = kept
      BY DEF ClosedHasWritten
    <2>1. 1 \in Columns
      BY AppenderAssumption DEF Columns
    <2>2. \A f \in Flushes : pc[f] \notin {"written", "emptied"}
      BY DEF Shut, Locked
    <2>3. Len(file) = Len(kept)
      BY <2>2 DEF Shut, Counted
    <2>4. \A i \in 1..Len(file) : file[i][1] = kept[i]
      BY <2>1 DEF Matched, Fits
    <2>5. /\ Column(1) \in Seq(Nat)
          /\ Len(Column(1)) = Len(file)
          /\ \A i \in 1..Len(file) : Column(1)[i] = file[i][1]
      BY <2>1, ColumnOfFile
    <2>6. kept \in Seq(Nat)
      BY DEF Counted
    <2> QED
      BY <2>3, <2>4, <2>5, <2>6, SameValues
  <1> QED
    BY <1>1, <1>2, <1>3, CountsAgree, RowsMatch, PTL DEF Spec

-----------------------------------------------------------------------------
\* The types

\* What is in the buffers, and what was kept, are rows that were begun, and
\* the row in hand is not among those that were kept.
Rowed ==
  /\ cols \in [Columns -> Seq(1..MaxRows)] /\ kept \in Seq(1..MaxRows)
  /\ begun \in 0..MaxRows /\ at \in 1..(Width + 1)
  /\ rows \in 0..MaxRows
  /\ IF loop \in {"row", "reentered"} THEN Len(kept) + 1 <= begun
                                      ELSE Len(kept) <= begun

\* The words that are no counts.
Worded ==
  /\ alive \in BOOLEAN /\ place \in {"slot", "lent", "gone"}
  /\ open \in BOOLEAN /\ busy \in BOOLEAN /\ torn \in BOOLEAN
  /\ loop \in {"idle", "row", "blocked", "reentered"}
  /\ closing \in [Flushes -> BOOLEAN]
  /\ answer \in [Flushes -> Answers]

\* They have their types at first.
LEMMA InitTypes == Init => Rowed /\ Worded
  <1>1. <<>> \in Seq(1..MaxRows) /\ Len(<<>>) = 0
    OBVIOUS
  <1>2. Init => Rowed
    BY <1>1, AppenderAssumption DEF Init, Rowed
  <1>3. Init => Worded
    BY DEF Init, SlotInit, Worded, Answers
  <1> QED
    BY <1>2, <1>3

\* Every step keeps the words.
LEMMA StepWorded == Worded /\ [Next]_vars => Worded'
  <1> SUFFICES ASSUME Worded, [Next]_vars
               PROVE  Worded'
    OBVIOUS
  <1> USE DEF Worded, Answers, words, conn, flushes
  <1>1. CASE UNCHANGED vars
    BY <1>1 DEF vars
  <1>2. CASE AppendRows \/ Reenter \/ Discard
    BY <1>2 DEF AppendRows, Reenter, Discard
  <1>3. CASE TakeValue \/ RefuseValue \/ EndRow
    BY <1>3 DEF TakeValue, RefuseValue, EndRow
  <1>4. CASE Throw
    <2>1. torn' \in BOOLEAN
      BY <1>4 DEF Throw
    <2> QED
      BY <1>4, <2>1 DEF Throw
  <1>5. ASSUME NEW f \in Flushes, NEW last \in BOOLEAN, Flush(f, last)
        PROVE  Worded'
    BY <1>5 DEF Flush
  <1>6. ASSUME NEW f \in Flushes, Refused(f) \/ Finally(f) \/ Write(f) \/ EmptyOut(f)
                                    \/ Fail(f)
        PROVE  Worded'
    BY <1>6 DEF Refused, Finally, Write, EmptyOut, Fail
  <1>7. ASSUME NEW f \in Flushes, Start(f) \/ Count(f)
        PROVE  Worded'
    <2>1. open' \in BOOLEAN
      BY <1>7 DEF Start, Count
    <2> QED
      BY <1>7, <2>1 DEF Start, Count
  <1>8. CASE Underneath
    BY <1>8 DEF Underneath, SlotNext, TakenOut, GivenBack, TurnedOff, Emptied
  <1> QED
    BY <1>1, <1>2, <1>3, <1>4, <1>5, <1>6, <1>7, <1>8
    DEF Next, LoopStep, FlushStep

\* Every step keeps the rows.
LEMMA StepRowed ==
  IInv /\ Buffers /\ Filed /\ Counted /\ Rowed /\ [Next]_vars => Rowed'
  <1> SUFFICES ASSUME IInv, Buffers, Filed, Counted, Rowed, [Next]_vars
               PROVE  Rowed'
    OBVIOUS
  <1> USE AppenderAssumption
  <1>0. /\ buffered \in Nat /\ Len(kept) \in Nat /\ buffered <= Len(kept)
        /\ begun \in 0..MaxRows /\ at \in 1..(Width + 1) /\ rows \in 0..MaxRows
        /\ Len(kept) <= MaxRows
    BY NoMoreThanKept DEF Rowed
  <1>1. CASE UNCHANGED <<cols, kept, begun, at, rows, loop>>
    BY <1>1 DEF Rowed
  <1>2. CASE AppendRows
    <2>1. /\ UNCHANGED <<cols, kept, rows>> /\ loop = "idle"
          /\ \/ loop' = "row" /\ at' = 1 /\ begun' = begun + 1 /\ begun < MaxRows
             \/ loop' = "blocked" /\ UNCHANGED <<at, begun>>
      BY <1>2 DEF AppendRows, flushes
    <2> QED
      BY <1>0, <2>1 DEF Rowed
  <1>3. CASE TakeValue
    <2>1. /\ at \in Columns /\ at' = at + 1 /\ loop = "row"
          /\ cols' = [cols EXCEPT ![at] = Append(@, begun)]
          /\ UNCHANGED <<kept, begun, rows, loop>>
      BY <1>3 DEF TakeValue, flushes
    <2>2. begun \in 1..MaxRows
      BY <1>0, <2>1 DEF Rowed
    <2>3. Append(cols[at], begun) \in Seq(1..MaxRows)
      BY <2>1, <2>2 DEF Rowed
    <2>4. cols' \in [Columns -> Seq(1..MaxRows)]
      BY <2>1, <2>3 DEF Rowed
    <2>5. at' \in 1..(Width + 1)
      BY <2>1 DEF Columns
    <2> QED
      BY <2>1, <2>4, <2>5 DEF Rowed
  <1>4. CASE RefuseValue
    <2>1. /\ at \in Columns /\ cols' = TakenBack /\ loop = "row" /\ loop' = "idle"
          /\ UNCHANGED <<kept, begun, at, rows>>
      BY <1>4 DEF RefuseValue, flushes
    <2>2. ASSUME NEW c \in Columns
          PROVE  cols'[c] \in Seq(1..MaxRows)
      <3>1. CASE c < at
        <4>1. buffered + 1 <= Len(cols[c]) /\ Len(cols[c]) \in Nat
          BY <2>1, <3>1 DEF Buffers, InHand
        <4>2. cols'[c] = Front(cols[c])
          BY <2>1, <3>1 DEF TakenBack
        <4>3. cols[c] \in Seq(1..MaxRows) /\ Len(cols[c]) > 0
          BY <1>0, <4>1 DEF Rowed
        <4> QED
          BY <4>2, <4>3, LastTakenOff
      <3>2. CASE ~(c < at)
        BY <2>1, <3>2 DEF TakenBack, Rowed
      <3> QED
        BY <3>1, <3>2
    <2>3. cols' \in [Columns -> Seq(1..MaxRows)]
      BY <2>1, <2>2 DEF TakenBack
    <2> QED
      BY <1>0, <2>1, <2>3 DEF Rowed
  <1>5. CASE Throw
    <2>1. /\ loop = "row" /\ loop' = "idle"
          /\ UNCHANGED <<cols, kept, begun, at, rows>>
      BY <1>5 DEF Throw, flushes
    <2> QED
      BY <1>0, <2>1 DEF Rowed
  <1>6. CASE EndRow
    <2>1. /\ UNCHANGED <<cols, rows>> /\ loop = "row"
          /\ kept' = Append(kept, begun)
          /\ \/ begun < MaxRows /\ begun' = begun + 1 /\ at' = 1 /\ loop' = loop
             \/ loop' = "idle" /\ UNCHANGED <<at, begun>>
      BY <1>6 DEF EndRow, flushes
    <2>2. begun \in 1..MaxRows /\ kept \in Seq(1..MaxRows) /\ Len(kept) + 1 <= begun
      BY <1>0, <2>1 DEF Rowed
    <2>3. kept' \in Seq(1..MaxRows) /\ Len(kept') = Len(kept) + 1
      BY <2>1, <2>2
    <2> QED
      BY <1>0, <2>1, <2>2, <2>3 DEF Rowed
  <1>7. CASE Reenter
    BY <1>7 DEF Reenter, Rowed, flushes
  <1>8. CASE Discard
    <2>1. CASE UNCHANGED <<cols, kept, begun, at, rows>> /\ loop' = "blocked"
               /\ loop = "idle"
      BY <2>1 DEF Rowed
    <2>2. CASE /\ cols' = [c \in Columns |-> <<>>]
               /\ kept' = SubSeq(kept, 1, Len(kept) - buffered)
               /\ UNCHANGED <<begun, at, rows, loop>> /\ loop = "idle"
      <3>1. cols' \in [Columns -> Seq(1..MaxRows)]
        BY <2>2
      <3>2. /\ kept' \in Seq(1..MaxRows) /\ Len(kept') \in Nat
            /\ Len(kept') <= Len(kept)
        <4>1. kept \in Seq(1..MaxRows) /\ Len(kept) - buffered \in 0..Len(kept)
          BY <1>0 DEF Rowed
        <4> QED
          BY <2>2, <4>1, FirstOnes
      <3> QED
        BY <1>0, <2>2, <3>1, <3>2 DEF Rowed
    <2> QED
      BY <1>8, <2>1, <2>2 DEF Discard, flushes
  <1>9. ASSUME NEW f \in Flushes, EmptyOut(f)
        PROVE  Rowed'
    <2>1. /\ cols' = [c \in Columns |-> <<>>]
          /\ UNCHANGED <<kept, begun, at, rows, loop>>
      BY <1>9 DEF EmptyOut
    <2>2. cols' \in [Columns -> Seq(1..MaxRows)]
      BY <2>1
    <2> QED
      BY <2>1, <2>2 DEF Rowed
  <1>10. ASSUME NEW f \in Flushes, Start(f)
         PROVE  Rowed'
    <2>1. rows' = buffered \/ rows' = rows
      BY <1>10 DEF Start
    <2>2. UNCHANGED <<cols, kept, begun, at, loop>>
      BY <1>10 DEF Start
    <2> QED
      BY <1>0, <2>1, <2>2 DEF Rowed
  <1>11. ASSUME NEW f \in Flushes, NEW last \in BOOLEAN,
                \/ Flush(f, last) \/ Refused(f) \/ Write(f) \/ Fail(f)
                \/ Count(f) \/ Finally(f)
         PROVE  UNCHANGED <<cols, kept, begun, at, rows, loop>>
    BY <1>11 DEF Flush, Refused, Write, Fail, Count, Finally
  <1>12. CASE UNCHANGED vars \/ Underneath
    BY <1>1, <1>12 DEF vars, Underneath, flushes
  <1> QED
    BY <1>1, <1>2, <1>3, <1>4, <1>5, <1>6, <1>7, <1>8, <1>9, <1>10, <1>11, <1>12
    DEF Next, LoopStep, FlushStep

\* Every word of an appender keeps its type, and what it counts or keeps is
\* never more than the rows that were begun (src/append.rs).
THEOREM TypeCorrect == Spec => []TypeOK
  <1>1. ASSUME IInv, Buffers, Filed, Counted, Rowed, Worded
        PROVE  TypeOK
    <2>1. /\ buffered \in Nat /\ Len(file) \in Nat /\ Len(kept) \in Nat
          /\ buffered <= Len(kept) /\ Len(kept) <= MaxRows
      BY <1>1, NoMoreThanKept, AppenderAssumption DEF Rowed
    <2>2. committed \in Nat /\ committed <= Len(kept)
      <3>1. CASE \E f \in Flushes : pc[f] \in {"written", "emptied"}
        BY <1>1, <2>1, <3>1 DEF Counted
      <3>2. CASE \A f \in Flushes : pc[f] \notin {"written", "emptied"}
        BY <1>1, <2>1, <3>2 DEF Counted
      <3> QED
        BY <3>1, <3>2
    <2>3. buffered \in 0..MaxRows /\ committed \in 0..MaxRows
      BY <2>1, <2>2, AppenderAssumption
    <2> QED
      BY <1>1, <2>3 DEF TypeOK, IInv, Rowed, Worded
  <1>2. Init => Rowed /\ Worded
    BY InitTypes
  <1>3. IInv /\ Buffers /\ Filed /\ Counted /\ Rowed /\ Worded /\ [Next]_vars
          => Rowed' /\ Worded'
    BY StepRowed, StepWorded
  <1> QED
    BY <1>1, <1>2, <1>3, CountsAgree, PTL DEF Spec

-----------------------------------------------------------------------------
\* An appender does with the connection what a stream or a close may do with it
\* and nothing else: every behaviour is one of Slot, which Connection implements
\* (src/append.rs).
THEOREM OnASlot == Spec => SlotSpec
  <1>1. Init => SlotInit
    BY DEF Init
  <1>2. [Next]_vars => [SlotNext]_<<alive, place>>
    <2> SUFFICES ASSUME [Next]_vars
                 PROVE  SlotNext \/ UNCHANGED <<alive, place>>
      OBVIOUS
    <2> USE DEF words, conn
    <2>1. CASE UNCHANGED vars
      BY <2>1 DEF vars
    <2>2. CASE AppendRows \/ Reenter \/ Discard
      BY <2>2 DEF AppendRows, Reenter, Discard
    <2>3. CASE LoopStep
      BY <2>3 DEF LoopStep, TakeValue, RefuseValue, Throw, EndRow, Refused, Finally
    <2>4. CASE \E f \in Flushes : (\E last \in BOOLEAN : Flush(f, last)) \/ FlushStep(f)
      BY <2>4 DEF Flush, FlushStep, Start, Write, Fail, EmptyOut, Count
    <2>5. CASE Underneath
      BY <2>5 DEF Underneath
    <2> QED
      BY <2>1, <2>2, <2>3, <2>4, <2>5 DEF Next
  <1> QED
    BY <1>1, <1>2, PTL DEF Spec, SlotSpec
=============================================================================
