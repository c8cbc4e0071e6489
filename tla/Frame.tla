-------------------------------- MODULE Frame --------------------------------
(***************************************************************************)
(* Describing one column of a frame (src/frame.rs): from the chunks of an  *)
(* Arrow vector, a typed array or a plain array, to the layout the engine  *)
(* reads rows through, and the arrays that have to be held while it does.  *)
(*                                                                         *)
(* What the bytes are does not matter, only which bytes they are: a cell   *)
(* is named by the array it is in and where it is there, and a buffer is   *)
(* a sequence of cells.  An offset is a number, since it is computed with. *)
(***************************************************************************)
EXTENDS Integers, Sequences, SequencesExt

CONSTANTS
  Byte,    \* bits in a byte: 8
  Reach,   \* the furthest a 32-bit offset reaches: 2^31 - 1
  Base,    \* rows of each array that the chunks are slices of
  Cuts     \* where the characters of such an array of strings are cut

ASSUME FrameAssumption ==
  /\ Byte \in Nat \ {0}
  /\ Reach \in Nat
  /\ Base \in Nat
  /\ Cuts \in [1..(Base + 1) -> Nat]
  /\ \A i \in 1..Base : Cuts[i] <= Cuts[i + 1]

\* The columns a caller may have: a table's or an array's, of a type that has a
\* layout or of another, in chunks that are slices of arrays of Base rows.
IsVector(v) ==
  /\ v.shape \in {"arrow", "plain"}
  /\ v.elem \in {"words", "bits", "strings", "other"}
  /\ v.wide \in BOOLEAN
  /\ v.ragged \in BOOLEAN
  /\ v.chunks \in Seq([from : 0..Base, rows : 0..Base,
                       empty : SUBSET (1..Base)])
  /\ \A k \in DOMAIN v.chunks : v.chunks[k].from + v.chunks[k].rows <= Base

\* Where a buffer is: with the caller, as the values or the offsets of array
\* `k`, or with this module.
Own == <<0, "own">>
Buffer(of, cells) == [of |-> of, cells |-> cells]
Lent(buffer) == buffer.of # Own

\* The numbers a string column is cut by, and how wide each of them is.
Offsets(of, wide, cells) == [of |-> of, wide |-> wide, cells |-> cells]
NoOffsets == Offsets(Own, FALSE, <<>>)

-----------------------------------------------------------------------------
\* What apache-arrow hands over for a chunk that is the rows `from + 1` to
\* `from + rows` of array `k`: values narrowed to those rows for words, whole
\* for bits and characters; offsets narrowed; and validity bits whole.
ValuesOf(elem, k, c) ==
  Buffer(<<k, "values">>,
         CASE elem = "words"   -> [i \in 1..c.rows |-> <<k, c.from + i>>]
           [] elem = "bits"    -> [i \in 1..Base |-> <<k, i>>]
           [] elem = "strings" -> [i \in 1..Cuts[Base + 1] |-> <<k, i>>])

CutsOf(v, k, c) ==
  Offsets(<<k, "offsets">>, v.wide,
          SubSeq(Cuts, c.from + 1, c.from + c.rows + 1))

NullCount(v) ==
  LET In(c) == {i \in c.empty : c.from < i /\ i <= c.from + c.rows}
  IN  \E k \in DOMAIN v.chunks : In(v.chunks[k]) # {}

-----------------------------------------------------------------------------
\* `piece`: one chunk, with the bit its first row is at.
Piece(v, k) ==
  LET c == v.chunks[k]
  IN  [rows |-> c.rows, at |-> c.from, values |-> ValuesOf(v.elem, k, c),
       offsets |-> IF v.elem = "strings" THEN CutsOf(v, k, c) ELSE NoOffsets]

Pieces(v) == [k \in DOMAIN v.chunks |-> Piece(v, k)]

\* The rows of the chunks before one.
RowsBefore(v, k) ==
  LET before[j \in 1..(Len(v.chunks) + 1)] ==
        IF j = 1 THEN 0 ELSE before[j - 1] + v.chunks[j - 1].rows
  IN  before[k]
RowCount(v) == RowsBefore(v, Len(v.chunks) + 1)

\* Mutant: the validity bits are read as though they had been narrowed.
HoleFromTheBase(c) == {r \in 1..c.rows : r \in c.empty}

\* `hole`: the rows of a chunk whose validity bit, counted from the bit the
\* chunk starts at, is clear.
Hole(c) == {r \in 1..c.rows : c.from + r \in c.empty}

\* The first row that holds nothing, as `column` counts rows across chunks.
HoleAt(v) ==
  LET k == CHOOSE k \in DOMAIN v.chunks :
             /\ Hole(v.chunks[k]) # {}
             /\ \A j \in 1..(k - 1) : Hole(v.chunks[j]) = {}
      r == CHOOSE r \in Hole(v.chunks[k]) : \A s \in Hole(v.chunks[k]) : r <= s
  IN  RowsBefore(v, k) + r

HasHole(v) == NullCount(v) /\ \E k \in DOMAIN v.chunks : Hole(v.chunks[k]) # {}

-----------------------------------------------------------------------------
\* A layout: the buffer its cells are in, where the first row starts there,
\* what cuts it up, and how wide the engine is told the offsets are.
Layout(data, at, offsets, wide) ==
  [data |-> data, at |-> at, offsets |-> offsets, wide |-> wide]

\* A description: a layout and the places of the caller's that it holds, or
\* the reason there is none.
Described(layout, held) == [why |-> "none", layout |-> layout, held |-> held]
NoLayout == Layout(Buffer(Own, <<>>), 0, NoOffsets, FALSE)
Refusal(why) == [why |-> why, layout |-> NoLayout, held |-> {}]

Plain(data, held) == Described(Layout(data, 0, NoOffsets, FALSE), held)
Joined(parts) == Buffer(Own, FlattenSeq(parts))

WordsCopied(ps) ==
  Plain(Joined([k \in DOMAIN ps |->
                  SubSeq(ps[k].values.cells, 1, ps[k].rows)]), {})

\* `words`: one chunk is lent as it arrived, several are put together.
Words(ps) ==
  IF Len(ps) = 1
    THEN Plain(ps[1].values, {ps[1].values.of})
    ELSE WordsCopied(ps)

BitsRebuilt(ps) ==
  Plain(Joined([k \in DOMAIN ps |->
          [r \in 1..ps[k].rows |-> ps[k].values.cells[ps[k].at + r]]]), {})

BitsLent(p) ==
  Described(Layout(p.values, (p.at \div Byte) * Byte, NoOffsets, FALSE),
            {p.values.of})

\* Mutant: one chunk is lent from the byte it starts in, wherever in it.
BitsFromTheByte(ps) ==
  IF Len(ps) = 1
    THEN BitsLent(ps[1])
    ELSE BitsRebuilt(ps)

\* `bits`: one chunk is lent when it starts on a byte.
Bits(ps) ==
  IF Len(ps) = 1 /\ ps[1].at % Byte = 0
    THEN BitsLent(ps[1])
    ELSE BitsRebuilt(ps)

\* Where the characters of a piece begin and end in its values.
From(p) == p.offsets.cells[1]
To(p)   == p.offsets.cells[p.rows + 1]
Characters(p) == SubSeq(p.values.cells, From(p) + 1, To(p))

\* Offsets built here are 32 bits wide, and refused past what those reach.
Narrow(data, at, cells, held) ==
  IF \E i \in DOMAIN cells : cells[i] > Reach
    THEN Refusal("reach")
    ELSE Described(Layout(data, at, Offsets(Own, FALSE, cells), FALSE), held)

\* One chunk of characters that start at the first of their buffer.
StringsLent(v, p) ==
  Described(Layout(p.values, 0, p.offsets, v.wide), {p.values.of, p.offsets.of})

\* One that does not: the characters stay, the offsets are counted from there.
Rebased(p) ==
  Narrow(p.values, From(p),
         [i \in 1..(p.rows + 1) |-> p.offsets.cells[i] - From(p)],
         {p.values.of})

Concatenated(ps) ==
  LET data == Joined([k \in DOMAIN ps |-> Characters(ps[k])])
      Before(k) == Len(FlattenSeq([j \in 1..(k - 1) |-> Characters(ps[j])]))
      Ends(k) == [r \in 1..ps[k].rows |->
                    ps[k].offsets.cells[r + 1] - From(ps[k]) + Before(k)]
  IN  Narrow(data, 0, <<0>> \o FlattenSeq([k \in DOMAIN ps |-> Ends(k)]), {})

\* Mutant: the characters under rebased offsets are pointed at and not held.
StringsUnheld(v, ps) ==
  IF Len(ps) > 1 THEN Concatenated(ps)
  ELSE IF From(ps[1]) = 0 THEN StringsLent(v, ps[1])
  ELSE [Rebased(ps[1]) EXCEPT !.held = {}]

\* `strings`.
Strings(v, ps) ==
  IF Len(ps) > 1 THEN Concatenated(ps)
  ELSE IF From(ps[1]) = 0 THEN StringsLent(v, ps[1])
  ELSE Rebased(ps[1])

\* `laid`: a column of no rows is an empty buffer of this module's own.
Laid(v) ==
  IF RowCount(v) = 0
    THEN Described(NoLayout, {})
    ELSE CASE v.elem = "words"   -> Words(Pieces(v))
           [] v.elem = "bits"    -> Bits(Pieces(v))
           [] v.elem = "strings" -> Strings(v, Pieces(v))

\* `values` and `packed`: a plain array is read into buffers of this module's
\* own, and says nothing when it is empty.
Packed(v) ==
  IF RowCount(v) = 0 THEN Refusal("empty")
  ELSE CASE v.elem = "words"   -> WordsCopied(Pieces(v))
         [] v.elem = "bits"    -> BitsRebuilt(Pieces(v))
         [] v.elem = "strings" -> Concatenated(Pieces(v))

\* `meaning`: the types of the caller's columns that have a layout here.
HasMeaning(v) == v.elem \in {"words", "bits", "strings"}

\* A column of an object is a typed array, described as one chunk of words is,
\* or an array of values.
ColumnOf(v) == IF v.shape = "plain" THEN Packed(v) ELSE Laid(v)

\* `read`, for the one column: what its type means, its holes, then where its
\* bytes are, and then whether it is as long as the column before it.
Describe(v) ==
  LET d == ColumnOf(v)
  IN  IF ~HasMeaning(v) THEN Refusal("type")
      ELSE IF HasHole(v) THEN Refusal("hole")
      ELSE IF d.why # "none" THEN d
      ELSE IF v.ragged THEN Refusal("ragged")
      ELSE d

-----------------------------------------------------------------------------
\* What the engine reads as row `r` of a layout; offsets read at the wrong
\* width are nobody's cells.
Garbage == <<<<0, 0>>>>

ReadRow(elem, l, r) ==
  IF elem # "strings" THEN <<l.data.cells[l.at + r]>>
  ELSE IF l.wide # l.offsets.wide THEN Garbage
  ELSE SubSeq(l.data.cells, l.at + l.offsets.cells[r] + 1,
              l.at + l.offsets.cells[r + 1])

\* The rows of the caller's vector, cell by cell.
RowsOf(v) ==
  LET Row(k, i) ==
        IF v.elem # "strings" THEN <<<<k, i>>>>
        ELSE [j \in 1..(Cuts[i + 1] - Cuts[i]) |-> <<k, Cuts[i] + j>>]
  IN  FlattenSeq([k \in DOMAIN v.chunks |->
        [r \in 1..v.chunks[k].rows |-> Row(k, v.chunks[k].from + r)]])
=============================================================================
