---------------------------- MODULE MCRegister ----------------------------
(***************************************************************************)
(* Every column of up to two chunks, each any slice of an array of three   *)
(* rows with at most one row that holds nothing, in bytes of two bits, so  *)
(* that slices start on and off a byte.  The first string of an array is   *)
(* empty, so that a slice may start a row in and no character in, and the  *)
(* offsets of two chunks together can reach too far.                       *)
(***************************************************************************)
EXTENDS Register

MCCuts == <<0, 0, 2, 3>>

Slices == {s \in [from : 0..Base, rows : 0..Base] : s.from + s.rows <= Base}

Chunks ==
  {[from |-> s.from, rows |-> s.rows, empty |-> e] :
     s \in Slices, e \in {{}, {2}, {3}}}

\* The first of two: a hole in it is before every row of the second.
Starts == {c \in Chunks : c.empty # {2} /\ c.rows > 0}

Chunking == {<<c>> : c \in Chunks} \cup
            {<<c, d>> : c \in Starts, d \in Chunks}

\* Wide offsets are told from narrow ones only where they are lent.
Arrow ==
  {[shape |-> "arrow", elem |-> elem, wide |-> wide, ragged |-> FALSE,
    chunks |-> cs] :
     elem \in {"words", "bits", "strings"}, wide \in BOOLEAN, cs \in Chunking}

\* A typed array, and an array of values, which start at their first row.
Arrays ==
  {[shape |-> shape, elem |-> elem, wide |-> FALSE, ragged |-> ragged,
    chunks |-> <<[from |-> 0, rows |-> rows, empty |-> {}]>>] :
     shape \in {"arrow", "plain"}, elem \in {"words", "bits", "strings", "other"},
     ragged \in BOOLEAN, rows \in 0..Base}

MCVectors ==
  Arrays \cup {v \in Arrow : v.wide => v.elem = "strings" /\ Len(v.chunks) = 1}
=============================================================================
