------------------------------ MODULE Register ------------------------------
(***************************************************************************)
(* Frames registered on a connection under a name (src/register.rs): the   *)
(* caller's columns are described on the loop's thread (Frame), registered *)
(* on the threadpool through `with`, read by statements where they lie,    *)
(* and let go of by unregister or with the connection.                     *)
(*                                                                         *)
(* The caller may write into an array of theirs at any time.  A registered *)
(* frame is to be a view of the array and not a snapshot of it, except for *)
(* the columns that have to be copied.                                     *)
(***************************************************************************)
EXTENDS Slot, Frame

CONSTANTS
  Registers,    \* calls of register()
  Unregisters,  \* calls of unregister()
  Names,        \* names that are asked for
  Tables,       \* those of them that are tables of the database
  Vectors       \* the columns that the caller may have

ASSUME RegisterAssumption ==
  /\ Registers \cap Unregisters = {}
  /\ Names # {}
  /\ Tables \subseteq Names
  /\ \A v \in Vectors : IsVector(v)

Calls == Registers \cup Unregisters

VARIABLES
  given,      \* the column the caller registers
  written,    \* which of its arrays the caller has written into since
  frames,     \* what the session has registered, by name
  pc,         \* where each call is
  named,      \* the name it was made with
  described,  \* what it read on the loop's thread
  answer,     \* what it was answered
  row         \* the row that answer named

vars ==
  <<alive, place, given, written, frames, pc, named, described, answer, row>>
conn == <<alive, place>>

Places  == {"new", "queued", "settled"}
Answers == {"none", "ok", "closed", "streaming", "hole", "reach", "ragged",
            "empty", "type", "table", "nothing", "refused"}

\* A description as it was read, with what the arrays held then.
Read(d, then) == [layout |-> d.layout, held |-> d.held, then |-> then]
NothingRead == Read(Refusal("none"), {})

Init ==
  /\ SlotInit
  /\ given \in Vectors
  /\ written = {}
  /\ frames = <<>>
  /\ pc = [c \in Calls |-> "new"]
  /\ named = [c \in Calls |-> CHOOSE n \in Names : TRUE]
  /\ described = [c \in Registers |-> NothingRead]
  /\ answer = [c \in Calls |-> "none"]
  /\ row = [c \in Registers |-> 0]

Settle(c, what) ==
  /\ pc' = [pc EXCEPT ![c] = "settled"]
  /\ answer' = [answer EXCEPT ![c] = what]

-----------------------------------------------------------------------------
\* `register()`: whether the connection is open, and then the frame itself,
\* are read on the loop's thread.
CallRegister(c, n) ==
  /\ pc[c] = "new"
  /\ named' = [named EXCEPT ![c] = n]
  /\ LET d == Describe(given)
     IN  \/ /\ ~alive
            /\ Settle(c, "closed")
            /\ UNCHANGED <<described, row>>
         \/ /\ alive
            /\ d.why # "none"
            /\ Settle(c, d.why)
            /\ row' = [row EXCEPT ![c] =
                         IF d.why = "hole" THEN HoleAt(given) ELSE 0]
            /\ UNCHANGED described
         \/ /\ alive
            /\ d.why = "none"
            /\ described' = [described EXCEPT ![c] = Read(d, written)]
            /\ pc' = [pc EXCEPT ![c] = "queued"]
            /\ UNCHANGED <<answer, row>>
  /\ UNCHANGED <<conn, given, written, frames>>

With(n, frame) ==
  [m \in DOMAIN frames \cup {n} |-> IF m = n THEN frame ELSE frames[m]]
Without(n) == [m \in DOMAIN frames \ {n} |-> frames[m]]

\* `RegisterTask::run`: a table is not hidden, a frame of that name is replaced,
\* and the engine has its own refusals, such as a transaction.
RunRegister(c) ==
  /\ pc[c] = "queued"
  /\ \/ /\ place # "slot"
        /\ Settle(c, NotHere)
        /\ UNCHANGED frames
     \/ /\ place = "slot"
        /\ named[c] \in Tables
        /\ Settle(c, "table")
        /\ UNCHANGED frames
     \/ /\ place = "slot"
        /\ named[c] \notin Tables
        /\ \/ frames' = With(named[c], described[c]) /\ Settle(c, "ok")
           \/ Settle(c, "refused") /\ UNCHANGED frames
  /\ described' = [described EXCEPT ![c] = NothingRead]
  /\ UNCHANGED <<conn, given, written, named, row>>

CallUnregister(c, n) ==
  /\ pc[c] = "new"
  /\ named' = [named EXCEPT ![c] = n]
  /\ IF alive THEN pc' = [pc EXCEPT ![c] = "queued"] /\ UNCHANGED answer
              ELSE Settle(c, "closed")
  /\ UNCHANGED <<conn, given, written, frames, described, row>>

RunUnregister(c) ==
  /\ pc[c] = "queued"
  /\ \/ /\ place # "slot"
        /\ Settle(c, NotHere)
        /\ UNCHANGED frames
     \/ /\ place = "slot"
        /\ named[c] \in DOMAIN frames
        /\ frames' = Without(named[c])
        /\ Settle(c, "ok")
     \/ /\ place = "slot"
        /\ named[c] \notin DOMAIN frames
        /\ Settle(c, "nothing")
        /\ UNCHANGED frames
  /\ UNCHANGED <<conn, given, written, named, described, row>>

\* The caller writes into an array they still have.  What was written before a
\* call is what the array holds when it is described.
Write(k) ==
  /\ \E c \in Registers : pc[c] # "new"
  /\ k \notin written
  /\ written' = written \cup {k}
  /\ UNCHANGED <<conn, given, frames, pc, named, described, answer, row>>

\* The connection underneath; a session takes its frames with it.
Underneath ==
  /\ SlotNext
  /\ frames' = IF place' = "gone" THEN <<>> ELSE frames
  /\ UNCHANGED <<given, written, pc, named, described, answer, row>>

Next ==
  \/ \E n \in Names : \/ \E c \in Registers : CallRegister(c, n)
                      \/ \E c \in Unregisters : CallUnregister(c, n)
  \/ \E c \in Registers : RunRegister(c)
  \/ \E c \in Unregisters : RunUnregister(c)
  \/ \E k \in DOMAIN given.chunks : Write(k)
  \/ Underneath

Spec == Init /\ [][Next]_vars

-----------------------------------------------------------------------------
(***************************************************************************)
(* The types of the state, and that a frame never takes the name of a      *)
(* table of the database.                                                  *)
(***************************************************************************)
TypeOK ==
  /\ alive \in BOOLEAN
  /\ place \in {"slot", "lent", "gone"}
  /\ written \subseteq DOMAIN given.chunks
  /\ DOMAIN frames \subseteq Names \ Tables
  /\ pc \in [Calls -> Places]
  /\ named \in [Calls -> Names]
  /\ answer \in [Calls -> Answers]
  /\ row \in [Registers -> 0..RowCount(given)]

\* What a statement reads from a frame: each cell, and whether it has what the
\* caller wrote since.  A lent buffer is read now, a copy was read then.
Answered(f) ==
  LET Now == IF Lent(f.layout.data) THEN written ELSE f.then
      Seen(cells) == [i \in DOMAIN cells |-> <<cells[i], cells[i][1] \in Now>>]
  IN  [r \in 1..RowCount(given) |-> Seen(ReadRow(given.elem, f.layout, r))]

\* What it ought to read: a column in one run of bytes is a view, and one that
\* is in several, or in an array of values, or off a byte, is a copy.
IsView ==
  /\ given.shape # "plain"
  /\ Len(given.chunks) = 1
  /\ given.elem = "bits" => given.chunks[1].from % Byte = 0

Expected(f) ==
  LET Now == IF IsView THEN written ELSE f.then
      Seen(cells) == [i \in DOMAIN cells |-> <<cells[i], cells[i][1] \in Now>>]
      rows == RowsOf(given)
  IN  [r \in DOMAIN rows |-> Seen(rows[r])]

(***************************************************************************)
(* A statement over a registered frame reads exactly the caller's rows, in *)
(* order, whatever slices and chunks the column came in, and sees what the *)
(* caller has written since where the frame is a view.                     *)
(***************************************************************************)
AnswersTheRows ==
  \A n \in DOMAIN frames : Answered(frames[n]) = Expected(frames[n])

(***************************************************************************)
(* Whatever a description points at is held by it, from the call until its *)
(* name is taken away: nothing the runtime may collect is read through it. *)
(***************************************************************************)
PointsOnlyAtHeld ==
  LET Points(f) == {f.layout.data.of, f.layout.offsets.of} \ {Own}
  IN  /\ \A n \in DOMAIN frames : Points(frames[n]) \subseteq frames[n].held
      /\ \A c \in Registers : Points(described[c]) \subseteq described[c].held

\* The rows of the caller's column that hold nothing, by their own count.
EmptyRows ==
  {r \in 1..RowCount(given) :
     \E k \in DOMAIN given.chunks : \E i \in given.chunks[k].empty :
       /\ i > given.chunks[k].from
       /\ r = RowsBefore(given, k) + i - given.chunks[k].from
       /\ r <= RowsBefore(given, k) + given.chunks[k].rows}

(***************************************************************************)
(* A column with a hole in it is refused by the row of its first one, and  *)
(* one with holes only outside its slices is not refused for them.         *)
(***************************************************************************)
HolesAreNamed ==
  /\ EmptyRows # {} => frames = <<>>
  /\ \A c \in Registers :
       answer[c] = "hole" =>
         row[c] \in EmptyRows /\ \A r \in EmptyRows : row[c] <= r
=============================================================================
