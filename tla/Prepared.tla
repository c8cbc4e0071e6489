------------------------------ MODULE Prepared ------------------------------
(***************************************************************************)
(* Prepared statements as objects (src/prepared.rs): an id pinned in the   *)
(* session, the `open` word beside it, runs that read the word on the      *)
(* loop's thread and the id on the threadpool, and closes that turn the    *)
(* word off and give the id back through `with`.                           *)
(*                                                                         *)
(* An id is never used twice by a session, and the session that held it    *)
(* goes with its connection.                                               *)
(***************************************************************************)
EXTENDS Slot

CONSTANTS
  Prepareds,   \* calls of prepare(), and the objects they resolve to
  Runs,        \* calls of query, exec, columnar and arrow
  Closes,      \* calls of close() and dispose()
  None         \* no prepared statement

ASSUME PreparedAssumption ==
  /\ Runs \cap Closes = {}
  /\ None \notin Prepareds

Calls == Runs \cup Closes

VARIABLES
  made,     \* what became of each prepare()
  pinned,   \* the ids the session holds
  open,     \* each statement's `open` word
  pc,       \* where each call is
  on,       \* the statement it was made on
  answer    \* what it was answered

vars == <<alive, place, made, pinned, open, pc, on, answer>>
calls == <<pc, on, answer>>

Made    == {"new", "called", "failed", "made"}
Places  == {"new", "queued", "giving", "settled"}
\* "missed" is told to the caller as "ok": what `with` answered was dropped.
Answers == {"none", "ok", "missed", "finished", "closed", "streaming", "unknown"}

Init ==
  /\ SlotInit
  /\ made = [p \in Prepareds |-> "new"]
  /\ pinned = {}
  /\ open = [p \in Prepareds |-> FALSE]
  /\ pc = [c \in Calls |-> "new"]
  /\ on = [c \in Calls |-> None]
  /\ answer = [c \in Calls |-> "none"]

Settle(c, what) ==
  /\ pc' = [pc EXCEPT ![c] = "settled"]
  /\ answer' = [answer EXCEPT ![c] = what]

-----------------------------------------------------------------------------
\* `prepare()`, refused on the loop's thread when the connection is closed.
Prepare(p) ==
  /\ made[p] = "new"
  /\ made' = [made EXCEPT ![p] = IF alive THEN "called" ELSE "failed"]
  /\ UNCHANGED <<alive, place, pinned, open, calls>>

\* The engine pins it, or it is not a statement, or the connection is away.
Compile(p) ==
  /\ made[p] = "called"
  /\ \/ /\ place = "slot"
        /\ made' = [made EXCEPT ![p] = "made"]
        /\ pinned' = pinned \cup {p}
        /\ open' = [open EXCEPT ![p] = TRUE]
     \/ /\ made' = [made EXCEPT ![p] = "failed"]
        /\ UNCHANGED <<pinned, open>>
  /\ UNCHANGED <<alive, place, calls>>

-----------------------------------------------------------------------------
\* A run reads both words on the loop's thread, the statement's own first.
Issue(r, p) ==
  /\ pc[r] = "new"
  /\ made[p] = "made"
  /\ on' = [on EXCEPT ![r] = p]
  /\ IF open[p] /\ alive
       THEN pc' = [pc EXCEPT ![r] = "queued"] /\ UNCHANGED answer
       ELSE Settle(r, IF open[p] THEN "closed" ELSE "finished")
  /\ UNCHANGED <<alive, place, made, pinned, open>>

\* The pool runs it by its id, which a close may have given back since.
Run(r) ==
  /\ pc[r] = "queued"
  /\ Settle(r, IF place # "slot" THEN NotHere
               ELSE IF on[r] \in pinned THEN "ok" ELSE "unknown")
  /\ UNCHANGED <<alive, place, made, pinned, open, on>>

-----------------------------------------------------------------------------
IssueClose(c, p) ==
  /\ pc[c] = "new"
  /\ made[p] = "made"
  /\ pc' = [pc EXCEPT ![c] = "queued"]
  /\ on' = [on EXCEPT ![c] = p]
  /\ UNCHANGED <<alive, place, made, pinned, open, answer>>

\* Mutant: the word is read and not turned off.
TurnNothingOff(c) ==
  /\ pc[c] = "queued"
  /\ IF open[on[c]]
       THEN pc' = [pc EXCEPT ![c] = "giving"] /\ UNCHANGED answer
       ELSE Settle(c, "ok")
  /\ UNCHANGED <<alive, place, made, pinned, open, on>>

\* The close that turns the word off is the one that gives the id back.
TurnWordOff(c) ==
  /\ pc[c] = "queued"
  /\ IF open[on[c]]
       THEN /\ open' = [open EXCEPT ![on[c]] = FALSE]
            /\ pc' = [pc EXCEPT ![c] = "giving"]
            /\ UNCHANGED answer
       ELSE Settle(c, "ok") /\ UNCHANGED open
  /\ UNCHANGED <<alive, place, made, pinned, on>>

\* Mutant: the close forgets to give the id back.
UnpinNothing(c) ==
  /\ pc[c] = "giving"
  /\ Settle(c, "ok")
  /\ UNCHANGED <<alive, place, made, pinned, open, on>>

\* Whatever `with` answers is dropped, and the close says that it is done.
Unpin(c) ==
  /\ pc[c] = "giving"
  /\ IF place = "slot"
       THEN pinned' = pinned \ {on[c]} /\ Settle(c, "ok")
       ELSE Settle(c, "missed") /\ UNCHANGED pinned
  /\ UNCHANGED <<alive, place, made, open, on>>

-----------------------------------------------------------------------------
\* The connection underneath, whose session goes with it.
Dropped == pinned' = IF place' = "gone" THEN {} ELSE pinned

Lend    == TakenOut /\ UNCHANGED <<made, pinned, open, calls>>
Return  == GivenBack /\ Dropped /\ UNCHANGED <<made, open, calls>>
TurnOff == TurnedOff /\ UNCHANGED <<made, pinned, open, calls>>
Empty   == Emptied /\ Dropped /\ UNCHANGED <<made, open, calls>>

Next ==
  \/ \E p \in Prepareds : Prepare(p) \/ Compile(p)
  \/ \E r \in Runs : Run(r) \/ \E p \in Prepareds : Issue(r, p)
  \/ \E c \in Closes : \/ TurnWordOff(c) \/ Unpin(c)
                       \/ \E p \in Prepareds : IssueClose(c, p)
  \/ Lend \/ Return \/ TurnOff \/ Empty

Spec == Init /\ [][Next]_vars

-----------------------------------------------------------------------------
TypeOK ==
  /\ alive \in BOOLEAN
  /\ place \in {"slot", "lent", "gone"}
  /\ made \in [Prepareds -> Made]
  /\ pinned \subseteq Prepareds
  /\ open \in [Prepareds -> BOOLEAN]
  /\ pc \in [Calls -> Places]
  /\ on \in [Calls -> Prepareds \cup {None}]
  /\ answer \in [Calls -> Answers]

\* A close of this statement has been asked for and has not given it back.
BeingClosed(p) == \E c \in Closes : on[c] = p /\ pc[c] \in {"queued", "giving"}

(***************************************************************************)
(* A statement that says it is open is pinned for as long as its           *)
(* connection is: a run is never told its id is unknown unless a close of  *)
(* that same statement overtook it on the pool.                            *)
(***************************************************************************)
OpenIsPinned ==
  /\ \A p \in Prepareds : open[p] /\ place # "gone" => p \in pinned
  /\ \A r \in Runs : answer[r] = "unknown" => ~open[on[r]]

(***************************************************************************)
(* A close that found the connection in its slot has given the id back,    *)
(* whatever raced it: nothing is pinned for a statement that is closed and *)
(* that nobody is at the closing of any more.                              *)
(***************************************************************************)
ClosedGivesBack ==
  \A p \in Prepareds :
    made[p] = "made" /\ ~open[p] /\ ~BeingClosed(p) =>
      p \notin pinned \/ \E c \in Closes : on[c] = p /\ answer[c] = "missed"

=============================================================================
