------------------------------- MODULE Cancel -------------------------------
(***************************************************************************)
(* An `AbortSignal` and the statement it is meant to stop (src/cancel.rs). *)
(*                                                                         *)
(* The engine's interrupt is one word per CONNECTION, read by the running  *)
(* statement at every boundary, so a stop has to be raised for the right   *)
(* statement, and none may be lost.  The listener runs on the loop's       *)
(* thread, the statement on another one, and they share two words:         *)
(*   - the listener sets `asked`, then reads `running`;                    *)
(*   - the statement sets `running`, then reads `asked`.                   *)
(*                                                                         *)
(* Each step is one access to one word (all of them are SeqCst).  `owner`  *)
(* is who has the engine connection: the lock `with` holds, or the slot a  *)
(* stream emptied; Connection.tla is about that part.  The engine is       *)
(* outside this repository: it may end a statement any way and at any      *)
(* time, or never, and it ends one at a boundary when it reads its word.   *)
(***************************************************************************)
CONSTANTS
  Statements,   \* the statements asked for on one connection
  Watched,      \* those that were given a signal
  NoOne         \* nobody

ASSUME WatchedAssumption ==
  /\ Watched \subseteq Statements
  /\ NoOne \notin Statements

VARIABLES
  asked,      \* per statement: its signal fired
  running,    \* per statement: it may be stopped
  interrupt,  \* the engine's word, one for the connection
  owner,      \* the statement the connection belongs to now
  listener,   \* per statement: where the listener on its signal is
  loop,       \* the statement whose listener the loop's thread is inside
  pc,         \* per statement: where it is
  result,     \* per statement: what it ended as
  landed      \* history: whom the interrupt that is up was raised upon

vars == <<asked, running, interrupt, owner, listener, loop, pc, result, landed>>

Places == {"new", "queued", "holding", "begun", "raised", "engine",
           "leaving", "lowered", "cleared", "answered", "done"}

Results == {"none", "ok", "error", "interrupted", "aborted"}

\* A statement that has put the interrupt down and not yet let go.
Begun == {"begun", "raised", "engine", "leaving", "lowered", "cleared"}

Goto(s, place) == pc' = [pc EXCEPT ![s] = place]

Init ==
  /\ asked = [s \in Statements |-> FALSE]
  /\ running = [s \in Statements |-> FALSE]
  /\ interrupt = FALSE
  /\ owner = NoOne
  /\ listener = [s \in Statements |-> "none"]
  /\ loop = NoOne
  /\ pc = [s \in Statements |-> "new"]
  /\ result = [s \in Statements |-> "none"]
  /\ landed = NoOne

-----------------------------------------------------------------------------
(***************************************************************************)
(* The call, on the loop's thread.  `Watch::new` seeds `asked` with the    *)
(* signal's own `aborted`; a signal that fired already never fires again.  *)
(***************************************************************************)
Watch(s, fired) ==
  /\ loop = NoOne
  /\ pc[s] = "new"
  /\ fired => s \in Watched
  /\ asked' = [asked EXCEPT ![s] = fired]
  /\ listener' = [listener EXCEPT ![s] =
       IF s \in Watched THEN (IF fired THEN "fired" ELSE "armed") ELSE "none"]
  /\ Goto(s, "queued")
  /\ UNCHANGED <<running, interrupt, owner, loop, result, landed>>

\* The connection is had by one statement at a time.
Acquire(s) ==
  /\ pc[s] = "queued"
  /\ owner = NoOne
  /\ owner' = s
  /\ Goto(s, "holding")
  /\ UNCHANGED <<asked, running, interrupt, listener, loop, result, landed>>

\* Mutant: what was raised before the statement began stays up.
BeganAsItIs(s) ==
  /\ pc[s] = "holding"
  /\ Goto(s, "begun")
  /\ UNCHANGED <<asked, running, interrupt, owner, listener, loop, result, landed>>

\* `began`: whatever was raised before now was not meant for this statement.
Began(s) ==
  /\ pc[s] = "holding"
  /\ interrupt' = FALSE
  /\ landed' = NoOne
  /\ Goto(s, "begun")
  /\ UNCHANGED <<asked, running, owner, listener, loop, result>>

\* `enter`, first half.  A statement nobody watches goes straight to the engine.
Raise(s) ==
  /\ pc[s] = "begun"
  /\ IF s \in Watched
       THEN running' = [running EXCEPT ![s] = TRUE] /\ Goto(s, "raised")
       ELSE Goto(s, "engine") /\ UNCHANGED running
  /\ UNCHANGED <<asked, interrupt, owner, listener, loop, result, landed>>

\* Mutant: the statement does not look whether it was asked to stop already.
EnterBlind(s) ==
  /\ pc[s] = "raised"
  /\ Goto(s, "engine")
  /\ UNCHANGED <<asked, running, interrupt, owner, listener, loop, result, landed>>

\* `enter`, second half: a signal that fired first ends the statement here.
Enter(s) ==
  /\ pc[s] = "raised"
  /\ IF asked[s]
       THEN result' = [result EXCEPT ![s] = "aborted"] /\ Goto(s, "leaving")
       ELSE Goto(s, "engine") /\ UNCHANGED result
  /\ UNCHANGED <<asked, running, interrupt, owner, listener, loop, landed>>

-----------------------------------------------------------------------------
Finish(s) ==
  /\ pc[s] = "engine"
  /\ result' \in {[result EXCEPT ![s] = r] : r \in {"ok", "error"}}
  /\ Goto(s, "leaving")
  /\ UNCHANGED <<asked, running, interrupt, owner, listener, loop, landed>>

Boundary(s) ==
  /\ pc[s] = "engine"
  /\ interrupt
  /\ result' = [result EXCEPT ![s] = "interrupted"]
  /\ Goto(s, "leaving")
  /\ UNCHANGED <<asked, running, interrupt, owner, listener, loop, landed>>

-----------------------------------------------------------------------------
\* `leave`, first half: a signal that fires from here on raises nothing.
Lower(s) ==
  /\ pc[s] = "leaving"
  /\ IF s \in Watched
       THEN running' = [running EXCEPT ![s] = FALSE] /\ Goto(s, "lowered")
       ELSE Goto(s, "cleared") /\ UNCHANGED running
  /\ UNCHANGED <<asked, interrupt, owner, listener, loop, result, landed>>

\* `leave`, second half: what landed between the end and the flag is put down.
Clear(s) ==
  /\ pc[s] = "lowered"
  /\ interrupt' = FALSE
  /\ landed' = NoOne
  /\ Goto(s, "cleared")
  /\ UNCHANGED <<asked, running, owner, listener, loop, result>>

\* An interrupt is an abort if this statement's own signal asked for it; the
\* connection is let go.
Classify(s) ==
  /\ pc[s] = "cleared"
  /\ result' = [result EXCEPT ![s] =
       IF @ = "interrupted" /\ asked[s] THEN "aborted" ELSE @]
  /\ owner' = NoOne
  /\ Goto(s, "answered")
  /\ UNCHANGED <<asked, running, interrupt, listener, loop, landed>>

\* The promise settles and `finally` takes the listener off the signal.
Release(s) ==
  /\ loop = NoOne
  /\ pc[s] = "answered"
  /\ listener' = [listener EXCEPT ![s] = IF @ = "armed" THEN "off" ELSE @]
  /\ Goto(s, "done")
  /\ UNCHANGED <<asked, running, interrupt, owner, loop, result, landed>>

-----------------------------------------------------------------------------
(***************************************************************************)
(* The listener, `Shared::ask`, on the loop's thread.                      *)
(***************************************************************************)
Fire(s) ==
  /\ loop = NoOne
  /\ listener[s] = "armed"
  /\ asked' = [asked EXCEPT ![s] = TRUE]
  /\ listener' = [listener EXCEPT ![s] = "asking"]
  /\ loop' = s
  /\ UNCHANGED <<running, interrupt, owner, pc, result, landed>>

\* Mutant: the listener reads `running` and stops nothing.
LookAway(s) ==
  /\ listener[s] = "asking"
  /\ listener' = [listener EXCEPT ![s] = "fired"]
  /\ loop' = NoOne
  /\ UNCHANGED <<asked, running, interrupt, owner, pc, result, landed>>

Look(s) ==
  /\ listener[s] = "asking"
  /\ IF running[s]
       THEN listener' = [listener EXCEPT ![s] = "stopping"] /\ UNCHANGED loop
       ELSE listener' = [listener EXCEPT ![s] = "fired"] /\ loop' = NoOne
  /\ UNCHANGED <<asked, running, interrupt, owner, pc, result, landed>>

Stop(s) ==
  /\ listener[s] = "stopping"
  /\ interrupt' = TRUE
  /\ landed' = IF owner # NoOne /\ pc[owner] \in Begun THEN owner ELSE NoOne
  /\ listener' = [listener EXCEPT ![s] = "fired"]
  /\ loop' = NoOne
  /\ UNCHANGED <<asked, running, owner, pc, result>>

-----------------------------------------------------------------------------
\* What the statement does on its own, once the connection is its own.
OwnStep(s) ==
  \/ Began(s) \/ Raise(s) \/ Enter(s) \/ Boundary(s)
  \/ Lower(s) \/ Clear(s) \/ Classify(s)

ListenerStep(s) == Look(s) \/ Stop(s)

Next ==
  \E s \in Statements :
    \/ \E fired \in BOOLEAN : Watch(s, fired)
    \/ Acquire(s) \/ OwnStep(s) \/ Finish(s) \/ Release(s)
    \/ Fire(s) \/ ListenerStep(s)

Spec == Init /\ [][Next]_vars

(***************************************************************************)
(* Threads run.  The engine is fair only in reading its word: a statement  *)
(* nobody stops may take for ever, and a signal may never fire.            *)
(***************************************************************************)
Fairness ==
  \A s \in Statements : WF_vars(OwnStep(s)) /\ WF_vars(ListenerStep(s))

FairSpec == Spec /\ Fairness

-----------------------------------------------------------------------------
TypeOK ==
  /\ asked \in [Statements -> BOOLEAN]
  /\ running \in [Statements -> BOOLEAN]
  /\ interrupt \in BOOLEAN
  /\ owner \in Statements \cup {NoOne}
  /\ listener \in [Statements ->
       {"none", "armed", "asking", "stopping", "fired", "off"}]
  /\ loop \in Statements \cup {NoOne}
  /\ pc \in [Statements -> Places]
  /\ result \in [Statements -> Results]
  /\ landed \in Statements \cup {NoOne}

(***************************************************************************)
(* No stop is lost: a statement the engine is running although its signal  *)
(* fired has the interrupt up, or a listener on its way to raise it.  An   *)
(* ordering where neither half sees the other is the one that is excluded. *)
(***************************************************************************)
StopNotLost ==
  \A s \in Statements :
    pc[s] = "engine" /\ asked[s] =>
      interrupt \/ listener[s] \in {"asking", "stopping"}

(***************************************************************************)
(* No stop outlives what it was raised upon: an interrupt that is up while *)
(* the engine runs a statement was raised after that statement began.      *)
(***************************************************************************)
NoStaleStop ==
  \A s \in Statements : pc[s] = "engine" /\ interrupt => landed = s

(***************************************************************************)
(* A stop ends the statement it was meant for and no other: a statement    *)
(* nobody asked to stop is never interrupted.                              *)
(***************************************************************************)
OnlyTheAskedAreInterrupted ==
  \A s \in Statements : result[s] = "interrupted" => asked[s]

(***************************************************************************)
(* A signal that fires while its statement has the connection makes the    *)
(* statement let go of it, even one that would otherwise run for ever.     *)
(***************************************************************************)
AskedStatementsLetGo ==
  \A s \in Statements : asked[s] /\ owner = s ~> owner # s
=============================================================================
