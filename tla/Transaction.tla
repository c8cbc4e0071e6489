---------------------------- MODULE Transaction ----------------------------
(***************************************************************************)
(* Transactions as objects (src/txn.rs): a handle per `transaction()`, and *)
(* the calls that end one, each a task of the threadpool that claims the   *)
(* handle's `done` word before it runs its statement.                      *)
(*                                                                         *)
(* The connection is what Slot says of it, and a statement is one step:    *)
(* what `with` finds in the slot stays there until it is over.             *)
(*                                                                         *)
(* The engine keeps one transaction per session, refuses to start one      *)
(* inside another and to end one that is not there, and may refuse a       *)
(* statement for reasons of its own, which leaves the transaction open.    *)
(***************************************************************************)
EXTENDS Slot

CONSTANTS
  Handles,   \* calls of transaction(), and the objects they resolve to
  Ends,      \* calls of commit(), rollback() and dispose()
  None,      \* no transaction, no handle
  ByHand,    \* a transaction whose statements the caller writes out
  Raw        \* whether the caller writes such statements at all

ASSUME TransactionAssumption ==
  /\ None \notin Handles
  /\ ByHand \notin Handles \cup {None}
  /\ Raw \in BOOLEAN

VARIABLES
  open,     \* whose transaction the session is inside
  fate,     \* what became of each handle's transaction
  done,     \* each handle's `done` word
  pc,       \* where each call is
  of,       \* the handle it was called on
  word,     \* the word it was called as
  answer,   \* what it was answered
  ended     \* whose transaction its statement ended

vars == <<alive, place, open, fate, done, pc, of, word, answer, ended>>
calls == <<pc, of, word, answer, ended>>

Words   == {"commit", "rollback", "dispose"}
Answers == {"none", "ok", "ended", "closed", "streaming", "refused"}
Fates   == {"new", "called", "failed", "open", "committed", "undone", "by hand"}
Places  == {"new", "issued", "claimed", "running", "giving", "settled"}

Init ==
  /\ SlotInit
  /\ open = None
  /\ fate = [h \in Handles |-> "new"]
  /\ done = [h \in Handles |-> FALSE]
  /\ pc = [e \in Ends |-> "new"]
  /\ of = [e \in Ends |-> None]
  /\ word = [e \in Ends |-> "dispose"]
  /\ answer = [e \in Ends |-> "none"]
  /\ ended = [e \in Ends |-> None]

\* The session's transaction ends this way, and a handle's has that fate.
Close(outcome) ==
  /\ open' = None
  /\ fate' = [h \in Handles |-> IF h = open THEN outcome ELSE fate[h]]

Settle(e, what) ==
  /\ pc' = [pc EXCEPT ![e] = "settled"]
  /\ answer' = [answer EXCEPT ![e] = what]

-----------------------------------------------------------------------------
\* `transaction()`, refused on the loop's thread when the connection is closed.
Call(h) ==
  /\ fate[h] = "new"
  /\ fate' = [fate EXCEPT ![h] = IF alive THEN "called" ELSE "failed"]
  /\ UNCHANGED <<alive, place, open, done, calls>>

\* START TRANSACTION, and the handle, with its own `done` word.
Start(h) ==
  /\ fate[h] = "called"
  /\ \/ /\ place = "slot"
        /\ open = None
        /\ open' = h
        /\ fate' = [fate EXCEPT ![h] = "open"]
        /\ done' = [done EXCEPT ![h] = FALSE]
     \/ /\ fate' = [fate EXCEPT ![h] = "failed"]
        /\ UNCHANGED <<open, done>>
  /\ UNCHANGED <<alive, place, calls>>

\* The same three statements, written out on the same connection.
StartByHand ==
  /\ Raw
  /\ place = "slot"
  /\ open = None
  /\ open' = ByHand
  /\ UNCHANGED <<alive, place, fate, done, calls>>

EndByHand ==
  /\ Raw
  /\ place = "slot"
  /\ open # None
  /\ Close("by hand")
  /\ UNCHANGED <<alive, place, done, calls>>

-----------------------------------------------------------------------------
\* commit(), rollback() or dispose() on a handle that was handed out.
Issue(e, h, w) ==
  /\ pc[e] = "new"
  /\ fate[h] \in {"open", "committed", "undone", "by hand"}
  /\ pc' = [pc EXCEPT ![e] = "issued"]
  /\ of' = [of EXCEPT ![e] = h]
  /\ word' = [word EXCEPT ![e] = w]
  /\ UNCHANGED <<alive, place, open, fate, done, answer, ended>>

\* Mutant: `done` is read and set for the look of it, and refuses nobody.
ClaimShared(e) ==
  /\ pc[e] = "issued"
  /\ done' = [done EXCEPT ![of[e]] = TRUE]
  /\ pc' = [pc EXCEPT ![e] = IF word[e] = "dispose" THEN "claimed" ELSE "running"]
  /\ UNCHANGED <<alive, place, open, fate, of, word, answer, ended>>

(***************************************************************************)
(* The claim comes before the statement.  Losing it says nothing of a      *)
(* disposal and refuses the other two words.                               *)
(***************************************************************************)
Claim(e) ==
  /\ pc[e] = "issued"
  /\ IF done[of[e]]
       THEN /\ Settle(e, IF word[e] = "dispose" THEN "ok" ELSE "ended")
            /\ UNCHANGED done
       ELSE /\ done' = [done EXCEPT ![of[e]] = TRUE]
            /\ pc' = [pc EXCEPT ![e] = IF word[e] = "dispose" THEN "claimed"
                                                               ELSE "running"]
            /\ UNCHANGED answer
  /\ UNCHANGED <<alive, place, open, fate, of, word, ended>>

\* A disposal on a closed connection has nothing left to undo.
Look(e) ==
  /\ pc[e] = "claimed"
  /\ IF alive
       THEN pc' = [pc EXCEPT ![e] = "running"] /\ UNCHANGED answer
       ELSE Settle(e, "ok")
  /\ UNCHANGED <<alive, place, open, fate, done, of, word, ended>>

\* Mutant: the statement of a disposal is the one of a commit.
FinishKeeping(e) ==
  /\ pc[e] = "running"
  /\ place = "slot"
  /\ open # None
  /\ ended' = [ended EXCEPT ![e] = open]
  /\ Close(IF word[e] = "rollback" THEN "undone" ELSE "committed")
  /\ Settle(e, "ok")
  /\ UNCHANGED <<alive, place, done, of, word>>

\* The statement went through, and ended the transaction the session was in.
Finish(e) ==
  /\ pc[e] = "running"
  /\ place = "slot"
  /\ open # None
  /\ ended' = [ended EXCEPT ![e] = open]
  /\ Close(IF word[e] = "commit" THEN "committed" ELSE "undone")
  /\ Settle(e, "ok")
  /\ UNCHANGED <<alive, place, done, of, word>>

\* It did not: no connection to run it on, or the engine refused it.
Fail(e) ==
  /\ pc[e] = "running"
  /\ pc' = [pc EXCEPT ![e] = "giving"]
  /\ answer' = [answer EXCEPT ![e] = IF place = "slot" THEN "refused"
                                                         ELSE NotHere]
  /\ UNCHANGED <<alive, place, open, fate, done, of, word, ended>>

\* Mutant: a statement that did not go through keeps the claim.
GiveNothing(e) ==
  /\ pc[e] = "giving"
  /\ pc' = [pc EXCEPT ![e] = "settled"]
  /\ UNCHANGED <<alive, place, open, fate, done, of, word, answer, ended>>

\* The claim is given back, so that the caller can still end it.
GiveBack(e) ==
  /\ pc[e] = "giving"
  /\ done' = [done EXCEPT ![of[e]] = FALSE]
  /\ pc' = [pc EXCEPT ![e] = "settled"]
  /\ UNCHANGED <<alive, place, open, fate, of, word, answer, ended>>

-----------------------------------------------------------------------------
(***************************************************************************)
(* The connection underneath.  One that is dropped undoes the transaction  *)
(* its session was inside.                                                 *)
(***************************************************************************)
Lend == TakenOut /\ UNCHANGED <<open, fate, done, calls>>

Return ==
  /\ GivenBack
  /\ IF alive THEN UNCHANGED <<open, fate>> ELSE Close("undone")
  /\ UNCHANGED <<done, calls>>

TurnOff == TurnedOff /\ UNCHANGED <<open, fate, done, calls>>

Empty ==
  /\ Emptied
  /\ Close("undone")
  /\ UNCHANGED <<done, calls>>

-----------------------------------------------------------------------------
EndStep(e) == Claim(e) \/ Look(e) \/ Finish(e) \/ Fail(e) \/ GiveBack(e)

Next ==
  \/ \E h \in Handles : Call(h) \/ Start(h)
  \/ StartByHand \/ EndByHand
  \/ \E e \in Ends : \/ \E h \in Handles, w \in Words : Issue(e, h, w)
                     \/ EndStep(e)
  \/ Lend \/ Return \/ TurnOff \/ Empty

Spec == Init /\ [][Next]_vars

\* A task the pool has runs to its end; a close does, and ends a stream.
Fairness ==
  /\ \A e \in Ends : WF_vars(EndStep(e))
  /\ WF_vars(Empty)
  /\ WF_vars(~alive /\ Return)

FairSpec == Spec /\ Fairness

-----------------------------------------------------------------------------
TypeOK ==
  /\ alive \in BOOLEAN
  /\ place \in {"slot", "lent", "gone"}
  /\ open \in Handles \cup {None, ByHand}
  /\ fate \in [Handles -> Fates]
  /\ done \in [Handles -> BOOLEAN]
  /\ pc \in [Ends -> Places]
  /\ of \in [Ends -> Handles \cup {None}]
  /\ word \in [Ends -> Words]
  /\ answer \in [Ends -> Answers]
  /\ ended \in [Ends -> Handles \cup {None, ByHand}]

\* The call holds the claim of its handle.
Claiming(e) == pc[e] \in {"claimed", "running", "giving"}

(***************************************************************************)
(* Two words issued together never both run: one call at a time holds the  *)
(* claim, and at most one call ever ends the transaction of a handle.      *)
(***************************************************************************)
EndedOnce ==
  \A e1, e2 \in Ends :
    /\ e1 # e2
    /\ of[e1] = of[e2]
    /\ Claiming(e1) \/ ended[e1] # None
    => ~Claiming(e2) /\ ended[e2] = None

(***************************************************************************)
(* A call ends the transaction it was called on and no other, for a caller *)
(* who never ends a handle's transaction by hand: a handle does not hear   *)
(* of that, and its disposal rolls back whatever the session is in then.   *)
(***************************************************************************)
EndsOnlyItsOwn ==
  (\E e \in Ends : ended[e] \notin {None, of[e]}) =>
    \E h \in Handles : fate[h] = "by hand"

(***************************************************************************)
(* A handle's work is kept by a commit that was answered well and by       *)
(* nothing else: no disposal, no rollback and no close keeps it, and no    *)
(* commit that was answered well has lost it.                              *)
(***************************************************************************)
CommittedByItsWord ==
  \A h \in Handles :
    fate[h] = "committed" <=>
      \E e \in Ends : ended[e] = h /\ word[e] = "commit" /\ answer[e] = "ok"

(***************************************************************************)
(* A transaction is never left neither open nor ended: a claim is given    *)
(* back, or the transaction is over.                                       *)
(***************************************************************************)
ClaimResolves ==
  \A h \in Handles :
    done[h] ~> (~done[h] \/ fate[h] \in {"committed", "undone", "by hand"})
=============================================================================
