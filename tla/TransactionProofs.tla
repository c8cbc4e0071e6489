------------------------- MODULE TransactionProofs --------------------------
(***************************************************************************)
(* Proofs about Transaction, for any number of handles and of calls that   *)
(* end them: at most one call ends a handle's transaction, it ends no      *)
(* other, and a commit that was answered well is what keeps the work.      *)
(*                                                                         *)
(* They lean on each other.  `done` is up for as long as a call holds the  *)
(* claim and for ever once one has ended the transaction, so a claim that  *)
(* is given back gives back nothing that was ended.  A fate other than     *)
(* `open` then needs somebody to have brought it about: a call, a          *)
(* statement by hand, or the end of the session.                           *)
(***************************************************************************)
EXTENDS Transaction, TLAPS

\* The fates of a handle that was handed out.
HandedOut == {"open", "committed", "undone", "by hand"}

\* A call is on a handle that was handed out, and over once it has ended one.
OnHandedOut ==
  \A e \in Ends :
    /\ pc[e] # "new" => of[e] \in Handles /\ fate[of[e]] \in HandedOut
    /\ ended[e] # None => pc[e] = "settled" /\ answer[e] = "ok"

\* The word is up for whoever claims, and stays up behind whoever has ended it.
ClaimedIsDone ==
  \A e \in Ends : Claiming(e) \/ ended[e] # None => done[of[e]]

\* The session is inside exactly the transactions that are open.
OpenIsOpen == \A h \in Handles : fate[h] = "open" <=> open = h

\* What a call has ended has the fate of that call's word.
EndedAsItSaid ==
  \A e \in Ends : ended[e] \in Handles =>
    fate[ended[e]] = IF word[e] = "commit" THEN "committed" ELSE "undone"

\* What is committed was ended by a call, and so was what is undone in a
\* session that is still there.
EndedBySomeone ==
  \A h \in Handles :
    fate[h] = "committed" \/ (fate[h] = "undone" /\ place # "gone") =>
      \E e \in Ends : ended[e] = h

\* The inductive invariant.
IInv ==
  /\ TypeOK
  /\ OnHandedOut
  /\ ClaimedIsDone
  /\ OpenIsOpen
  /\ EndedAsItSaid
  /\ EndedBySomeone
  /\ EndedOnce
  /\ EndsOnlyItsOwn

\* It holds at first.
LEMMA InitIInv == Init => IInv
  BY TransactionAssumption
  DEF Init, SlotInit, IInv, TypeOK, OnHandedOut, HandedOut, ClaimedIsDone,
      Claiming, OpenIsOpen, EndedAsItSaid, EndedBySomeone, EndedOnce,
      EndsOnlyItsOwn, Words, Answers, Fates, Places

\* Every step keeps it.
LEMMA StepIInv == IInv /\ [Next]_vars => IInv'
  <1> SUFFICES ASSUME IInv, [Next]_vars
               PROVE  IInv'
    OBVIOUS
  <1>0. /\ TypeOK /\ OnHandedOut /\ ClaimedIsDone /\ OpenIsOpen
        /\ EndedAsItSaid /\ EndedBySomeone /\ EndedOnce /\ EndsOnlyItsOwn
    BY DEF IInv
  <1> USE TransactionAssumption DEF TypeOK
  <1>1. CASE UNCHANGED vars
    <2>1. TypeOK' /\ OnHandedOut' /\ OpenIsOpen'
      BY <1>0, <1>1 DEF vars, OnHandedOut, OpenIsOpen
    <2>2. ClaimedIsDone' /\ EndedOnce' /\ EndsOnlyItsOwn'
      BY <1>0, <1>1 DEF vars, ClaimedIsDone, EndedOnce, Claiming,
         EndsOnlyItsOwn
    <2>3. EndedAsItSaid' /\ EndedBySomeone'
      BY <1>0, <1>1 DEF vars, EndedAsItSaid, EndedBySomeone
    <2> QED
      BY <2>1, <2>2, <2>3 DEF IInv
  <1>2. ASSUME NEW h \in Handles, Call(h)
        PROVE  IInv'
    <2>1. TypeOK'
      BY <1>0, <1>2 DEF Call, calls, Words, Answers, Fates, Places
    <2>2. OnHandedOut'
      BY <1>0, <1>2 DEF Call, calls, OnHandedOut, HandedOut, Claiming
    <2>3. ClaimedIsDone' /\ EndedOnce'
      BY <1>0, <1>2 DEF Call, calls, ClaimedIsDone, EndedOnce, Claiming
    <2>4. OpenIsOpen'
      BY <1>0, <1>2 DEF Call, calls, OpenIsOpen
    <2>5. EndedAsItSaid' /\ EndedBySomeone'
      BY <1>0, <1>2 DEF Call, calls, OpenIsOpen, EndedAsItSaid, EndedBySomeone
    <2>6. EndsOnlyItsOwn'
      BY <1>0, <1>2 DEF Call, calls, OpenIsOpen, EndsOnlyItsOwn
    <2> QED
      BY <2>1, <2>2, <2>3, <2>4, <2>5, <2>6 DEF IInv
  <1>3. ASSUME NEW h \in Handles, Start(h)
        PROVE  IInv'
    <2>1. TypeOK'
      BY <1>0, <1>3 DEF Start, calls, Words, Answers, Fates, Places
    <2>2. OnHandedOut'
      BY <1>0, <1>3 DEF Start, calls, OnHandedOut, HandedOut, Claiming
    <2>3. ClaimedIsDone'
      <3>1. \A e \in Ends : pc[e] # "new" => of[e] # h
        BY <1>0, <1>3 DEF Start, OnHandedOut, HandedOut
      <3>2. \A e \in Ends : Claiming(e) \/ ended[e] # None =>
              pc[e] # "new" /\ of[e] \in Handles
        BY <1>0 DEF Claiming, OnHandedOut
      <3>3. /\ UNCHANGED <<pc, of, ended>>
            /\ \A g \in Handles : g # h => done'[g] = done[g]
        BY <1>0, <1>3 DEF Start, calls
      <3> QED
        BY <1>0, <3>1, <3>2, <3>3 DEF ClaimedIsDone, Claiming
    <2>4. OpenIsOpen'
      BY <1>0, <1>3 DEF Start, calls, OpenIsOpen
    <2>5. EndedAsItSaid'
      BY <1>0, <1>3 DEF Start, calls, OnHandedOut, OpenIsOpen, EndedAsItSaid
    <2>6. EndedBySomeone'
      BY <1>0, <1>3 DEF Start, calls, OnHandedOut, OpenIsOpen, EndedBySomeone
    <2>7. EndedOnce'
      BY <1>0, <1>3 DEF Start, calls, OnHandedOut, ClaimedIsDone, EndedOnce,
         Claiming
    <2>8. EndsOnlyItsOwn'
      BY <1>0, <1>3 DEF Start, calls, EndsOnlyItsOwn, OnHandedOut, OpenIsOpen
    <2> QED
      BY <2>1, <2>2, <2>3, <2>4, <2>5, <2>6, <2>7, <2>8 DEF IInv
  <1>4. CASE StartByHand
    <2>1. TypeOK'
      BY <1>0, <1>4 DEF StartByHand, calls, Words, Answers, Fates, Places
    <2>2. OnHandedOut'
      BY <1>0, <1>4 DEF StartByHand, calls, OnHandedOut, HandedOut, Claiming
    <2>3. ClaimedIsDone' /\ EndedOnce'
      BY <1>0, <1>4 DEF StartByHand, calls, ClaimedIsDone, EndedOnce, Claiming
    <2>4. OpenIsOpen'
      BY <1>0, <1>4 DEF StartByHand, calls, OpenIsOpen
    <2>5. EndedAsItSaid' /\ EndedBySomeone'
      BY <1>0, <1>4 DEF StartByHand, calls, OpenIsOpen, EndedAsItSaid,
         EndedBySomeone
    <2>6. EndsOnlyItsOwn'
      BY <1>0, <1>4 DEF StartByHand, calls, OpenIsOpen, EndsOnlyItsOwn
    <2> QED
      BY <2>1, <2>2, <2>3, <2>4, <2>5, <2>6 DEF IInv
  <1>5. CASE EndByHand
    <2>1. TypeOK'
      BY <1>0, <1>5 DEF EndByHand, Close, calls, Words, Answers, Fates, Places
    <2>2. OnHandedOut'
      BY <1>0, <1>5 DEF EndByHand, Close, calls, OnHandedOut, HandedOut,
         Claiming
    <2>3. ClaimedIsDone' /\ EndedOnce'
      BY <1>0, <1>5 DEF EndByHand, calls, ClaimedIsDone, EndedOnce, Claiming
    <2>4. OpenIsOpen'
      BY <1>0, <1>5 DEF EndByHand, Close, calls, OpenIsOpen
    <2>5. EndedAsItSaid' /\ EndedBySomeone'
      BY <1>0, <1>5 DEF EndByHand, Close, calls, OpenIsOpen, EndedAsItSaid,
         EndedBySomeone
    <2>6. EndsOnlyItsOwn'
      BY <1>0, <1>5 DEF EndByHand, Close, calls, OpenIsOpen, EndsOnlyItsOwn
    <2> QED
      BY <2>1, <2>2, <2>3, <2>4, <2>5, <2>6 DEF IInv
  <1>6. ASSUME NEW e \in Ends, NEW h \in Handles, NEW w \in Words,
               Issue(e, h, w)
        PROVE  IInv'
    <2>1. TypeOK'
      BY <1>0, <1>6 DEF Issue, Words, Answers, Fates, Places
    <2>2. OnHandedOut'
      BY <1>0, <1>6 DEF Issue, OnHandedOut, HandedOut, Claiming
    <2>3. ClaimedIsDone'
      BY <1>0, <1>6 DEF Issue, OnHandedOut, HandedOut, ClaimedIsDone,
         EndedOnce, Claiming
    <2>4. OpenIsOpen'
      BY <1>0, <1>6 DEF Issue, OpenIsOpen
    <2>5. EndedAsItSaid'
      BY <1>0, <1>6 DEF Issue, OnHandedOut, OpenIsOpen, EndedAsItSaid
    <2>6. EndedBySomeone'
      BY <1>0, <1>6 DEF Issue, OnHandedOut, OpenIsOpen, EndedBySomeone
    <2>7. EndedOnce'
      <3>1. ended[e] = None /\ ~Claiming(e) /\ ~Claiming(e)'
        BY <1>0, <1>6 DEF Issue, OnHandedOut, Claiming
      <3>2. \A x \in Ends : x # e => of'[x] = of[x] /\ pc'[x] = pc[x]
        BY <1>0, <1>6 DEF Issue
      <3> QED
        BY <1>0, <1>6, <3>1, <3>2 DEF Issue, EndedOnce, Claiming
    <2>8. EndsOnlyItsOwn'
      BY <1>0, <1>6 DEF Issue, EndsOnlyItsOwn, OnHandedOut, OpenIsOpen
    <2> QED
      BY <2>1, <2>2, <2>3, <2>4, <2>5, <2>6, <2>7, <2>8 DEF IInv
  <1>7. ASSUME NEW e \in Ends, Claim(e)
        PROVE  IInv'
    <2>1. TypeOK'
      BY <1>0, <1>7 DEF Claim, Settle, Words, Answers, Fates, Places
    <2>2. OnHandedOut'
      BY <1>0, <1>7 DEF Claim, Settle, OnHandedOut
    <2>3. ClaimedIsDone'
      <3>1. \A x \in Ends : x # e => pc'[x] = pc[x]
        BY <1>0, <1>7 DEF Claim, Settle
      <3>2. \A h \in Handles : done[h] => done'[h]
        BY <1>0, <1>7 DEF Claim
      <3>3. Claiming(e)' => done'[of[e]]
        BY <1>0, <1>7 DEF Claim, Settle, Claiming, OnHandedOut
      <3> QED
        BY <1>0, <1>7, <3>1, <3>2, <3>3 DEF Claim, ClaimedIsDone, Claiming,
           OnHandedOut
    <2>4. OpenIsOpen'
      BY <1>0, <1>7 DEF Claim, Settle, OpenIsOpen
    <2>5. EndedAsItSaid'
      BY <1>0, <1>7 DEF Claim, Settle, OnHandedOut, OpenIsOpen, EndedAsItSaid
    <2>6. EndedBySomeone'
      BY <1>0, <1>7 DEF Claim, Settle, OnHandedOut, OpenIsOpen, EndedBySomeone
    <2>7. EndedOnce'
      BY <1>0, <1>7 DEF Claim, Settle, OnHandedOut, ClaimedIsDone, EndedOnce,
         Claiming
    <2>8. EndsOnlyItsOwn'
      BY <1>0, <1>7 DEF Claim, Settle, EndsOnlyItsOwn, OnHandedOut, OpenIsOpen
    <2> QED
      BY <2>1, <2>2, <2>3, <2>4, <2>5, <2>6, <2>7, <2>8 DEF IInv
  <1>8. ASSUME NEW e \in Ends, Look(e)
        PROVE  IInv'
    <2>1. TypeOK'
      BY <1>0, <1>8 DEF Look, Settle, Words, Answers, Fates, Places
    <2>2. OnHandedOut'
      BY <1>0, <1>8 DEF Look, Settle, OnHandedOut
    <2>3. ClaimedIsDone'
      BY <1>0, <1>8 DEF Look, Settle, OnHandedOut, HandedOut, ClaimedIsDone,
         EndedOnce, Claiming
    <2>4. OpenIsOpen'
      BY <1>0, <1>8 DEF Look, Settle, OpenIsOpen
    <2>5. EndedAsItSaid'
      BY <1>0, <1>8 DEF Look, Settle, OnHandedOut, OpenIsOpen, EndedAsItSaid
    <2>6. EndedBySomeone'
      BY <1>0, <1>8 DEF Look, Settle, OnHandedOut, OpenIsOpen, EndedBySomeone
    <2>7. EndedOnce'
      BY <1>0, <1>8 DEF Look, Settle, OnHandedOut, ClaimedIsDone, EndedOnce,
         Claiming
    <2>8. EndsOnlyItsOwn'
      BY <1>0, <1>8 DEF Look, Settle, EndsOnlyItsOwn, OnHandedOut, OpenIsOpen
    <2> QED
      BY <2>1, <2>2, <2>3, <2>4, <2>5, <2>6, <2>7, <2>8 DEF IInv
  <1>9. ASSUME NEW e \in Ends, Finish(e)
        PROVE  IInv'
    <2>1. TypeOK'
      BY <1>0, <1>9 DEF Finish, Close, Settle, Words, Answers, Fates, Places
    <2>2. OnHandedOut'
      BY <1>0, <1>9 DEF Finish, Close, Settle, OnHandedOut, HandedOut,
         Claiming
    <2>3. ClaimedIsDone'
      BY <1>0, <1>9 DEF Finish, Close, Settle, OnHandedOut, HandedOut,
         ClaimedIsDone, EndedOnce, Claiming
    <2>4. OpenIsOpen'
      BY <1>0, <1>9 DEF Finish, Close, Settle, OpenIsOpen
    <2>5. EndedAsItSaid'
      BY <1>0, <1>9 DEF Finish, Close, Settle, OnHandedOut, OpenIsOpen,
         EndedAsItSaid
    <2>6. EndedBySomeone'
      BY <1>0, <1>9 DEF Finish, Close, Settle, OnHandedOut, OpenIsOpen,
         EndedBySomeone
    <2>7. EndedOnce'
      BY <1>0, <1>9 DEF Finish, Close, Settle, OnHandedOut, ClaimedIsDone,
         EndedOnce, Claiming
    <2>8. EndsOnlyItsOwn'
      <3>1. \A g \in Handles : fate[g] = "by hand" => fate'[g] = "by hand"
        BY <1>0, <1>9 DEF Finish, Close, OpenIsOpen
      <3>2. CASE open = of[e]
        BY <1>0, <1>9, <3>1, <3>2 DEF Finish, EndsOnlyItsOwn
      <3>3. CASE open # of[e]
        <4>1. of[e] \in Handles /\ fate[of[e]] \in HandedOut \ {"open"}
          BY <1>0, <1>9, <3>3 DEF Finish, OnHandedOut, OpenIsOpen
        <4>2. CASE fate[of[e]] = "by hand"
          BY <1>9, <3>1, <4>1, <4>2 DEF Finish, EndsOnlyItsOwn
        <4>3. CASE fate[of[e]] \in {"committed", "undone"}
          <5>1. PICK x \in Ends : ended[x] = of[e]
            BY <1>0, <1>9, <4>1, <4>3 DEF Finish, EndedBySomeone
          <5>2. of[x] # of[e]
            BY <1>0, <1>9, <4>1, <5>1 DEF Finish, OnHandedOut, EndedOnce,
               Claiming
          <5>3. \E g \in Handles : fate[g] = "by hand"
            BY <1>0, <4>1, <5>1, <5>2 DEF EndsOnlyItsOwn
          <5> QED
            BY <3>1, <5>3 DEF EndsOnlyItsOwn
        <4> QED
          BY <4>1, <4>2, <4>3 DEF HandedOut
      <3> QED
        BY <3>2, <3>3
    <2> QED
      BY <2>1, <2>2, <2>3, <2>4, <2>5, <2>6, <2>7, <2>8 DEF IInv
  <1>10. ASSUME NEW e \in Ends, Fail(e)
        PROVE  IInv'
    <2>1. TypeOK'
      BY <1>0, <1>10 DEF Fail, NotHere, Words, Answers, Fates, Places
    <2>2. OnHandedOut'
      BY <1>0, <1>10 DEF Fail, NotHere, OnHandedOut, HandedOut, Claiming
    <2>3. ClaimedIsDone'
      BY <1>0, <1>10 DEF Fail, NotHere, OnHandedOut, HandedOut, ClaimedIsDone,
         EndedOnce, Claiming
    <2>4. OpenIsOpen'
      BY <1>0, <1>10 DEF Fail, NotHere, OpenIsOpen
    <2>5. EndedAsItSaid'
      BY <1>0, <1>10 DEF Fail, NotHere, OnHandedOut, OpenIsOpen, EndedAsItSaid
    <2>6. EndedBySomeone'
      BY <1>0, <1>10 DEF Fail, NotHere, OnHandedOut, OpenIsOpen,
         EndedBySomeone
    <2>7. EndedOnce'
      BY <1>0, <1>10 DEF Fail, NotHere, OnHandedOut, ClaimedIsDone, EndedOnce,
         Claiming
    <2>8. EndsOnlyItsOwn'
      BY <1>0, <1>10 DEF Fail, NotHere, EndsOnlyItsOwn, OnHandedOut,
         OpenIsOpen
    <2> QED
      BY <2>1, <2>2, <2>3, <2>4, <2>5, <2>6, <2>7, <2>8 DEF IInv
  <1>11. ASSUME NEW e \in Ends, GiveBack(e)
        PROVE  IInv'
    <2>1. TypeOK'
      BY <1>0, <1>11 DEF GiveBack, Words, Answers, Fates, Places
    <2>2. OnHandedOut'
      BY <1>0, <1>11 DEF GiveBack, OnHandedOut, HandedOut, Claiming
    <2>3. ClaimedIsDone'
      BY <1>0, <1>11 DEF GiveBack, OnHandedOut, HandedOut, ClaimedIsDone,
         EndedOnce, Claiming
    <2>4. OpenIsOpen'
      BY <1>0, <1>11 DEF GiveBack, OpenIsOpen
    <2>5. EndedAsItSaid'
      BY <1>0, <1>11 DEF GiveBack, OnHandedOut, OpenIsOpen, EndedAsItSaid
    <2>6. EndedBySomeone'
      BY <1>0, <1>11 DEF GiveBack, OnHandedOut, OpenIsOpen, EndedBySomeone
    <2>7. EndedOnce'
      BY <1>0, <1>11 DEF GiveBack, OnHandedOut, ClaimedIsDone, EndedOnce,
         Claiming
    <2>8. EndsOnlyItsOwn'
      BY <1>0, <1>11 DEF GiveBack, EndsOnlyItsOwn, OnHandedOut, OpenIsOpen
    <2> QED
      BY <2>1, <2>2, <2>3, <2>4, <2>5, <2>6, <2>7, <2>8 DEF IInv
  <1>12. CASE Lend \/ TurnOff
    <2>1. TypeOK'
      BY <1>0, <1>12 DEF Lend, TakenOut, TurnOff, TurnedOff, calls, Words,
         Answers, Fates, Places
    <2>2. OnHandedOut'
      BY <1>0, <1>12 DEF Lend, TakenOut, TurnOff, TurnedOff, calls,
         OnHandedOut, HandedOut, Claiming
    <2>3. ClaimedIsDone' /\ EndedOnce'
      BY <1>0, <1>12 DEF Lend, TurnOff, calls, ClaimedIsDone, EndedOnce,
         Claiming
    <2>4. OpenIsOpen'
      BY <1>0, <1>12 DEF Lend, TakenOut, TurnOff, TurnedOff, calls, OpenIsOpen
    <2>5. EndedAsItSaid' /\ EndedBySomeone'
      BY <1>0, <1>12 DEF Lend, TakenOut, TurnOff, TurnedOff, calls,
         OpenIsOpen, EndedAsItSaid, EndedBySomeone
    <2>6. EndsOnlyItsOwn'
      BY <1>0, <1>12 DEF Lend, TakenOut, TurnOff, TurnedOff, calls,
         OpenIsOpen, EndsOnlyItsOwn
    <2> QED
      BY <2>1, <2>2, <2>3, <2>4, <2>5, <2>6 DEF IInv
  <1>13. CASE Return
    <2>1. TypeOK'
      <3>1. fate' \in [Handles -> Fates] /\ open' \in Handles \cup {None, ByHand}
        BY <1>0, <1>13 DEF Return, Close, Fates
      <3>2. alive' \in BOOLEAN /\ place' \in {"slot", "lent", "gone"}
        BY <1>0, <1>13 DEF Return, GivenBack
      <3> QED
        BY <1>0, <1>13, <3>1, <3>2 DEF Return, calls
    <2>2. OnHandedOut'
      <3>1. \A h \in Handles : fate[h] \in HandedOut => fate'[h] \in HandedOut
        BY <1>0, <1>13 DEF Return, Close, HandedOut
      <3> QED
        BY <1>0, <1>13, <3>1 DEF Return, calls, OnHandedOut
    <2>3. ClaimedIsDone' /\ EndedOnce'
      BY <1>0, <1>13 DEF Return, calls, ClaimedIsDone, EndedOnce, Claiming
    <2>4. OpenIsOpen'
      BY <1>0, <1>13 DEF Return, GivenBack, Close, calls, OpenIsOpen
    <2>5. EndedAsItSaid' /\ EndedBySomeone'
      BY <1>0, <1>13 DEF Return, GivenBack, Close, calls, OpenIsOpen,
         EndedAsItSaid, EndedBySomeone
    <2>6. EndsOnlyItsOwn'
      BY <1>0, <1>13 DEF Return, GivenBack, Close, calls, OpenIsOpen,
         EndsOnlyItsOwn
    <2> QED
      BY <2>1, <2>2, <2>3, <2>4, <2>5, <2>6 DEF IInv
  <1>14. CASE Empty
    <2>1. TypeOK'
      BY <1>0, <1>14 DEF Empty, Emptied, Close, calls, Words, Answers, Fates,
         Places
    <2>2. OnHandedOut'
      BY <1>0, <1>14 DEF Empty, Emptied, Close, calls, OnHandedOut, HandedOut,
         Claiming
    <2>3. ClaimedIsDone' /\ EndedOnce'
      BY <1>0, <1>14 DEF Empty, calls, ClaimedIsDone, EndedOnce, Claiming
    <2>4. OpenIsOpen'
      BY <1>0, <1>14 DEF Empty, Emptied, Close, calls, OpenIsOpen
    <2>5. EndedAsItSaid' /\ EndedBySomeone'
      BY <1>0, <1>14 DEF Empty, Emptied, Close, calls, OpenIsOpen,
         EndedAsItSaid, EndedBySomeone
    <2>6. EndsOnlyItsOwn'
      BY <1>0, <1>14 DEF Empty, Emptied, Close, calls, OpenIsOpen,
         EndsOnlyItsOwn
    <2> QED
      BY <2>1, <2>2, <2>3, <2>4, <2>5, <2>6 DEF IInv
  <1> QED
    BY <1>1, <1>2, <1>3, <1>4, <1>5, <1>6, <1>7, <1>8, <1>9, <1>10, <1>11,
       <1>12, <1>13, <1>14
    DEF Next, EndStep

\* What is always true of transactions and the calls that end them.
THEOREM InductiveInvariant == Spec => []IInv
  BY InitIInv, StepIInv, PTL DEF Spec

\* At most one call ever ends the transaction of a handle, and nobody else
\* holds its claim meanwhile (src/txn.rs EndTask, `done`).
THEOREM AtMostOneEnd == Spec => []EndedOnce
  <1>1. IInv => EndedOnce
    BY DEF IInv
  <1> QED
    BY <1>1, InductiveInvariant, PTL

\* No call ends a transaction that is not its handle's, unless somebody ended
\* a handle's by hand (src/txn.rs EndTask::compute).
THEOREM EndsOwn == Spec => []EndsOnlyItsOwn
  <1>1. IInv => EndsOnlyItsOwn
    BY DEF IInv
  <1> QED
    BY <1>1, InductiveInvariant, PTL

\* A commit that was answered well, and nothing else, keeps the work of a
\* handle (src/txn.rs EndTask::compute, src/conn.rs close).
THEOREM OnlyCommitKeeps == Spec => []CommittedByItsWord
  <1>1. IInv => CommittedByItsWord
    BY TransactionAssumption
    DEF IInv, OnHandedOut, EndedAsItSaid, EndedBySomeone, CommittedByItsWord
  <1> QED
    BY <1>1, InductiveInvariant, PTL

\* Every word of a transaction keeps its type (src/txn.rs).
THEOREM TypeCorrect == Spec => []TypeOK
  <1>1. IInv => TypeOK
    BY DEF IInv
  <1> QED
    BY <1>1, InductiveInvariant, PTL

-----------------------------------------------------------------------------
\* A transaction does with the connection what a stream or a close may do with it and
\* nothing else: every behaviour is one of Slot, which Connection implements
\* (src/txn.rs).
THEOREM OnASlot == Spec => SlotSpec
  <1>1. Init => SlotInit
    BY DEF Init
  <1>2. [Next]_vars => [SlotNext]_<<alive, place>>
    <2> SUFFICES ASSUME [Next]_vars
                 PROVE  SlotNext \/ UNCHANGED <<alive, place>>
      OBVIOUS
    <2>1. CASE UNCHANGED vars
      BY <2>1 DEF vars
    <2>2. CASE \E h \in Handles : Call(h) \/ Start(h)
      BY <2>2 DEF Call, Start
    <2>3. CASE StartByHand \/ EndByHand
      BY <2>3 DEF StartByHand, EndByHand
    <2>4. CASE \E e \in Ends, h \in Handles, w \in Words : Issue(e, h, w)
      BY <2>4 DEF Issue
    <2>5. CASE \E e \in Ends : EndStep(e)
      BY <2>5 DEF EndStep, Claim, Look, Finish, Fail, GiveBack
    <2>6. CASE Lend \/ Return \/ TurnOff \/ Empty
      BY <2>6 DEF Lend, Return, TurnOff, Empty, SlotNext
    <2> QED
      BY <2>1, <2>2, <2>3, <2>4, <2>5, <2>6 DEF Next
  <1> QED
    BY <1>1, <1>2, PTL DEF Spec, SlotSpec
=============================================================================
