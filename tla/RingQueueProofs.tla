-------------------------- MODULE RingQueueProofs ---------------------------
(***************************************************************************)
(* Proofs that the flags of a ring queue always tell an empty ring from a   *)
(* full one, that its four counting functions agree, and that it implements *)
(* a bounded first-in first-out queue, for every capacity, every set of     *)
(* elements and arrays of every length.                                     *)
(***************************************************************************)
EXTENDS RingQueue, ArchLemmas
-----------------------------------------------------------------------------
\* FlagsTellMeeting is Valid of the queue.
LEMMA FlagsAreValid == FlagsTellMeeting <=> Valid(queue)
  BY DEF FlagsTellMeeting, Valid

\* An array of elements is a sequence of them.
LEMMA ArrayIsSeq ==
    ASSUME NEW n \in 0..MaxPush, NEW data \in [1..n -> Elements]
    PROVE  data \in Seq(Elements) /\ Len(data) = n
  BY PushAssumption

\* A single element as an array.
LEMMA OneIsArray ==
    ASSUME NEW e \in Elements
    PROVE  /\ <<e>> \in [1..1 -> Elements] /\ 1 \in 0..MaxPush
           /\ <<e>> \in Seq(Elements) /\ Len(<<e>>) = 1
  BY PushAssumption
-----------------------------------------------------------------------------
\* Every step keeps the queue valid and is a step of the bounded queue.
LEMMA StepIsAbstractStep ==
    ASSUME Valid(queue), [Next]_vars
    PROVE  Valid(queue)' /\ [Abstract!QNext]_(Abstract!qVars)
  <1>. DEFINE held == QUEUE_getElementCount(queue)
              Q == Queued(queue)
  <1>1. /\ held \in 0..Capacity /\ QUEUE_getSpace(queue) = Capacity - held
        /\ Q \in Seq(Contents) /\ Len(Q) = held
    BY Counts, QueuedIsSeq, QueueAssumption
  <1>2. \A n \in Nat : /\ Abstract!Fits(n) = Smaller(n, QUEUE_getSpace(queue))
                       /\ Abstract!Holds(n) = Smaller(n, held)
    BY <1>1, QueueAssumption DEF Abstract!Fits, Abstract!Holds, Smaller
  <1>3. 1 \in 0..MaxPush /\ \A n \in 0..MaxPush : n \in Nat
    BY PushAssumption
  <1>. HIDE DEF held, Q
  <1>4. ASSUME NEW e \in Elements, Pushed(<<e>>, QUEUE_add(queue, e))
        PROVE  Valid(queue)' /\ Abstract!QNext
    <2>. DEFINE taken == Smaller(1, QUEUE_getSpace(queue))
    <2>1. /\ Valid(queue)' /\ call' = <<"push", <<e>>, taken>>
          /\ Queued(queue)' = Q \o SubSeq(<<e>>, 1, taken)
      BY <1>4, AddAppends DEF Pushed, Q
    <2>2. <<e>> \in [1..1 -> Elements] /\ Len(<<e>>) = 1
      BY OneIsArray
    <2>3. Abstract!QPush(<<e>>)
      BY <2>1, <2>2, <1>2 DEF Abstract!QPush, Q
    <2>. QED
      BY <2>1, <2>2, <2>3, <1>3 DEF Abstract!QNext
  <1>5. ASSUME NEW e \in Elements, GetNew(e)
        PROVE  Valid(queue)' /\ Abstract!QNext
    BY <1>4, <1>5 DEF GetNew, QUEUE_add
  <1>6. ASSUME NEW n \in 0..MaxPush, NEW data \in [1..n -> Elements], PushIn(data)
        PROVE  Valid(queue)' /\ Abstract!QNext
    <2>1. data \in Seq(Elements) /\ Len(data) = n
      BY ArrayIsSeq
    <2>. DEFINE taken == Smaller(n, QUEUE_getSpace(queue))
    <2>2. /\ Valid(queue)' /\ call' = <<"push", data, taken>>
          /\ Queued(queue)' = Q \o SubSeq(data, 1, taken)
      BY <1>6, <2>1, PushInAppends DEF PushIn, Pushed, Q
    <2>3. Abstract!QPush(data)
      BY <2>1, <2>2, <1>2, <1>3 DEF Abstract!QPush, Q
    <2>. QED
      BY <2>2, <2>3 DEF Abstract!QNext
  <1>7. ASSUME GetHead
        PROVE  Valid(queue)' /\ Abstract!QNext
    <2>1. /\ call' = <<"head", 1, SubSeq(Q, 1, Smaller(1, held))>>
          /\ UNCHANGED queue
      BY <1>7, HeadIsFront DEF GetHead, Q, held
    <2>2. UNCHANGED Queued(queue)
      BY <2>1
    <2>3. Abstract!QHead
      BY <2>1, <2>2, <1>2 DEF Abstract!QHead, Q
    <2>. QED
      BY <2>1, <2>3 DEF Abstract!QNext
  <1>8. ASSUME PopGetHead
        PROVE  Valid(queue)' /\ Abstract!QNext
    <2>1. /\ call' = <<"take", 1, SubSeq(Q, 1, Smaller(1, held))>> /\ Valid(queue)'
          /\ Queued(queue)' = SubSeq(Q, Smaller(1, held) + 1, held)
      BY <1>8, HeadIsFront DEF PopGetHead, Q, held
    <2>2. Abstract!QTake(1)
      BY <2>1, <1>1, <1>2 DEF Abstract!QTake, Q
    <2>. QED
      BY <2>1, <2>2, <1>3 DEF Abstract!QNext
  <1>9. ASSUME RemoveHead
        PROVE  Valid(queue)' /\ Abstract!QNext
    <2>1. /\ Valid(queue)' /\ call' = <<"remove", 1, <<>>>>
          /\ Queued(queue)' = SubSeq(Q, Smaller(1, held) + 1, held)
      BY <1>9, HeadIsFront DEF RemoveHead, Removed, Q, held
    <2>2. Abstract!QRemove(1)
      BY <2>1, <1>1, <1>2 DEF Abstract!QRemove, Q
    <2>. QED
      BY <2>1, <2>2, <1>3 DEF Abstract!QNext
  <1>10. ASSUME NEW n \in 0..MaxPush, PushOut(n)
         PROVE  Valid(queue)' /\ Abstract!QNext
    <2>1. /\ call' = <<"take", n, SubSeq(Q, 1, Smaller(n, held))>> /\ Valid(queue)'
          /\ Queued(queue)' = SubSeq(Q, Smaller(n, held) + 1, held)
      BY <1>3, <1>10, PushOutTakes DEF PushOut, Q, held
    <2>2. Abstract!QTake(n)
      BY <2>1, <1>1, <1>2, <1>3 DEF Abstract!QTake, Q
    <2>. QED
      BY <2>1, <2>2 DEF Abstract!QNext
  <1>11. ASSUME NEW n \in 0..MaxPush, RemoveElements(n)
         PROVE  Valid(queue)' /\ Abstract!QNext
    <2>1. /\ Valid(queue)' /\ call' = <<"remove", n, <<>>>>
          /\ Queued(queue)' = SubSeq(Q, Smaller(n, held) + 1, held)
      BY <1>3, <1>11, PushOutTakes DEF RemoveElements, Removed, QUEUE_RemoveElements, Q, held
    <2>2. Abstract!QRemove(n)
      BY <2>1, <1>1, <1>2, <1>3 DEF Abstract!QRemove, Q
    <2>. QED
      BY <2>1, <2>2 DEF Abstract!QNext
  <1>12. ASSUME RemoveAll \/ Reset
         PROVE  Valid(queue)' /\ Abstract!QNext
    <2>1. Valid(queue)' /\ Queued(queue)' = <<>> /\ call' = <<"clear", 0, <<>>>>
      BY <1>12, ClearKeepsValid DEF RemoveAll, Reset, Cleared
    <2>2. Abstract!QClear
      BY <2>1 DEF Abstract!QClear
    <2>. QED
      BY <2>1, <2>2 DEF Abstract!QNext
  <1>13. CASE UNCHANGED vars
    <2>1. UNCHANGED <<queue, call>>
      BY <1>13 DEF vars
    <2>2. UNCHANGED Queued(queue) /\ Valid(queue)'
      BY <2>1
    <2>. QED
      BY <2>1, <2>2 DEF Abstract!qVars
  <1>14. ASSUME NEW e \in Elements, Add(e)
         PROVE  Valid(queue)' /\ Abstract!QNext
    BY <1>4, <1>14 DEF Add
  <1>. QED
    BY <1>5, <1>6, <1>7, <1>8, <1>9, <1>10, <1>11, <1>12, <1>13, <1>14 DEF Next

\* A queue whose pointers meet is exactly one of empty and full, after any
\* sequence of calls.
THEOREM FlagsTheorem == Spec => []FlagsTellMeeting
  <1>1. Init => FlagsTellMeeting
    BY InitHoldsNothing, FlagsAreValid DEF Init, Valid, FlagsTellMeeting
  <1>2. FlagsTellMeeting /\ [Next]_vars => FlagsTellMeeting'
    BY FlagsAreValid, StepIsAbstractStep DEF Valid, FlagsTellMeeting
  <1>. QED
    BY <1>1, <1>2, PTL DEF Spec

\* What is queued and what is free make up the buffer, and a stretch is empty
\* only when there is nothing to move.
THEOREM CountsTheorem == Spec => []CountsAgree
  <1>1. FlagsTellMeeting => CountsAgree
    BY FlagsAreValid, Counts DEF CountsAgree
  <1>. QED
    BY <1>1, FlagsTheorem, PTL

\* The ring implements the bounded first-in first-out queue.
THEOREM RingQueueImplementsBoundedQueue == Spec => ImplementsBoundedQueue
  <1>1. Init => Abstract!QInit
    BY InitHoldsNothing DEF Init, Abstract!QInit
  <1>2. FlagsTellMeeting /\ [Next]_vars => [Abstract!QNext]_(Abstract!qVars)
    BY FlagsAreValid, StepIsAbstractStep
  <1>. QED
    BY <1>1, <1>2, FlagsTheorem, PTL DEF Spec, ImplementsBoundedQueue, Abstract!QSpec
=============================================================================
