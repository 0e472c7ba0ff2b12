------------------------------ MODULE QueueOps ------------------------------
(***************************************************************************)
(* The ring queue of Arch/queue.c as operators on a Queue.  The two         *)
(* pointers of the code are byte offsets that only ever move by whole       *)
(* elements; here they count elements, so m_nBufferSize / m_nElementSize is *)
(* Capacity.  An operator that moves elements returns the queue it leaves,  *)
(* or a record of that queue and of what the function returns.              *)
(***************************************************************************)
EXTENDS Integers, Sequences

CONSTANTS
    Capacity,    \* itemCount of QUEUE_init
    Elements,    \* what the users of the queue put into it
    Blank        \* a slot nobody wrote, or that QUEUE_reset cleared

ASSUME QueueAssumption == Capacity \in Nat \ {0} /\ Blank \notin Elements

Slots == 0..(Capacity - 1)
Contents == Elements \cup {Blank}
Queues == [rd : Slots, wr : Slots, empty : BOOLEAN, full : BOOLEAN,
           buf : [Slots -> Contents]]

Smaller(m, n) == IF m <= n THEN m ELSE n
-----------------------------------------------------------------------------
QUEUE_init == [rd |-> 0, wr |-> 0, empty |-> TRUE, full |-> FALSE,
               buf |-> [s \in Slots |-> Blank]]

\* A pointer that ran over the end of the buffer goes back to its start.
Wrapped(p) == IF p >= Capacity THEN 0 ELSE p

QUEUE_getContinuousEleCount(q) ==
    IF q.empty THEN 0
    ELSE IF q.wr > q.rd THEN q.wr - q.rd
    ELSE Capacity - q.rd

QUEUE_getElementCount(q) ==
    IF q.empty THEN 0
    ELSE IF q.full THEN Capacity
    ELSE IF q.wr > q.rd THEN q.wr - q.rd
    ELSE Capacity - q.rd + q.wr

QUEUE_getContinuousSpace(q) ==
    IF q.empty THEN Capacity - q.wr
    ELSE IF q.full THEN 0
    ELSE IF q.wr > q.rd THEN Capacity - q.wr
    ELSE q.rd - q.wr

\* Mutant: the space before the read pointer is not counted.
SpaceToTheEnd(q) ==
    IF q.full THEN 0
    ELSE IF q.empty THEN Capacity
    ELSE IF q.wr > q.rd THEN Capacity - q.wr
    ELSE q.rd - q.wr

QUEUE_getSpace(q) ==
    IF q.full THEN 0
    ELSE IF q.empty THEN Capacity
    ELSE IF q.wr > q.rd THEN Capacity - q.wr + q.rd
    ELSE q.rd - q.wr
-----------------------------------------------------------------------------
\* The slot the i-th of the queued elements is in, i from 1: the readers of
\* the code walk the buffer this way.
SlotOf(q, i) == IF q.rd + i - 1 < Capacity THEN q.rd + i - 1
                                           ELSE q.rd + i - 1 - Capacity

\* What the queue holds, oldest first.
Queued(q) == [i \in 1..QUEUE_getElementCount(q) |-> q.buf[SlotOf(q, i)]]

\* The write pointer passes n elements, n > 0: those of data are copied.
Written(q, n, data) ==
    LET w == Wrapped(q.wr + n)
    IN  [rd |-> q.rd, wr |-> w, empty |-> FALSE, full |-> q.full \/ w = q.rd,
         buf |-> [s \in Slots |-> IF s \in q.wr..(q.wr + n - 1)
                                    THEN data[s - q.wr + 1] ELSE q.buf[s]]]

\* Mutant: m_isFull is left up.
TakenStillFull(q, n) ==
    LET r == Wrapped(q.rd + n)
    IN  [rd |-> r, wr |-> q.wr, empty |-> q.empty \/ r = q.wr, full |-> q.full,
         buf |-> q.buf]

\* The read pointer passes n elements, n > 0.
Taken(q, n) ==
    LET r == Wrapped(q.rd + n)
    IN  [rd |-> r, wr |-> q.wr, empty |-> q.empty \/ r = q.wr, full |-> FALSE,
         buf |-> q.buf]

\* Mutant: a full queue takes one more.
AddedUnchecked(q, e) == [q |-> Written(q, 1, <<e>>), ret |-> 1]

QUEUE_add(q, e) ==
    IF q.full THEN [q |-> q, ret |-> 0]
              ELSE [q |-> Written(q, 1, <<e>>), ret |-> 1]

QUEUE_removeHead(q) == IF q.empty THEN q ELSE Taken(q, 1)

\* The element the code returns the address of, none when that is Null.
QUEUE_getHead(q) == IF q.empty THEN <<>> ELSE <<q.buf[q.rd]>>

QUEUE_removeAll(q) ==
    [rd |-> 0, wr |-> 0, empty |-> TRUE, full |-> FALSE, buf |-> q.buf]

QUEUE_reset(q) == QUEUE_init

\* One turn of the loop of QUEUE_PushInEleArray.
PushInStretch(q, data) ==
    LET n == Smaller(QUEUE_getContinuousSpace(q), Len(data))
    IN  IF n = 0 THEN [q |-> q, ret |-> 0]
                 ELSE [q |-> Written(q, n, data), ret |-> n]

\* Mutant: the second turn copies from the start of the array again.
PushInFromStart(q, data) ==
    LET first  == PushInStretch(q, data)
        second == PushInStretch(first.q, SubSeq(data, 1, Len(data) - first.ret))
    IN  [q |-> second.q, ret |-> first.ret + second.ret]

\* The loop ends after the second turn at the latest: the first one left
\* either nothing to push or the write pointer at the start of the buffer.
QUEUE_PushInEleArray(q, data) ==
    LET first  == PushInStretch(q, data)
        second == PushInStretch(first.q, SubSeq(data, first.ret + 1, Len(data)))
    IN  [q |-> second.q, ret |-> first.ret + second.ret]

\* One turn of the loop of QUEUE_PushOutEleArray.
PushOutStretch(q, n) ==
    LET m == Smaller(QUEUE_getContinuousEleCount(q), n)
    IN  IF m = 0 THEN [q |-> q, ret |-> <<>>]
        ELSE [q |-> Taken(q, m), ret |-> [i \in 1..m |-> q.buf[q.rd + i - 1]]]

QUEUE_PushOutEleArray(q, n) ==
    LET first  == PushOutStretch(q, n)
        second == PushOutStretch(first.q, n - Len(first.ret))
    IN  [q |-> second.q, ret |-> first.ret \o second.ret]

QUEUE_RemoveElements(q, n) == QUEUE_PushOutEleArray(q, n).q
=============================================================================
