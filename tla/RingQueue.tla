----------------------------- MODULE RingQueue ------------------------------
(***************************************************************************)
(* A queue of Arch/queue.c under any sequence of calls.  The last call is    *)
(* kept with its argument and with what it returned.                        *)
(***************************************************************************)
EXTENDS QueueOps

CONSTANT MaxPush    \* the longest array pushed, and the most elements taken

ASSUME PushAssumption == MaxPush \in Nat \ {0}

VARIABLES queue, call

vars == <<queue, call>>

Init == queue = QUEUE_init /\ call = <<"clear", 0, <<>>>>

Pushed(data, r) == queue' = r.q /\ call' = <<"push", data, r.ret>>

Add(e) == Pushed(<<e>>, QUEUE_add(queue, e))

\* The caller fills the element before it uses the queue again.
GetNew(e) == Pushed(<<e>>, IF queue.full THEN [q |-> queue, ret |-> 0]
                           ELSE [q |-> Written(queue, 1, <<e>>), ret |-> 1])

PushIn(data) == Pushed(data, QUEUE_PushInEleArray(queue, data))

GetHead == call' = <<"head", 1, QUEUE_getHead(queue)>> /\ UNCHANGED queue

PopGetHead ==
    /\ call' = <<"take", 1, QUEUE_getHead(queue)>>
    /\ queue' = QUEUE_removeHead(queue)

PushOut(n) ==
    LET r == QUEUE_PushOutEleArray(queue, n)
    IN  queue' = r.q /\ call' = <<"take", n, r.ret>>

Removed(n, q) == queue' = q /\ call' = <<"remove", n, <<>>>>

RemoveHead        == Removed(1, QUEUE_removeHead(queue))
RemoveElements(n) == Removed(n, QUEUE_RemoveElements(queue, n))

Cleared(q) == queue' = q /\ call' = <<"clear", 0, <<>>>>

RemoveAll == Cleared(QUEUE_removeAll(queue))
Reset     == Cleared(QUEUE_reset(queue))

Next ==
    \/ \E e \in Elements : Add(e) \/ GetNew(e)
    \/ GetHead \/ RemoveHead \/ PopGetHead \/ RemoveAll \/ Reset
    \/ \E n \in 0..MaxPush : \E data \in [1..n -> Elements] : PushIn(data)
    \/ \E n \in 0..MaxPush : PushOut(n) \/ RemoveElements(n)

Spec == Init /\ [][Next]_vars
-----------------------------------------------------------------------------
\* The two flags tell apart the two ways the pointers can meet, and are up
\* only when they do: after any sequence of wrapping pushes and removals a
\* queue whose pointers meet is exactly one of empty and full (queue.c:88,
\* 111, 191, 214, 238, 259, 331).
FlagsTellMeeting ==
    /\ queue \in Queues
    /\ queue.rd = queue.wr <=> queue.empty \/ queue.full
    /\ ~(queue.empty /\ queue.full)

\* The four counting functions agree: what is queued and what is free make up
\* the buffer, and a stretch is empty only when there is nothing to move, so
\* a loop that stops at an empty stretch has moved all it could
\* (QUEUE_getElementCount, QUEUE_getSpace and their continuous variants).
CountsAgree ==
    LET queued == QUEUE_getElementCount(queue)
        space  == QUEUE_getSpace(queue)
        run    == QUEUE_getContinuousEleCount(queue)
        gap    == QUEUE_getContinuousSpace(queue)
    IN  /\ queued \in 0..Capacity /\ queued + space = Capacity
        /\ run \in 0..queued /\ (run = 0 <=> queued = 0)
        /\ gap \in 0..space /\ (gap = 0 <=> space = 0)

Abstract == INSTANCE BoundedQueue WITH elems <- Queued(queue)

\* The ring is a bounded first-in first-out queue: no call loses, repeats,
\* reorders or invents an element, wherever the pointers stand, and each
\* returns what the sequence would (all of queue.c).
ImplementsBoundedQueue == Abstract!QSpec
=============================================================================
