---------------------------- MODULE BoundedQueue ----------------------------
(***************************************************************************)
(* What the ring queue of Arch/queue.c promises its users: a sequence of at *)
(* most Capacity elements.  A push takes the prefix that fits and says how   *)
(* much that was; a removal takes from the front.                           *)
(***************************************************************************)
EXTENDS Integers, Sequences

CONSTANTS Capacity, Elements, MaxPush

VARIABLES
    elems,     \* oldest first
    call       \* the last call: what it was, its argument, what it returned

qVars == <<elems, call>>

Fits(n)  == IF n <= Capacity - Len(elems) THEN n ELSE Capacity - Len(elems)
Holds(n) == IF n <= Len(elems) THEN n ELSE Len(elems)

QInit == elems = <<>> /\ call = <<"clear", 0, <<>>>>

QPush(data) ==
    /\ elems' = elems \o SubSeq(data, 1, Fits(Len(data)))
    /\ call' = <<"push", data, Fits(Len(data))>>

QHead ==
    /\ call' = <<"head", 1, SubSeq(elems, 1, Holds(1))>>
    /\ UNCHANGED elems

QRemove(n) ==
    /\ elems' = SubSeq(elems, Holds(n) + 1, Len(elems))
    /\ call' = <<"remove", n, <<>>>>

QTake(n) ==
    /\ elems' = SubSeq(elems, Holds(n) + 1, Len(elems))
    /\ call' = <<"take", n, SubSeq(elems, 1, Holds(n))>>

QClear == elems' = <<>> /\ call' = <<"clear", 0, <<>>>>

QNext ==
    \/ \E n \in 0..MaxPush : QRemove(n) \/ QTake(n)
    \/ \E n \in 0..MaxPush : \E data \in [1..n -> Elements] : QPush(data)
    \/ QHead \/ QClear

QSpec == QInit /\ [][QNext]_qVars
=============================================================================
