----------------------------- MODULE LinkedList -----------------------------
(***************************************************************************)
(* The doubly linked list of Arch/List.c as operators on the links of its   *)
(* nodes.  A list is known by its head, which its owner keeps.  Every loop  *)
(* of the code that follows one pointer is a recursive function here.       *)
(***************************************************************************)
EXTENDS Integers, Sequences

CONSTANTS Nodes, Null

ASSUME ListAssumption == Null \notin Nodes

Links == [next : [Nodes -> Nodes \cup {Null}], pre : [Nodes -> Nodes \cup {Null}]]

\* Nodes whose memory was cleared.
List_Init == [next |-> [n \in Nodes |-> Null], pre |-> [n \in Nodes |-> Null]]

\* The nodes from n on, along m_pNext.
Chain(l, n) ==
    LET from[m \in Nodes] ==
            <<m>> \o (IF l.next[m] = Null THEN <<>> ELSE from[l.next[m]])
    IN  IF n = Null THEN <<>> ELSE from[n]

Tail_of(l, n) ==
    LET last[m \in Nodes] == IF l.next[m] = Null THEN m ELSE last[l.next[m]]
    IN  last[n]

Head_of(l, n) ==
    LET first[m \in Nodes] == IF l.pre[m] = Null THEN m ELSE first[l.pre[m]]
    IN  first[n]

List_isIn(l, head, n) == \E i \in DOMAIN Chain(l, head) : Chain(l, head)[i] = n

\* Returns the head; an empty list takes the node's own links as they are.
List_AddTail(l, head, n) ==
    IF head = Null
    THEN [links |-> [l EXCEPT !.next[n] = Null, !.pre[n] = Null], head |-> n]
    ELSE LET cut == [l EXCEPT !.next[n] = Null]
             t   == Tail_of(cut, head)
         IN  [links |-> [cut EXCEPT !.next[t] = n, !.pre[n] = t], head |-> head]

\* Mutant: the successor of a node in the middle keeps pointing back at it.
BypassedForward(l, n) ==
    [next |-> [m \in Nodes |-> IF m = l.pre[n] THEN l.next[n] ELSE l.next[m]],
     pre  |-> [m \in Nodes |-> IF m = l.next[n] /\ l.pre[n] = Null
                                 THEN Null ELSE l.pre[m]]]

\* The links of a node's neighbours, without it.
Bypassed(l, n) ==
    [next |-> [m \in Nodes |-> IF m = l.pre[n] THEN l.next[n] ELSE l.next[m]],
     pre  |-> [m \in Nodes |-> IF m = l.next[n] THEN l.pre[n] ELSE l.pre[m]]]

\* Returns the head of what is left.
List_Remove(l, n) ==
    LET b == Bypassed(l, n)
    IN  [links |-> [b EXCEPT !.next[n] = Null, !.pre[n] = Null],
         head  |-> IF l.pre[n] = Null THEN l.next[n] ELSE Head_of(b, n)]

\* What every user of the list relies on: m_pPre is the inverse of m_pNext,
\* nothing precedes the head, no node occurs twice, and a node outside it
\* points nowhere.
IsList(l, head) ==
    LET c == Chain(l, head)
    IN  /\ head = Null \/ l.pre[head] = Null
        /\ \A i \in 1..(Len(c) - 1) : l.pre[c[i + 1]] = c[i]
        /\ \A n \in Nodes : ~List_isIn(l, head, n) =>
               l.next[n] = Null /\ l.pre[n] = Null
=============================================================================
