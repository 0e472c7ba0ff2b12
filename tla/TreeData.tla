------------------------------ MODULE TreeData ------------------------------
(***************************************************************************)
(* How the list of test nodes becomes the tree a dialog shows, and how the  *)
(* tree is walked: CCaseTreeData, CCaseTreeCtrl::FillTreeNodeData and the    *)
(* searches of CMyTreeCtrl.  A list is a sequence of nodes, each with its     *)
(* level and whether it can be run; an item is the place of its node in the   *)
(* list.  The items under a parent are in the order of their insertion.      *)
(***************************************************************************)
EXTENDS Integers, Sequences

\* The two lists of CCaseTreeData are made with one node each, at level 0.
NewList == <<[level |-> 0, runs |-> FALSE]>>
AddTreeNodeData(list, nodes) == list \o nodes

\* The calls of FillTreeNodeData that are open after each node, by the node each
\* inserts children of: a node that is no child of the last of them ends that
\* call, and one that none of them takes is shown only when its level is 0.
Open(list) ==
    LET open[n \in 0..Len(list)] ==
            IF n = 0 THEN <<>>
            ELSE IF list[n].level <= Len(open[n - 1])
                 THEN SubSeq(open[n - 1], 1, list[n].level) \o <<n>>
                 ELSE <<>>
    IN  open

\* The tree: its items, and the parent of each, 0 for a root.
FillTreeNodeData(list) ==
    LET open  == Open(list)
        items == {n \in DOMAIN list : open[n] # <<>>}
    IN  [n \in items |-> IF list[n].level = 0 THEN 0 ELSE open[n][list[n].level]]

\* Both lists in one control, the second one's roots after the first's.
FillBoth(unit, integ) ==
    LET second == FillTreeNodeData(integ)
        shift  == Len(unit)
        moved  == [n \in {i + shift : i \in DOMAIN second} |->
                      IF second[n - shift] = 0 THEN 0 ELSE second[n - shift] + shift]
        first  == FillTreeNodeData(unit)
    IN  [n \in DOMAIN first \cup DOMAIN moved |-> IF n \in DOMAIN first THEN first[n] ELSE moved[n]]

\* The first of the items that satisfy a condition, or 0: TVGN_CHILD, TVGN_NEXT.
FirstOf(items) == IF items = {} THEN 0 ELSE CHOOSE i \in items : \A j \in items : i <= j
Child(tree, item) == FirstOf({i \in DOMAIN tree : tree[i] = item})
NextItem(tree, item) == FirstOf({i \in DOMAIN tree : tree[i] = tree[item] /\ i > item})

\* The items in the order in which SeatchItem operates on them.
RECURSIVE SeatchItem(_, _)
SeatchItem(tree, item) ==
    IF item = 0 THEN <<>>
    ELSE <<item>> \o SeatchItem(tree, Child(tree, item)) \o SeatchItem(tree, NextItem(tree, item))

\* The items a run of the selected one comes to.
RunTestCase(tree, item) == <<item>> \o SeatchItem(tree, Child(tree, item))

\* The first item on from this one whose node satisfies a condition: 0 is none.
FindItem(tree, item, wanted) ==
    LET found == SelectSeq(SeatchItem(tree, item), LAMBDA n : n \in wanted)
    IN  IF found = <<>> THEN 0 ELSE Head(found)
=============================================================================
