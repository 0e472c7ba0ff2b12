------------------------------ MODULE MCIapTester ------------------------------
(* The two trees of the iAP2 test and their threads, for TLC. *)
EXTENDS IapTester

TheTrees == {"run", "input"}
SomeInputs == SubSeq(InputCases, 1, 3)
TheCases == [run |-> UnitCases, input |-> SomeInputs]
NoFaults == {{}}
NoRequests == {}

\* The lists behind the trees, and every list of up to five nodes.
L == INSTANCE TreeData
Node(level) == [level |-> level, runs |-> level = 2]
ListOf(levels) == [i \in DOMAIN levels |-> Node(levels[i])]
RunList == L!AddTreeNodeData(L!NewList, ListOf(<<1, 2>>))
InputList == L!AddTreeNodeData(L!NewList, ListOf(<<1>> \o [i \in DOMAIN InputCases |-> 2]))
SmallLists == {ListOf(levels) : levels \in UNION {[1..n -> 0..3] : n \in 0..5}}

\* FillTreeNodeData puts a node under the last one before it of the level above;
\* a node whose level is too deep is not shown, nor is any after it up to the
\* next root.
ASSUME NodesFindTheirParents ==
    \A list \in SmallLists :
        LET tree == L!FillTreeNodeData(list)
            Above(n) == {i \in 1..(n - 1) : list[i].level = list[n].level - 1}
        IN  \A n \in DOMAIN list :
                /\ n \in DOMAIN tree <=>
                       \/ list[n].level = 0
                       \/ n - 1 \in DOMAIN tree /\ list[n].level <= list[n - 1].level + 1
                /\ n \in DOMAIN tree => tree[n] = (IF Above(n) = {} \/ list[n].level = 0 THEN 0
                                                   ELSE CHOOSE i \in Above(n) : \A j \in Above(n) : j <= i)

\* Running an item comes to the item and to those below it, each once, in the
\* order of the list; a search from the first item comes to all of them.
ASSUME RunsVisitTheSubtree ==
    \A list \in SmallLists :
        LET tree == L!FillTreeNodeData(list)
        IN  \A item \in DOMAIN tree :
                LET visits == L!RunTestCase(tree, item)
                IN  /\ \A i \in 1..(Len(visits) - 1) : visits[i] < visits[i + 1]
                    /\ \A n \in DOMAIN tree :
                           n \in {visits[i] : i \in DOMAIN visits}
                               <=> n = item \/ (n > item /\ \A k \in (item + 1)..n :
                                                   k \in DOMAIN tree /\ list[k].level > list[item].level)
                    /\ L!FindItem(tree, L!Child(tree, 0), {item}) = item

\* What may be selected in the trees of the dialog are the runs of CaseTree: all
\* the cases, one of them, or none below the root of the integration tests.
ASSUME SelectionsAreRuns ==
    \A t \in TheTrees :
        LET list == IF t = "run" THEN RunList ELSE InputList
            both == list \o L!NewList
            tree == L!FillBoth(list, L!NewList)
            all  == IF t = "run" THEN UnitCases ELSE InputCases
            Below(item) == LET runs == SelectSeq(L!RunTestCase(tree, item), LAMBDA n : both[n].runs)
                           IN  [i \in DOMAIN runs |-> all[runs[i] - 2]]
        IN  {Below(item) : item \in DOMAIN tree} = {all, <<>>} \cup {<<all[i]>> : i \in DOMAIN all}
=============================================================================
