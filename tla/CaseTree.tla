------------------------------- MODULE CaseTree --------------------------------
(***************************************************************************)
(* CCaseTreeCtrl (TreeCtrl/CaseTreeCtrl.cpp): a tree of test cases.  A       *)
(* double click starts a thread that runs the cases below the selected item, *)
(* or, if the tree's thread is known to run, stops them.  Every call by      *)
(* which the thread looks at its tree is a message to the thread of the user *)
(* interface: it waits until that thread takes messages.                     *)
(*                                                                          *)
(* What running a case does is left to the module that has the cases: it     *)
(* takes a thread from running to ran.                                       *)
(***************************************************************************)
EXTENDS Integers, Sequences

CONSTANTS
    Trees,         \* the trees of the dialog
    Cases,         \* the cases of each, a sequence, in the order of the items
    MaxClicks      \* how often the user clicks

VARIABLES
    ui,            \* the thread of the user interface: its handler and tree
    selected,      \* the cases below the selected item of a tree
    handle,        \* m_RunCaseThread # NULL
    worker,        \* where the thread of a tree is; none
    todo,          \* the cases it has not come to
    count,         \* m_nCaseCount
    cursor,        \* m_nRunCaseCursor
    stopped,       \* a stop since the thread began its walk
    missed,        \* the walk has passed over a case
    clicks         \* what is left of MaxClicks

treeVars == <<ui, selected, handle, worker, todo, count, cursor, stopped, missed, clicks>>

\* RunTestCase and SeatchItem come to the cases below an item: what may be
\* selected is an item above them all, one case, or the item of the
\* integration tests, of which there are none.
SelectedItems(t) == {Cases[t], <<>>} \cup {<<Cases[t][i]>> : i \in 1..Len(Cases[t])}

TreeInit ==
    /\ ui = [does |-> "idle", tree |-> "none"]
    /\ selected = [t \in Trees |-> Cases[t]]
    /\ handle = [t \in Trees |-> FALSE]
    /\ worker = [t \in Trees |-> "none"]
    /\ todo = [t \in Trees |-> <<>>]
    /\ count = [t \in Trees |-> 0]
    /\ cursor = [t \in Trees |-> 0]
    /\ stopped = [t \in Trees |-> FALSE]
    /\ missed = [t \in Trees |-> FALSE]
    /\ clicks = MaxClicks

At(t, p) == worker[t] = p
Goes(t, p) == worker' = [worker EXCEPT ![t] = p]

\* SendMessage returns.
UiAnswers == ui.does = "idle"
-----------------------------------------------------------------------------
\* The thread of the user interface.

UiGoesOn(p) == ui' = [ui EXCEPT !.does = p]

\* A double click on an item selects it.
OnDbClick(t, i) ==
    /\ ui.does = "idle" /\ clicks > 0 /\ clicks' = clicks - 1
    /\ selected' = [selected EXCEPT ![t] = i]

\* OnRun up to the thread's start.
OnRun(t, i) ==
    /\ OnDbClick(t, i) /\ ~handle[t]
    /\ count' = [count EXCEPT ![t] = 0]
    /\ Goes(t, "created")
    /\ ui' = [does |-> "running", tree |-> t]
    /\ UNCHANGED <<handle, todo, cursor, stopped, missed>>

OnRunReturns ==
    /\ ui.does = "running" /\ UiGoesOn("idle")
    /\ handle' = [handle EXCEPT ![ui.tree] = TRUE]
    /\ UNCHANGED <<selected, worker, todo, count, cursor, stopped, missed, clicks>>

\* Mutant: a stop forgets the thread, which still has to notice it.
OnStopForgets(t, i) ==
    /\ OnDbClick(t, i) /\ handle[t]
    /\ handle' = [handle EXCEPT ![t] = FALSE]
    /\ ui' = [does |-> "stopping", tree |-> t]
    /\ count' = [count EXCEPT ![t] = 0]
    /\ stopped' = [stopped EXCEPT ![t] = TRUE]
    /\ UNCHANGED <<worker, todo, cursor, missed>>

\* OnStop, which resets the two counters, one after the other, and then goes
\* through the items.
OnStop(t, i) ==
    /\ OnDbClick(t, i) /\ handle[t]
    /\ ui' = [does |-> "stopping", tree |-> t]
    /\ count' = [count EXCEPT ![t] = 0]
    /\ stopped' = [stopped EXCEPT ![t] = TRUE]
    /\ UNCHANGED <<handle, worker, todo, cursor, missed>>

OnStopResets ==
    /\ ui.does = "stopping" /\ UiGoesOn("marking")
    /\ cursor' = [cursor EXCEPT ![ui.tree] = 1]
    /\ UNCHANGED <<selected, handle, worker, todo, count, stopped, missed, clicks>>

\* StopTest, for the items below the selected one.
StopTest ==
    /\ ui.does = "marking" /\ UiGoesOn("idle")
    /\ UNCHANGED <<selected, handle, worker, todo, count, cursor, stopped, missed, clicks>>
-----------------------------------------------------------------------------
\* The thread of a tree: RunCaseThread, RunTreeItem, RunTestCase, RunTest.

SelectsUnreset(t) ==
    /\ At(t, "created") /\ UiAnswers /\ Goes(t, "walks")
    /\ todo' = [todo EXCEPT ![t] = selected[t]]
    /\ count' = [count EXCEPT ![t] = 0]
    /\ cursor' = [cursor EXCEPT ![t] = IF @ = 0 THEN 1 ELSE @]
    /\ stopped' = [stopped EXCEPT ![t] = FALSE]
    /\ UNCHANGED <<ui, selected, handle, missed, clicks>>

\* The selection may not be the one the thread was started for.
Selects(t) ==
    /\ At(t, "created") /\ UiAnswers /\ Goes(t, "walks")
    /\ todo' = [todo EXCEPT ![t] = selected[t]]
    /\ count' = [count EXCEPT ![t] = 0]
    /\ cursor' = [cursor EXCEPT ![t] = 1]
    /\ stopped' = [stopped EXCEPT ![t] = FALSE]
    /\ UNCHANGED <<ui, selected, handle, missed, clicks>>

TakesItem(t) ==
    /\ At(t, "walks") /\ UiAnswers
    /\ Goes(t, IF todo[t] = <<>> THEN "finishes" ELSE "counts")
    /\ UNCHANGED <<ui, selected, handle, todo, count, cursor, stopped, missed, clicks>>

\* The case whose number is the cursor is run, another one passed over.
Counts(t) ==
    /\ At(t, "counts")
    /\ count' = [count EXCEPT ![t] = @ + 1]
    /\ IF count[t] + 1 = cursor[t]
         THEN Goes(t, "runs") /\ UNCHANGED <<todo, missed>>
         ELSE /\ Goes(t, "walks")
              /\ todo' = [todo EXCEPT ![t] = Tail(@)]
              /\ missed' = [missed EXCEPT ![t] = TRUE]
    /\ UNCHANGED <<ui, selected, handle, cursor, stopped, clicks>>

\* The case at hand is marked and run; when it has been run, ...
Runs(t, c) == At(t, "runs") /\ Head(todo[t]) = c
Starts(t, c) == Runs(t, c) /\ UiAnswers
HasRun(t) ==
    /\ Goes(t, "ran")
    /\ UNCHANGED <<ui, selected, handle, todo, count, cursor, stopped, missed, clicks>>

Advances(t) ==
    /\ At(t, "ran") /\ Goes(t, "walks")
    /\ cursor' = [cursor EXCEPT ![t] = @ + 1]
    /\ todo' = [todo EXCEPT ![t] = Tail(@)]
    /\ UNCHANGED <<ui, selected, handle, count, stopped, missed, clicks>>

Finishes(t) ==
    /\ At(t, "finishes") /\ Goes(t, "none")
    /\ handle' = [handle EXCEPT ![t] = FALSE]
    /\ stopped' = [stopped EXCEPT ![t] = FALSE] /\ missed' = [missed EXCEPT ![t] = FALSE]
    /\ UNCHANGED <<ui, selected, todo, count, cursor, clicks>>

Walks(t) ==
    Selects(t) \/ TakesItem(t) \/ Counts(t) \/ Advances(t) \/ Finishes(t)
=============================================================================
