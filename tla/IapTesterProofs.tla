---------------------------- MODULE IapTesterProofs ---------------------------
(***************************************************************************)
(* The trees of the iAP2 test and their threads, for any trees and cases,   *)
(* any number of clicks, and whatever the link and the player of the device *)
(* do; and the flag by which the driver hands the end of a transmission on  *)
(* from one thread to the other.                                            *)
(***************************************************************************)
EXTENDS IapTester, TLAPS

(* Where a thread may be, and the types of what the trees keep. *)
Workers == {"none", "created", "walks", "counts", "runs", "ran", "finishes"}

TreeType ==
    /\ ui = [does |-> ui.does, tree |-> ui.tree]
    /\ worker \in [Trees -> Workers] /\ handle \in [Trees -> BOOLEAN]
    /\ count \in [Trees -> Int] /\ cursor \in [Trees -> Int]
    /\ stopped \in [Trees -> BOOLEAN] /\ missed \in [Trees -> BOOLEAN]

(* HandleMatchesThread says nothing while OnRun has not stored the handle: the
   thread waits at its first message then. *)
Stores(t) == ui.does = "running" /\ ui.tree = t
HandleOf(t) ==
    IF Stores(t) THEN worker[t] = "created" ELSE handle[t] <=> worker[t] # "none"

(* What the two counters of a walk come to as long as nothing has reset them,
   and when OnStop may reset the second. *)
InOrder(t) ==
    /\ worker[t] \in {"walks", "counts"} => cursor[t] = count[t] + 1
    /\ worker[t] \in {"runs", "ran"} => cursor[t] = count[t]
WalkOf(t) ==
    /\ ~stopped[t] => ~missed[t] /\ InOrder(t)
    /\ worker[t] \in {"none", "created"} => ~missed[t]
    /\ ui.does = "stopping" /\ ui.tree = t => stopped[t] \/ worker[t] = "none"

TreeInv == TreeType /\ \A t \in Trees : HandleOf(t) /\ WalkOf(t)

(* No tree has a thread at first. *)
LEMMA TreesStart == TesterInit => TreeInv
  BY DEF TesterInit, TreeInit, TreeInv, TreeType, Workers, HandleOf, Stores, WalkOf, InOrder

(* Steps that leave the trees alone. *)
LEMMA TreesStutter == TreeInv /\ UNCHANGED treeVars => TreeInv'
  BY DEF treeVars, TreeInv, TreeType, HandleOf, Stores, WalkOf, InOrder
-----------------------------------------------------------------------------
(* The thread of the user interface. *)
LEMMA RunInv ==
    ASSUME TreeInv, NEW t \in Trees, NEW i, OnRun(t, i) PROVE TreeInv'
  <1>1. /\ ui.does = "idle" /\ ~handle[t] /\ ui' = [does |-> "running", tree |-> t]
        /\ worker' = [worker EXCEPT ![t] = "created"] /\ count' = [count EXCEPT ![t] = 0]
        /\ UNCHANGED <<handle, cursor, stopped, missed>>
    BY DEF OnRun, OnDbClick, Goes
  <1>2. TreeType'
    BY <1>1 DEF TreeInv, TreeType, Workers
  <1>3. worker[t] = "none"
    BY <1>1 DEF TreeInv, HandleOf, Stores
  <1>4. ASSUME NEW u \in Trees PROVE HandleOf(u)' /\ WalkOf(u)'
    BY <1>1, <1>3 DEF TreeInv, TreeType, HandleOf, Stores, WalkOf, InOrder
  <1>. QED BY <1>2, <1>4 DEF TreeInv

(* OnRun stores the handle of the thread it has created. *)
LEMMA RunReturnsInv == ASSUME TreeInv, OnRunReturns PROVE TreeInv'
  <1>1. /\ ui.does = "running" /\ ui' = [ui EXCEPT !.does = "idle"]
        /\ handle' = [handle EXCEPT ![ui.tree] = TRUE]
        /\ UNCHANGED <<worker, count, cursor, stopped, missed>>
    BY DEF OnRunReturns, UiGoesOn
  <1>2. TreeType' /\ ui'.does = "idle"
    BY <1>1 DEF TreeInv, TreeType, Workers
  <1>3. ASSUME NEW u \in Trees PROVE HandleOf(u)' /\ WalkOf(u)'
    BY <1>1, <1>2 DEF TreeInv, TreeType, HandleOf, Stores, WalkOf, InOrder
  <1>. QED BY <1>2, <1>3 DEF TreeInv

LEMMA StopInv ==
    ASSUME TreeInv, NEW t \in Trees, NEW i, OnStop(t, i) PROVE TreeInv'
  <1>1. /\ ui.does = "idle" /\ ui' = [does |-> "stopping", tree |-> t]
        /\ count' = [count EXCEPT ![t] = 0] /\ stopped' = [stopped EXCEPT ![t] = TRUE]
        /\ UNCHANGED <<worker, handle, cursor, missed>>
    BY DEF OnStop, OnDbClick
  <1>2. TreeType'
    BY <1>1 DEF TreeInv, TreeType, Workers
  <1>3. ASSUME NEW u \in Trees PROVE HandleOf(u)' /\ WalkOf(u)'
    BY <1>1 DEF TreeInv, TreeType, HandleOf, Stores, WalkOf, InOrder
  <1>. QED BY <1>2, <1>3 DEF TreeInv

(* A stop resets the counter of a walk, *)
LEMMA StopResetsInv == ASSUME TreeInv, OnStopResets PROVE TreeInv'
  <1>1. /\ ui.does = "stopping" /\ ui' = [ui EXCEPT !.does = "marking"]
        /\ cursor' = [cursor EXCEPT ![ui.tree] = 1]
        /\ UNCHANGED <<worker, handle, count, stopped, missed>>
    BY DEF OnStopResets, UiGoesOn
  <1>4. cursor' \in [Trees -> Int]
    <2>1. /\ cursor \in [Trees -> Int]
          /\ cursor' = [u \in Trees |-> IF u = ui.tree THEN 1 ELSE cursor[u]]
      BY <1>1 DEF TreeInv, TreeType
    <2>. QED BY <2>1
  <1>5. ui' = [does |-> ui'.does, tree |-> ui'.tree] /\ ui'.does = "marking"
    BY <1>1 DEF TreeInv, TreeType
  <1>2. TreeType' /\ ui'.does = "marking"
    BY <1>1, <1>4, <1>5 DEF TreeInv, TreeType
  <1>3. ASSUME NEW u \in Trees PROVE HandleOf(u)' /\ WalkOf(u)'
    BY <1>1, <1>2 DEF TreeInv, TreeType, HandleOf, Stores, WalkOf, InOrder
  <1>. QED BY <1>2, <1>3 DEF TreeInv

LEMMA StopMarksInv == ASSUME TreeInv, StopTest PROVE TreeInv'
  <1>1. /\ ui.does = "marking" /\ ui' = [ui EXCEPT !.does = "idle"]
        /\ UNCHANGED <<worker, handle, count, cursor, stopped, missed>>
    BY DEF StopTest, UiGoesOn
  <1>2. TreeType' /\ ui'.does = "idle"
    BY <1>1 DEF TreeInv, TreeType, Workers
  <1>3. ASSUME NEW u \in Trees PROVE HandleOf(u)' /\ WalkOf(u)'
    BY <1>1, <1>2 DEF TreeInv, TreeType, HandleOf, Stores, WalkOf, InOrder
  <1>. QED BY <1>2, <1>3 DEF TreeInv
-----------------------------------------------------------------------------
(* The threads of the trees. *)
LEMMA SelectsInv == ASSUME TreeInv, NEW t \in Trees, Selects(t) PROVE TreeInv'
  <1>1. /\ worker[t] = "created" /\ ui.does = "idle" /\ worker' = [worker EXCEPT ![t] = "walks"]
        /\ count' = [count EXCEPT ![t] = 0] /\ cursor' = [cursor EXCEPT ![t] = 1]
        /\ stopped' = [stopped EXCEPT ![t] = FALSE]
        /\ UNCHANGED <<ui, handle, missed>>
    BY DEF Selects, At, Goes, UiAnswers
  <1>2. TreeType'
    BY <1>1 DEF TreeInv, TreeType, Workers
  <1>3. ASSUME NEW u \in Trees PROVE HandleOf(u)' /\ WalkOf(u)'
    BY <1>1 DEF TreeInv, TreeType, HandleOf, Stores, WalkOf, InOrder
  <1>. QED BY <1>2, <1>3 DEF TreeInv

LEMMA TakesItemInv == ASSUME TreeInv, NEW t \in Trees, TakesItem(t) PROVE TreeInv'
  <1>1. /\ worker[t] = "walks" /\ ui.does = "idle"
        /\ \/ worker' = [worker EXCEPT ![t] = "finishes"]
           \/ worker' = [worker EXCEPT ![t] = "counts"]
        /\ UNCHANGED <<ui, handle, count, cursor, stopped, missed>>
    BY DEF TakesItem, At, Goes, UiAnswers
  <1>2. TreeType'
    BY <1>1 DEF TreeInv, TreeType, Workers
  <1>3. ASSUME NEW u \in Trees PROVE HandleOf(u)' /\ WalkOf(u)'
    BY <1>1 DEF TreeInv, TreeType, HandleOf, Stores, WalkOf, InOrder
  <1>. QED BY <1>2, <1>3 DEF TreeInv

(* A case is passed over only when the counters are out of order. *)
LEMMA CountsInv == ASSUME TreeInv, NEW t \in Trees, Counts(t) PROVE TreeInv'
  <1>1. /\ worker[t] = "counts" /\ count' = [count EXCEPT ![t] = count[t] + 1]
        /\ \/ /\ count[t] + 1 = cursor[t] /\ missed' = missed
              /\ worker' = [worker EXCEPT ![t] = "runs"]
           \/ /\ count[t] + 1 # cursor[t] /\ missed' = [missed EXCEPT ![t] = TRUE]
              /\ worker' = [worker EXCEPT ![t] = "walks"]
        /\ UNCHANGED <<ui, handle, cursor, stopped>>
    BY DEF Counts, At, Goes
  <1>5. count' \in [Trees -> Int]
    BY <1>1 DEF TreeInv, TreeType
  <1>6. worker' \in [Trees -> Workers] /\ missed' \in [Trees -> BOOLEAN]
    BY <1>1 DEF TreeInv, TreeType, Workers
  <1>2. TreeType'
    BY <1>1, <1>5, <1>6 DEF TreeInv, TreeType
  <1>3. count[t] + 1 # cursor[t] => stopped[t]
    BY <1>1 DEF TreeInv, WalkOf, InOrder
  <1>4. ASSUME NEW u \in Trees PROVE HandleOf(u)' /\ WalkOf(u)'
    BY <1>1, <1>3 DEF TreeInv, TreeType, HandleOf, Stores, WalkOf, InOrder
  <1>. QED BY <1>2, <1>4 DEF TreeInv

LEMMA HasRunInv ==
    ASSUME TreeInv, NEW t, t \in Trees => worker[t] = "runs", HasRun(t) PROVE TreeInv'
  <1>1. /\ worker' = [worker EXCEPT ![t] = "ran"]
        /\ UNCHANGED <<ui, handle, count, cursor, stopped, missed>>
    BY DEF HasRun, Goes
  <1>2. TreeType'
    BY <1>1 DEF TreeInv, TreeType, Workers
  <1>3. ASSUME NEW u \in Trees PROVE HandleOf(u)' /\ WalkOf(u)'
    BY <1>1 DEF TreeInv, TreeType, HandleOf, Stores, WalkOf, InOrder
  <1>. QED BY <1>2, <1>3 DEF TreeInv

LEMMA AdvancesInv == ASSUME TreeInv, NEW t \in Trees, Advances(t) PROVE TreeInv'
  <1>1. /\ worker[t] = "ran" /\ worker' = [worker EXCEPT ![t] = "walks"]
        /\ cursor' = [cursor EXCEPT ![t] = cursor[t] + 1]
        /\ UNCHANGED <<ui, handle, count, stopped, missed>>
    BY DEF Advances, At, Goes
  <1>2. TreeType'
    BY <1>1 DEF TreeInv, TreeType, Workers
  <1>3. ASSUME NEW u \in Trees PROVE HandleOf(u)' /\ WalkOf(u)'
    BY <1>1 DEF TreeInv, TreeType, HandleOf, Stores, WalkOf, InOrder
  <1>. QED BY <1>2, <1>3 DEF TreeInv

LEMMA FinishesInv == ASSUME TreeInv, NEW t \in Trees, Finishes(t) PROVE TreeInv'
  <1>1. /\ worker[t] = "finishes" /\ worker' = [worker EXCEPT ![t] = "none"]
        /\ handle' = [handle EXCEPT ![t] = FALSE]
        /\ stopped' = [stopped EXCEPT ![t] = FALSE] /\ missed' = [missed EXCEPT ![t] = FALSE]
        /\ UNCHANGED <<ui, count, cursor>>
    BY DEF Finishes, At, Goes
  <1>2. TreeType'
    BY <1>1 DEF TreeInv, TreeType, Workers
  <1>3. ASSUME NEW u \in Trees PROVE HandleOf(u)' /\ WalkOf(u)'
    BY <1>1 DEF TreeInv, TreeType, HandleOf, Stores, WalkOf, InOrder
  <1>. QED BY <1>2, <1>3 DEF TreeInv
-----------------------------------------------------------------------------
(* The link's thread is in iAP2_Run as long as it has not left its loop. *)
LoopOf == "run" \in Trees /\ loop # "none" => worker["run"] = "runs"
(* The trees and the link's thread together. *)
BenchInv == TreeInv /\ LoopOf

(* As long as the loop goes on, the trees leave the case that runs it alone. *)
LEMMA RunnerStays ==
    ASSUME BenchInv, loop' = loop, "run" \in Trees,
           \/ UNCHANGED treeVars \/ OnRunReturns \/ OnStopResets \/ StopTest
           \/ \E t \in Trees : Walks(t) \/ \E i : OnRun(t, i) \/ OnStop(t, i)
    PROVE  LoopOf'
  <1>1. CASE UNCHANGED treeVars \/ OnRunReturns \/ OnStopResets \/ StopTest
    BY <1>1 DEF BenchInv, LoopOf, treeVars, OnRunReturns, OnStopResets, StopTest
  <1>2. ASSUME NEW t \in Trees, NEW i, OnRun(t, i) \/ OnStop(t, i) PROVE LoopOf'
    <2>1. worker' = worker \/ (worker[t] = "none" /\ worker' = [worker EXCEPT ![t] = "created"])
      BY <1>2 DEF OnRun, OnStop, OnDbClick, Goes, BenchInv, TreeInv, HandleOf, Stores
    <2>. QED BY <2>1 DEF BenchInv, LoopOf, TreeInv, TreeType
  <1>3. ASSUME NEW t \in Trees, Walks(t) PROVE LoopOf'
    <2>1. PICK p : worker[t] # "runs" /\ worker' = [worker EXCEPT ![t] = p]
      BY <1>3 DEF Walks, Selects, TakesItem, Counts, Advances, Finishes, At, Goes
    <2>. QED BY <2>1 DEF BenchInv, LoopOf, TreeInv, TreeType
  <1>. QED BY <1>1, <1>2, <1>3

(* Every step of the bench. *)
LEMMA BenchStep == BenchInv /\ [NextStep]_allVars => BenchInv'
  <1> SUFFICES ASSUME BenchInv, [NextStep]_allVars PROVE BenchInv'
    OBVIOUS
  <1> USE DEF BenchInv
  <1>1. CASE User
    <2>1. PICK t \in Trees : \E i : OnRun(t, i) \/ OnStop(t, i)
      BY <1>1 DEF User
    <2>2. TreeInv' /\ loop' = loop
      BY <1>1, <2>1, RunInv, StopInv DEF User, testerVars
    <2>3. "run" \in Trees => LoopOf'
      BY <2>1, <2>2, RunnerStays
    <2>. QED BY <2>2, <2>3 DEF LoopOf
  <1>2. CASE Ui
    <2>1. TreeInv' /\ loop' = loop
      BY <1>2, StopMarksInv, RunReturnsInv, StopResetsInv DEF Ui, StopMarks, testerVars
    <2>2. "run" \in Trees => LoopOf'
      BY <1>2, <2>1, RunnerStays DEF Ui, StopMarks
    <2>. QED BY <2>1, <2>2 DEF LoopOf
  <1>3. ASSUME NEW t \in Trees, Walk(t) PROVE BenchInv'
    <2>1. TreeInv' /\ loop' = loop
      BY <1>3, SelectsInv, TakesItemInv, CountsInv, AdvancesInv, FinishesInv
         DEF Walk, Walks, testerVars
    <2>2. "run" \in Trees => LoopOf'
      BY <1>3, <2>1, RunnerStays DEF Walk
    <2>. QED BY <2>1, <2>2 DEF LoopOf
  <1>4. CASE LinkThread
    <2>1. CASE LoopEnds
      <3>1. HasRun("run") /\ loop # "none" /\ loop' = "none"
        BY <2>1 DEF LoopEnds, LoopGoes
      <3>. QED BY <3>1, HasRunInv DEF LoopOf
    <2>2. CASE iAP2_Begin
      BY <2>2, TreesStutter DEF iAP2_Begin, Starts, Runs, At, LoopOf, treeVars
    <2>3. ASSUME UNCHANGED treeVars, loop # "none" PROVE BenchInv'
      BY <2>3, TreesStutter DEF LoopOf, treeVars
    <2>. QED
      BY <1>4, <2>1, <2>2, <2>3
         DEF LinkThread, iAP2_Start, LoopTests, CheckTx, CheckRx, CheckNone,
             TransferIsDone, ClearsTx, ClearsRx, LoopRuns
  <1>5. CASE InputThread
    <2>1. ASSUME HasRun("input"), worker["input"] = "runs", loop' = loop PROVE BenchInv'
      <3>1. worker' = [worker EXCEPT !["input"] = "ran"]
        BY <2>1 DEF HasRun, Goes
      <3>2. LoopOf'
        BY <2>1, <3>1 DEF LoopOf, TreeInv, TreeType
      <3>. QED BY <2>1, <3>2, HasRunInv
    <2>2. CASE Driver_TxDone
      BY <2>1, <2>2 DEF Driver_TxDone, Starts, Runs, At
    <2>3. ASSUME NEW c, RxDoneIgnored(c) \/ RxDoneCopies(c) PROVE BenchInv'
      BY <2>1, <2>3 DEF RxDoneIgnored, RxDoneCopies, Starts, Runs, At, testerVars
    <2>4. ASSUME NEW c, RxDoneFlags(c) \/ RxDoneMeasures(c) PROVE BenchInv'
      BY <2>4, TreesStutter DEF RxDoneFlags, RxDoneMeasures, LoopOf, treeVars
    <2>. QED BY <1>5, <2>2, <2>3, <2>4 DEF InputThread
  <1>6. CASE TimerOut \/ UNCHANGED allVars
    BY <1>6, TreesStutter DEF TimerOut, allVars, testerVars, LoopOf, treeVars
  <1>. QED BY <1>1, <1>2, <1>3, <1>4, <1>5, <1>6 DEF NextStep

(* No thread runs at first. *)
LEMMA BenchStarts == TesterInit => BenchInv
  BY TreesStart DEF TesterInit, BenchInv, LoopOf

(* What a double click goes by is whether the tree's thread runs (OnRun,
   RunCaseThread). *)
THEOREM HandleTellsTheThread == TesterSpec => []HandleMatchesThread
  <1>1. BenchInv => HandleMatchesThread
    BY DEF BenchInv, TreeInv, HandleOf, Stores, HandleMatchesThread, UiAnswers, At
  <1>. QED BY <1>1, BenchStarts, BenchStep, PTL DEF TesterSpec

(* Only a stop makes a walk pass over a case (RunTest, OnStop). *)
THEOREM WalksAreComplete == TesterSpec => []EveryCaseIsRun
  <1>1. BenchInv => EveryCaseIsRun
    BY DEF BenchInv, TreeInv, TreeType, WalkOf, EveryCaseIsRun
  <1>. QED BY <1>1, BenchStarts, BenchStep, PTL DEF TesterSpec
-----------------------------------------------------------------------------
(* TransmissionsEnd is not inductive: that the flag of a transmission is not
   cleared with the one before needs that no transmission follows on another,
   and this that m_Irb fits the state whenever it may be outstanding. *)
(* What may be outstanding, now or when the main loop starts it again. *)
CanBeOut == inflight \/ (timer # "stopped" /\ reSendMs # 0)
(* A transmission is not what a state that receives waits for. *)
TxFits == irb.isTx => /\ mState # "RX_LINK_SYNC"
                      /\ mState = "LINK_DONE" => sState # "RX_REQ"
(* The link's side: once the device was synchronized nothing is re-sent. *)
LinkFits ==
    /\ irb = [isTx |-> irb.isTx, buf |-> irb.buf, act |-> irb.act]
    /\ irb.isTx \in BOOLEAN /\ inflight \in BOOLEAN
    /\ mState \in {"TX_ACK", "LINK_DONE"} => reSendMs = 0
    /\ CanBeOut /\ ~hung => TxFits
(* The driver's side: until its handler has run, the flag stands for the
   transmission that is out. *)
FlagFits ==
    /\ isTxDone \in BOOLEAN /\ spurious \in BOOLEAN
    /\ loop = "initialized" => mState = "INIT"
    /\ ~spurious =>
          /\ loop \notin {"none", "clearsTx"} /\ irb.isTx /\ inflight => isTxDone
          /\ loop = "clearsTx" => ~(irb.isTx /\ inflight)
          /\ loop \in {"loops", "checks", "clearsRx", "runs"} /\ isTxDone
                => irb.isTx /\ inflight
TxInv == LinkFits /\ FlagFits

(* What a handler leaves after it started a transmission, a reception, or
   nothing at all. *)
LEMMA TxDataFits ==
    ASSUME NEW b, NEW ms, NEW max, Iap2Link_TxData(b, ms, max, TRUE),
           mState' \in {"TX_ACK", "LINK_DONE"} => ms = 0, mState' # "RX_LINK_SYNC",
           mState' = "LINK_DONE" => sState' # "RX_REQ"
    PROVE  LinkFits'
  BY DEF Iap2Link_TxData, LinkFits, TxFits

(* A reception is never a transmission. *)
LEMMA RcvDataFits ==
    ASSUME LinkFits, NEW b, Iap2Link_RcvData(b, TRUE),
           mState' \in {"TX_ACK", "LINK_DONE"} => mState \in {"TX_ACK", "LINK_DONE"}
    PROVE  LinkFits' /\ ~irb'.isTx
  BY DEF Iap2Link_RcvData, LinkFits, TxFits

(* A handler that starts nothing leaves nothing outstanding. *)
LEMMA StartNothingFits ==
    ASSUME LinkFits, ~hung, NEW act, StartNothing(act), timer' \in {"stopped", timer},
           \/ mState' = mState /\ (sState' = "RX_REQ" => sState = "RX_REQ")
           \/ mState = "TX_ACK" /\ mState' = "LINK_DONE"
    PROVE  LinkFits' /\ ~inflight'
  <1>1. /\ irb' = [irb EXCEPT !.act = act] /\ inflight' = FALSE /\ reSendMs' = reSendMs
        /\ hung' = hung
    BY DEF StartNothing
  <1>2. /\ irb' = [isTx |-> irb.isTx, buf |-> irb.buf, act |-> act]
        /\ irb'.isTx = irb.isTx
    BY <1>1 DEF LinkFits
  <1>3. CanBeOut' => CanBeOut /\ mState \notin {"TX_ACK", "LINK_DONE"} /\ mState' = mState
    BY <1>1 DEF LinkFits, CanBeOut
  <1>. QED BY <1>1, <1>2, <1>3 DEF LinkFits, TxFits

(* The synchronization begins with a transmission. *)
LEMMA SendSyncFits ==
    ASSUME NEW bufs, Iap2Link_SendSyncPkt(bufs, TRUE) PROVE LinkFits'
  BY TxDataFits DEF Iap2Link_SendSyncPkt

(* SessionMgr_RxReq in a new session listens, in another one does nothing. *)
LEMMA RxReqFits ==
    ASSUME LinkFits, ~hung, NEW s, NEW act, SessionMgr_RxReq(s, act, TRUE),
           timer' \in {"stopped", timer},
           mState \in {"TX_ACK", "LINK_DONE"}, mState' = "LINK_DONE",
           mState = "TX_ACK" \/ s # "RX_REQ"
    PROVE  LinkFits' /\ ~(irb'.isTx /\ inflight')
  <1>1. CASE s = "SESSION_INIT"
    BY <1>1, RcvDataFits DEF SessionMgr_RxReq
  <1>2. CASE s # "SESSION_INIT"
    BY <1>2, StartNothingFits DEF SessionMgr_RxReq
  <1>. QED BY <1>1, <1>2

(* The end of a session: listen, nothing, or a request of our own that is
   never started. *)
LEMMA SessionDoneFits ==
    ASSUME LinkFits, ~hung, NEW act, EventSessionDone(act, TRUE),
           timer' \in {"stopped", timer}, mState = "LINK_DONE", mState' = mState
    PROVE  LinkFits' /\ ~(irb'.isTx /\ inflight')
  <1>1. CASE SessionMgr_RxReq("SESSION_INIT", act, TRUE)
    BY <1>1, RxReqFits
  <1>2. CASE StartNothing(act) /\ sState' \in {"TX_REQ", "SESSION_INIT"}
    BY <1>2, StartNothingFits
  <1>. QED BY <1>1, <1>2 DEF EventSessionDone

(* Each handler of a transfer that succeeded. *)
LEMMA SessionFits ==
    ASSUME LinkFits, ~hung, NEW act, NEW bufs, SessionMgr_Fsm(TRUE, act, bufs, TRUE),
           mState = "LINK_DONE", mState' = mState
    PROVE  LinkFits' /\ (TxFits /\ irb.isTx => ~(irb'.isTx /\ inflight'))
  <1>1. CASE FsmRxReqHeader(bufs, TRUE)
    BY <1>1, RcvDataFits DEF FsmRxReqHeader
  <1>2. CASE FsmRxReqAck(bufs, TRUE)
    <2>1. Iap2Link_TxData("ack", 0, 0, TRUE) /\ sState' = "TX_ACK" /\ sState = "RX_REQ"
      BY <1>2 DEF FsmRxReqAck
    <2>. QED BY <2>1, TxDataFits DEF TxFits
  <1>3. CASE FsmRxReqRespond(bufs, TRUE)
    <2>1. Iap2Link_TxData("rsp", 0, 0, TRUE) /\ sState' = "TX_RSP" /\ sState = "RX_REQ"
      BY <1>3 DEF FsmRxReqRespond
    <2>. QED BY <2>1, TxDataFits DEF TxFits
  <1>4. CASE FsmTxRsp(bufs, TRUE)
    BY <1>4, RcvDataFits DEF FsmTxRsp
  <1>5. CASE FsmRxAckMismatch(act, bufs)
    BY <1>5, StartNothingFits DEF FsmRxAckMismatch
  <1>6. CASE FsmRxAck(act, bufs, TRUE)
    BY <1>6, SessionDoneFits DEF FsmRxAck
  <1>7. CASE FsmTxAck(act, bufs, TRUE)
    BY <1>7, RxReqFits DEF FsmTxAck, EventLinkSyncDone
  <1>. QED BY <1>1, <1>2, <1>3, <1>4, <1>5, <1>6, <1>7 DEF SessionMgr_Fsm

(* The synchronization, step by step. *)
LEMMA SyncLinkFits ==
    ASSUME LinkFits, ~hung, NEW act, NEW bufs, Iap2Link_Payload_SyncLink(TRUE, act, bufs, TRUE)
    PROVE  LinkFits' /\ (TxFits /\ irb.isTx => ~(irb'.isTx /\ inflight'))
  <1>1. CASE SyncSent(bufs, TRUE)
    BY <1>1, RcvDataFits DEF SyncSent
  <1>2. CASE SyncReceived(bufs, TRUE)
    <2>1. Iap2Link_TxData("ack", 0, 0, TRUE) /\ mState = "RX_LINK_SYNC" /\ mState' = "TX_ACK"
      BY <1>2 DEF SyncReceived
    <2>. QED BY <2>1, TxDataFits DEF TxFits
  <1>3. CASE SyncAckSent(act, bufs, TRUE)
    BY <1>3, RxReqFits DEF SyncAckSent, EventLinkSyncDone
  <1>. QED BY <1>1, <1>2, <1>3 DEF Iap2Link_Payload_SyncLink, SyncFailed

(* The detection: what follows a transmission is a reception. *)
LEMMA HandShakeFits ==
    ASSUME LinkFits, NEW act, NEW bufs, Iap2Link_handShake(TRUE, act, bufs, TRUE), mState = "INIT"
    PROVE  LinkFits' /\ (irb.isTx => ~(irb'.isTx /\ inflight'))
  <1>1. CASE HandShakeSent(TRUE, bufs, TRUE)
    BY <1>1, RcvDataFits DEF HandShakeSent
  <1>2. CASE HandShakeMatch(TRUE, act, bufs, TRUE)
    BY <1>2, SendSyncFits DEF HandShakeMatch
  <1>3. CASE HandShakeMismatch(TRUE, act, bufs, TRUE)
    <2>1. Iap2Link_TxData("lack", 0, 0, TRUE) /\ mState' = mState /\ ~irb.isTx
      BY <1>3 DEF HandShakeMismatch
    <2>. QED BY <2>1, TxDataFits
  <1>. QED BY <1>1, <1>2, <1>3 DEF Iap2Link_handShake, HandShakeFailed

(* No transmission follows on another that m_Irb described: the handler of one
   that is out listens, or does nothing (Iap2Link_TransferDone). *)
LEMMA TransferDoneFits ==
    ASSUME LinkFits, ~hung, NEW act, NEW bufs, Iap2Link_TransferDone(TRUE, act, bufs, TRUE)
    PROVE  LinkFits' /\ (TxFits /\ irb.isTx => ~(irb'.isTx /\ inflight'))
  <1>1. CASE mState = "INIT" /\ Iap2Link_handShake(TRUE, act, bufs, TRUE)
    BY <1>1, HandShakeFits
  <1>2. CASE DropPacket(act, bufs)
    BY <1>2, StartNothingFits DEF DropPacket, sessionVars
  <1>3. CASE LinkReset(act, bufs, TRUE)
    BY <1>3, SendSyncFits DEF LinkReset, IsReception
  <1>4. CASE Iap2Link_Payload_SyncLink(TRUE, act, bufs, TRUE)
    BY <1>4, SyncLinkFits
  <1>5. CASE /\ mState = "LINK_DONE" /\ SessionMgr_Fsm(TRUE, act, bufs, TRUE)
             /\ mState' = mState
    BY <1>5, SessionFits
  <1>. QED
    BY <1>1, <1>2, <1>3, <1>4, <1>5 DEF Iap2Link_TransferDone, SwallowFailure

(* The link's thread.  A handler runs with the flag of its transmission set. *)
LEMMA TransferIsDoneFits ==
    ASSUME TxInv, Alive, TransferIsDone,
           \/ isTxDone /\ loop' = "clearsTx"
           \/ ~isTxDone /\ loop' = "clearsRx",
           loop = "checks"
    PROVE  TxInv'
  <1>. DEFINE moved == irb.isTx \/ irb.act
  <1>1. Iap2Link_TransferDone(TRUE, moved, pkt, TRUE) /\ spurious' = spurious
    BY DEF TransferIsDone
  <1>2. LinkFits /\ ~hung /\ FlagFits
    BY DEF TxInv, Alive
  <1>. HIDE DEF moved
  <1>3. LinkFits' /\ (TxFits /\ irb.isTx => ~(irb'.isTx /\ inflight'))
    BY <1>1, <1>2, TransferDoneFits
  <1>4. isTxDone' = (isTxDone \/ (inflight' /\ irb'.isTx))
    BY DEF TransferIsDone, Driver_TransferStart
  <1>5. inflight' \in BOOLEAN /\ irb'.isTx \in BOOLEAN
    BY <1>3 DEF LinkFits
  <1>6. ~spurious /\ isTxDone => TxFits /\ irb.isTx
    BY <1>2 DEF FlagFits, LinkFits, CanBeOut
  <1>7. FlagFits'
    BY <1>1, <1>2, <1>3, <1>4, <1>5, <1>6 DEF FlagFits
  <1>. QED BY <1>3, <1>7 DEF TxInv

(* Iap2Link_Run starts what m_Irb describes again: nothing new is outstanding. *)
LEMMA LoopRunsFits ==
    ASSUME TxInv, LoopRuns PROVE TxInv'
  <1>1. mState' = mState /\ sState' = sState /\ spurious' = spurious
        /\ loop = "runs" /\ loop' = "loops"
    BY DEF LoopRuns, LoopGoes, sessionVars, linkVars
  <1>2. CASE ReSends
    <2>1. Iap2Link_ReTx(TRUE) /\ isTxDone' = (isTxDone \/ (inflight' /\ irb'.isTx))
      BY <1>2 DEF LoopRuns, Driver_TransferStart
    <2>2. /\ irb' = irb /\ reSendMs' = reSendMs /\ inflight' = TRUE
          /\ reSendMs = 0 => hung'
          /\ reSendMs # 0 => timer' = "running" /\ hung' = hung
      BY <2>1 DEF Iap2Link_ReTx
    <2>3. reSendMs # 0 => CanBeOut
      BY <1>2 DEF ReSends, CanBeOut
    <2>4. LinkFits'
      BY <1>1, <2>2, <2>3 DEF TxInv, LinkFits, TxFits
    <2>5. FlagFits'
      BY <1>1, <2>1, <2>2 DEF TxInv, LinkFits, FlagFits
    <2>. QED BY <2>4, <2>5 DEF TxInv
  <1>3. CASE ~ReSends
    <2>1. UNCHANGED <<ioVars, isTxDone>>
      BY <1>3 DEF LoopRuns
    <2>. QED BY <1>1, <2>1 DEF TxInv, LinkFits, TxFits, CanBeOut, FlagFits, ioVars
  <1>. QED BY <1>2, <1>3

(* Nothing is out at first. *)
LEMMA TxStarts == TesterInit => TxInv
  <1> SUFFICES ASSUME TesterInit PROVE TxInv
    OBVIOUS
  <1>1. /\ irb = [isTx |-> FALSE, buf |-> "req", act |-> FALSE] /\ inflight = FALSE
        /\ mState = "INIT" /\ timer = "stopped"
        /\ isTxDone = FALSE /\ spurious = FALSE /\ loop = "none"
    BY DEF TesterInit, Init, IoInit
  <1>. QED BY <1>1 DEF TxInv, LinkFits, TxFits, CanBeOut, FlagFits

(* What the link keeps, as long as its flags fit. *)
LEMMA LinkKept ==
    ASSUME TxInv, UNCHANGED vars, FlagFits' PROVE TxInv'
  BY DEF TxInv, LinkFits, TxFits, CanBeOut, vars, ioVars, sessionVars, linkVars

(* The thread that runs the link, from its start to its end. *)
LEMMA LinkThreadFits ==
    ASSUME TxInv, Alive, LinkThread PROVE TxInv'
  <1>1. CASE iAP2_Begin
    BY <1>1 DEF iAP2_Begin, LoopGoes, TxInv, LinkFits, TxFits, CanBeOut, FlagFits
  <1>2. CASE iAP2_Start
    <2>1. mState' = "INIT"
      BY <1>2 DEF iAP2_Start, TxInv, FlagFits, linkVars
    <2>2. LinkFits'
      BY <1>2, <2>1, TxDataFits DEF iAP2_Start
    <2>3. irb'.isTx = TRUE /\ inflight' = TRUE
      BY <1>2 DEF iAP2_Start, Iap2Link_TxData
    <2>4. isTxDone' = TRUE /\ loop' = "loops" /\ spurious' = spurious
      BY <1>2, <2>3 DEF iAP2_Start, Driver_TransferStart, LoopGoes, TxInv, FlagFits
    <2>5. FlagFits'
      BY <2>3, <2>4 DEF FlagFits, TxInv
    <2>. QED BY <2>2, <2>5 DEF TxInv
  <1>3. CASE LoopTests \/ LoopEnds \/ CheckNone \/ ClearsTx \/ ClearsRx
    <2>1. UNCHANGED vars /\ irb' = irb /\ inflight' = inflight /\ mState' = mState
      BY <1>3 DEF LoopTests, LoopEnds, CheckNone, ClearsTx, ClearsRx, vars, ioVars, linkVars
    <2>2. spurious' = spurious
      BY <1>3 DEF LoopTests, LoopEnds, CheckNone, ClearsTx, ClearsRx
    <2>3. \/ isTxDone' = isTxDone /\ loop' = "none"
          \/ isTxDone' = isTxDone /\ loop \in {"loops", "checks", "clearsRx"}
                /\ loop' \in {"loops", "checks", "clearsRx", "runs"}
          \/ isTxDone' = FALSE /\ loop = "clearsTx" /\ loop' = "runs"
      BY <1>3 DEF LoopTests, LoopEnds, CheckNone, ClearsTx, ClearsRx, LoopGoes
    <2>4. FlagFits'
      <3>1. CASE isTxDone' = isTxDone /\ loop' = "none"
        BY <2>1, <2>2, <3>1 DEF TxInv, FlagFits
      <3>2. CASE /\ isTxDone' = isTxDone /\ loop \in {"loops", "checks", "clearsRx"}
                 /\ loop' \in {"loops", "checks", "clearsRx", "runs"}
        BY <2>1, <2>2, <3>2 DEF TxInv, FlagFits
      <3>3. CASE isTxDone' = FALSE /\ loop = "clearsTx" /\ loop' = "runs"
        BY <2>1, <2>2, <3>3 DEF TxInv, FlagFits
      <3>. QED BY <2>3, <3>1, <3>2, <3>3
    <2>. QED BY <2>1, <2>4, LinkKept
  <1>4. CASE CheckTx \/ CheckRx
    BY <1>4, TransferIsDoneFits DEF CheckTx, CheckRx, LoopGoes
  <1>5. CASE LoopRuns
    BY <1>5, LoopRunsFits
  <1>. QED BY <1>1, <1>2, <1>3, <1>4, <1>5 DEF LinkThread

(* The player of the device changes no direction and clears no flag. *)
LEMMA InputFits ==
    ASSUME TxInv, InputThread PROVE TxInv'
  <1>1. CASE Driver_TxDone
    <2>1. UNCHANGED vars /\ FlagFits'
      BY <1>1 DEF Driver_TxDone, TxInv, FlagFits, vars, linkVars
    <2>. QED BY <2>1, LinkKept
  <1>2. ASSUME NEW c, RxDoneIgnored(c) \/ RxDoneFlags(c) PROVE TxInv'
    <2>1. UNCHANGED vars /\ FlagFits'
      BY <1>2 DEF RxDoneIgnored, RxDoneFlags, testerVars, TxInv, FlagFits, vars, ioVars, linkVars
    <2>. QED BY <2>1, LinkKept
  <1>3. ASSUME NEW c, RxDoneMeasures(c) \/ RxDoneCopies(c) PROVE TxInv'
    <2>1. irb' = irb \/ irb' = [irb EXCEPT !.act = TRUE]
      BY <1>3 DEF RxDoneMeasures, RxDoneCopies
    <2>2. /\ irb' = [isTx |-> irb'.isTx, buf |-> irb'.buf, act |-> irb'.act]
          /\ irb'.isTx = irb.isTx
      BY <2>1 DEF TxInv, LinkFits
    <2>3. /\ UNCHANGED <<inflight, timer, reSendMs, hung, mState, sState>>
          /\ UNCHANGED <<isTxDone, spurious, loop>>
      BY <1>3 DEF RxDoneMeasures, RxDoneCopies, sessionVars, linkVars
    <2>. QED BY <2>2, <2>3 DEF TxInv, LinkFits, TxFits, CanBeOut, FlagFits
  <1>. QED BY <1>1, <1>2, <1>3 DEF InputThread

(* Every step of the bench, seen from the link and its driver. *)
LEMMA TxStep == TxInv /\ [NextStep]_allVars => TxInv'
  <1> SUFFICES ASSUME TxInv, [NextStep]_allVars PROVE TxInv'
    OBVIOUS
  <1>1. CASE User \/ Ui \/ (\E t \in Trees : Walk(t)) \/ UNCHANGED allVars
    <2>1. UNCHANGED vars /\ UNCHANGED <<isTxDone, spurious, loop>>
      BY <1>1 DEF User, Ui, StopMarks, Walk, allVars, testerVars
    <2>2. FlagFits'
      BY <2>1 DEF TxInv, FlagFits, vars, ioVars, linkVars
    <2>. QED BY <2>1, <2>2, LinkKept
  <1>2. CASE Alive /\ LinkThread
    BY <1>2, LinkThreadFits
  <1>3. CASE InputThread
    BY <1>3, InputFits
  <1>4. CASE TimerOut
    <2>1. /\ timer = "running" /\ timer' = "expired"
          /\ UNCHANGED <<irb, inflight, reSendMs, hung, mState, sState>>
          /\ UNCHANGED <<isTxDone, spurious, loop>>
      BY <1>4 DEF TimerOut, TimeOut, TimerExpires, sessionVars, linkVars, testerVars
    <2>. QED BY <2>1 DEF TxInv, LinkFits, TxFits, CanBeOut, FlagFits
  <1>. QED BY <1>1, <1>2, <1>3, <1>4 DEF NextStep

(* As long as the user does not play the end of a transmission, none is lost,
   although Driver_Check clears its flag only after the handler: no handler of
   the link starts a transmission at the end of another (Driver_Check,
   Driver_TransferStart, Iap2Link_TransferDone). *)
THEOREM TransmissionsAreNotLost == TesterSpec => []TransmissionsEnd
  <1>1. TxInv => TransmissionsEnd
    BY DEF TxInv, FlagFits, TransmissionsEnd
  <1>. QED BY <1>1, TxStarts, TxStep, PTL DEF TesterSpec
=============================================================================
