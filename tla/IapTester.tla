------------------------------- MODULE IapTester -------------------------------
(***************************************************************************)
(* The iAP2 test of the tester (IapTester.cpp, Driver/Driver.c, DlgIap.cpp): *)
(* the link runs in the thread of one tree, above a driver that keeps two     *)
(* flags; the cases of the other tree play the device: they tell the driver  *)
(* that a transmission is done, or give it a packet.  The two threads share   *)
(* the flags, m_Irb and the buffers, without a lock.                          *)
(*                                                                          *)
(* The link is that of module Iap2Link with this driver in the place of its   *)
(* transport and its device.                                                 *)
(***************************************************************************)
EXTENDS Iap2Link, CaseTree

VARIABLES
    isExit,        \* m_isExit of the case iAP2_Run
    isTxDone,      \* g_isTxDone
    isRxDone,      \* g_isRxDone
    hasIrb,        \* g_pIrb # NULL
    loop,          \* where iAP2_Run is; none
    rx,            \* where Driver_RxDone is; none
    overrun,       \* a packet was written over what it must not be
    spurious       \* Tx Done was played, whatever was being transferred

testerVars == <<isExit, isTxDone, isRxDone, hasIrb, loop, rx, overrun, spurious>>
allVars == <<vars, treeVars, testerVars>>

\* g_IapInputTestItem and g_IapUnitTestItem.
InputCases == <<"TxDone", "AuthInitData", "LinkSync", "RequestAuthCerticate", "Ack",
                "RequestChallengeResponse">>
UnitCases == <<"iAP2_Run">>

\* The packets of the cases; the device's numbers start at 0xB0.
Number(n) == (176 + n) % SeqMod
Played(c) ==
    CASE c = "AuthInitData" -> DetectEcho
      [] c = "LinkSync" -> Packet("SYNACK", Number(0), 0, "SYNC")
      [] c = "Ack" -> Packet("ACK", Number(1), 1, "EMPTY")
      [] c = "RequestAuthCerticate" -> Packet("ACK", Number(1), 0, "REQ_AUTH")
      [] c = "RequestChallengeResponse" -> Packet("ACK", Number(2), 1, "REQ_AUTH_CHA_RSP")

Size(c) ==
    CASE c = "AuthInitData" -> 6 [] c = "Ack" -> 9 [] c = "RequestAuthCerticate" -> 16
      [] c = "LinkSync" -> 23 [] c = "RequestChallengeResponse" -> 40
Room(b) == CASE b = "detect" -> 6 [] b = "ack" -> 10 [] b = "lack" -> 18 [] OTHER -> 40

TesterInit ==
    /\ Init /\ TreeInit
    /\ isExit = FALSE /\ isTxDone = FALSE /\ isRxDone = FALSE /\ hasIrb = FALSE
    /\ loop = "none" /\ rx = "none" /\ overrun = FALSE /\ spurious = FALSE
-----------------------------------------------------------------------------
\* iAP2_Run, in the thread of the tree "run".

LoopGoes(p) == loop' = p

iAP2_BeginClears ==
    /\ Starts("run", "iAP2_Run") /\ loop = "none" /\ LoopGoes("initialized")
    /\ irb' = [isTx |-> FALSE, buf |-> "req", act |-> FALSE] /\ inflight' = FALSE
    /\ timer' = "stopped" /\ reTxCount' = 0 /\ maxReTx' = 0 /\ reSendMs' = 0 /\ nextPSN' = 0
    /\ pkt' = [b \in Buffers |-> ZeroPacket]
    /\ sState' = "SESSION_INIT" /\ msgId' = "OTHER" /\ mState' = "INIT"
    /\ isExit' = FALSE
    /\ UNCHANGED <<hung, faults, started, deviceVars, treeVars,
                   isTxDone, isRxDone, hasIrb, rx, overrun, spurious>>

\* Iap2Link_Init and Iap2CtrlSession_Init.
iAP2_Begin ==
    /\ Starts("run", "iAP2_Run") /\ loop = "none" /\ LoopGoes("initialized")
    /\ irb' = [isTx |-> FALSE, buf |-> "req", act |-> FALSE] /\ inflight' = FALSE
    /\ timer' = "stopped" /\ reTxCount' = 0 /\ maxReTx' = 0 /\ reSendMs' = 0 /\ nextPSN' = 0
    /\ pkt' = [b \in Buffers |-> ZeroPacket]
    /\ sState' = "SESSION_INIT" /\ msgId' = "OTHER" /\ mState' = "INIT"
    /\ UNCHANGED <<hung, faults, started, deviceVars, treeVars,
                   isExit, isTxDone, isRxDone, hasIrb, rx, overrun, spurious>>

\* Driver_TransferStart, by the handler that is running.
Driver_TransferStart ==
    /\ isTxDone' = (isTxDone \/ (inflight' /\ irb'.isTx))
    /\ hasIrb' = (hasIrb \/ inflight')

iAP2_Start ==
    /\ loop = "initialized" /\ LoopGoes("loops")
    /\ Iap2Link_TxData("detect", IAP2_RETX_INTERVAL, IAP2_LINK_RETX_COUNT_UNLIMITIED, TRUE)
    /\ Driver_TransferStart
    /\ UNCHANGED <<nextPSN, pkt, sessionVars, linkVars, deviceVars, treeVars,
                   isExit, isRxDone, rx, overrun, spurious>>

\* while(!m_isExit); the flag is taken back when the loop is left.
LoopTests ==
    /\ loop = "loops" /\ ~isExit /\ LoopGoes("checks")
    /\ UNCHANGED <<vars, treeVars, isExit, isTxDone, isRxDone, hasIrb, rx, overrun, spurious>>

LoopEnds ==
    /\ loop = "loops" /\ isExit
    /\ isExit' = FALSE /\ LoopGoes("none") /\ HasRun("run")
    /\ UNCHANGED <<vars, isTxDone, isRxDone, hasIrb, rx, overrun, spurious>>

\* Iap2Link_TransferDone(True): a transmission has moved its bytes, see
\* Driver_TransferStart.  IicDrv_Read never fails: a request for the
\* certificate is always answered.
IicDrv_Read == (sState = "RX_REQ" /\ msgId' = "REQ_AUTH") => sState' # "TX_ACK"
TransferIsDone ==
    /\ Iap2Link_TransferDone(TRUE, irb.isTx \/ irb.act, pkt, TRUE)
    /\ IicDrv_Read
    /\ Driver_TransferStart
    /\ UNCHANGED <<started, deviceVars, treeVars, isExit, isRxDone, rx, overrun, spurious>>

CheckTx == loop = "checks" /\ isTxDone /\ LoopGoes("clearsTx") /\ TransferIsDone
CheckRx == loop = "checks" /\ ~isTxDone /\ isRxDone /\ LoopGoes("clearsRx") /\ TransferIsDone
CheckNone ==
    /\ loop = "checks" /\ ~isTxDone /\ ~isRxDone /\ LoopGoes("runs")
    /\ UNCHANGED <<vars, treeVars, isExit, isTxDone, isRxDone, hasIrb, rx, overrun, spurious>>

\* Driver_Check clears the flag after the handler.
ClearsTx ==
    /\ loop = "clearsTx" /\ LoopGoes("runs") /\ isTxDone' = FALSE
    /\ UNCHANGED <<vars, treeVars, isExit, isRxDone, hasIrb, rx, overrun, spurious>>
ClearsBoth ==
    /\ loop = "clearsRx" /\ LoopGoes("runs") /\ isRxDone' = FALSE /\ isTxDone' = FALSE
    /\ UNCHANGED <<vars, treeVars, isExit, hasIrb, rx, overrun, spurious>>
ClearsRx ==
    /\ loop = "clearsRx" /\ LoopGoes("runs") /\ isRxDone' = FALSE
    /\ UNCHANGED <<vars, treeVars, isExit, isTxDone, hasIrb, rx, overrun, spurious>>

\* Iap2Link_Run.
ReSends == timer = "expired" /\ ReSendAllowed
LoopRuns ==
    /\ loop = "runs" /\ LoopGoes("loops")
    /\ IF ReSends THEN Iap2Link_ReTx(TRUE) /\ Driver_TransferStart
       ELSE UNCHANGED <<ioVars, isTxDone, hasIrb>>
    /\ UNCHANGED <<sessionVars, linkVars, deviceVars, treeVars, isExit, isRxDone, rx, overrun, spurious>>

LinkThread ==
    \/ iAP2_Begin \/ iAP2_Start \/ LoopTests \/ LoopEnds \/ CheckTx \/ CheckRx \/ CheckNone
    \/ ClearsTx \/ ClearsRx \/ LoopRuns
-----------------------------------------------------------------------------
\* The cases of the tree "input".

Driver_TxDone ==
    /\ Starts("input", "TxDone") /\ HasRun("input")
    /\ isTxDone' = TRUE /\ spurious' = TRUE
    /\ UNCHANGED <<vars, isExit, isRxDone, hasIrb, loop, rx, overrun>>

\* Driver_RxDone: nobody has started a transfer yet, or the packet is given to
\* whatever transfer m_Irb describes, in three steps.
RxDoneIgnored(c) ==
    /\ Starts("input", c) /\ rx = "none" /\ ~hasIrb
    /\ HasRun("input")
    /\ UNCHANGED <<vars, testerVars>>

RxDoneFlags(c) ==
    /\ Starts("input", c) /\ rx = "none" /\ hasIrb
    /\ rx' = "flagged" /\ isRxDone' = TRUE
    /\ UNCHANGED <<vars, treeVars, isExit, isTxDone, hasIrb, loop, overrun, spurious>>

RxDoneMeasures(c) ==
    /\ Runs("input", c) /\ rx = "flagged" /\ rx' = "measured"
    /\ irb' = [irb EXCEPT !.act = TRUE]
    /\ UNCHANGED <<inflight, timer, reTxCount, maxReTx, reSendMs, nextPSN, pkt, hung, faults, sessionVars,
                   linkVars, deviceVars, treeVars, isExit, isTxDone, isRxDone, hasIrb, loop, overrun, spurious>>

\* The copy: between Iap2Link_Init and Iap2Link_Start there is no buffer.
Fits(c) == loop # "initialized" /\ Size(c) <= Room(irb.buf)
RxDoneCopies(c) ==
    /\ Runs("input", c) /\ rx = "measured" /\ rx' = "none"
    /\ HasRun("input")
    /\ overrun' = ~Fits(c)
    /\ pkt' = IF Fits(c) /\ irb.buf \in Buffers THEN [pkt EXCEPT ![irb.buf] = Played(c)] ELSE pkt
    /\ UNCHANGED <<irb, inflight, timer, reTxCount, maxReTx, reSendMs, nextPSN, hung, faults, sessionVars,
                   linkVars, deviceVars, isExit, isTxDone, isRxDone, hasIrb, loop, spurious>>

PacketCases == {InputCases[i] : i \in 2..Len(InputCases)}
InputThread ==
    \/ Driver_TxDone
    \/ \E c \in PacketCases :
          RxDoneIgnored(c) \/ RxDoneFlags(c) \/ RxDoneMeasures(c) \/ RxDoneCopies(c)
-----------------------------------------------------------------------------
\* StopTest: of the cases, only iAP2_Run reads the flag.
StopMarks ==
    /\ StopTest
    /\ isExit' = (isExit \/ (ui.tree = "run" /\ selected["run"] # <<>>))
    /\ UNCHANGED <<vars, isTxDone, isRxDone, hasIrb, loop, rx, overrun, spurious>>

User ==
    /\ \E t \in Trees : \E i \in SelectedItems(t) : OnRun(t, i) \/ OnStop(t, i)
    /\ UNCHANGED <<vars, testerVars>>

Ui ==
    \/ StopMarks
    \/ (OnRunReturns \/ OnStopResets) /\ UNCHANGED <<vars, testerVars>>

Walk(t) == Walks(t) /\ UNCHANGED <<vars, testerVars>>

TimerOut == loop # "none" /\ TimeOut /\ UNCHANGED <<treeVars, testerVars>>

\* Nobody knows what follows an overrun.
Alive == ~overrun /\ ~hung
NextStep == Alive /\ (User \/ Ui \/ (\E t \in Trees : Walk(t)) \/ LinkThread \/ InputThread \/ TimerOut)

TesterSpec ==
    /\ TesterInit /\ [][NextStep]_allVars
    /\ WF_allVars(Alive /\ Ui)
    /\ WF_allVars(Alive /\ Walk("run")) /\ WF_allVars(Alive /\ Walk("input"))
    /\ WF_allVars(Alive /\ LinkThread) /\ WF_allVars(Alive /\ InputThread)
-----------------------------------------------------------------------------
\* m_RunCaseThread is what a double click goes by, and the thread clears it in
\* its last step: unless the thread of the user interface is in OnRun, it is
\* set exactly while the thread runs, although the thread may begin before
\* OnRun has stored it (OnRun, RunCaseThread).
HandleMatchesThread == UiAnswers => \A t \in Trees : handle[t] <=> ~At(t, "none")

\* A walk runs every case below its item; only a stop, which resets the
\* counters of a walk that goes on, makes it pass over one (RunTest, OnStop).
EveryCaseIsRun == \A t \in Trees : missed[t] => stopped[t]

\* As long as the user does not play the end of a transmission, none is lost,
\* although Driver_Check clears its flag only after the handler, which may
\* have started the next transfer (Driver_Check, Driver_TransferStart).
TransmissionsEnd ==
    ~spurious /\ irb.isTx /\ inflight /\ loop \notin {"none", "clearsTx"} => isTxDone

\* A stop of the link is not lost, whenever it comes: before the loop, in it,
\* or when the loop is about to end (OnStop, iAP2_Run).
StopIsNotLost == (isExit /\ handle["run"]) ~> (~handle["run"] \/ ~Alive)
=============================================================================
