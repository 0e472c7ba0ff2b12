----------------------------- MODULE Iap2LinkIo -----------------------------
(***************************************************************************)
(* The transfer services of the iAP2 link (Src/Iap2Link.c): the one I/O     *)
(* request block m_Irb, the re-send timer and its counters, and the three   *)
(* packet buffers every layer above shares.  A transfer is started with     *)
(* TransferStart and ends, later, with Iap2Link_TransferDone; an operator   *)
(* here describes what a handler leaves in the primed variables.            *)
(*                                                                          *)
(* A packet is kept as what the code tells apart: does Iap2Link_Verify       *)
(* accept it, its control bits, the two sequence numbers, and its payload.  *)
(***************************************************************************)
EXTENDS Integers

CONSTANTS
    SeqMod,        \* packet sequence numbers are a uint8: 256 in the code
    CounterMod,    \* m_ReTxCount is a uint8: 256 in the code
    MaxReTx,       \* IAP2_MAX_RETX_COUNT: 10 in the code
    FaultSets      \* the environments considered, each a set of faults

IAP2_RETX_INTERVAL == 1000
\* The largest value of the counter's type means "no limit".
IAP2_LINK_RETX_COUNT_UNLIMITIED == CounterMod - 1

FaultKinds ==
    { "start",     \* TransferStart returns False
      "txfail",    \* a transmission completes with failure
      "rxfail",    \* a reception completes with failure
      "loss",      \* a transmission completes, the device never hears it
      "corrupt",   \* a reception brings bytes Iap2Link_Verify refuses
      "empty",     \* a reception completes successfully with no byte
      "dup",       \* the device sends its last packet again
      "mismatch",  \* the device does not echo the detection sequence
      "reset",     \* the device sends a packet with RST
      "sleep" }    \* the device sends a packet with SLP, or with ACK and EAK

ASSUME SeqModAssumption == SeqMod \in Nat \ {0}
ASSUME CounterAssumption ==
    /\ CounterMod \in Nat
    /\ MaxReTx \in Nat
    /\ 0 < MaxReTx /\ MaxReTx < CounterMod - 1
ASSUME FaultsAssumption == FaultSets \subseteq SUBSET FaultKinds

VARIABLES
    irb,         \* m_Irb: direction, buffer, whether m_ActLen is not zero
    inflight,    \* the transport holds m_Irb and owes a completion
    timer,       \* m_ReTxTimer
    reTxCount,   \* m_ReTxCount
    maxReTx,     \* m_MaxReTxCount
    reSendMs,    \* m_ReSendTimeMs
    nextPSN,     \* m_NextSentPSN
    pkt,         \* the packets in m_pReqPkt, m_pRspPkt and m_pAckPkt
    hung,        \* an ASRT failed: the firmware loops forever
    faults       \* the faults of this behaviour's environment; never changes

ioVars == <<irb, inflight, timer, reTxCount, maxReTx, reSendMs, nextPSN,
            pkt, hung, faults>>
-----------------------------------------------------------------------------
Buffers == {"req", "rsp", "ack"}

\* Transmit-only static buffers: auth_init_data and
\* lack_of_backward_compatibility.
StaticBuffers == {"detect", "lack"}

SeqNums == 0 .. SeqMod - 1
NextSeqUnwrapped(n) == n + 1
NextSeq(n) == (n + 1) % SeqMod

Controls == {"NONE", "DETECT", "SYN", "SYNACK", "ACK", "EAK", "RST", "SLP"}

\* Message identifiers ReqProc and EventProc tell apart.
Messages == {"REQ_AUTH", "REQ_AUTH_CHA_RSP", "RSP_AUTH_RESULT_SUCCESS",
             "REQ_ID", "REQ_ID_ACCEPTED", "OTHER"}

\* "EMPTY": the packet is its header; "SYNC": a link synchronization payload;
\* "DATA": the payload of a response.
Payloads == Messages \cup {"EMPTY", "SYNC", "DATA"}

Packets == [valid : BOOLEAN, ctl : Controls, seq : SeqNums, ack : SeqNums,
            payload : Payloads]

Packet(c, s, a, d) ==
    [valid |-> TRUE, ctl |-> c, seq |-> s, ack |-> a, payload |-> d]

\* Bytes Iap2Link_Verify refuses.
Garbled(p, c) == [p EXCEPT !.valid = FALSE, !.ctl = c]

\* memset(pIap2Link, 0, sizeof(Iap2Link)): no start-of-packet, no length.
ZeroPacket == Garbled(Packet("NONE", 0, 0, "EMPTY"), "NONE")

Irbs == [isTx : BOOLEAN, buf : Buffers \cup StaticBuffers, act : BOOLEAN]

IoTypeOK ==
    /\ irb \in Irbs
    /\ irb.isTx \/ irb.buf \in Buffers
    /\ inflight \in BOOLEAN
    /\ timer \in {"stopped", "running", "expired"}
    /\ reTxCount \in 0 .. CounterMod - 1
    /\ maxReTx \in {0, MaxReTx, IAP2_LINK_RETX_COUNT_UNLIMITIED}
    /\ reSendMs \in {0, IAP2_RETX_INTERVAL}
    /\ nextPSN \in SeqNums
    /\ pkt \in [Buffers -> Packets]
    /\ hung \in BOOLEAN
    /\ faults \in FaultSets

\* Iap2Link_Init zeroes the whole structure.
IoInit ==
    /\ irb = [isTx |-> FALSE, buf |-> "req", act |-> FALSE]
    /\ inflight = FALSE
    /\ timer = "stopped"
    /\ reTxCount = 0
    /\ maxReTx = 0
    /\ reSendMs = 0
    /\ nextPSN = 0
    /\ pkt = [b \in Buffers |-> ZeroPacket]
    /\ hung = FALSE
    /\ faults \in FaultSets
-----------------------------------------------------------------------------
\* The results TransferStart may return.
StartResults == IF "start" \in faults THEN BOOLEAN ELSE {TRUE}

AckInitSwapped(p) == Packet("ACK", p.seq, p.ack, "EMPTY")
\* Iap2Link_AckInit: the acknowledgement of p, built from p's own numbers.
Iap2Link_AckInit(p) == Packet("ACK", p.ack, p.seq, "EMPTY")

\* Iap2Link_TxData: ok is what TransferStart returns.  A refused start leaves
\* the timer as it was.
Iap2Link_TxData(b, ms, max, ok) ==
    /\ reTxCount' = (reTxCount + 1) % CounterMod
    /\ irb' = [isTx |-> TRUE, buf |-> b, act |-> FALSE]
    /\ maxReTx' = max
    /\ reSendMs' = ms
    /\ inflight' = ok
    /\ timer' = IF ok /\ max # 0 /\ ms # 0 THEN "running" ELSE timer
    /\ UNCHANGED <<hung, faults>>

\* Iap2Link_RcvData, apart from the timer, which its callers may have stopped.
Iap2Link_RcvData(b, ok) ==
    /\ irb' = [isTx |-> FALSE, buf |-> b, act |-> FALSE]
    /\ inflight' = ok
    /\ UNCHANGED <<reTxCount, maxReTx, reSendMs, hung, faults>>

\* A handler that starts nothing: the transport has given m_Irb back, with
\* m_ActLen as the completion left it.
StartNothing(act) ==
    /\ irb' = [irb EXCEPT !.act = act]
    /\ inflight' = FALSE
    /\ UNCHANGED <<reTxCount, maxReTx, reSendMs, hung, faults>>

ReSendPastLimit ==
    \/ reTxCount > maxReTx
    \/ maxReTx = IAP2_LINK_RETX_COUNT_UNLIMITIED
\* The guard of Iap2Link_Run's re-send.
ReSendAllowed ==
    \/ reTxCount <= maxReTx
    \/ maxReTx = IAP2_LINK_RETX_COUNT_UNLIMITIED

\* Iap2Link_ReTx: whatever m_Irb describes is started again, a reception
\* included.  SwTimer_Start asserts that the interval is not zero.
Iap2Link_ReTx(ok) ==
    /\ ok
    /\ inflight' = TRUE
    /\ IF reSendMs = 0
         THEN hung' = TRUE /\ UNCHANGED timer
         ELSE timer' = "running" /\ UNCHANGED hung
    /\ UNCHANGED <<irb, reTxCount, maxReTx, reSendMs, nextPSN, pkt, faults>>

\* SwTimer_isTimerOutEx becomes true.
TimerExpires ==
    /\ ~hung
    /\ timer = "running"
    /\ timer' = "expired"
    /\ UNCHANGED <<irb, inflight, reTxCount, maxReTx, reSendMs, nextPSN, pkt,
                   hung, faults>>
=============================================================================
