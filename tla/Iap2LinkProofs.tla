--------------------------- MODULE Iap2LinkProofs ---------------------------
(***************************************************************************)
(* Proofs about the iAP2 link, for every width of the counters, every        *)
(* re-send limit and every environment: it is type correct, its one transfer *)
(* fits the state of the handler it will be given to, and an answer names    *)
(* the packet it answers; it implements the exchange of Iap2Exchange; and,   *)
(* as long as some faults do not happen, its numbers are in step, the device *)
(* is answered, and the link neither falls silent nor hangs.                 *)
(***************************************************************************)
EXTENDS Iap2LinkProps, TLAPS

\* Type correctness, the inductive form of TransferFitsState, and the two
\* invariants that ride on it.
Inv == TypeOK /\ TransferInv /\ ResponseInv /\ AnswerNamesRequest

\* What a handler must leave behind: the link's part of Inv.
Preserved ==
    /\ IoTypeOK' /\ SessionTypeOK' /\ mState' \in LinkStates
    /\ TransferInv' /\ ResponseInv' /\ AnswerNamesRequest'

\* The buffers a completion hands over: only the one being received into has
\* changed.
Handed(bufs) ==
    /\ bufs \in [Buffers -> Packets]
    /\ \A b \in Buffers : irb.isTx \/ b # irb.buf => bufs[b] = pkt[b]
-----------------------------------------------------------------------------
\* Sequence numbers stay in range.
LEMMA NextSeqType == ASSUME NEW n \in SeqNums PROVE NextSeq(n) \in SeqNums
  BY SeqModAssumption DEF NextSeq, SeqNums

\* Zero is a sequence number.
LEMMA ZeroSeq == 0 \in SeqNums
  BY SeqModAssumption DEF SeqNums

\* Packets are built from well-typed parts.
LEMMA PacketType ==
    ASSUME NEW c \in Controls, NEW s \in SeqNums, NEW a \in SeqNums,
           NEW d \in Payloads
    PROVE  /\ Packet(c, s, a, d) \in Packets
           /\ Packet(c, s, a, d).seq = s
           /\ Packet(c, s, a, d).ack = a
  BY DEF Packet, Packets

\* An acknowledgement swaps the numbers of the packet it names.
LEMMA AckInitType ==
    ASSUME NEW p \in Packets
    PROVE  /\ Iap2Link_AckInit(p) \in Packets
           /\ Iap2Link_AckInit(p).ack = p.seq
  <1>1. p.seq \in SeqNums /\ p.ack \in SeqNums
    BY DEF Packets
  <1>. QED
    BY <1>1, PacketType DEF Iap2Link_AckInit, Controls, Payloads

\* A packet is either its header or carries a message ReqProc can be given.
LEMMA MessageType ==
    ASSUME NEW p \in Packets PROVE MessageOf(p) \in Messages
  BY DEF MessageOf, Messages
-----------------------------------------------------------------------------
\* Iap2Link_TxData leaves the I/O variables well typed.
LEMMA TxDataType ==
    ASSUME IoTypeOK, NEW b \in Buffers \cup StaticBuffers,
           NEW ms \in {0, IAP2_RETX_INTERVAL},
           NEW max \in {0, MaxReTx, IAP2_LINK_RETX_COUNT_UNLIMITIED},
           NEW ok \in BOOLEAN,
           Iap2Link_TxData(b, ms, max, ok),
           nextPSN' \in SeqNums, pkt' \in [Buffers -> Packets]
    PROVE  IoTypeOK'
  <1>1. reTxCount' \in 0 .. CounterMod - 1
    BY CounterAssumption DEF IoTypeOK, Iap2Link_TxData
  <1>2. irb' \in Irbs /\ irb'.isTx
    BY DEF Iap2Link_TxData, Irbs
  <1>3. timer' \in {"stopped", "running", "expired"}
    BY DEF Iap2Link_TxData, IoTypeOK
  <1>. QED
    BY <1>1, <1>2, <1>3 DEF IoTypeOK, Iap2Link_TxData

\* Iap2Link_RcvData likewise.
LEMMA RcvDataType ==
    ASSUME IoTypeOK, NEW b \in Buffers, NEW ok \in BOOLEAN,
           Iap2Link_RcvData(b, ok), timer' \in {"stopped", timer},
           nextPSN' \in SeqNums, pkt' \in [Buffers -> Packets]
    PROVE  IoTypeOK'
  <1>1. irb' \in Irbs /\ irb'.buf \in Buffers
    BY DEF Iap2Link_RcvData, Irbs
  <1>. QED
    BY <1>1 DEF IoTypeOK, Iap2Link_RcvData

\* And so does a handler that starts nothing.
LEMMA StartNothingType ==
    ASSUME IoTypeOK, NEW act \in BOOLEAN,
           StartNothing(act), timer' \in {"stopped", timer},
           nextPSN' \in SeqNums, pkt' \in [Buffers -> Packets]
    PROVE  /\ IoTypeOK'
           /\ irb'.isTx = irb.isTx
           /\ irb'.buf = irb.buf
  <1>1. /\ irb' \in Irbs
        /\ irb'.isTx = irb.isTx
        /\ irb'.buf = irb.buf
    BY DEF StartNothing, Irbs, IoTypeOK
  <1>. QED
    BY <1>1 DEF IoTypeOK, StartNothing
-----------------------------------------------------------------------------
\* Sending the link's SYN, from wherever it is sent.
LEMMA SendSyncInv ==
    ASSUME Inv, started, ~hung, started' = started,
           NEW ok \in BOOLEAN, NEW bufs, Handed(bufs),
           Iap2Link_SendSyncPkt(bufs, ok)
    PROVE  Preserved
  <1>. USE DEF Inv, TypeOK, Handed, Preserved, NoRequestOfOurOwn,
          Iap2Link_SendSyncPkt
  <1>1. pkt' \in [Buffers -> Packets] /\ nextPSN' \in SeqNums
    BY PacketType, NextSeqType, ZeroSeq
       DEF IoTypeOK, Controls, Payloads, Buffers
  <1>2. IoTypeOK'
    BY <1>1, TxDataType DEF Buffers
  <1>. QED
    BY <1>2 DEF Iap2Link_TxData, sessionVars, SessionTypeOK, TransferInv,
       ResponseInv, AnswerNamesRequest, LinkTransferFits, LinkStates

\* The handlers of the detection sequence.
LEMMA HandShakeInv ==
    ASSUME Inv, started, ~hung, started' = started,
           NEW success \in BOOLEAN, NEW act \in BOOLEAN, NEW ok \in BOOLEAN,
           NEW bufs, Handed(bufs), mState = "INIT",
           Iap2Link_handShake(success, act, bufs, ok)
    PROVE  Preserved
  <1>. USE DEF Inv, TypeOK, Handed, Preserved, NoRequestOfOurOwn
  <1>1. CASE HandShakeFailed(success, act, bufs)
    <2>1. IoTypeOK' /\ irb'.isTx = irb.isTx /\ irb'.buf = irb.buf
      BY <1>1, StartNothingType DEF HandShakeFailed, IoTypeOK
    <2>. QED
      BY <1>1, <2>1 DEF HandShakeFailed, StartNothing, sessionVars,
         SessionTypeOK, TransferInv, MayTransfer, ResponseInv,
         AnswerNamesRequest, LinkTransferFits
  <1>2. CASE HandShakeSent(success, bufs, ok)
    <2>1. IoTypeOK'
      BY <1>2, RcvDataType DEF HandShakeSent, IoTypeOK, Buffers
    <2>. QED
      BY <1>2, <2>1 DEF HandShakeSent, Iap2Link_RcvData, sessionVars,
         SessionTypeOK, TransferInv, MayTransfer, ResponseInv,
         AnswerNamesRequest, LinkTransferFits
  <1>3. CASE HandShakeMatch(success, act, bufs, ok)
    BY <1>3, SendSyncInv DEF HandShakeMatch
  <1>4. CASE HandShakeMismatch(success, act, bufs, ok)
    <2>1. IoTypeOK'
      BY <1>4, TxDataType DEF HandShakeMismatch, IoTypeOK, StaticBuffers
    <2>. QED
      BY <1>4, <2>1 DEF HandShakeMismatch, Iap2Link_TxData, sessionVars,
         SessionTypeOK, TransferInv, MayTransfer, ResponseInv,
         AnswerNamesRequest, LinkTransferFits, StaticBuffers
  <1>. QED BY <1>1, <1>2, <1>3, <1>4 DEF Iap2Link_handShake

\* A completion that changes nothing but gives m_Irb back.
LEMMA NothingStartedInv ==
    ASSUME Inv, started, ~hung, started' = started,
           NEW act \in BOOLEAN, NEW bufs, Handed(bufs),
           StartNothing(act), pkt' = bufs, timer' \in {"stopped", timer},
           nextPSN' = nextPSN, mState' = mState, msgId' = msgId,
           sState' \in {"SESSION_INIT", sState}
    PROVE  Preserved
  <1>. USE DEF Inv, TypeOK, Handed, Preserved, NoRequestOfOurOwn
  <1>1. IoTypeOK' /\ irb'.isTx = irb.isTx /\ irb'.buf = irb.buf
    BY StartNothingType DEF IoTypeOK
  <1>2. LinkTransferFits /\ UNCHANGED mState => LinkTransferFits'
    BY <1>1 DEF LinkTransferFits
  <1>. QED
    BY <1>1, <1>2 DEF StartNothing, SessionTypeOK, SessionStates, TransferInv,
       MayTransfer, ResponseInv, AnswerNamesRequest

\* The handlers of link synchronization.
LEMMA SyncLinkInv ==
    ASSUME Inv, started, inflight, ~hung, started' = started,
           NEW success \in BOOLEAN, NEW act \in BOOLEAN, NEW ok \in BOOLEAN,
           NEW bufs, Handed(bufs),
           Iap2Link_Payload_SyncLink(success, act, bufs, ok)
    PROVE  Preserved
  <1>. USE DEF Inv, TypeOK, Handed, Preserved, NoRequestOfOurOwn
  <1>0. LinkTransferFits
    BY DEF TransferInv, MayTransfer
  <1>1. CASE SyncFailed(success, act, bufs)
    BY <1>1, NothingStartedInv DEF SyncFailed, sessionVars
  <1>2. CASE SyncSent(bufs, ok)
    <2>1. IoTypeOK'
      BY <1>2, RcvDataType DEF SyncSent, IoTypeOK, Buffers
    <2>. QED
      BY <1>2, <2>1 DEF SyncSent, Iap2Link_RcvData, sessionVars,
         SessionTypeOK, TransferInv, ResponseInv,
         AnswerNamesRequest, LinkTransferFits, LinkStates
  <1>3. CASE SyncReceived(bufs, ok)
    <2>1. Current(bufs) = bufs["rsp"] /\ bufs["rsp"] \in Packets
      BY <1>0, <1>3 DEF SyncReceived, LinkTransferFits, Current, Buffers
    <2>2. /\ pkt' = [bufs EXCEPT !["ack"] = Iap2Link_AckInit(bufs["rsp"])]
          /\ pkt' \in [Buffers -> Packets]
          /\ pkt'["ack"].ack = pkt'["rsp"].seq
      BY <1>3, <2>1, AckInitType DEF SyncReceived, Buffers
    <2>3. IoTypeOK'
      BY <1>3, <2>2, TxDataType DEF SyncReceived, IoTypeOK, Buffers
    <2>. QED
      BY <1>3, <2>2, <2>3 DEF SyncReceived, Iap2Link_TxData, sessionVars,
         SessionTypeOK, TransferInv, ResponseInv,
         AnswerNamesRequest, LinkTransferFits, LinkStates
  <1>4. CASE SyncAckSent(act, bufs, ok)
    <2>. USE <1>4 DEF SyncAckSent, EventLinkSyncDone, SessionMgr_RxReq
    <2>1. CASE sState = "SESSION_INIT"
      <3>1. IoTypeOK'
        BY <2>1, RcvDataType DEF IoTypeOK, Buffers
      <3>. QED
        BY <2>1, <3>1 DEF Iap2Link_RcvData, SessionTypeOK, SessionStates,
           TransferInv, ResponseInv, AnswerNamesRequest,
           LinkTransferFits, SessionTransferFits, LinkStates
    <2>2. CASE sState # "SESSION_INIT"
      <3>1. IoTypeOK'
        BY <2>2, StartNothingType DEF IoTypeOK
      <3>. QED
        BY <2>2, <3>1 DEF StartNothing, SessionTypeOK, TransferInv,
           MayTransfer, ResponseInv, AnswerNamesRequest, LinkStates
    <2>. QED BY <2>1, <2>2
  <1>. QED BY <1>1, <1>2, <1>3, <1>4 DEF Iap2Link_Payload_SyncLink
-----------------------------------------------------------------------------
\* The session manager listens for the next request.
LEMMA ListenInv ==
    ASSUME Inv, started, ~hung, started' = started, mState = "LINK_DONE",
           NEW ok \in BOOLEAN, NEW bufs, Handed(bufs),
           Iap2Link_RcvData("req", ok), timer' \in {"stopped", timer},
           nextPSN' = nextPSN, pkt' \in [Buffers -> Packets],
           mState' = mState, sState' = "RX_REQ", msgId' = msgId
    PROVE  Preserved
  <1>. USE DEF Inv, TypeOK, Handed, Preserved, NoRequestOfOurOwn
  <1>1. IoTypeOK'
    BY RcvDataType DEF IoTypeOK, Buffers
  <1>. QED
    BY <1>1 DEF Iap2Link_RcvData, SessionTypeOK, SessionStates, TransferInv,
       ResponseInv, AnswerNamesRequest, LinkTransferFits, SessionTransferFits

\* The handlers of the session manager.
LEMMA SessionFsmInv ==
    ASSUME Inv, started, inflight, ~hung, started' = started,
           mState = "LINK_DONE", mState' = mState,
           NEW success \in BOOLEAN, NEW act \in BOOLEAN, NEW ok \in BOOLEAN,
           NEW bufs, Handed(bufs),
           SessionMgr_Fsm(success, act, bufs, ok)
    PROVE  Preserved
  <1>. USE DEF Inv, TypeOK, Handed, Preserved, NoRequestOfOurOwn
  <1>0. SessionTransferFits /\ reSendMs = 0
    BY DEF TransferInv, MayTransfer
  <1>1. CASE FsmFailed(act, bufs)
    BY <1>1, NothingStartedInv DEF FsmFailed
  <1>2. ASSUME sState = "RX_REQ"
        PROVE  Current(bufs) = bufs["req"] /\ bufs["req"] \in Packets
    BY <1>0, <1>2 DEF SessionTransferFits, Current, Buffers
  <1>3. CASE FsmRxReqHeader(bufs, ok)
    <2>1. pkt' \in [Buffers -> Packets]
      BY <1>2, <1>3 DEF FsmRxReqHeader, Buffers
    <2>. QED
      BY <1>3, <2>1, ListenInv DEF FsmRxReqHeader
  <1>4. CASE FsmRxReqAck(bufs, ok)
    <2>1. /\ pkt' = [bufs EXCEPT !["req"] = bufs["req"],
                                 !["ack"] = Iap2Link_AckInit(bufs["req"])]
          /\ msgId' \in Messages
      BY <1>2, <1>4, MessageType DEF FsmRxReqAck
    <2>2. /\ pkt' \in [Buffers -> Packets]
          /\ pkt'["ack"].ack = pkt'["req"].seq
      BY <1>2, <1>4, <2>1, AckInitType DEF FsmRxReqAck, Buffers
    <2>3. IoTypeOK'
      BY <1>4, <2>2, TxDataType DEF FsmRxReqAck, IoTypeOK, Buffers
    <2>. QED
      BY <1>4, <2>1, <2>2, <2>3
         DEF FsmRxReqAck, Iap2Link_TxData, SessionTypeOK, SessionStates,
         TransferInv, ResponseInv, AnswerNamesRequest, LinkTransferFits,
         SessionTransferFits
  <1>5. CASE FsmRxReqRespond(bufs, ok)
    <2>1. bufs["req"].seq \in SeqNums
      BY <1>2, <1>5 DEF FsmRxReqRespond, Packets
    <2>2. /\ pkt' = [bufs EXCEPT
                       !["req"] = bufs["req"],
                       !["rsp"] = Packet("ACK", nextPSN, bufs["req"].seq,
                                         "DATA")]
          /\ msgId' = "REQ_AUTH"
      BY <1>2, <1>5 DEF FsmRxReqRespond, MayRespond
    <2>3. /\ pkt' \in [Buffers -> Packets]
          /\ pkt'["rsp"].ack = pkt'["req"].seq
      BY <1>2, <1>5, <2>1, <2>2, PacketType
         DEF FsmRxReqRespond, IoTypeOK, Buffers, Controls, Payloads
    <2>4. IoTypeOK'
      BY <1>5, <2>3, TxDataType, NextSeqType
         DEF FsmRxReqRespond, IoTypeOK, Buffers
    <2>. QED
      BY <1>5, <2>2, <2>3, <2>4
         DEF FsmRxReqRespond, Iap2Link_TxData, SessionTypeOK, SessionStates,
         Messages, TransferInv, ResponseInv, AnswerNamesRequest,
         LinkTransferFits, SessionTransferFits
  <1>6. CASE FsmTxRsp(bufs, ok)
    <2>1. IoTypeOK'
      BY <1>6, RcvDataType DEF FsmTxRsp, IoTypeOK, Buffers
    <2>2. bufs["rsp"] = pkt["rsp"] /\ bufs["req"] = pkt["req"]
      BY <1>0, <1>6 DEF FsmTxRsp, SessionTransferFits, Buffers
    <2>. QED
      BY <1>6, <2>1, <2>2
         DEF FsmTxRsp, Iap2Link_RcvData, SessionTypeOK, SessionStates,
         TransferInv, MayTransfer, ResponseInv, AnswerNamesRequest,
         LinkTransferFits, SessionTransferFits
  <1>7. CASE FsmRxAckMismatch(act, bufs)
    BY <1>7, NothingStartedInv DEF FsmRxAckMismatch
  <1>8. CASE FsmRxAck(act, bufs, ok)
    <2>1. Iap2Link_RcvData("req", ok) /\ sState' = "RX_REQ"
      BY <1>8 DEF FsmRxAck, ResponseInv, EventSessionDone, SessionMgr_RxReq
    <2>. QED
      BY <1>8, <2>1, ListenInv DEF FsmRxAck
  <1>9. CASE FsmTxAck(act, bufs, ok)
    BY <1>9, ListenInv DEF FsmTxAck, EventLinkSyncDone, SessionMgr_RxReq
  <1>. QED
    BY <1>1, <1>3, <1>4, <1>5, <1>6, <1>7, <1>8, <1>9 DEF SessionMgr_Fsm

\* Iap2Link_TransferDone, whatever it is told.
LEMMA TransferDoneInv ==
    ASSUME Inv, started, inflight, ~hung, started' = started,
           NEW success \in BOOLEAN, NEW act \in BOOLEAN, NEW ok \in BOOLEAN,
           NEW bufs, Handed(bufs),
           Iap2Link_TransferDone(success, act, bufs, ok)
    PROVE  Preserved
  <1>1. CASE SwallowFailure(success, act, bufs)
    BY <1>1, NothingStartedInv DEF SwallowFailure, sessionVars
  <1>2. CASE mState = "INIT" /\ Iap2Link_handShake(success, act, bufs, ok)
    BY <1>2, HandShakeInv
  <1>3. CASE DropPacket(act, bufs)
    BY <1>3, NothingStartedInv DEF DropPacket, sessionVars
  <1>4. CASE LinkReset(act, bufs, ok)
    BY <1>4, SendSyncInv DEF LinkReset
  <1>5. CASE Iap2Link_Payload_SyncLink(success, act, bufs, ok)
    BY <1>5, SyncLinkInv
  <1>6. CASE /\ mState = "LINK_DONE" /\ UNCHANGED mState
             /\ SessionMgr_Fsm(success, act, bufs, ok)
    BY <1>6, SessionFsmInv
  <1>. QED
    BY <1>1, <1>2, <1>3, <1>4, <1>5, <1>6 DEF Iap2Link_TransferDone
-----------------------------------------------------------------------------
\* A completion, with its well-typed effect on the device's own variables.
DeviceTypeOK == due \in Dues /\ heard \in Packets /\ devSent \in Packets

\* Whatever a completion hands over, its handler keeps the invariant.
LEMMA CompleteInv ==
    ASSUME Inv, NEW success \in BOOLEAN, NEW act \in BOOLEAN,
           NEW bufs, Handed(bufs), Complete(success, act, bufs),
           DeviceTypeOK'
    PROVE  Inv'
  <1>1. started /\ inflight /\ ~hung /\ started' = started
    BY DEF Complete, Inv, TypeOK, TransferInv, IoTypeOK
  <1>2. PICK ok \in BOOLEAN : Iap2Link_TransferDone(success, act, bufs, ok)
    BY DEF Complete, StartResults
  <1>3. Preserved
    BY <1>1, <1>2, TransferDoneInv
  <1>. QED
    BY <1>1, <1>3 DEF Preserved, Inv, TypeOK, DeviceTypeOK

\* A reception of a packet hands over a changed buffer.
LEMMA ReceiveInv ==
    ASSUME Inv, NEW p \in Packets, Receive(p), DeviceTypeOK' PROVE Inv'
  <1>1. Handed([pkt EXCEPT ![irb.buf] = p])
    BY DEF Receive, Handed, Inv, TypeOK, IoTypeOK
  <1>. QED
    BY <1>1, CompleteInv DEF Receive

\* Garbled bytes are still a packet of the model.
LEMMA GarbledType ==
    ASSUME NEW p \in Packets, NEW c \in Controls
    PROVE  Garbled(p, c) \in Packets
  BY DEF Garbled, Packets

\* The packet that no buffer has been given yet is one.
LEMMA ZeroPacketType == ZeroPacket \in Packets
  BY PacketType, ZeroSeq, GarbledType DEF ZeroPacket, Controls, Payloads

\* The device sends well-typed packets.
LEMMA OwedType == ASSUME Inv, NEW p \in Owed PROVE p \in Packets
  <1>1. /\ devSent.seq \in SeqNums /\ heard.seq \in SeqNums
        /\ NextSeq(devSent.seq) \in SeqNums
    BY NextSeqType DEF Inv, TypeOK, Packets
  <1>2. CASE due = "nothing"
    BY <1>2 DEF Owed
  <1>3. CASE due = "detect"
    BY <1>3, PacketType, ZeroSeq, GarbledType
       DEF Owed, DetectEcho, Controls, Payloads
  <1>4. CASE due = "synack"
    BY <1>4, <1>1, PacketType DEF Owed, Controls, Payloads
  <1>5. CASE due = "request"
    BY <1>5, <1>1, PacketType, RequestsAssumption DEF Owed, Controls, Payloads
  <1>6. CASE due = "ack"
    BY <1>6, <1>1, PacketType DEF Owed, Controls, Payloads
  <1>. QED
    BY <1>2, <1>3, <1>4, <1>5, <1>6 DEF Inv, TypeOK, Dues
-----------------------------------------------------------------------------
\* Nothing is outstanding before the start.
LEMMA InitInv == ASSUME Init PROVE Inv
  <1>. USE DEF Init, IoInit, SessionInit
  <1>1. IoTypeOK
    <2>1. 0 \in 0 .. CounterMod - 1
      BY CounterAssumption
    <2>2. irb \in Irbs /\ irb.buf \in Buffers
      BY DEF Irbs, Buffers
    <2>3. pkt \in [Buffers -> Packets]
      BY ZeroPacketType
    <2>. QED
      BY <2>1, <2>2, <2>3, ZeroSeq DEF IoTypeOK
  <1>2. TypeOK
    BY <1>1, ZeroPacketType
       DEF TypeOK, SessionTypeOK, SessionStates, Messages, LinkStates, Dues
  <1>. QED
    BY <1>2 DEF Inv, TransferInv, MayTransfer, ResponseInv, NoRequestOfOurOwn,
       AnswerNamesRequest, LinkTransferFits

\* Every step keeps the invariant.
LEMMA StepInv == ASSUME Inv, [Next]_vars PROVE Inv'
  <1>. USE DEF Inv, TypeOK
  <1>1. CASE Iap2Link_Start
    <2>1. IoTypeOK'
      BY <1>1, TxDataType
         DEF Iap2Link_Start, StartResults, IoTypeOK, StaticBuffers
    <2>. QED
      BY <1>1, <2>1
         DEF Iap2Link_Start, StartResults, Iap2Link_TxData, sessionVars,
         deviceVars, SessionTypeOK, TransferInv, ResponseInv,
         NoRequestOfOurOwn, AnswerNamesRequest, LinkTransferFits,
         StaticBuffers
  <1>2. CASE Iap2Link_Run
    BY <1>2
       DEF Iap2Link_Run, Iap2Link_ReTx, StartResults, sessionVars, linkVars,
       deviceVars, IoTypeOK, SessionTypeOK, TransferInv, MayTransfer,
       ResponseInv, NoRequestOfOurOwn, AnswerNamesRequest, LinkTransferFits,
       SessionTransferFits
  <1>3. CASE TimeOut
    BY <1>3
       DEF TimeOut, TimerExpires, sessionVars, linkVars, deviceVars, IoTypeOK,
       SessionTypeOK, TransferInv, MayTransfer, ResponseInv,
       NoRequestOfOurOwn, AnswerNamesRequest, LinkTransferFits,
       SessionTransferFits
  <1>4. Handed(pkt) /\ irb.act \in BOOLEAN
    BY DEF Handed, IoTypeOK, Irbs
  <1>5. CASE TransmitDone
    <2>1. heard' \in Packets
      BY <1>5 DEF TransmitDone, IoTypeOK
    <2>2. Answer(irb.buf) \in Dues
      BY DEF Answer, Dues, IoTypeOK, Irbs, Buffers, StaticBuffers
    <2>3. DeviceTypeOK'
      BY <1>5, <2>1, <2>2 DEF TransmitDone, DeviceTypeOK
    <2>. QED
      BY <1>4, <1>5, <2>3, CompleteInv DEF TransmitDone
  <1>6. CASE TransmitLost
    BY <1>4, <1>6, CompleteInv DEF TransmitLost, deviceVars, DeviceTypeOK
  <1>7. CASE TransferFails
    BY <1>4, <1>7, CompleteInv DEF TransferFails, deviceVars, DeviceTypeOK
  <1>8. CASE ReceiveDone
    <2>1. PICK p \in Owed : /\ Receive(p) /\ devSent' = p /\ due' = DueAfter
                            /\ UNCHANGED heard
      BY <1>8 DEF ReceiveDone
    <2>2. p \in Packets
      BY <2>1, OwedType
    <2>. QED
      BY <2>1, <2>2, ReceiveInv DEF DeviceTypeOK, DueAfter, Dues
  <1>9. CASE ReceiveCorrupt
    <2>1. PICK p \in Owed : /\ Receive(Garbled(p, "NONE")) /\ devSent' = p
                            /\ due' = DueAfter /\ UNCHANGED heard
      BY <1>9 DEF ReceiveCorrupt
    <2>2. p \in Packets /\ Garbled(p, "NONE") \in Packets
      BY <2>1, OwedType, GarbledType DEF Controls
    <2>. QED
      BY <2>1, <2>2, ReceiveInv DEF DeviceTypeOK, DueAfter, Dues
  <1>10. CASE ReceiveAgain
    BY <1>10, ReceiveInv DEF ReceiveAgain, deviceVars, DeviceTypeOK
  <1>11. CASE ReceiveMismatch
    <2>1. Packet("NONE", 0, 0, "EMPTY") \in Packets
      BY PacketType, ZeroSeq DEF Controls, Payloads
    <2>. QED
      BY <1>11, <2>1, ReceiveInv DEF ReceiveMismatch, DeviceTypeOK, Dues
  <1>12. CASE ReceiveControl
    <2>1. PICK c \in {"RST", "SLP", "EAK"} :
             /\ Receive(Packet(c, devSent.seq, heard.seq, "EMPTY"))
             /\ due' = "nothing"
             /\ UNCHANGED <<heard, devSent>>
      BY <1>12 DEF ReceiveControl
    <2>2. devSent.seq \in SeqNums /\ heard.seq \in SeqNums
      BY DEF Packets
    <2>3. Packet(c, devSent.seq, heard.seq, "EMPTY") \in Packets
      BY <2>2, PacketType DEF Controls, Payloads
    <2>. QED
      BY <2>1, <2>3, ReceiveInv DEF DeviceTypeOK, Dues
  <1>13. CASE ReceiveEmpty
    BY <1>4, <1>13, CompleteInv DEF ReceiveEmpty, deviceVars, DeviceTypeOK
  <1>14. CASE UNCHANGED vars
    BY <1>14
       DEF vars, ioVars, sessionVars, linkVars, deviceVars, IoTypeOK,
       SessionTypeOK, TransferInv, MayTransfer, ResponseInv,
       NoRequestOfOurOwn, AnswerNamesRequest, LinkTransferFits,
       SessionTransferFits
  <1>. QED
    BY <1>1, <1>2, <1>3, <1>5, <1>6, <1>7, <1>8, <1>9, <1>10, <1>11, <1>12,
       <1>13, <1>14 DEF Next, Device, Transport

\* Hence it holds of every behaviour.
LEMMA SpecInv == Spec => []Inv
  BY InitInv, StepInv, PTL DEF Spec

\* Every variable of the link, the session and the environment keeps its type,
\* whatever the widths, the limit and the faults.
THEOREM LinkTypeCorrect == Spec => []TypeOK
  <1>1. Inv => TypeOK
    BY DEF Inv
  <1>. QED
    BY <1>1, SpecInv, PTL

\* The one m_Irb is outstanding only with the direction and buffer expected by
\* the handler that its completion will run.
THEOREM LinkTransferCorrect == Spec => []TransferFitsState
  <1>1. Inv => TransferFitsState
    BY DEF Inv, TransferInv, MayTransfer, TransferFitsState
  <1>. QED
    BY <1>1, SpecInv, PTL

\* An acknowledgement or a response in progress names the packet it answers.
THEOREM LinkAnswersCorrect == Spec => []AnswerNamesRequest
  <1>1. Inv => AnswerNamesRequest
    BY DEF Inv
  <1>. QED
    BY <1>1, SpecInv, PTL

\* The states of a request of the accessory's own are never entered:
\* SessionMgr_FsmTxReq and SessionMgr_FsmRxRsp are dead code.
THEOREM NoOwnRequests == Spec => []NoRequestOfOurOwn
  <1>1. Inv => NoRequestOfOurOwn
    BY DEF Inv, ResponseInv
  <1>. QED
    BY <1>1, SpecInv, PTL
-----------------------------------------------------------------------------
\* The abstract step that a step of the link stands for.
AbstractStep == [Exchange!ExchangeNext]_(Exchange!exchangeVars)

\* The link is up and its transfer is in progress.
Running == mState = "LINK_DONE" /\ inflight /\ ~hung

\* No request is open and none is being answered.
NothingOpen == /\ OpenRequest = Exchange!NoRequest
               /\ GivenAnswer = Exchange!NoAnswer

\* The exchange the link's state stands for, case by case.
Mapped ==
    /\ mState = "INIT" => Phase = "detecting"
    /\ mState \notin {"INIT", "LINK_DONE"} => Phase = "synchronizing"
    /\ mState = "LINK_DONE" => Phase = "up"
    /\ mState # "LINK_DONE" => Stage = "idle" /\ NothingOpen
    /\ mState = "LINK_DONE" /\ ~Running => Stage = "silent" /\ NothingOpen
    /\ Running =>
         /\ sState = "RX_REQ" => Stage = "listening" /\ NothingOpen
         /\ sState \in {"TX_ACK", "TX_RSP"} => Stage = "answering"
         /\ sState = "RX_ACK" => Stage = "confirming"
         /\ sState \in {"TX_ACK", "TX_RSP", "RX_ACK"} =>
              OpenRequest = [seq |-> pkt["req"].seq, msg |-> msgId]
         /\ sState = "TX_ACK" =>
              GivenAnswer = [kind |-> "ack", names |-> pkt["ack"].ack]
         /\ sState \in {"TX_RSP", "RX_ACK"} =>
              GivenAnswer = [kind |-> "response", names |-> pkt["rsp"].ack]

\* The mapping, read off its definitions, before a step and after it.
LEMMA MappedNow == Mapped
  BY DEF Mapped, Running, Phase, Stage, OpenRequest, GivenAnswer, NothingOpen,
     Exchange!NoRequest, Exchange!NoAnswer

LEMMA MappedNext == Mapped'
  BY DEF Mapped, Running, Phase, Stage, OpenRequest, GivenAnswer, NothingOpen,
     Exchange!NoRequest, Exchange!NoAnswer
-----------------------------------------------------------------------------
\* The link was up and has no transfer any more.
LEMMA SilentStep ==
    ASSUME mState = "LINK_DONE", mState' = "LINK_DONE", ~Running'
    PROVE  AbstractStep
  <1>1. Exchange!FallSilent
    BY MappedNow, MappedNext DEF Mapped, NothingOpen, Exchange!FallSilent
  <1>. QED
    BY <1>1 DEF AbstractStep, Exchange!ExchangeNext

\* Detecting or synchronizing, and still in the same phase.
LEMMA DownStep ==
    ASSUME mState # "LINK_DONE", mState' # "LINK_DONE",
           mState = "INIT" <=> mState' = "INIT"
    PROVE  AbstractStep
  BY MappedNow, MappedNext
     DEF Mapped, NothingOpen, AbstractStep, Exchange!exchangeVars,
     Exchange!NoRequest, Exchange!NoAnswer

\* The link's SYN is sent, on detection or because the device reset the link.
LEMMA SynchronizeStep ==
    ASSUME mState' = "TX_LINK_SYNC",
           Running => sState \in {"RX_REQ", "RX_ACK"},
           mState = "LINK_DONE" => Running
    PROVE  AbstractStep
  <1>1. Exchange!Synchronize
    BY MappedNow, MappedNext DEF Mapped, NothingOpen, Exchange!Synchronize
  <1>. QED
    BY <1>1 DEF AbstractStep, Exchange!ExchangeNext

\* The session manager, from a state in which an answer is out or confirmed,
\* listens again, or fails to.
LEMMA ListenStep ==
    ASSUME Running, mState' = "LINK_DONE", sState' = "RX_REQ",
           sState \in {"RX_REQ", "TX_ACK", "RX_ACK"}
    PROVE  AbstractStep
  <1>1. CASE ~Running'
    BY <1>1, SilentStep DEF Running
  <1>2. CASE Running' /\ sState = "RX_REQ"
    BY <1>2, MappedNow, MappedNext
       DEF Mapped, NothingOpen, AbstractStep, Exchange!exchangeVars,
       Exchange!NoRequest, Exchange!NoAnswer
  <1>3. CASE Running' /\ sState = "TX_ACK"
    <2>1. Exchange!Acknowledge
      BY <1>3, MappedNow, MappedNext
         DEF Mapped, NothingOpen, Running, Exchange!Acknowledge,
         Exchange!Listen
    <2>. QED
      BY <2>1 DEF AbstractStep, Exchange!ExchangeNext
  <1>4. CASE Running' /\ sState = "RX_ACK"
    <2>1. Exchange!Confirm
      BY <1>4, MappedNow, MappedNext
         DEF Mapped, NothingOpen, Running, Exchange!Confirm, Exchange!Listen
    <2>. QED
      BY <2>1 DEF AbstractStep, Exchange!ExchangeNext
  <1>. QED
    BY <1>1, <1>2, <1>3, <1>4

\* A request is taken: the answer names the packet kept in m_pReqPkt.
LEMMA TakeStep ==
    ASSUME Running, sState = "RX_REQ", mState' = "LINK_DONE",
           pkt'["req"].seq \in SeqNums, msgId' \in Messages,
           \/ sState' = "TX_ACK" /\ pkt'["ack"].ack = pkt'["req"].seq
           \/ /\ sState' = "TX_RSP" /\ pkt'["rsp"].ack = pkt'["req"].seq
              /\ msgId' = "REQ_AUTH"
    PROVE  AbstractStep
  <1>1. CASE ~Running'
    BY <1>1, SilentStep DEF Running
  <1>2. CASE Running'
    <2>. DEFINE s == pkt'["req"].seq
                m == msgId'
                k == IF sState' = "TX_ACK" THEN "ack" ELSE "response"
    <2>1. /\ Stage = "listening" /\ Stage' = "answering"
          /\ OpenRequest' = [seq |-> s, msg |-> m]
          /\ GivenAnswer' = [kind |-> k, names |-> s]
          /\ UNCHANGED Phase
      BY <1>2, MappedNow, MappedNext DEF Mapped, Running
    <2>2. k \in {"ack", "response"} /\ (k = "response" => m \in {"REQ_AUTH"})
      OBVIOUS
    <2>3. Exchange!Take
      BY <2>1, <2>2 DEF Exchange!Take
    <2>. QED
      BY <2>3 DEF AbstractStep, Exchange!ExchangeNext
  <1>. QED
    BY <1>1, <1>2
-----------------------------------------------------------------------------
\* The branches of SessionMgr_Fsm.
LEMMA SessionFsmStep ==
    ASSUME Inv, started, Running, mState' = mState,
           NEW success \in BOOLEAN, NEW act \in BOOLEAN, NEW ok \in BOOLEAN,
           NEW bufs, Handed(bufs),
           SessionMgr_Fsm(success, act, bufs, ok)
    PROVE  AbstractStep
  <1>. USE DEF Inv, TypeOK, Running
  <1>0. SessionTransferFits
    BY DEF TransferInv, MayTransfer
  <1>1. CASE FsmFailed(act, bufs)
    BY <1>1, SilentStep DEF FsmFailed, StartNothing
  <1>2. ASSUME sState = "RX_REQ"
        PROVE  Current(bufs) = bufs["req"] /\ bufs["req"] \in Packets
    BY <1>0, <1>2 DEF SessionTransferFits, Current, Handed, Buffers
  <1>3. CASE FsmRxReqHeader(bufs, ok)
    BY <1>3, ListenStep DEF FsmRxReqHeader
  <1>4. CASE FsmRxReqAck(bufs, ok)
    <2>1. /\ pkt' = [bufs EXCEPT !["req"] = bufs["req"],
                                 !["ack"] = Iap2Link_AckInit(bufs["req"])]
          /\ msgId' \in Messages
      BY <1>2, <1>4, MessageType DEF FsmRxReqAck
    <2>2. /\ pkt'["ack"].ack = pkt'["req"].seq
          /\ pkt'["req"].seq \in SeqNums
      BY <1>2, <1>4, <2>1, AckInitType
         DEF FsmRxReqAck, Handed, Buffers, Packets
    <2>. QED
      BY <1>4, <2>1, <2>2, TakeStep DEF FsmRxReqAck
  <1>5. CASE FsmRxReqRespond(bufs, ok)
    <2>1. bufs["req"].seq \in SeqNums
      BY <1>2, <1>5 DEF FsmRxReqRespond, Packets
    <2>2. /\ pkt' = [bufs EXCEPT
                       !["req"] = bufs["req"],
                       !["rsp"] = Packet("ACK", nextPSN, bufs["req"].seq,
                                         "DATA")]
          /\ msgId' = "REQ_AUTH"
      BY <1>2, <1>5 DEF FsmRxReqRespond, MayRespond
    <2>3. /\ pkt'["rsp"].ack = pkt'["req"].seq
          /\ pkt'["req"].seq \in SeqNums
      BY <1>2, <1>5, <2>1, <2>2, PacketType
         DEF FsmRxReqRespond, IoTypeOK, Handed, Buffers, Controls, Payloads
    <2>. QED
      BY <1>5, <2>2, <2>3, TakeStep DEF FsmRxReqRespond, Messages
  <1>6. CASE FsmTxRsp(bufs, ok)
    <2>1. pkt'["rsp"] = pkt["rsp"] /\ pkt'["req"] = pkt["req"]
      BY <1>0, <1>6 DEF FsmTxRsp, SessionTransferFits, Handed, Buffers
    <2>2. CASE ~Running'
      BY <2>2, SilentStep
    <2>3. CASE Running'
      <3>1. sState = "TX_RSP" /\ sState' = "RX_ACK" /\ msgId' = msgId
        BY <1>6, <2>3 DEF FsmTxRsp, Iap2Link_RcvData
      <3>2. Exchange!Respond
        BY <2>1, <2>3, <3>1, MappedNow, MappedNext
           DEF Mapped, Exchange!Respond
      <3>. QED
        BY <3>2 DEF AbstractStep, Exchange!ExchangeNext
    <2>. QED BY <2>2, <2>3
  <1>7. CASE FsmRxAckMismatch(act, bufs)
    BY <1>7, SilentStep DEF FsmRxAckMismatch, StartNothing
  <1>8. CASE FsmRxAck(act, bufs, ok)
    BY <1>8, ListenStep
       DEF FsmRxAck, ResponseInv, EventSessionDone, SessionMgr_RxReq
  <1>9. CASE FsmTxAck(act, bufs, ok)
    BY <1>9, ListenStep DEF FsmTxAck, EventLinkSyncDone, SessionMgr_RxReq
  <1>. QED
    BY <1>1, <1>3, <1>4, <1>5, <1>6, <1>7, <1>8, <1>9 DEF SessionMgr_Fsm

\* The branches of Iap2Link_Payload_SyncLink.
LEMMA SyncLinkStep ==
    ASSUME Inv, NEW success \in BOOLEAN, NEW act \in BOOLEAN,
           NEW ok \in BOOLEAN, NEW bufs,
           mState \in {"TX_LINK_SYNC", "RX_LINK_SYNC", "TX_ACK"},
           Iap2Link_Payload_SyncLink(success, act, bufs, ok)
    PROVE  AbstractStep
  <1>1. CASE SyncAckSent(act, bufs, ok)
    <2>1. mState' = "LINK_DONE"
      BY <1>1 DEF SyncAckSent
    <2>2. Running' => sState' = "RX_REQ"
      BY <1>1 DEF SyncAckSent, EventLinkSyncDone, SessionMgr_RxReq,
         StartNothing, Running
    <2>3. Exchange!ComeUp
      BY <2>1, <2>2, MappedNow, MappedNext
         DEF Mapped, NothingOpen, Exchange!ComeUp, Exchange!NoRequest,
         Exchange!NoAnswer
    <2>. QED
      BY <2>3 DEF AbstractStep, Exchange!ExchangeNext
  <1>2. CASE ~SyncAckSent(act, bufs, ok)
    BY <1>2, DownStep
       DEF Iap2Link_Payload_SyncLink, SyncFailed, SyncSent, SyncReceived
  <1>. QED
    BY <1>1, <1>2

\* Iap2Link_TransferDone, whatever it is told.
LEMMA TransferDoneStep ==
    ASSUME Inv, started, inflight, ~hung,
           NEW success \in BOOLEAN, NEW act \in BOOLEAN, NEW ok \in BOOLEAN,
           NEW bufs, Handed(bufs),
           Iap2Link_TransferDone(success, act, bufs, ok)
    PROVE  AbstractStep
  <1>1. ASSUME StartNothing(act), mState' = mState
        PROVE  AbstractStep
    BY <1>1, SilentStep, DownStep DEF StartNothing, Running
  <1>2. CASE SwallowFailure(success, act, bufs)
    BY <1>1, <1>2 DEF SwallowFailure
  <1>3. CASE mState = "INIT" /\ Iap2Link_handShake(success, act, bufs, ok)
    <2>1. CASE HandShakeMatch(success, act, bufs, ok)
      BY <1>3, <2>1, SynchronizeStep
         DEF HandShakeMatch, Iap2Link_SendSyncPkt, Running
    <2>2. CASE ~HandShakeMatch(success, act, bufs, ok)
      BY <1>3, <2>2, DownStep
         DEF Iap2Link_handShake, HandShakeFailed, HandShakeSent,
         HandShakeMismatch
    <2>. QED
      BY <2>1, <2>2
  <1>4. CASE DropPacket(act, bufs)
    BY <1>1, <1>4 DEF DropPacket
  <1>5. CASE LinkReset(act, bufs, ok)
    <2>1. Running => SessionTransferFits
      BY DEF Running, Inv, TransferInv, MayTransfer
    <2>2. Running => sState \in {"RX_REQ", "RX_ACK"}
      BY <1>5, <2>1 DEF LinkReset, IsReception, SessionTransferFits
    <2>. QED
      BY <1>5, <2>2, SynchronizeStep
         DEF LinkReset, Iap2Link_SendSyncPkt, Running
  <1>6. CASE /\ mState \in {"TX_LINK_SYNC", "RX_LINK_SYNC", "TX_ACK"}
             /\ Iap2Link_Payload_SyncLink(success, act, bufs, ok)
    BY <1>6, SyncLinkStep
  <1>7. CASE /\ mState = "LINK_DONE" /\ UNCHANGED mState
             /\ SessionMgr_Fsm(success, act, bufs, ok)
    BY <1>7, SessionFsmStep DEF Running
  <1>. QED
    BY <1>2, <1>3, <1>4, <1>5, <1>6, <1>7 DEF Iap2Link_TransferDone
-----------------------------------------------------------------------------
\* A completion, whoever hands it over.
LEMMA CompleteStep ==
    ASSUME Inv, NEW success \in BOOLEAN, NEW act \in BOOLEAN,
           NEW bufs, Handed(bufs), Complete(success, act, bufs)
    PROVE  AbstractStep
  <1>1. started /\ inflight /\ ~hung
    BY DEF Complete, Inv, TypeOK, TransferInv, IoTypeOK
  <1>2. PICK ok \in BOOLEAN : Iap2Link_TransferDone(success, act, bufs, ok)
    BY DEF Complete, StartResults
  <1>. QED
    BY <1>1, <1>2, TransferDoneStep

\* A reception is the completion of the buffer it went to.
LEMMA ReceiveStep ==
    ASSUME Inv, NEW p \in Packets, Receive(p) PROVE AbstractStep
  <1>1. Handed([pkt EXCEPT ![irb.buf] = p])
    BY DEF Receive, Handed, Inv, TypeOK, IoTypeOK
  <1>. QED
    BY <1>1, CompleteStep DEF Receive

\* A step that leaves the mapped variables alone.
LEMMA IdleStep ==
    ASSUME UNCHANGED <<mState, inflight, hung, sState, pkt, msgId>>
    PROVE  AbstractStep
  BY DEF AbstractStep, Exchange!exchangeVars, Phase, Stage, OpenRequest,
     GivenAnswer

\* Every step of the link is a step of the exchange or changes nothing of it.
LEMMA StepRefines == ASSUME Inv, [Next]_vars PROVE AbstractStep
  <1>1. CASE Iap2Link_Start
    <2>1. mState # "LINK_DONE"
      BY <1>1 DEF Iap2Link_Start, Inv, TransferInv
    <2>. QED
      BY <1>1, <2>1, DownStep DEF Iap2Link_Start
  <1>2. CASE Iap2Link_Run
    <2>1. mState' = mState
      BY <1>2 DEF Iap2Link_Run, linkVars
    <2>2. mState = "LINK_DONE" => hung'
      BY <1>2
         DEF Iap2Link_Run, Iap2Link_ReTx, Inv, TransferInv, StartResults
    <2>. QED
      BY <2>1, <2>2, SilentStep, DownStep DEF Running
  <1>3. CASE TimeOut
    BY <1>3, IdleStep
       DEF TimeOut, TimerExpires, sessionVars, linkVars
  <1>4. Handed(pkt) /\ irb.act \in BOOLEAN
    BY DEF Inv, TypeOK, Handed, IoTypeOK, Irbs
  <1>5. CASE Transport
    BY <1>4, <1>5, CompleteStep
       DEF Transport, TransmitDone, TransmitLost, TransferFails
  <1>6. CASE ReceiveDone
    BY <1>6, OwedType, ReceiveStep DEF ReceiveDone
  <1>7. CASE ReceiveCorrupt
    BY <1>7, OwedType, GarbledType, ReceiveStep DEF ReceiveCorrupt, Controls
  <1>8. CASE ReceiveAgain
    BY <1>8, ReceiveStep DEF ReceiveAgain, Inv, TypeOK
  <1>9. CASE ReceiveMismatch
    <2>1. Packet("NONE", 0, 0, "EMPTY") \in Packets
      BY PacketType, ZeroSeq DEF Controls, Payloads
    <2>. QED
      BY <1>9, <2>1, ReceiveStep DEF ReceiveMismatch
  <1>10. CASE ReceiveControl
    <2>1. PICK c \in {"RST", "SLP", "EAK"} :
             Receive(Packet(c, devSent.seq, heard.seq, "EMPTY"))
      BY <1>10 DEF ReceiveControl
    <2>2. devSent.seq \in SeqNums /\ heard.seq \in SeqNums
      BY DEF Inv, TypeOK, Packets
    <2>3. Packet(c, devSent.seq, heard.seq, "EMPTY") \in Packets
      BY <2>2, PacketType DEF Controls, Payloads
    <2>. QED
      BY <2>1, <2>3, ReceiveStep
  <1>11. CASE ReceiveEmpty
    BY <1>4, <1>11, CompleteStep DEF ReceiveEmpty
  <1>12. CASE UNCHANGED vars
    BY <1>12, IdleStep DEF vars, ioVars, sessionVars, linkVars
  <1>. QED
    BY <1>1, <1>2, <1>3, <1>5, <1>6, <1>7, <1>8, <1>9, <1>10, <1>11, <1>12
       DEF Next, Device

\* The link implements the abstract exchange: it takes one request at a time,
\* answers it by name, has a response confirmed before it takes the next, and
\* once silent stays silent, in every environment.
THEOREM LinkImplementsExchange == Spec => ImplementsExchange
  <1>1. Init => Exchange!ExchangeInit
    BY MappedNow
       DEF Init, Mapped, NothingOpen, Exchange!ExchangeInit
  <1>2. Inv /\ [Next]_vars => AbstractStep
    BY StepRefines
  <1>. QED
    BY <1>1, <1>2, SpecInv, PTL
       DEF Spec, ImplementsExchange, Exchange!ExchangeSpec, AbstractStep
-----------------------------------------------------------------------------
(* What the link promises in an environment that commits some of the faults   *)
(* and not others: the numbers the device hears are in step, it hears its own *)
(* packets answered, the link never falls silent, and no assertion fails.     *)
(* Each promise has an inductive invariant of its own, and they rest on one   *)
(* another and on Inv.                                                        *)

\* A reception that the timer did not start again has received nothing yet.
StaleInv == inflight /\ ~hung /\ timer = "stopped" /\ ~irb.isTx => ~irb.act

\* The state in which Iap2Link_TransferDone finds the link.
Completing == Inv /\ StaleInv /\ started /\ inflight /\ ~hung

\* A transmission that is out is followed by a reception, or by nothing.
LEMMA TransmitCases ==
    ASSUME Completing, irb.isTx, NEW ok \in BOOLEAN,
           Iap2Link_TransferDone(TRUE, TRUE, pkt, ok)
    PROVE  \/ mState = "INIT" /\ irb.buf \in StaticBuffers /\ HandShakeSent(TRUE, pkt, ok)
           \/ mState = "TX_LINK_SYNC" /\ irb.buf = "req" /\ SyncSent(pkt, ok)
           \/ mState = "TX_ACK" /\ irb.buf = "ack" /\ SyncAckSent(TRUE, pkt, ok)
           \/ /\ mState = "LINK_DONE" /\ mState' = mState
              /\ \/ sState = "TX_ACK" /\ irb.buf = "ack" /\ FsmTxAck(TRUE, pkt, ok)
                 \/ sState = "TX_RSP" /\ irb.buf = "rsp" /\ FsmTxRsp(pkt, ok)
  <1>1. LinkTransferFits /\ (mState = "LINK_DONE" => SessionTransferFits)
    BY DEF Completing, Inv, TransferInv, MayTransfer
  <1>2. irb.isTx \in BOOLEAN
    BY DEF Completing, Inv, TypeOK, IoTypeOK, Irbs
  <1>. QED
    BY <1>1, <1>2 DEF LinkTransferFits, SessionTransferFits, Iap2Link_TransferDone,
       SwallowFailure, Iap2Link_handShake, HandShakeFailed, HandShakeMatch,
       HandShakeMismatch, HandShakeSent, DropPacket, LinkReset, IsReception,
       Iap2Link_Payload_SyncLink, SyncFailed, SyncSent, SyncReceived, SyncAckSent,
       SessionMgr_Fsm, FsmRxReqHeader, FsmRxReqAck, FsmRxReqRespond, FsmTxRsp,
       FsmRxAckMismatch, FsmRxAck, FsmTxAck

\* A transfer that fails is followed by nothing.
LEMMA FailureCases ==
    ASSUME Completing, NEW ok \in BOOLEAN,
           Iap2Link_TransferDone(FALSE, irb.act, pkt, ok)
    PROVE  /\ StartNothing(irb.act) /\ pkt' = pkt /\ nextPSN' = nextPSN
           /\ mState' = mState /\ msgId' = msgId
           /\ \/ timer' = timer /\ sState' = sState
              \/ timer' = "stopped" /\ sState' = "SESSION_INIT" /\ mState = "LINK_DONE"
  <1>1. timer = "stopped" => ~IsReception(irb.act)
    BY DEF Completing, StaleInv, IsReception
  <1>. QED
    BY <1>1 DEF Iap2Link_TransferDone,
       SwallowFailure, Iap2Link_handShake, HandShakeFailed, HandShakeMatch,
       HandShakeMismatch, HandShakeSent, DropPacket, LinkReset,
       Iap2Link_Payload_SyncLink, SyncFailed,
       SessionMgr_Fsm, FsmFailed, sessionVars

\* What the link hands to its session.
Dispatchable(p) == p.valid /\ ~IsLinkPacket(p)

\* A reception: p is what m_Irb's buffer holds, received or left over.
LEMMA ReceiveCases ==
    ASSUME Completing, ~irb.isTx, NEW act \in BOOLEAN, NEW bufs, NEW ok \in BOOLEAN,
           Iap2Link_TransferDone(TRUE, act, bufs, ok)
    PROVE  LET p == Current(bufs) IN
           \/ /\ mState = "INIT" /\ (act => p.ctl = "DETECT")
              /\ Iap2Link_SendSyncPkt(bufs, ok)
           \/ /\ mState = "INIT" /\ act /\ p.ctl # "DETECT"
              /\ HandShakeMismatch(TRUE, act, bufs, ok)
           \/ /\ mState # "INIT" /\ act /\ ~Dispatchable(p)
              /\ DropPacket(act, bufs)
           \/ /\ mState # "INIT" /\ act /\ p.valid /\ p.ctl = "RST"
              /\ Iap2Link_SendSyncPkt(bufs, ok)
           \/ /\ act => Dispatchable(p)
              /\ \/ /\ mState = "RX_LINK_SYNC" /\ irb.buf = "rsp"
                    /\ SyncReceived(bufs, ok)
                 \/ /\ mState = "LINK_DONE" /\ mState' = mState
                    /\ sState = "RX_REQ" /\ irb.buf = "req"
                    /\ \/ FsmRxReqHeader(bufs, ok)
                       \/ FsmRxReqAck(bufs, ok)
                       \/ FsmRxReqRespond(bufs, ok)
                 \/ /\ mState = "LINK_DONE" /\ mState' = mState
                    /\ sState = "RX_ACK" /\ irb.buf = "ack"
                    /\ \/ FsmRxAckMismatch(act, bufs)
                       \/ FsmRxAck(act, bufs, ok)
  <1>1. LinkTransferFits /\ (mState = "LINK_DONE" => SessionTransferFits)
    BY DEF Completing, Inv, TransferInv, MayTransfer
  <1>. QED
    BY <1>1 DEF LinkTransferFits, SessionTransferFits, Iap2Link_TransferDone,
       SwallowFailure, Iap2Link_handShake, HandShakeFailed, HandShakeMatch,
       HandShakeMismatch, DetectionEchoed, HandShakeSent, DropPacket, LinkReset,
       IsReception, IsLinkPacket, Dispatched, Dispatchable,
       Iap2Link_Payload_SyncLink, SyncFailed, SyncSent, SyncReceived, SyncAckSent,
       SessionMgr_Fsm, FsmRxReqHeader, FsmRxReqAck, FsmRxReqRespond, FsmTxRsp,
       FsmRxAckMismatch, FsmRxAck, FsmTxAck

\* How the environment's actions hand over a completion.
Handing(success, act, bufs) ==
    \E ok \in BOOLEAN : Iap2Link_TransferDone(success, act, bufs, ok)

\* A completion finds the link as Completing says.
LEMMA CompletionHands ==
    ASSUME Inv, StaleInv, NEW success, NEW act, NEW bufs, Complete(success, act, bufs)
    PROVE  Completing /\ Handing(success, act, bufs) /\ started' = started
  BY DEF Complete, Completing, Handing, StartResults, Inv, TypeOK, TransferInv, IoTypeOK

\* The buffers once p was received.
Filled(p) == [pkt EXCEPT ![irb.buf] = p]

\* A reception changes the buffer received into, and no other.
LEMMA ReceptionHands ==
    ASSUME Inv, StaleInv, NEW p, Receive(p)
    PROVE  /\ Completing /\ Handing(TRUE, TRUE, Filled(p)) /\ ~irb.isTx
           /\ Current(Filled(p)) = p /\ started' = started
           /\ \A b \in Buffers \ {irb.buf} : Filled(p)[b] = pkt[b]
           /\ irb.buf \in Buffers /\ Filled(p)[irb.buf] = p
  <1>1. Complete(TRUE, TRUE, Filled(p)) /\ ~irb.isTx
    BY DEF Receive, Filled
  <1>2. irb.buf \in Buffers /\ pkt \in [Buffers -> Packets]
    BY <1>1 DEF Inv, TypeOK, IoTypeOK
  <1>. QED
    BY <1>1, <1>2, CompletionHands DEF Current, Filled

\* A reception that is on, and not started again, has received nothing.
LEMMA StaleStep == ASSUME Inv, StaleInv, [Next]_vars PROVE StaleInv'
  <1>0. irb \in Irbs
    BY DEF Inv, TypeOK, IoTypeOK
  <1>1. ASSUME NEW success \in BOOLEAN, NEW act \in BOOLEAN, NEW bufs,
               Complete(success, act, bufs)
        PROVE  StaleInv'
    <2>1. PICK ok \in BOOLEAN : Iap2Link_TransferDone(success, act, bufs, ok)
      BY <1>1 DEF Complete, StartResults
    <2>. DEFINE Harmless == ~inflight' \/ irb'.isTx \/ ~irb'.act
    <2>2. \A b : Iap2Link_RcvData(b, ok) => Harmless
      BY DEF Iap2Link_RcvData
    <2>3. \A b, ms, max : Iap2Link_TxData(b, ms, max, ok) => Harmless
      BY DEF Iap2Link_TxData
    <2>4. StartNothing(act) => Harmless
      BY DEF StartNothing
    <2>. HIDE DEF Harmless
    <2>5. EventSessionDone(act, ok) => Harmless
      <3>1. CASE msgId \in {"REQ_AUTH", "REQ_AUTH_CHA_RSP", "RSP_AUTH_RESULT_SUCCESS"}
        BY <2>2, <2>4, <3>1 DEF EventSessionDone, SessionMgr_RxReq
      <3>2. CASE msgId \notin {"REQ_AUTH", "REQ_AUTH_CHA_RSP", "RSP_AUTH_RESULT_SUCCESS"}
        BY <2>4, <3>2 DEF EventSessionDone
      <3>. QED BY <3>1, <3>2
    <2>6. \A s : SessionMgr_RxReq(s, act, ok) => Harmless
      BY <2>2, <2>4 DEF SessionMgr_RxReq
    <2>7. Harmless
      BY <2>1, <2>2, <2>3, <2>4, <2>5, <2>6 DEF Iap2Link_TransferDone,
       SwallowFailure, Iap2Link_handShake, HandShakeFailed, HandShakeMatch,
       HandShakeMismatch, HandShakeSent, DropPacket, LinkReset,
       Iap2Link_SendSyncPkt,
       Iap2Link_Payload_SyncLink, SyncFailed, SyncSent, SyncReceived, SyncAckSent,
       SessionMgr_Fsm, FsmRxReqHeader, FsmRxReqAck, FsmRxReqRespond, FsmTxRsp,
       FsmRxAckMismatch, FsmRxAck, FsmTxAck, FsmFailed,
       EventLinkSyncDone
    <2>. QED
      BY <2>7 DEF StaleInv, Harmless
  <1>2. irb.act \in BOOLEAN
    BY <1>0 DEF Irbs
  <1>3. CASE Transport \/ Device
    BY <1>1, <1>2, <1>3 DEF Transport, TransmitDone, TransmitLost, TransferFails,
       Device, ReceiveDone, ReceiveCorrupt, ReceiveAgain, ReceiveMismatch,
       ReceiveControl, ReceiveEmpty, Receive
  <1>4. CASE Iap2Link_Start
    BY <1>4 DEF StaleInv, Iap2Link_Start, Iap2Link_TxData
  <1>5. CASE Iap2Link_Run
    BY <1>5 DEF StaleInv, Iap2Link_Run, Iap2Link_ReTx
  <1>6. CASE TimeOut \/ UNCHANGED vars
    BY <1>6 DEF StaleInv, TimeOut, TimerExpires, vars, ioVars
  <1>. QED
    BY <1>3, <1>4, <1>5, <1>6 DEF Next
-----------------------------------------------------------------------------
\* Until detection ends the device answers nothing but the detection sequence.
Dialled == mState = "INIT" => due \in {"nothing", "detect"}

\* The frame being transmitted, now or when the timer starts it again, bears
\* the last number given out.
LastNumberOut ==
    MayTransfer /\ ~hung /\ irb.isTx /\ irb.buf \in Buffers =>
        NextSeq(pkt[irb.buf].seq) = nextPSN

\* Bytes that are not there and packets that come twice are what can put the
\* numbers out of step.
NumbersInv ==
    faults \intersect {"empty", "dup"} = {} =>
        /\ NumbersInStep /\ LastNumberOut
        /\ mState # "INIT" => due # "detect"

\* A transmission that is out leaves the buffers and the numbers alone.
LEMMA TransmitKeeps ==
    ASSUME Completing, irb.isTx, Handing(TRUE, TRUE, pkt)
    PROVE  /\ pkt' = pkt /\ nextPSN' = nextPSN
           /\ ~MayTransfer' \/ ~irb'.isTx
           /\ mState' = "INIT" <=> mState = "INIT"
           /\ mState = "INIT" <=> irb.buf \in StaticBuffers
           /\ irb.buf \in Buffers \cup StaticBuffers
  <1>1. PICK ok \in BOOLEAN : Iap2Link_TransferDone(TRUE, TRUE, pkt, ok)
    BY DEF Handing
  <1>2. reSendMs' = 0 => ~MayTransfer' \/ inflight'
    BY DEF MayTransfer
  <1>3. mState \in {"TX_ACK", "LINK_DONE"} => reSendMs = 0
    BY DEF Completing, Inv, TransferInv
  <1>4. irb \in Irbs
    BY DEF Completing, Inv, TypeOK, IoTypeOK
  <1>5. CASE mState = "INIT" /\ irb.buf \in StaticBuffers /\ HandShakeSent(TRUE, pkt, ok)
    BY <1>5 DEF HandShakeSent, Iap2Link_RcvData
  <1>6. CASE mState = "TX_LINK_SYNC" /\ irb.buf = "req" /\ SyncSent(pkt, ok)
    BY <1>6 DEF SyncSent, Iap2Link_RcvData, StaticBuffers, Buffers
  <1>7. CASE mState = "TX_ACK" /\ irb.buf = "ack" /\ SyncAckSent(TRUE, pkt, ok)
    <2>1. ~irb'.isTx \/ (~inflight' /\ reSendMs' = reSendMs)
      BY <1>7 DEF SyncAckSent, EventLinkSyncDone, SessionMgr_RxReq,
         Iap2Link_RcvData, StartNothing
    <2>. QED
      BY <1>2, <1>3, <1>7, <2>1 DEF SyncAckSent, StaticBuffers, Buffers
  <1>8. CASE mState = "LINK_DONE" /\ mState' = mState /\ sState = "TX_ACK" /\ irb.buf = "ack"
             /\ FsmTxAck(TRUE, pkt, ok)
    BY <1>8 DEF FsmTxAck, EventLinkSyncDone, SessionMgr_RxReq, Iap2Link_RcvData,
       StaticBuffers, Buffers
  <1>9. CASE mState = "LINK_DONE" /\ mState' = mState /\ sState = "TX_RSP" /\ irb.buf = "rsp"
             /\ FsmTxRsp(pkt, ok)
    BY <1>9 DEF FsmTxRsp, Iap2Link_RcvData, StaticBuffers, Buffers
  <1>. QED
    BY <1>1, <1>5, <1>6, <1>7, <1>8, <1>9, TransmitCases

\* A failure leaves them alone too, and what was being transmitted.
LEMMA FailureKeeps ==
    ASSUME Completing, Handing(FALSE, irb.act, pkt)
    PROVE  /\ pkt' = pkt /\ nextPSN' = nextPSN /\ mState' = mState
           /\ irb'.isTx = irb.isTx /\ irb'.buf = irb.buf
           /\ ~inflight' /\ hung' = hung
  <1>1. irb \in Irbs
    BY DEF Completing, Inv, TypeOK, IoTypeOK
  <1>. QED
    BY <1>1, FailureCases DEF Handing, StartNothing, Irbs

\* What a reception does to the numbers: a frame sent in answer to a packet that
\* names the last number given out bears that number, or the next.
LEMMA ReceiveNumbers ==
    ASSUME Completing, ~irb.isTx, NEW bufs \in [Buffers -> Packets],
           Handing(TRUE, TRUE, bufs),
           LET p == Current(bufs) IN
             mState # "INIT" /\ Dispatchable(p) => NextSeq(p.ack) = nextPSN
    PROVE  /\ LastNumberOut'
           /\ \/ nextPSN' = nextPSN
              \/ mState = "INIT" /\ Current(bufs).ctl = "DETECT"
              \/ mState # "INIT" /\ Current(bufs).ctl = "RST"
              \/ mState # "INIT" /\ Dispatchable(Current(bufs)) /\ Current(bufs).payload = "REQ_AUTH"
           /\ mState' = "INIT" => mState = "INIT"
  <1>. DEFINE p == Current(bufs)
  <1>1. PICK ok \in BOOLEAN : Iap2Link_TransferDone(TRUE, TRUE, bufs, ok)
    BY DEF Handing
  <1>2. /\ irb \in Irbs /\ nextPSN \in SeqNums
        /\ mState \in {"TX_ACK", "LINK_DONE"} => reSendMs = 0
    BY DEF Completing, Inv, TypeOK, IoTypeOK, TransferInv
  <1>3. irb.buf \in Buffers /\ p \in Packets
    BY DEF Completing, Inv, TypeOK, IoTypeOK, Current
  <1>4. ASSUME Iap2Link_SendSyncPkt(bufs, ok)
        PROVE  LastNumberOut' /\ mState' # "INIT"
    <2>1. pkt'["req"].seq = nextPSN /\ nextPSN' = NextSeq(nextPSN) /\ irb'.buf = "req"
      BY <1>4 DEF Iap2Link_SendSyncPkt, Iap2Link_TxData, Packet, Buffers
    <2>. QED BY <1>4, <2>1 DEF LastNumberOut, Iap2Link_SendSyncPkt
  <1>5. ASSUME ~irb'.isTx PROVE LastNumberOut'
    BY <1>5 DEF LastNumberOut
  <1>6. ASSUME irb'.buf = "ack", nextPSN' = nextPSN, NextSeq(p.ack) = nextPSN,
               pkt'["ack"] = Iap2Link_AckInit(p)
        PROVE  LastNumberOut'
    BY <1>6 DEF LastNumberOut, Iap2Link_AckInit, Packet
  <1>7. CASE mState = "INIT" /\ HandShakeMismatch(TRUE, TRUE, bufs, ok)
    BY <1>7 DEF HandShakeMismatch, Iap2Link_TxData, LastNumberOut, Buffers
  <1>8. CASE DropPacket(TRUE, bufs)
    BY <1>2, <1>5, <1>8 DEF DropPacket, StartNothing
  <1>9. CASE mState = "RX_LINK_SYNC" /\ Dispatchable(p) /\ SyncReceived(bufs, ok)
    BY <1>3, <1>6, <1>9 DEF SyncReceived, Iap2Link_TxData, Buffers
  <1>10. CASE mState = "LINK_DONE" /\ mState' = mState /\ FsmRxReqHeader(bufs, ok)
    BY <1>5, <1>10 DEF FsmRxReqHeader, Iap2Link_RcvData
  <1>11. CASE mState = "LINK_DONE" /\ mState' = mState /\ Dispatchable(p) /\ FsmRxReqAck(bufs, ok)
    BY <1>3, <1>6, <1>11 DEF FsmRxReqAck, Iap2Link_TxData, Buffers
  <1>12. CASE mState = "LINK_DONE" /\ mState' = mState /\ Dispatchable(p) /\ FsmRxReqRespond(bufs, ok)
    <2>1. pkt'["rsp"].seq = nextPSN /\ nextPSN' = NextSeq(nextPSN) /\ irb'.buf = "rsp"
      BY <1>12 DEF FsmRxReqRespond, Iap2Link_TxData, Packet, Buffers
    <2>2. p.payload = "REQ_AUTH"
      BY <1>12 DEF FsmRxReqRespond, MayRespond, MessageOf
    <2>. QED BY <1>12, <2>1, <2>2 DEF LastNumberOut
  <1>13. CASE mState = "LINK_DONE" /\ mState' = mState /\ FsmRxAckMismatch(TRUE, bufs)
    BY <1>2, <1>5, <1>13 DEF FsmRxAckMismatch, StartNothing
  <1>14. CASE mState = "LINK_DONE" /\ mState' = mState /\ sState = "RX_ACK" /\ FsmRxAck(TRUE, bufs, ok)
    BY <1>5, <1>14 DEF FsmRxAck, Completing, Inv, ResponseInv, EventSessionDone,
       SessionMgr_RxReq, Iap2Link_RcvData
  <1>15. CASE /\ Iap2Link_SendSyncPkt(bufs, ok)
              /\ \/ mState = "INIT" /\ p.ctl = "DETECT"
                 \/ mState # "INIT" /\ p.ctl = "RST"
    BY <1>4, <1>15
  <1>. HIDE DEF p
  <1>16. \/ /\ Iap2Link_SendSyncPkt(bufs, ok)
            /\ \/ mState = "INIT" /\ p.ctl = "DETECT"
               \/ mState # "INIT" /\ p.ctl = "RST"
         \/ mState = "INIT" /\ HandShakeMismatch(TRUE, TRUE, bufs, ok)
         \/ DropPacket(TRUE, bufs)
         \/ mState = "RX_LINK_SYNC" /\ Dispatchable(p) /\ SyncReceived(bufs, ok)
         \/ /\ mState = "LINK_DONE" /\ mState' = mState /\ Dispatchable(p)
            /\ \/ FsmRxReqHeader(bufs, ok)
               \/ FsmRxReqAck(bufs, ok)
               \/ FsmRxReqRespond(bufs, ok)
               \/ FsmRxAckMismatch(TRUE, bufs)
               \/ sState = "RX_ACK" /\ FsmRxAck(TRUE, bufs, ok)
    BY <1>1, ReceiveCases DEF p
  <1>. QED
    BY <1>7, <1>8, <1>9, <1>10, <1>11, <1>12, <1>13, <1>14, <1>15, <1>16
-----------------------------------------------------------------------------
\* The environment of a behaviour does not change.
LEMMA FaultsStay == [Next]_vars => faults' = faults
  <1>. SUFFICES ASSUME [Next]_vars PROVE faults' = faults
    OBVIOUS
  <1>1. ASSUME NEW success, NEW act, NEW bufs, Complete(success, act, bufs)
        PROVE  faults' = faults
    <2>1. PICK ok \in BOOLEAN : Iap2Link_TransferDone(success, act, bufs, ok)
      BY <1>1 DEF Complete, StartResults
    <2>2. EventSessionDone(act, ok) => faults' = faults
      <3>1. CASE msgId \in {"REQ_AUTH", "REQ_AUTH_CHA_RSP", "RSP_AUTH_RESULT_SUCCESS"}
        BY <3>1 DEF EventSessionDone, SessionMgr_RxReq, StartNothing, Iap2Link_RcvData
      <3>2. CASE msgId \notin {"REQ_AUTH", "REQ_AUTH_CHA_RSP", "RSP_AUTH_RESULT_SUCCESS"}
        BY <3>2 DEF EventSessionDone, StartNothing
      <3>. QED BY <3>1, <3>2
    <2>. QED
      BY <2>1, <2>2 DEF Iap2Link_TransferDone,
       SwallowFailure, Iap2Link_handShake, HandShakeFailed, HandShakeMatch,
       HandShakeMismatch, HandShakeSent, DropPacket, LinkReset,
       Iap2Link_SendSyncPkt, Iap2Link_TxData, Iap2Link_RcvData, StartNothing,
       Iap2Link_Payload_SyncLink, SyncFailed, SyncSent, SyncReceived, SyncAckSent,
       SessionMgr_Fsm, FsmRxReqHeader, FsmRxReqAck, FsmRxReqRespond, FsmTxRsp,
       FsmRxAckMismatch, FsmRxAck, FsmTxAck, FsmFailed,
       EventLinkSyncDone, SessionMgr_RxReq
  <1>2. CASE Transport \/ Device
    BY <1>1, <1>2 DEF Transport, TransmitDone, TransmitLost, TransferFails,
       Device, ReceiveDone, ReceiveCorrupt, ReceiveAgain, ReceiveMismatch,
       ReceiveControl, ReceiveEmpty, Receive
  <1>3. CASE Iap2Link_Start \/ Iap2Link_Run \/ TimeOut \/ UNCHANGED vars
    BY <1>3 DEF Iap2Link_Start, Iap2Link_TxData, Iap2Link_Run, Iap2Link_ReTx,
       TimeOut, TimerExpires, vars, ioVars
  <1>. QED
    BY <1>2, <1>3 DEF Next

\* What the device sends, by what it owes.
LEMMA OwedFacts ==
    ASSUME Inv, NEW p \in Owed
    PROVE  /\ due # "nothing" /\ p.ctl # "RST"
           /\ due = "detect" => p = DetectEcho /\ ~p.valid /\ p.ctl = "DETECT" /\ p.seq = 0
           /\ due # "detect" =>
                /\ p.ack = heard.seq /\ p.valid /\ p.ctl \in {"SYNACK", "ACK"}
           /\ due = "ack" => p.payload = "EMPTY" /\ p.seq = devSent.seq
           /\ due = "synack" => p.payload = "SYNC"
  <1>. USE DEF Owed, DetectEcho, Garbled, Packet
  <1>1. CASE due = "nothing"
    BY <1>1
  <1>2. CASE due = "detect"
    BY <1>2
  <1>3. CASE due = "synack"
    BY <1>3
  <1>4. CASE due = "request"
    BY <1>4
  <1>5. CASE due = "ack"
    BY <1>5
  <1>. QED
    BY <1>1, <1>2, <1>3, <1>4, <1>5 DEF Inv, TypeOK, Dues

\* The link never goes back to detection.
LEMMA NoWayBack ==
    ASSUME NEW success, NEW act, NEW bufs, Handing(success, act, bufs)
    PROVE  mState' = "INIT" => mState = "INIT"
  BY DEF Handing, Iap2Link_TransferDone,
       SwallowFailure, Iap2Link_handShake, HandShakeFailed, HandShakeMatch,
       HandShakeMismatch, HandShakeSent, DropPacket, LinkReset,
       Iap2Link_SendSyncPkt,
       Iap2Link_Payload_SyncLink, SyncFailed, SyncSent, SyncReceived, SyncAckSent

\* What the device owes for a frame, by the buffer it was in.
LEMMA AnswerFacts ==
    ASSUME NEW b \in Buffers \cup StaticBuffers
    PROVE  /\ b \in StaticBuffers => Answer(b) = "detect"
           /\ b = "req" => Answer(b) = "synack"
           /\ b = "rsp" => Answer(b) = "ack"
           /\ b = "ack" => Answer(b) = "request"
  <1>1. CASE b \in StaticBuffers
    BY <1>1 DEF Answer, StaticBuffers
  <1>2. CASE b = "req"
    BY <1>2 DEF Answer, StaticBuffers
  <1>3. CASE b = "rsp"
    BY <1>3 DEF Answer, StaticBuffers
  <1>4. CASE b = "ack"
    BY <1>4 DEF Answer, StaticBuffers
  <1>. QED
    BY <1>1, <1>2, <1>3, <1>4 DEF Buffers, StaticBuffers

\* Every step keeps Dialled.
LEMMA DialledStep == ASSUME Inv, StaleInv, Dialled, [Next]_vars PROVE Dialled'
  <1>1. CASE TransmitDone
    <2>1. Completing /\ irb.isTx /\ Handing(TRUE, TRUE, pkt)
      BY <1>1, CompletionHands DEF TransmitDone
    <2>2. /\ mState' = "INIT" => irb.buf \in StaticBuffers
          /\ irb.buf \in Buffers \cup StaticBuffers
      BY <2>1, TransmitKeeps
    <2>3. due' = Answer(irb.buf)
      BY <1>1 DEF TransmitDone
    <2>. QED
      BY <2>2, <2>3, AnswerFacts DEF Dialled
  <1>2. CASE TransmitLost \/ TransferFails \/ ReceiveEmpty
    BY <1>2, CompletionHands, NoWayBack
       DEF TransmitLost, TransferFails, ReceiveEmpty, deviceVars, Dialled
  <1>3. CASE ReceiveDone \/ ReceiveCorrupt \/ ReceiveAgain \/ ReceiveMismatch \/ ReceiveControl
    BY <1>3, ReceptionHands, NoWayBack
       DEF ReceiveDone, ReceiveCorrupt, ReceiveAgain, ReceiveMismatch, ReceiveControl,
       deviceVars, Dialled, DueAfter
  <1>4. CASE Iap2Link_Start \/ Iap2Link_Run \/ TimeOut \/ UNCHANGED vars
    BY <1>4 DEF Iap2Link_Start, Iap2Link_Run, TimeOut, vars, linkVars, deviceVars, Dialled
  <1>. QED
    BY <1>1, <1>2, <1>3, <1>4 DEF Next, Transport, Device

\* Every step keeps the numbers in step: a frame bears the last number given out
\* when it is sent for the first time and when it is sent again.
LEMMA NumbersStep ==
    ASSUME Inv, StaleInv, Dialled, NumbersInv, [Next]_vars PROVE NumbersInv'
  <1>. SUFFICES ASSUME faults \intersect {"empty", "dup"} = {},
                       NumbersInStep, LastNumberOut, mState # "INIT" => due # "detect"
                PROVE  NumbersInStep' /\ LastNumberOut' /\ (mState' # "INIT" => due' # "detect")
    BY FaultsStay DEF NumbersInv
  <1>1. CASE TransmitDone
    <2>1. Completing /\ irb.isTx /\ Handing(TRUE, TRUE, pkt)
      BY <1>1, CompletionHands DEF TransmitDone
    <2>2. /\ pkt' = pkt /\ nextPSN' = nextPSN
          /\ ~MayTransfer' \/ ~irb'.isTx
          /\ mState' = "INIT" <=> mState = "INIT"
          /\ mState = "INIT" <=> irb.buf \in StaticBuffers
          /\ irb.buf \in Buffers \cup StaticBuffers
      BY <2>1, TransmitKeeps
    <2>3. irb.buf \in Buffers => NextSeq(heard'.seq) = nextPSN
      BY <1>1, <2>1 DEF TransmitDone, LastNumberOut, MayTransfer, Completing
    <2>4. due' = Answer(irb.buf)
      BY <1>1 DEF TransmitDone
    <2>5. irb.buf \in StaticBuffers => due' = "detect"
      BY <2>2, <2>4, AnswerFacts
    <2>6. irb.buf \in Buffers => due' # "detect"
      BY <2>2, <2>4, AnswerFacts DEF Buffers
    <2>. QED
      BY <2>2, <2>3, <2>5, <2>6 DEF NumbersInStep, LastNumberOut
  <1>2. CASE TransmitLost
    <2>1. Completing /\ irb.isTx /\ Handing(TRUE, TRUE, pkt)
      BY <1>2, CompletionHands DEF TransmitLost
    <2>. QED
      BY <1>2, <2>1, TransmitKeeps, FaultsStay DEF TransmitLost, deviceVars, NumbersInStep, LastNumberOut
  <1>3. CASE TransferFails
    <2>1. Completing /\ Handing(FALSE, irb.act, pkt)
      BY <1>3, CompletionHands DEF TransferFails
    <2>. QED
      BY <1>3, <2>1, FailureKeeps, FaultsStay
         DEF TransferFails, deviceVars, NumbersInStep, LastNumberOut, MayTransfer, Completing
  <1>4. ASSUME NEW p \in Packets, Receive(p), due' # "detect",
               mState # "INIT" /\ Dispatchable(p) => NextSeq(p.ack) = nextPSN,
               nextPSN' = nextPSN => NumbersInStep',
               due' # "nothing" =>
                 /\ p.payload # "REQ_AUTH" \/ ~Dispatchable(p)
                 /\ mState # "INIT" => p.ctl # "RST"
                 /\ mState = "INIT" => p.ctl # "DETECT"
        PROVE  NumbersInStep' /\ LastNumberOut' /\ (mState' # "INIT" => due' # "detect")
    <2>1. /\ Completing /\ Handing(TRUE, TRUE, Filled(p)) /\ ~irb.isTx
          /\ Current(Filled(p)) = p /\ irb.buf \in Buffers
      BY <1>4, ReceptionHands
    <2>2. Filled(p) \in [Buffers -> Packets]
      BY <1>4 DEF Inv, TypeOK, IoTypeOK, Filled
    <2>3. LastNumberOut' /\ (nextPSN' = nextPSN \/ due' = "nothing")
      BY <1>4, <2>1, <2>2, ReceiveNumbers
    <2>. QED
      BY <1>4, <2>3 DEF NumbersInStep
  <1>5. CASE ReceiveDone
    <2>1. PICK p \in Owed : Receive(p) /\ devSent' = p /\ due' = DueAfter /\ heard' = heard
      BY <1>5 DEF ReceiveDone
    <2>2. p \in Packets
      BY OwedType
    <2>3. nextPSN' = nextPSN => NumbersInStep'
      BY <2>1, FaultsStay DEF NumbersInStep, DueAfter
    <2>4. mState # "INIT" /\ Dispatchable(p) => NextSeq(p.ack) = nextPSN
      BY OwedFacts DEF NumbersInStep, Inv, TypeOK, Dues
    <2>. QED
      BY <1>4, <2>1, <2>2, <2>3, <2>4, OwedFacts DEF DueAfter
  <1>6. CASE ReceiveCorrupt
    <2>1. PICK p \in Owed : Receive(Garbled(p, "NONE")) /\ due' = DueAfter /\ heard' = heard
      BY <1>6 DEF ReceiveCorrupt
    <2>2. Garbled(p, "NONE") \in Packets
      BY OwedType, GarbledType DEF Controls
    <2>3. nextPSN' = nextPSN => NumbersInStep'
      BY <2>1, FaultsStay DEF NumbersInStep, DueAfter
    <2>4. ~Garbled(p, "NONE").valid /\ Garbled(p, "NONE").ctl = "NONE"
      BY OwedType DEF Garbled, Packets
    <2>. QED
      BY <1>4, <2>1, <2>2, <2>3, <2>4 DEF DueAfter, Dispatchable
  <1>7. CASE ReceiveMismatch
    <2>1. Packet("NONE", 0, 0, "EMPTY") \in Packets
      BY PacketType, ZeroSeq DEF Controls, Payloads
    <2>2. mState = "INIT" /\ due' = "nothing"
      BY <1>7 DEF ReceiveMismatch
    <2>. QED
      BY <1>4, <1>7, <2>1, <2>2 DEF ReceiveMismatch, NumbersInStep
  <1>8. CASE ReceiveControl
    <2>1. PICK c \in {"RST", "SLP", "EAK"} :
             Receive(Packet(c, devSent.seq, heard.seq, "EMPTY")) /\ due' = "nothing"
      BY <1>8 DEF ReceiveControl
    <2>2. devSent.seq \in SeqNums /\ heard.seq \in SeqNums
      BY DEF Inv, TypeOK, Packets
    <2>3. Packet(c, devSent.seq, heard.seq, "EMPTY") \in Packets
      BY <2>2, PacketType DEF Controls, Payloads
    <2>4. ~Dispatchable(Packet(c, devSent.seq, heard.seq, "EMPTY"))
      BY DEF Dispatchable, IsLinkPacket, Packet
    <2>. QED
      BY <1>4, <2>1, <2>3, <2>4 DEF NumbersInStep
  <1>9. CASE ReceiveAgain \/ ReceiveEmpty
    BY <1>9 DEF ReceiveAgain, ReceiveEmpty
  <1>10. CASE Iap2Link_Start
    BY <1>10, FaultsStay DEF Iap2Link_Start, Iap2Link_TxData, deviceVars, NumbersInStep,
       LastNumberOut, Buffers
  <1>11. CASE Iap2Link_Run
    BY <1>11, FaultsStay DEF Iap2Link_Run, Iap2Link_ReTx, linkVars, deviceVars, NumbersInStep,
       LastNumberOut, MayTransfer
  <1>12. CASE TimeOut \/ UNCHANGED vars
    BY <1>12, FaultsStay DEF TimeOut, TimerExpires, linkVars, deviceVars, NumbersInStep,
       LastNumberOut, MayTransfer, vars, ioVars
  <1>. QED
    BY <1>1, <1>2, <1>3, <1>5, <1>6, <1>7, <1>8, <1>9, <1>10, <1>11, <1>12
       DEF Next, Transport, Device
-----------------------------------------------------------------------------
\* The inductive form of DeviceIsAnswered: an answer on its way names the last
\* packet of the device, and the first packet is the detection sequence.
NamesInv ==
    "empty" \notin faults =>
        /\ DeviceIsAnswered
        /\ mState = "INIT" \/ due = "detect" => devSent.seq = 0
        /\ inflight /\ ~hung /\ irb.isTx /\ irb.buf \in {"ack", "rsp"} =>
               pkt[irb.buf].ack = devSent.seq

\* What a reception makes the link send as an answer names the packet received.
LEMMA ReceiveNames ==
    ASSUME Completing, ~irb.isTx, NEW bufs \in [Buffers -> Packets],
           Handing(TRUE, TRUE, bufs)
    PROVE  irb'.isTx /\ irb'.buf \in {"ack", "rsp"} =>
               pkt'[irb'.buf].ack = Current(bufs).seq
  <1>. DEFINE p == Current(bufs)
              Named == irb'.isTx /\ irb'.buf \in {"ack", "rsp"} =>
                           pkt'[irb'.buf].ack = p.seq
  <1>1. PICK ok \in BOOLEAN : Iap2Link_TransferDone(TRUE, TRUE, bufs, ok)
    BY DEF Handing
  <1>2. irb \in Irbs
    BY DEF Completing, Inv, TypeOK, IoTypeOK
  <1>3. irb.buf \in Buffers /\ p \in Packets
    BY DEF Completing, Inv, TypeOK, IoTypeOK, Current
  <1>4. CASE Iap2Link_SendSyncPkt(bufs, ok)
    BY <1>4 DEF Iap2Link_SendSyncPkt, Iap2Link_TxData
  <1>5. CASE HandShakeMismatch(TRUE, TRUE, bufs, ok)
    BY <1>5 DEF HandShakeMismatch, Iap2Link_TxData
  <1>6. CASE DropPacket(TRUE, bufs) \/ FsmRxAckMismatch(TRUE, bufs)
    <2>1. StartNothing(TRUE)
      BY <1>6 DEF DropPacket, FsmRxAckMismatch
    <2>. QED
      BY <1>2, <2>1 DEF StartNothing, Irbs
  <1>7. CASE SyncReceived(bufs, ok)
    BY <1>3, <1>7, AckInitType DEF SyncReceived, Iap2Link_TxData, Buffers
  <1>8. CASE FsmRxReqHeader(bufs, ok)
    BY <1>8 DEF FsmRxReqHeader, Iap2Link_RcvData
  <1>9. CASE FsmRxReqAck(bufs, ok)
    BY <1>3, <1>9, AckInitType DEF FsmRxReqAck, Iap2Link_TxData, Buffers
  <1>10. CASE FsmRxReqRespond(bufs, ok)
    <2>1. pkt'["rsp"].ack = p.seq /\ irb'.buf = "rsp"
      BY <1>10 DEF FsmRxReqRespond, Iap2Link_TxData, Packet, Buffers
    <2>. QED BY <2>1
  <1>11. CASE sState = "RX_ACK" /\ FsmRxAck(TRUE, bufs, ok)
    BY <1>11 DEF FsmRxAck, Completing, Inv, ResponseInv, EventSessionDone,
       SessionMgr_RxReq, Iap2Link_RcvData
  <1>. QED
    BY <1>1, <1>4, <1>5, <1>6, <1>7, <1>8, <1>9, <1>10, <1>11, ReceiveCases

\* Every step keeps the names: what is received is what an answer names, and
\* nothing else is received until the answer is out.
LEMMA NamesStep ==
    ASSUME Inv, StaleInv, Dialled, NamesInv, [Next]_vars PROVE NamesInv'
  <1>. DEFINE Unnamed == mState = "INIT" \/ due = "detect" => devSent.seq = 0
              Named == inflight /\ ~hung /\ irb.isTx /\ irb.buf \in {"ack", "rsp"} =>
                           pkt[irb.buf].ack = devSent.seq
  <1>. SUFFICES ASSUME "empty" \notin faults, DeviceIsAnswered, Unnamed, Named
                PROVE  DeviceIsAnswered' /\ Unnamed' /\ Named'
    BY FaultsStay DEF NamesInv
  <1>0. faults' = faults
    BY FaultsStay
  <1>1. CASE TransmitDone
    <2>1. Completing /\ irb.isTx /\ Handing(TRUE, TRUE, pkt)
      BY <1>1, CompletionHands DEF TransmitDone
    <2>2. /\ ~inflight' \/ ~irb'.isTx
          /\ mState' = "INIT" <=> mState = "INIT"
          /\ mState = "INIT" <=> irb.buf \in StaticBuffers
          /\ irb.buf \in Buffers \cup StaticBuffers
      BY <2>1, TransmitKeeps DEF MayTransfer
    <2>3. /\ due' = Answer(irb.buf) /\ devSent' = devSent
          /\ irb.buf \in Buffers => heard' = pkt[irb.buf]
      BY <1>1 DEF TransmitDone
    <2>4. Named'
      BY <2>2
    <2>5. CASE irb.buf \in StaticBuffers
      BY <2>2, <2>3, <2>4, <2>5, AnswerFacts DEF DeviceIsAnswered
    <2>6. CASE irb.buf = "req"
      BY <2>2, <2>3, <2>4, <2>6, AnswerFacts DEF DeviceIsAnswered, StaticBuffers
    <2>7. CASE irb.buf \in {"ack", "rsp"}
      <3>1. heard'.ack = devSent'.seq
        BY <2>1, <2>3, <2>7 DEF Buffers, Completing
      <3>2. due' # "detect" /\ mState' # "INIT"
        BY <2>2, <2>3, <2>7, AnswerFacts DEF StaticBuffers
      <3>. QED
        BY <2>4, <3>1, <3>2 DEF DeviceIsAnswered
    <2>. QED
      BY <2>2, <2>5, <2>6, <2>7 DEF Buffers
  <1>2. CASE TransmitLost
    <2>1. Completing /\ irb.isTx /\ Handing(TRUE, TRUE, pkt)
      BY <1>2, CompletionHands DEF TransmitLost
    <2>2. /\ ~inflight' \/ ~irb'.isTx
          /\ mState' = "INIT" <=> mState = "INIT"
      BY <2>1, TransmitKeeps DEF MayTransfer
    <2>. QED
      BY <1>0, <1>2, <2>2 DEF TransmitLost, deviceVars, DeviceIsAnswered
  <1>3. CASE TransferFails
    <2>1. Completing /\ Handing(FALSE, irb.act, pkt)
      BY <1>3, CompletionHands DEF TransferFails
    <2>2. ~inflight' /\ mState' = mState
      BY <2>1, FailureKeeps
    <2>. QED
      BY <1>0, <1>3, <2>2 DEF TransferFails, deviceVars, DeviceIsAnswered
  <1>4. ASSUME NEW p \in Packets, Receive(p), p.seq = devSent'.seq
        PROVE  Named' /\ (mState' = "INIT" => mState = "INIT")
    <2>1. /\ Completing /\ Handing(TRUE, TRUE, Filled(p)) /\ ~irb.isTx
          /\ Current(Filled(p)) = p /\ irb.buf \in Buffers
      BY <1>4, ReceptionHands
    <2>2. Filled(p) \in [Buffers -> Packets]
      BY <1>4 DEF Inv, TypeOK, IoTypeOK, Filled
    <2>3. irb'.isTx /\ irb'.buf \in {"ack", "rsp"} => pkt'[irb'.buf].ack = p.seq
      BY <2>1, <2>2, ReceiveNames
    <2>. QED
      BY <1>4, <2>1, <2>3, NoWayBack
  <1>5. ASSUME NEW p \in Owed, devSent' = p, due' = DueAfter, heard' = heard,
               mState' = "INIT" => mState = "INIT"
        PROVE  DeviceIsAnswered' /\ Unnamed'
    <2>1. due' # "detect" /\ due' # "ack" /\ (due' = "request" => due = "ack")
      BY <1>5 DEF DueAfter
    <2>2. due = "ack" => p.seq = devSent.seq
      BY OwedFacts
    <2>3. mState = "INIT" => p.seq = 0
      BY OwedFacts DEF Dialled
    <2>. QED
      BY <1>5, <2>1, <2>2, <2>3 DEF DeviceIsAnswered
  <1>6. CASE ReceiveDone
    <2>1. PICK p \in Owed : Receive(p) /\ devSent' = p /\ due' = DueAfter /\ heard' = heard
      BY <1>6 DEF ReceiveDone
    <2>2. Named' /\ (mState' = "INIT" => mState = "INIT")
      BY <1>4, <2>1, OwedType
    <2>. QED
      BY <1>5, <2>1, <2>2
  <1>7. CASE ReceiveCorrupt
    <2>1. PICK p \in Owed :
            Receive(Garbled(p, "NONE")) /\ devSent' = p /\ due' = DueAfter /\ heard' = heard
      BY <1>7 DEF ReceiveCorrupt
    <2>2. p \in Packets /\ Garbled(p, "NONE") \in Packets
      BY OwedType, GarbledType DEF Controls
    <2>3. Garbled(p, "NONE").seq = p.seq
      BY <2>2 DEF Garbled, Packets
    <2>4. Named' /\ (mState' = "INIT" => mState = "INIT")
      BY <1>4, <2>1, <2>2, <2>3
    <2>. QED
      BY <1>5, <2>1, <2>4
  <1>8. CASE ReceiveAgain
    <2>1. Receive(devSent) /\ due' = due /\ heard' = heard /\ devSent' = devSent
      BY <1>8 DEF ReceiveAgain, deviceVars
    <2>2. Named' /\ (mState' = "INIT" => mState = "INIT")
      BY <1>4, <2>1 DEF Inv, TypeOK
    <2>. QED
      BY <1>0, <2>1, <2>2 DEF DeviceIsAnswered
  <1>9. CASE ReceiveMismatch
    <2>1. /\ Receive(Packet("NONE", 0, 0, "EMPTY")) /\ due = "detect"
          /\ due' = "nothing" /\ heard' = heard /\ devSent' = devSent
      BY <1>9 DEF ReceiveMismatch
    <2>2. /\ Packet("NONE", 0, 0, "EMPTY") \in Packets
          /\ Packet("NONE", 0, 0, "EMPTY").seq = 0
      BY PacketType, ZeroSeq DEF Controls, Payloads
    <2>3. Named' /\ (mState' = "INIT" => mState = "INIT")
      BY <1>4, <2>1, <2>2
    <2>. QED
      BY <2>1, <2>3 DEF DeviceIsAnswered
  <1>10. CASE ReceiveControl
    <2>1. PICK c \in {"RST", "SLP", "EAK"} :
             /\ Receive(Packet(c, devSent.seq, heard.seq, "EMPTY"))
             /\ due' = "nothing" /\ devSent' = devSent
      BY <1>10 DEF ReceiveControl
    <2>2. devSent.seq \in SeqNums /\ heard.seq \in SeqNums
      BY DEF Inv, TypeOK, Packets
    <2>3. /\ Packet(c, devSent.seq, heard.seq, "EMPTY") \in Packets
          /\ Packet(c, devSent.seq, heard.seq, "EMPTY").seq = devSent.seq
      BY <2>2, PacketType DEF Controls, Payloads
    <2>4. Named' /\ (mState' = "INIT" => mState = "INIT")
      BY <1>4, <2>1, <2>3
    <2>. QED
      BY <2>1, <2>4 DEF DeviceIsAnswered
  <1>11. CASE ReceiveEmpty
    BY <1>11 DEF ReceiveEmpty
  <1>12. CASE Iap2Link_Start
    BY <1>12, <1>0 DEF Iap2Link_Start, Iap2Link_TxData, deviceVars, DeviceIsAnswered
  <1>13. CASE Iap2Link_Run
    <2>1. /\ irb' = irb /\ pkt' = pkt /\ mState' = mState /\ ~hung
          /\ due' = due /\ heard' = heard /\ devSent' = devSent
          /\ inflight \/ hung' \/ (reSendMs # 0 /\ timer = "expired")
      BY <1>13 DEF Iap2Link_Run, Iap2Link_ReTx, linkVars, deviceVars
    <2>2. ASSUME ~inflight, ~hung', irb.isTx PROVE irb.buf \notin {"ack", "rsp"}
      <3>1. LinkTransferFits /\ mState \notin {"TX_ACK", "LINK_DONE"}
        BY <2>1, <2>2 DEF Inv, TransferInv, MayTransfer
      <3>. QED
        BY <2>2, <3>1 DEF LinkTransferFits, StaticBuffers, Inv, TypeOK, LinkStates
    <2>. QED
      BY <1>0, <2>1, <2>2 DEF DeviceIsAnswered
  <1>14. CASE TimeOut \/ UNCHANGED vars
    BY <1>14, <1>0 DEF TimeOut, TimerExpires, linkVars, deviceVars, DeviceIsAnswered,
       vars, ioVars
  <1>. QED
    BY <1>1, <1>2, <1>3, <1>6, <1>7, <1>8, <1>9, <1>10, <1>11, <1>12, <1>13, <1>14
       DEF Next, Transport, Device
-----------------------------------------------------------------------------
\* Until the link is up no session runs.
FirstSession == mState # "LINK_DONE" => sState = "SESSION_INIT"

\* The inductive form of NeverSilent: a transfer is always outstanding, and the
\* device, if it owes the confirmation of a response, owes it for the response
\* the session waits to see confirmed.
DrivenInv ==
    faults \subseteq {"loss", "mismatch"} =>
        /\ started => inflight
        /\ FirstSession
        /\ mState = "LINK_DONE" =>
              /\ sState = "TX_RSP" => due = "nothing"
              /\ sState = "RX_ACK" => \/ due = "nothing"
                                      \/ due = "ack" /\ heard = pkt["rsp"]

\* Every step keeps a transfer outstanding.  Without duplicates and empty
\* receptions the packet received while a confirmation is awaited is that
\* confirmation: by NamesInv the response named the device's last packet, and by
\* ResponseInv the session that ends listens again.
LEMMA DrivenStep ==
    ASSUME Inv, StaleInv, Dialled, NumbersInv, NamesInv, DrivenInv, [Next]_vars
    PROVE  DrivenInv'
  <1>. DEFINE Awaiting ==
                mState = "LINK_DONE" =>
                  /\ sState = "TX_RSP" => due = "nothing"
                  /\ sState = "RX_ACK" => \/ due = "nothing"
                                          \/ due = "ack" /\ heard = pkt["rsp"]
              Kept == inflight' /\ FirstSession' /\ Awaiting'
  <1>. SUFFICES ASSUME faults \subseteq {"loss", "mismatch"},
                       started => inflight, FirstSession, Awaiting
                PROVE  (started' => inflight') /\ FirstSession' /\ Awaiting'
    BY FaultsStay DEF DrivenInv
  <1>1. ASSUME NEW success, NEW act, NEW bufs, Complete(success, act, bufs)
        PROVE  Iap2Link_TransferDone(success, act, bufs, TRUE)
    BY <1>1 DEF Complete, StartResults
  <1>2. ASSUME irb.isTx, Complete(TRUE, TRUE, pkt),
               \/ due' = due /\ heard' = heard
               \/ due' = Answer(irb.buf) /\ (irb.buf \in Buffers => heard' = pkt[irb.buf])
        PROVE  Kept
    <2>1. Completing /\ Iap2Link_TransferDone(TRUE, TRUE, pkt, TRUE)
      BY <1>1, <1>2, CompletionHands
    <2>2. CASE mState = "INIT" /\ HandShakeSent(TRUE, pkt, TRUE)
      BY <2>2 DEF HandShakeSent, Iap2Link_RcvData, sessionVars, FirstSession
    <2>3. CASE mState = "TX_LINK_SYNC" /\ SyncSent(pkt, TRUE)
      BY <2>3 DEF SyncSent, Iap2Link_RcvData, sessionVars, FirstSession
    <2>4. CASE mState = "TX_ACK" /\ SyncAckSent(TRUE, pkt, TRUE)
      BY <2>4 DEF SyncAckSent, EventLinkSyncDone, SessionMgr_RxReq, Iap2Link_RcvData,
         FirstSession
    <2>5. CASE mState = "LINK_DONE" /\ mState' = mState /\ FsmTxAck(TRUE, pkt, TRUE)
      BY <2>5 DEF FsmTxAck, EventLinkSyncDone, SessionMgr_RxReq, Iap2Link_RcvData,
         FirstSession
    <2>6. CASE /\ mState = "LINK_DONE" /\ mState' = mState
               /\ sState = "TX_RSP" /\ irb.buf = "rsp" /\ FsmTxRsp(pkt, TRUE)
      <3>1. inflight' /\ sState' = "RX_ACK" /\ pkt' = pkt
        BY <2>6 DEF FsmTxRsp, Iap2Link_RcvData
      <3>2. Answer(irb.buf) = "ack" /\ irb.buf \in Buffers
        BY <2>6, AnswerFacts DEF Buffers
      <3>. QED
        BY <1>2, <2>6, <3>1, <3>2 DEF FirstSession
    <2>. QED
      BY <1>2, <2>1, <2>2, <2>3, <2>4, <2>5, <2>6, TransmitCases
  <1>3. ASSUME NEW p \in Packets, Receive(p), due' \in {"nothing", "request"},
               mState = "INIT" \/ Dispatchable(p),
               due' = "request" => p.payload = "EMPTY",
               mState = "LINK_DONE" /\ sState = "RX_ACK" => Acknowledges(p, pkt["rsp"])
        PROVE  Kept
    <2>. DEFINE bufs == Filled(p)
    <2>1. /\ Completing /\ Current(bufs) = p /\ ~irb.isTx
          /\ \A b \in Buffers \ {irb.buf} : bufs[b] = pkt[b]
      BY <1>3, ReceptionHands
    <2>2. Iap2Link_TransferDone(TRUE, TRUE, bufs, TRUE)
      BY <1>1, <1>3 DEF Receive, Filled
    <2>. HIDE DEF bufs
    <2>3. CASE Iap2Link_SendSyncPkt(bufs, TRUE) /\ mState = "INIT"
      BY <2>3 DEF Iap2Link_SendSyncPkt, Iap2Link_TxData, sessionVars, FirstSession
    <2>4. CASE mState = "INIT" /\ HandShakeMismatch(TRUE, TRUE, bufs, TRUE)
      BY <2>4 DEF HandShakeMismatch, Iap2Link_TxData, sessionVars, FirstSession
    <2>5. CASE mState = "RX_LINK_SYNC" /\ SyncReceived(bufs, TRUE)
      BY <2>5 DEF SyncReceived, Iap2Link_TxData, sessionVars, FirstSession
    <2>6. CASE mState = "LINK_DONE" /\ mState' = mState /\ sState = "RX_REQ"
               /\ FsmRxReqHeader(bufs, TRUE)
      BY <2>6 DEF FsmRxReqHeader, Iap2Link_RcvData, FirstSession
    <2>7. CASE mState = "LINK_DONE" /\ mState' = mState /\ FsmRxReqAck(bufs, TRUE)
      BY <2>7 DEF FsmRxReqAck, Iap2Link_TxData, FirstSession
    <2>8. CASE mState = "LINK_DONE" /\ mState' = mState /\ FsmRxReqRespond(bufs, TRUE)
      <3>1. inflight' /\ sState' = "TX_RSP" /\ p.payload # "EMPTY"
        BY <2>1, <2>8 DEF FsmRxReqRespond, Iap2Link_TxData
      <3>. QED
        BY <1>3, <2>8, <3>1 DEF FirstSession
    <2>9. CASE mState = "LINK_DONE" /\ mState' = mState /\ sState = "RX_ACK"
               /\ irb.buf = "ack" /\ FsmRxAck(TRUE, bufs, TRUE)
      BY <2>1, <2>9 DEF FsmRxAck, Completing, Inv, ResponseInv, EventSessionDone,
         SessionMgr_RxReq, Iap2Link_RcvData, FirstSession
    <2>10. ~(/\ mState = "LINK_DONE" /\ sState = "RX_ACK"
             /\ irb.buf = "ack" /\ FsmRxAckMismatch(TRUE, bufs))
      BY <1>3, <2>1 DEF FsmRxAckMismatch, Buffers
    <2>11. mState = "INIT" \/ (Dispatchable(p) /\ p.valid /\ p.ctl # "RST")
      BY <1>3 DEF Dispatchable, IsLinkPacket
    <2>. QED
      BY <2>1, <2>2, <2>3, <2>4, <2>5, <2>6, <2>7, <2>8, <2>9, <2>10, <2>11, ReceiveCases
  <1>4. CASE TransmitDone \/ TransmitLost
    BY <1>2, <1>4 DEF TransmitDone, TransmitLost, deviceVars
  <1>5. CASE TransferFails \/ ReceiveCorrupt \/ ReceiveAgain \/ ReceiveControl \/ ReceiveEmpty
    BY <1>5 DEF TransferFails, ReceiveCorrupt, ReceiveAgain, ReceiveControl, ReceiveEmpty
  <1>6. CASE ReceiveDone
    <2>1. PICK p \in Owed : Receive(p) /\ due' = DueAfter
      BY <1>6 DEF ReceiveDone
    <2>2. mState # "INIT" => due # "detect"
      BY DEF NumbersInv
    <2>3. mState = "INIT" \/ Dispatchable(p)
      BY <2>2, OwedFacts DEF Dispatchable, IsLinkPacket
    <2>4. due' \in {"nothing", "request"} /\ (due' = "request" => p.payload = "EMPTY")
      BY <2>1, OwedFacts DEF DueAfter
    <2>5. ASSUME mState = "LINK_DONE", sState = "RX_ACK" PROVE Acknowledges(p, pkt["rsp"])
      <3>1. due = "ack" /\ heard = pkt["rsp"]
        BY <2>5, OwedFacts
      <3>2. heard.ack = devSent.seq
        BY <3>1 DEF NamesInv, DeviceIsAnswered
      <3>3. p.seq = devSent.seq /\ p.ack = heard.seq
        BY <3>1, OwedFacts
      <3>. QED
        BY <3>1, <3>2, <3>3 DEF Acknowledges
    <2>. QED
      BY <1>3, <2>1, <2>3, <2>4, <2>5, OwedType
  <1>7. CASE ReceiveMismatch
    <2>1. Packet("NONE", 0, 0, "EMPTY") \in Packets
      BY PacketType, ZeroSeq DEF Controls, Payloads
    <2>2. mState = "INIT"
      BY <1>7 DEF ReceiveMismatch, NumbersInv
    <2>3. Receive(Packet("NONE", 0, 0, "EMPTY")) /\ due' = "nothing"
      BY <1>7 DEF ReceiveMismatch
    <2>4. Kept
      BY <1>3, <2>1, <2>2, <2>3
    <2>. QED
      BY <2>4
  <1>8. CASE Iap2Link_Start
    <2>1. StartResults = {TRUE}
      BY DEF StartResults
    <2>. QED
      BY <1>8, <2>1 DEF Iap2Link_Start, Iap2Link_TxData, sessionVars, deviceVars,
         FirstSession
  <1>9. CASE Iap2Link_Run
    BY <1>9 DEF Iap2Link_Run, Iap2Link_ReTx, sessionVars, linkVars, deviceVars, FirstSession
  <1>10. CASE TimeOut \/ UNCHANGED vars
    BY <1>10 DEF TimeOut, TimerExpires, sessionVars, linkVars, deviceVars, FirstSession,
       vars, ioVars
  <1>. QED
    BY <1>4, <1>5, <1>6, <1>7, <1>8, <1>9, <1>10 DEF Next, Transport, Device
-----------------------------------------------------------------------------
\* What m_ReTxCount has counted: one detection, one SYN, the acknowledgement of
\* the device's, and the answer of the first session, the last during which the
\* re-send timer may run.
Counted ==
    /\ mState = "INIT" =>
         /\ reTxCount = (IF started THEN 1 ELSE 0)
         /\ started => reSendMs = IAP2_RETX_INTERVAL
    /\ mState \in {"TX_LINK_SYNC", "RX_LINK_SYNC"} =>
         reTxCount = 2 /\ reSendMs = IAP2_RETX_INTERVAL
    /\ mState = "TX_ACK" => reTxCount = 3 /\ maxReTx = 0
    /\ mState = "LINK_DONE" =>
         /\ maxReTx = 0
         /\ timer # "stopped" =>
               reTxCount = IF sState \in {"SESSION_INIT", "RX_REQ"} THEN 3 ELSE 4

\* No buffer holds a reset.
NoReset(bufs) == \A b \in Buffers : bufs[b].ctl # "RST"

\* The inductive form of NeverHangs: nothing makes the link detect or
\* synchronize twice.
HangInv ==
    faults \intersect {"mismatch", "corrupt", "reset"} = {} =>
        /\ ~hung /\ FirstSession /\ Counted
        /\ NoReset(pkt) /\ devSent.ctl # "RST"
        /\ mState = "INIT" =>
              /\ devSent \in {ZeroPacket, DetectEcho}
              /\ ~irb.isTx => ~irb.act

\* A counter wide enough for the transmissions of a first session.
LEMMA Counting ==
    ASSUME CounterMod > 4, NEW n \in {0, 1, 2, 3}
    PROVE  (n + 1) % CounterMod = n + 1
  BY CounterAssumption

\* What a reception adds to the count.
LEMMA ReceiveCounts ==
    ASSUME CounterMod > 4, Completing, ~irb.isTx, FirstSession, Counted,
           NEW act \in BOOLEAN, NEW bufs \in [Buffers -> Packets], NoReset(bufs),
           Handing(TRUE, act, bufs),
           mState = "INIT" /\ act => Current(bufs).ctl = "DETECT"
    PROVE  ~hung' /\ FirstSession' /\ Counted' /\ NoReset(pkt') /\ mState' # "INIT"
  <1>. DEFINE p == Current(bufs)
              Kept == ~hung' /\ FirstSession' /\ Counted' /\ NoReset(pkt') /\ mState' # "INIT"
  <1>1. PICK ok \in BOOLEAN : Iap2Link_TransferDone(TRUE, act, bufs, ok)
    BY DEF Handing
  <1>2. /\ irb \in Irbs /\ ~hung /\ started
        /\ mState = "LINK_DONE" => reSendMs = 0
    BY DEF Completing, Inv, TypeOK, IoTypeOK, TransferInv
  <1>3. irb.buf \in Buffers /\ p \in Packets /\ p.ctl # "RST"
    BY DEF Completing, Inv, TypeOK, IoTypeOK, Current, NoReset
  <1>4. CASE mState = "INIT" /\ Iap2Link_SendSyncPkt(bufs, ok)
    <2>1. reTxCount' = 2 /\ reSendMs' = IAP2_RETX_INTERVAL /\ ~hung'
      BY <1>2, <1>4, Counting DEF Iap2Link_SendSyncPkt, Iap2Link_TxData, Counted
    <2>2. NoReset(pkt')
      BY <1>4 DEF Iap2Link_SendSyncPkt, NoReset, Packet
    <2>. QED
      BY <1>4, <2>1, <2>2 DEF Iap2Link_SendSyncPkt, sessionVars, FirstSession, Counted
  <1>5. CASE mState # "INIT" /\ DropPacket(act, bufs)
    BY <1>2, <1>5 DEF DropPacket, StartNothing, sessionVars, FirstSession, Counted
  <1>6. CASE mState = "RX_LINK_SYNC" /\ SyncReceived(bufs, ok)
    <2>1. reTxCount' = 3 /\ maxReTx' = 0 /\ ~hung'
      BY <1>2, <1>6, Counting DEF SyncReceived, Iap2Link_TxData, Counted
    <2>2. NoReset(pkt')
      BY <1>6 DEF SyncReceived, NoReset, Iap2Link_AckInit, Packet
    <2>. QED
      BY <1>6, <2>1, <2>2 DEF SyncReceived, sessionVars, FirstSession, Counted
  <1>7. CASE mState = "LINK_DONE" /\ mState' = mState /\ FsmRxReqHeader(bufs, ok)
    <2>1. NoReset(pkt')
      BY <1>3, <1>7 DEF FsmRxReqHeader, NoReset
    <2>. QED
      BY <1>2, <1>7, <2>1 DEF FsmRxReqHeader, Iap2Link_RcvData, FirstSession, Counted
  <1>8. CASE mState = "LINK_DONE" /\ mState' = mState /\ FsmRxReqAck(bufs, ok)
    <2>1. NoReset(pkt')
      BY <1>3, <1>8 DEF FsmRxReqAck, NoReset, Iap2Link_AckInit, Packet
    <2>2. timer' = timer /\ ~hung' /\ maxReTx' = 0 /\ sState' = "TX_ACK" /\ sState = "RX_REQ"
      BY <1>2, <1>8 DEF FsmRxReqAck, Iap2Link_TxData
    <2>3. timer # "stopped" => reTxCount' = 4
      BY <1>8, Counting DEF FsmRxReqAck, Iap2Link_TxData, Counted
    <2>. QED
      BY <1>8, <2>1, <2>2, <2>3 DEF FirstSession, Counted
  <1>9. CASE mState = "LINK_DONE" /\ mState' = mState /\ FsmRxReqRespond(bufs, ok)
    <2>1. NoReset(pkt')
      BY <1>3, <1>9 DEF FsmRxReqRespond, NoReset, Packet
    <2>2. timer' = timer /\ ~hung' /\ maxReTx' = 0 /\ sState' = "TX_RSP" /\ sState = "RX_REQ"
      BY <1>2, <1>9 DEF FsmRxReqRespond, Iap2Link_TxData
    <2>3. timer # "stopped" => reTxCount' = 4
      BY <1>9, Counting DEF FsmRxReqRespond, Iap2Link_TxData, Counted
    <2>. QED
      BY <1>9, <2>1, <2>2, <2>3 DEF FirstSession, Counted
  <1>10. CASE mState = "LINK_DONE" /\ mState' = mState /\ FsmRxAckMismatch(act, bufs)
    BY <1>2, <1>10 DEF FsmRxAckMismatch, StartNothing, FirstSession, Counted
  <1>11. CASE mState = "LINK_DONE" /\ mState' = mState /\ sState = "RX_ACK"
              /\ FsmRxAck(act, bufs, ok)
    <2>1. maxReTx' = maxReTx /\ hung' = hung
      BY <1>11 DEF FsmRxAck, Completing, Inv, ResponseInv, EventSessionDone,
         SessionMgr_RxReq, Iap2Link_RcvData
    <2>. QED
      BY <1>2, <1>11, <2>1 DEF FsmRxAck, FirstSession, Counted
  <1>12. mState = "INIT" /\ act => p.ctl = "DETECT"
    OBVIOUS
  <1>. HIDE DEF p
  <1>13. \/ mState = "INIT" /\ Iap2Link_SendSyncPkt(bufs, ok)
         \/ mState # "INIT" /\ DropPacket(act, bufs)
         \/ mState = "RX_LINK_SYNC" /\ SyncReceived(bufs, ok)
         \/ /\ mState = "LINK_DONE" /\ mState' = mState
            /\ \/ FsmRxReqHeader(bufs, ok)
               \/ FsmRxReqAck(bufs, ok)
               \/ FsmRxReqRespond(bufs, ok)
               \/ FsmRxAckMismatch(act, bufs)
               \/ sState = "RX_ACK" /\ FsmRxAck(act, bufs, ok)
    BY <1>1, <1>3, <1>12, ReceiveCases DEF p
  <1>. QED
    BY <1>4, <1>5, <1>6, <1>7, <1>8, <1>9, <1>10, <1>11, <1>13

\* A transmission that is out adds nothing, nor does one that fails.
LEMMA TransmitCounts ==
    ASSUME Completing, irb.isTx, FirstSession, Counted, NoReset(pkt),
           Handing(TRUE, TRUE, pkt), started' = started
    PROVE  /\ ~hung' /\ FirstSession' /\ Counted' /\ NoReset(pkt')
           /\ mState' = "INIT" => mState = "INIT" /\ ~irb'.act
  <1>1. PICK ok \in BOOLEAN : Iap2Link_TransferDone(TRUE, TRUE, pkt, ok)
    BY DEF Handing
  <1>2. ~hung /\ started
    BY DEF Completing
  <1>3. pkt' = pkt
    BY TransmitKeeps
  <1>4. CASE mState = "INIT" /\ HandShakeSent(TRUE, pkt, ok)
    BY <1>2, <1>3, <1>4 DEF HandShakeSent, Iap2Link_RcvData, sessionVars, FirstSession, Counted
  <1>5. CASE mState = "TX_LINK_SYNC" /\ SyncSent(pkt, ok)
    BY <1>2, <1>3, <1>5 DEF SyncSent, Iap2Link_RcvData, sessionVars, FirstSession, Counted
  <1>6. CASE mState = "TX_ACK" /\ SyncAckSent(TRUE, pkt, ok)
    BY <1>2, <1>3, <1>6 DEF SyncAckSent, EventLinkSyncDone, SessionMgr_RxReq,
       Iap2Link_RcvData, FirstSession, Counted
  <1>7. CASE mState = "LINK_DONE" /\ mState' = mState /\ FsmTxAck(TRUE, pkt, ok)
    BY <1>2, <1>3, <1>7 DEF FsmTxAck, EventLinkSyncDone, SessionMgr_RxReq,
       Iap2Link_RcvData, FirstSession, Counted
  <1>8. CASE mState = "LINK_DONE" /\ mState' = mState /\ FsmTxRsp(pkt, ok)
    BY <1>2, <1>3, <1>8 DEF FsmTxRsp, Iap2Link_RcvData, FirstSession, Counted
  <1>. QED
    BY <1>1, <1>4, <1>5, <1>6, <1>7, <1>8, TransmitCases

\* A failure is swallowed or ends the session, and counts nothing.
LEMMA FailureCounts ==
    ASSUME Completing, FirstSession, Counted, Handing(FALSE, irb.act, pkt),
           started' = started
    PROVE  /\ ~hung' /\ FirstSession' /\ Counted' /\ pkt' = pkt
           /\ mState' = mState /\ irb' = irb
  <1>1. irb \in Irbs
    BY DEF Completing, Inv, TypeOK, IoTypeOK
  <1>2. /\ StartNothing(irb.act) /\ pkt' = pkt /\ mState' = mState
        /\ \/ timer' = timer /\ sState' = sState
           \/ timer' = "stopped" /\ sState' = "SESSION_INIT" /\ mState = "LINK_DONE"
    BY FailureCases DEF Handing
  <1>3. irb' = irb
    BY <1>1, <1>2 DEF StartNothing, Irbs
  <1>. QED
    BY <1>2, <1>3 DEF StartNothing, Completing, Inv, TransferInv, FirstSession, Counted

\* Every step keeps the count.  A re-send is allowed only while the link detects
\* or sends its SYN, both with an interval.
LEMMA HangStep ==
    ASSUME CounterMod > 4, Inv, StaleInv, Dialled, HangInv, [Next]_vars
    PROVE  HangInv'
  <1>. DEFINE First == mState = "INIT" =>
                          /\ devSent \in {ZeroPacket, DetectEcho}
                          /\ ~irb.isTx => ~irb.act
              Safe == ~hung /\ FirstSession /\ Counted /\ NoReset(pkt)
  <1>. SUFFICES ASSUME faults \intersect {"mismatch", "corrupt", "reset"} = {},
                       Safe, devSent.ctl # "RST", First
                PROVE  Safe' /\ (devSent.ctl # "RST")' /\ First'
    BY FaultsStay DEF HangInv
  <1>1. CASE TransmitDone \/ TransmitLost
    <2>1. /\ Completing /\ irb.isTx /\ Handing(TRUE, TRUE, pkt)
          /\ started' = started /\ devSent' = devSent
      BY <1>1, CompletionHands DEF TransmitDone, TransmitLost, deviceVars
    <2>. QED
      BY <2>1, TransmitCounts
  <1>2. CASE TransferFails
    <2>1. /\ Completing /\ Handing(FALSE, irb.act, pkt)
          /\ started' = started /\ devSent' = devSent
      BY <1>2, CompletionHands DEF TransferFails, deviceVars
    <2>. QED
      BY <2>1, FailureCounts
  <1>3. CASE ReceiveEmpty
    <2>1. /\ Completing /\ Handing(TRUE, irb.act, pkt) /\ ~irb.isTx
          /\ started' = started /\ devSent' = devSent
      BY <1>3, CompletionHands DEF ReceiveEmpty, deviceVars
    <2>2. irb.act \in BOOLEAN /\ pkt \in [Buffers -> Packets]
      BY DEF Inv, TypeOK, IoTypeOK, Irbs
    <2>. QED
      BY <2>1, <2>2, ReceiveCounts
  <1>4. ASSUME NEW p \in Packets, Receive(p), p.ctl # "RST", devSent'.ctl # "RST",
               mState = "INIT" => p.ctl = "DETECT"
        PROVE  Safe' /\ (devSent.ctl # "RST")' /\ First'
    <2>1. /\ Completing /\ Handing(TRUE, TRUE, Filled(p)) /\ ~irb.isTx
          /\ Current(Filled(p)) = p /\ irb.buf \in Buffers
          /\ started' = started
          /\ \A b \in Buffers \ {irb.buf} : Filled(p)[b] = pkt[b]
          /\ Filled(p)[irb.buf] = p
      BY <1>4, ReceptionHands
    <2>2. Filled(p) \in [Buffers -> Packets]
      BY <1>4 DEF Inv, TypeOK, IoTypeOK, Filled
    <2>3. NoReset(Filled(p))
      BY <1>4, <2>1 DEF NoReset
    <2>. QED
      BY <1>4, <2>1, <2>2, <2>3, ReceiveCounts
  <1>5. CASE ReceiveDone
    <2>1. PICK p \in Owed : Receive(p) /\ devSent' = p
      BY <1>5 DEF ReceiveDone
    <2>2. mState = "INIT" => p.ctl = "DETECT"
      BY OwedFacts DEF Dialled
    <2>. QED
      BY <1>4, <2>1, <2>2, OwedFacts, OwedType
  <1>6. CASE ReceiveAgain
    <2>1. Receive(devSent) /\ devSent' = devSent /\ devSent # ZeroPacket
      BY <1>6 DEF ReceiveAgain, deviceVars
    <2>2. mState = "INIT" => devSent.ctl = "DETECT"
      BY <2>1 DEF DetectEcho, Garbled, Packet
    <2>. QED
      BY <1>4, <2>1, <2>2 DEF Inv, TypeOK
  <1>7. CASE ReceiveControl
    <2>1. PICK c \in {"SLP", "EAK"} :
             Receive(Packet(c, devSent.seq, heard.seq, "EMPTY")) /\ devSent' = devSent
      BY <1>7 DEF ReceiveControl
    <2>2. devSent.seq \in SeqNums /\ heard.seq \in SeqNums
      BY DEF Inv, TypeOK, Packets
    <2>3. /\ Packet(c, devSent.seq, heard.seq, "EMPTY") \in Packets
          /\ Packet(c, devSent.seq, heard.seq, "EMPTY").ctl # "RST"
      BY <2>2, PacketType DEF Controls, Payloads, Packet
    <2>4. mState # "INIT"
      BY <1>7 DEF ReceiveControl
    <2>. QED
      BY <1>4, <2>1, <2>3, <2>4
  <1>8. CASE ReceiveCorrupt \/ ReceiveMismatch
    BY <1>8 DEF ReceiveCorrupt, ReceiveMismatch
  <1>9. CASE Iap2Link_Start
    <2>1. /\ ~started /\ started' /\ mState' = mState /\ sState' = sState
          /\ devSent' = devSent /\ pkt' = pkt /\ hung' = hung
          /\ reTxCount' = (reTxCount + 1) % CounterMod
          /\ reSendMs' = IAP2_RETX_INTERVAL /\ irb'.isTx
      BY <1>9 DEF Iap2Link_Start, Iap2Link_TxData, sessionVars, deviceVars
    <2>2. mState = "INIT"
      BY <2>1 DEF Inv, TransferInv
    <2>3. reTxCount' = 1
      BY <2>1, <2>2, Counting DEF Counted
    <2>. QED
      BY <2>1, <2>2, <2>3 DEF FirstSession, Counted
  <1>10. CASE Iap2Link_Run
    <2>1. /\ irb' = irb /\ pkt' = pkt /\ mState' = mState /\ sState' = sState
          /\ devSent' = devSent /\ started' = started /\ reTxCount' = reTxCount
          /\ reSendMs' = reSendMs /\ maxReTx' = maxReTx
          /\ timer = "expired" /\ ReSendAllowed
          /\ reSendMs # 0 => hung' = hung
          /\ timer' # "stopped"
      BY <1>10 DEF Iap2Link_Run, Iap2Link_ReTx, sessionVars, linkVars, deviceVars
    <2>2. mState \notin {"TX_ACK", "LINK_DONE"}
      BY <2>1, CounterAssumption
         DEF ReSendAllowed, IAP2_LINK_RETX_COUNT_UNLIMITIED, Counted
    <2>3. reSendMs = IAP2_RETX_INTERVAL
      BY <2>1, <2>2 DEF Counted, Inv, TypeOK, TransferInv, LinkStates
    <2>. QED
      BY <2>1, <2>3 DEF IAP2_RETX_INTERVAL, FirstSession, Counted
  <1>11. CASE TimeOut \/ UNCHANGED vars
    BY <1>11 DEF TimeOut, TimerExpires, sessionVars, linkVars, deviceVars, FirstSession,
       Counted, vars, ioVars
  <1>. QED
    BY <1>1, <1>2, <1>3, <1>5, <1>6, <1>7, <1>8, <1>9, <1>10, <1>11
       DEF Next, Transport, Device
-----------------------------------------------------------------------------
\* The inductive invariants together.
AllInv == Inv /\ StaleInv /\ Dialled /\ NumbersInv /\ NamesInv /\ DrivenInv

\* They hold at first.
LEMMA InitAllInv == ASSUME Init PROVE AllInv
  <1>. USE DEF Init, IoInit, SessionInit
  <1>1. Inv
    BY InitInv
  <1>2. ZeroPacket.seq = 0
    BY PacketType, ZeroSeq DEF ZeroPacket, Garbled, Controls, Payloads, Packets
  <1>. QED
    BY <1>1, <1>2 DEF AllInv, StaleInv, Dialled, NumbersInv, NumbersInStep, LastNumberOut,
       MayTransfer, NamesInv, DeviceIsAnswered, DrivenInv, FirstSession

\* Every step keeps each of them, given the ones before it.
LEMMA StepAllInv == ASSUME AllInv, [Next]_vars PROVE AllInv'
  BY StepInv, StaleStep, DialledStep, NumbersStep, NamesStep, DrivenStep DEF AllInv

\* Hence they hold of every behaviour.
LEMMA SpecAllInv == Spec => []AllInv
  BY InitAllInv, StepAllInv, PTL DEF Spec

\* No transmission has been counted at first.
LEMMA InitHangInv == ASSUME Init PROVE HangInv
  <1>. USE DEF Init, IoInit, SessionInit
  <1>1. ZeroPacket.ctl = "NONE"
    BY PacketType, ZeroSeq DEF ZeroPacket, Garbled, Controls, Payloads, Packets
  <1>. QED
    BY <1>1 DEF HangInv, FirstSession, Counted, NoReset

\* The numbers the device hears have no gap and no repetition.
THEOREM NumbersStayInStep == Spec => []NumbersInStep
  <1>1. AllInv => NumbersInStep
    BY DEF AllInv, NumbersInv, NumbersInStep
  <1>. QED
    BY <1>1, SpecAllInv, PTL

\* Whenever the device goes on after an answer, the last frame it heard named
\* the last packet it sent.
THEOREM DeviceHearsItsAnswer == Spec => []DeviceIsAnswered
  <1>1. AllInv => DeviceIsAnswered
    BY DEF AllInv, NamesInv, DeviceIsAnswered
  <1>. QED
    BY <1>1, SpecAllInv, PTL

\* Once started, the link is never without a transfer outstanding or to come.
THEOREM LinkStaysDriven == Spec => []NeverSilent
  <1>1. AllInv => NeverSilent
    BY DEF AllInv, DrivenInv, NeverSilent, Driven
  <1>. QED
    BY <1>1, SpecAllInv, PTL

\* Unless the environment makes the link detect or synchronize again, no
\* transfer without an interval is re-sent.
THEOREM LinkNeverHangs == ASSUME CounterMod > 4 PROVE Spec => []NeverHangs
  <1>1. AllInv /\ HangInv /\ [Next]_vars => HangInv'
    BY HangStep DEF AllInv
  <1>2. HangInv => NeverHangs
    BY DEF HangInv, NeverHangs
  <1>. QED
    BY <1>1, <1>2, SpecAllInv, InitHangInv, PTL DEF Spec
=============================================================================
