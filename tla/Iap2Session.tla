---------------------------- MODULE Iap2Session -----------------------------
(***************************************************************************)
(* The session manager (Src/iAp2Session.c) with the control session bound   *)
(* to it (Src/Iap2CtrlSession.c): the state machine that takes a request    *)
(* from the device, answers it, and listens again.                          *)
(*                                                                          *)
(* Every handler runs inside Iap2Link_TransferDone.  Its parameters are     *)
(* act, whether the completed transfer moved any byte (m_ActLen), bufs, the *)
(* packet buffers after the transport filled the one it was given, and ok,  *)
(* what the one TransferStart the handler makes returns.                    *)
(***************************************************************************)
EXTENDS Iap2LinkIo

VARIABLES
    sState,      \* SessionMgr.m_State
    msgId        \* Iap2CtrlSession.m_MsgId

sessionVars == <<sState, msgId>>

SessionStates == {"SESSION_INIT", "TX_REQ", "RX_REQ", "TX_RSP", "RX_RSP",
                  "TX_ACK", "RX_ACK"}

SessionTypeOK ==
    /\ sState \in SessionStates
    /\ msgId \in Messages

\* Iap2CtrlSession_Init; message identifier 0 is none of the known ones.
SessionInit ==
    /\ sState = "SESSION_INIT"
    /\ msgId = "OTHER"

\* The packet m_Irb's buffer holds: pPkt of Iap2Link_TransferDone.
Current(bufs) == bufs[irb.buf]

\* What SessionMgr_FsmRxReq passes to ReqProc: the message of a packet longer
\* than its header.  Nothing checks that the payload is a session message.
MessageOf(p) == IF p.payload \in Messages THEN p.payload ELSE "OTHER"
-----------------------------------------------------------------------------
\* SessionMgr_RxReq, called in session state s: the result of RcvData is
\* ignored.
SessionMgr_RxReq(s, act, ok) ==
    IF s = "SESSION_INIT"
      THEN Iap2Link_RcvData("req", ok) /\ sState' = "RX_REQ"
      ELSE StartNothing(act) /\ sState' = s

SessionDoneWithoutAuth(act, ok) ==
    IF msgId \in {"REQ_AUTH_CHA_RSP", "RSP_AUTH_RESULT_SUCCESS"}
      THEN SessionMgr_RxReq("SESSION_INIT", act, ok)
      ELSE StartNothing(act) /\ sState' = "SESSION_INIT"
\* Iap2CtrlSession_EventProc for IAP2_EVENT_SESSION_DONE, after the session
\* was reset.  SessionMgr_TxReq changes the state and starts no transfer.
EventSessionDone(act, ok) ==
    CASE msgId \in {"REQ_AUTH", "REQ_AUTH_CHA_RSP", "RSP_AUTH_RESULT_SUCCESS"}
            -> SessionMgr_RxReq("SESSION_INIT", act, ok)
      [] msgId = "REQ_ID_ACCEPTED"
            -> StartNothing(act) /\ sState' = "TX_REQ"
      [] OTHER -> StartNothing(act) /\ sState' = "SESSION_INIT"

\* Iap2CtrlSession_EventProc for IAP2_EVENT_LINK_SYNC_DONE, the session
\* being in state s.
EventLinkSyncDone(s, act, ok) == SessionMgr_RxReq(s, act, ok)

MayRespondToAccepted(m) == m \in {"REQ_AUTH", "REQ_ID_ACCEPTED"}
\* Iap2CtrlSession_ReqProc: only the certificate request can yield a
\* response, and only when the authentication IC answers over I2C.
MayRespond(m) == m = "REQ_AUTH"
-----------------------------------------------------------------------------
\* SessionMgr_FsmRxReq, a packet that is only a header: listen again.
FsmRxReqHeader(bufs, ok) ==
    /\ sState = "RX_REQ"
    /\ Current(bufs).payload = "EMPTY"
    /\ Iap2Link_RcvData("req", ok)
    /\ pkt' = [bufs EXCEPT !["req"] = Current(bufs)]
    /\ UNCHANGED <<timer, nextPSN, sState, msgId>>

\* SessionMgr_FsmRxReq, ReqProc left the response empty: acknowledge.
FsmRxReqAck(bufs, ok) ==
    LET p == Current(bufs) IN
    /\ sState = "RX_REQ"
    /\ p.payload # "EMPTY"
    /\ msgId' = MessageOf(p)
    /\ Iap2Link_TxData("ack", 0, 0, ok)
    /\ pkt' = [bufs EXCEPT !["req"] = p, !["ack"] = Iap2Link_AckInit(p)]
    /\ sState' = "TX_ACK"
    /\ UNCHANGED nextPSN

RespondNamingOurself(bufs, ok) ==
    LET p == Current(bufs) IN
    /\ sState = "RX_REQ"
    /\ p.payload # "EMPTY"
    /\ MayRespond(MessageOf(p))
    /\ msgId' = MessageOf(p)
    /\ Iap2Link_TxData("rsp", 0, 0, ok)
    /\ pkt' = [bufs EXCEPT !["req"] = p,
                           !["rsp"] = Packet("ACK", nextPSN, p.ack, "DATA")]
    /\ nextPSN' = NextSeq(nextPSN)
    /\ sState' = "TX_RSP"
RespondUnnumbered(bufs, ok) ==
    LET p == Current(bufs) IN
    /\ sState = "RX_REQ"
    /\ p.payload # "EMPTY"
    /\ MayRespond(MessageOf(p))
    /\ msgId' = MessageOf(p)
    /\ Iap2Link_TxData("rsp", 0, 0, ok)
    /\ pkt' = [bufs EXCEPT !["req"] = p,
                           !["rsp"] = Packet("ACK", nextPSN, p.seq, "DATA")]
    /\ sState' = "TX_RSP"
    /\ UNCHANGED nextPSN
\* SessionMgr_FsmRxReq, ReqProc filled the response: send it under a new
\* sequence number.
FsmRxReqRespond(bufs, ok) ==
    LET p == Current(bufs) IN
    /\ sState = "RX_REQ"
    /\ p.payload # "EMPTY"
    /\ MayRespond(MessageOf(p))
    /\ msgId' = MessageOf(p)
    /\ Iap2Link_TxData("rsp", 0, 0, ok)
    /\ pkt' = [bufs EXCEPT !["req"] = p,
                           !["rsp"] = Packet("ACK", nextPSN, p.seq, "DATA")]
    /\ nextPSN' = NextSeq(nextPSN)
    /\ sState' = "TX_RSP"

AwaitAckInRequest(bufs, ok) ==
    /\ sState = "TX_RSP"
    /\ Iap2Link_RcvData("req", ok)
    /\ sState' = IF ok THEN "RX_ACK" ELSE "TX_RSP"
    /\ pkt' = bufs
    /\ UNCHANGED <<timer, nextPSN, msgId>>
SkipConfirmation(bufs, ok) ==
    /\ sState = "TX_RSP"
    /\ Iap2Link_RcvData("req", ok)
    /\ sState' = "RX_REQ"
    /\ pkt' = bufs
    /\ UNCHANGED <<timer, nextPSN, msgId>>
\* SessionMgr_FsmTxRsp: the response is out, wait for its acknowledgement.
\* The one place where the result of RcvData decides the next state.  The code
\* asks for more bytes than the buffer of the acknowledgement holds; a packet
\* has no length here, and what the device sends is taken to fit.
FsmTxRsp(bufs, ok) ==
    /\ sState = "TX_RSP"
    /\ Iap2Link_RcvData("ack", ok)
    /\ sState' = IF ok THEN "RX_ACK" ELSE "TX_RSP"
    /\ pkt' = bufs
    /\ UNCHANGED <<timer, nextPSN, msgId>>

Acknowledges(p, rsp) == p.ack = rsp.seq /\ p.seq = rsp.ack

\* SessionMgr_FsmRxAck, the packet does not acknowledge the response:
\* IAP2RC_FAILED, which nobody reads, and no new reception.
FsmRxAckMismatch(act, bufs) ==
    /\ sState = "RX_ACK"
    /\ ~Acknowledges(Current(bufs), bufs["rsp"])
    /\ StartNothing(act)
    /\ pkt' = bufs
    /\ UNCHANGED <<timer, nextPSN, sState, msgId>>

\* SessionMgr_FsmRxAck, SessionMgr_FsmReset, then IAP2_EVENT_SESSION_DONE.
FsmRxAck(act, bufs, ok) ==
    /\ sState = "RX_ACK"
    /\ Acknowledges(Current(bufs), bufs["rsp"])
    /\ EventSessionDone(act, ok)
    /\ timer' = "stopped"
    /\ pkt' = bufs
    /\ UNCHANGED <<nextPSN, msgId>>

TxAckKeepsTimer(act, bufs, ok) ==
    /\ sState = "TX_ACK"
    /\ EventLinkSyncDone("SESSION_INIT", act, ok)
    /\ pkt' = bufs
    /\ UNCHANGED <<timer, nextPSN, msgId>>
TxAckSessionDone(act, bufs, ok) ==
    /\ sState = "TX_ACK"
    /\ EventSessionDone(act, ok)
    /\ timer' = "stopped"
    /\ pkt' = bufs
    /\ UNCHANGED <<nextPSN, msgId>>
\* SessionMgr_FsmTxAck: SessionMgr_FsmReset, then IAP2_EVENT_LINK_SYNC_DONE.
FsmTxAck(act, bufs, ok) ==
    /\ sState = "TX_ACK"
    /\ EventLinkSyncDone("SESSION_INIT", act, ok)
    /\ timer' = "stopped"
    /\ pkt' = bufs
    /\ UNCHANGED <<nextPSN, msgId>>

\* SessionMgr_Fsm with an event other than success: reset the session.  The
\* control session does nothing on IAP2_EVENT_TRANSFER_FAILED.
FsmFailed(act, bufs) ==
    /\ StartNothing(act)
    /\ sState' = "SESSION_INIT"
    /\ timer' = "stopped"
    /\ pkt' = bufs
    /\ UNCHANGED <<nextPSN, msgId>>

\* SessionMgr_Fsm.  SessionMgr_FsmTxReq and SessionMgr_FsmRxRsp have no
\* disjunct: the states they serve are never entered (NoRequestOfOurOwn), and
\* in SESSION_INIT no transfer is outstanding (TransferFitsState).
SessionMgr_Fsm(success, act, bufs, ok) ==
    \/ ~success /\ FsmFailed(act, bufs)
    \/ success /\ \/ FsmRxReqHeader(bufs, ok)
                  \/ FsmRxReqAck(bufs, ok)
                  \/ FsmRxReqRespond(bufs, ok)
                  \/ FsmTxRsp(bufs, ok)
                  \/ FsmRxAckMismatch(act, bufs)
                  \/ FsmRxAck(act, bufs, ok)
                  \/ FsmTxAck(act, bufs, ok)
=============================================================================
