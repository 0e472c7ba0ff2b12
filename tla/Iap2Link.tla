------------------------------ MODULE Iap2Link ------------------------------
(***************************************************************************)
(* The iAP2 accessory link (Src/Iap2Link.c) over the session manager:       *)
(* detection, link synchronization, the dispatch of completed transfers,    *)
(* and the re-send run from the main loop.  The second half is the          *)
(* environment: the transport that completes transfers and the device at    *)
(* the other end, which commit the faults in the variable faults, no other. *)
(***************************************************************************)
EXTENDS Iap2Session

CONSTANT Requests      \* the messages the device may send as requests

ASSUME RequestsAssumption == Requests \subseteq Messages

VARIABLES
    mState,      \* Iap2Link.m_State
    started,     \* Iap2Link_Start has been called
    due,         \* what the device sends next
    heard,       \* the last packet the device heard
    devSent      \* the last packet the device sent

linkVars   == <<mState, started>>
deviceVars == <<due, heard, devSent>>
vars       == <<ioVars, sessionVars, linkVars, deviceVars>>

LinkStates == {"INIT", "TX_LINK_SYNC", "RX_LINK_SYNC", "TX_ACK", "LINK_DONE"}
Dues       == {"nothing", "detect", "synack", "request", "ack"}

TypeOK ==
    /\ IoTypeOK
    /\ SessionTypeOK
    /\ mState \in LinkStates
    /\ started \in BOOLEAN
    /\ due \in Dues
    /\ heard \in Packets
    /\ devSent \in Packets

Init ==
    /\ IoInit
    /\ SessionInit
    /\ mState = "INIT"
    /\ started = FALSE
    /\ due = "nothing"
    /\ heard = ZeroPacket
    /\ devSent = ZeroPacket
-----------------------------------------------------------------------------
\* Iap2Link_Start, called once by the application.
Iap2Link_Start ==
    /\ ~started
    /\ started' = TRUE
    /\ \E ok \in StartResults :
          Iap2Link_TxData("detect", IAP2_RETX_INTERVAL,
                          IAP2_LINK_RETX_COUNT_UNLIMITIED, ok)
    /\ UNCHANGED <<nextPSN, pkt, sessionVars, mState, deviceVars>>

\* Iap2Link_SendSyncPkt.  The control session ignores IAP2_EVENT_HAND_SHAKE,
\* and the session's state is not touched.
Iap2Link_SendSyncPkt(bufs, ok) ==
    /\ pkt' = [bufs EXCEPT !["req"] = Packet("SYN", nextPSN, 0, "SYNC")]
    /\ nextPSN' = NextSeq(nextPSN)
    /\ Iap2Link_TxData("req", IAP2_RETX_INTERVAL, MaxReTx, ok)
    /\ mState' = "TX_LINK_SYNC"
    /\ UNCHANGED sessionVars
-----------------------------------------------------------------------------
\* The branches of Iap2Link_handShake.

HandShakeFailed(success, act, bufs) ==
    /\ ~success
    /\ StartNothing(act)
    /\ pkt' = bufs
    /\ UNCHANGED <<timer, nextPSN, sessionVars, mState>>

\* The detection sequence, or the lack-of-compatibility one, is out.
HandShakeSent(success, bufs, ok) ==
    /\ success
    /\ irb.isTx
    /\ Iap2Link_RcvData("ack", ok)
    /\ timer' = "stopped"
    /\ pkt' = bufs
    /\ UNCHANGED <<nextPSN, sessionVars, mState>>

\* memcmp compares m_ActLen bytes: no byte received compares equal.
DetectionEchoed(act, bufs) == act => Current(bufs).ctl = "DETECT"

HandShakeMatch(success, act, bufs, ok) ==
    /\ success
    /\ ~irb.isTx
    /\ DetectionEchoed(act, bufs)
    /\ Iap2Link_SendSyncPkt(bufs, ok)

HandShakeMismatch(success, act, bufs, ok) ==
    /\ success
    /\ ~irb.isTx
    /\ ~DetectionEchoed(act, bufs)
    /\ Iap2Link_TxData("lack", 0, 0, ok)
    /\ pkt' = bufs
    /\ UNCHANGED <<nextPSN, sessionVars, mState>>

Iap2Link_handShake(success, act, bufs, ok) ==
    \/ HandShakeFailed(success, act, bufs)
    \/ HandShakeSent(success, bufs, ok)
    \/ HandShakeMatch(success, act, bufs, ok)
    \/ HandShakeMismatch(success, act, bufs, ok)
-----------------------------------------------------------------------------
\* The branches of Iap2Link_Payload_SyncLink.  A failed transfer falls
\* through them all.

SyncSent(bufs, ok) ==
    /\ mState = "TX_LINK_SYNC"
    /\ Iap2Link_RcvData("rsp", ok)
    /\ mState' = "RX_LINK_SYNC"
    /\ pkt' = bufs
    /\ UNCHANGED <<timer, nextPSN, sessionVars>>

SyncReceivedStays(bufs, ok) ==
    /\ mState = "RX_LINK_SYNC"
    /\ pkt' = [bufs EXCEPT !["ack"] = Iap2Link_AckInit(Current(bufs))]
    /\ Iap2Link_TxData("ack", 0, 0, ok)
    /\ UNCHANGED <<nextPSN, sessionVars, mState>>
\* Any packet that passed Iap2Link_Verify is taken for the device's SYN.
SyncReceived(bufs, ok) ==
    /\ mState = "RX_LINK_SYNC"
    /\ pkt' = [bufs EXCEPT !["ack"] = Iap2Link_AckInit(Current(bufs))]
    /\ Iap2Link_TxData("ack", 0, 0, ok)
    /\ mState' = "TX_ACK"
    /\ UNCHANGED <<nextPSN, sessionVars>>

\* IAP2_EVENT_LINK_SYNC_DONE, then LINK_DONE.
SyncAckSent(act, bufs, ok) ==
    /\ mState = "TX_ACK"
    /\ EventLinkSyncDone(sState, act, ok)
    /\ mState' = "LINK_DONE"
    /\ pkt' = bufs
    /\ UNCHANGED <<timer, nextPSN, msgId>>

SyncFailed(success, act, bufs) ==
    /\ ~success
    /\ StartNothing(act)
    /\ pkt' = bufs
    /\ UNCHANGED <<timer, nextPSN, sessionVars, mState>>

Iap2Link_Payload_SyncLink(success, act, bufs, ok) ==
    \/ SyncFailed(success, act, bufs)
    \/ success /\ \/ SyncSent(bufs, ok)
                  \/ SyncReceived(bufs, ok)
                  \/ SyncAckSent(act, bufs, ok)
-----------------------------------------------------------------------------
\* The early returns of Iap2Link_TransferDone.

\* "Waiting for time out and re-send."
SwallowFailure(success, act, bufs) ==
    /\ ~success
    /\ timer # "stopped"
    /\ StartNothing(act)
    /\ pkt' = bufs
    /\ UNCHANGED <<timer, nextPSN, sessionVars, mState>>

IsReception(act) == act /\ ~irb.isTx

IsLinkPacket(p) == p.ctl \in {"SLP", "RST", "EAK"}

\* A packet that is refused, a sleep packet and an extended acknowledgement
\* end the same way: nothing is done and nothing is received any more.
DropPacket(act, bufs) ==
    /\ IsReception(act)
    /\ ~Current(bufs).valid \/ Current(bufs).ctl \in {"SLP", "EAK"}
    /\ StartNothing(act)
    /\ pkt' = bufs
    /\ UNCHANGED <<timer, nextPSN, sessionVars, mState>>

\* The device resets the link: synchronize again.
LinkReset(act, bufs, ok) ==
    /\ IsReception(act)
    /\ Current(bufs).valid
    /\ Current(bufs).ctl = "RST"
    /\ Iap2Link_SendSyncPkt(bufs, ok)

Dispatched(act, bufs) ==
    IsReception(act) => Current(bufs).valid /\ ~IsLinkPacket(Current(bufs))

\* Iap2Link_TransferDone.
Iap2Link_TransferDone(success, act, bufs, ok) ==
    \/ SwallowFailure(success, act, bufs)
    \/ /\ success \/ timer = "stopped"
       /\ \/ /\ mState = "INIT"
             /\ Iap2Link_handShake(success, act, bufs, ok)
          \/ /\ mState # "INIT"
             /\ \/ DropPacket(act, bufs)
                \/ LinkReset(act, bufs, ok)
          \/ /\ mState \in {"TX_LINK_SYNC", "RX_LINK_SYNC", "TX_ACK"}
             /\ Dispatched(act, bufs)
             /\ Iap2Link_Payload_SyncLink(success, act, bufs, ok)
          \/ /\ mState = "LINK_DONE"
             /\ Dispatched(act, bufs)
             /\ SessionMgr_Fsm(success, act, bufs, ok)
             /\ UNCHANGED mState
-----------------------------------------------------------------------------
\* The environment.

\* A completion handed to the link by the code that owns the transport.
Complete(success, act, bufs) ==
    /\ inflight
    /\ ~hung
    /\ \E ok \in StartResults : Iap2Link_TransferDone(success, act, bufs, ok)
    /\ UNCHANGED started

\* What the device owes for the frame in buffer b.
Answer(b) ==
    CASE b \in StaticBuffers -> "detect"
      [] b = "req" -> "synack"
      [] b = "rsp" -> "ack"
      [] b = "ack" -> "request"

\* A transmission completes and the device hears it.
TransmitDone ==
    /\ irb.isTx
    /\ Complete(TRUE, TRUE, pkt)
    /\ due' = Answer(irb.buf)
    /\ heard' = IF irb.buf \in Buffers THEN pkt[irb.buf] ELSE heard
    /\ UNCHANGED devSent

\* A transmission completes and the device does not hear it.
TransmitLost ==
    /\ "loss" \in faults
    /\ irb.isTx
    /\ Complete(TRUE, TRUE, pkt)
    /\ UNCHANGED deviceVars

TransferFails ==
    /\ (IF irb.isTx THEN "txfail" ELSE "rxfail") \in faults
    /\ Complete(FALSE, irb.act, pkt)
    /\ UNCHANGED deviceVars

\* A reception brings p into m_Irb's buffer.
Receive(p) ==
    /\ ~irb.isTx
    /\ Complete(TRUE, TRUE, [pkt EXCEPT ![irb.buf] = p])

\* A reception completes with no byte: m_ActLen and the buffer keep what they
\* held.
ReceiveEmpty ==
    /\ "empty" \in faults
    /\ ~irb.isTx
    /\ Complete(TRUE, irb.act, pkt)
    /\ UNCHANGED deviceVars

\* The six bytes of the detection sequence: no iAP2 packet.
DetectEcho == Garbled(Packet("DETECT", 0, 0, "EMPTY"), "DETECT")

\* The packets the device may owe.  A new one carries the next sequence
\* number and acknowledges the last packet heard; the acknowledgement of a
\* response is not a new one.
Owed ==
    CASE due = "nothing" -> {}
      [] due = "detect"  -> {DetectEcho}
      [] due = "synack"  ->
            {Packet("SYNACK", NextSeq(devSent.seq), heard.seq, "SYNC")}
      [] due = "request" ->
            {Packet("ACK", NextSeq(devSent.seq), heard.seq, m) : m \in Requests}
      [] due = "ack"     -> {Packet("ACK", devSent.seq, heard.seq, "EMPTY")}

\* Having its response acknowledged, or its link synchronized, the link is
\* free to take the device's next request.
DueAfter == IF due = "ack" THEN "request" ELSE "nothing"

ReceiveDone ==
    \E p \in Owed :
        /\ Receive(p)
        /\ devSent' = p
        /\ due' = DueAfter
        /\ UNCHANGED heard

ReceiveCorrupt ==
    /\ "corrupt" \in faults
    /\ \E p \in Owed :
        /\ Receive(Garbled(p, "NONE"))
        /\ devSent' = p
        /\ due' = DueAfter
        /\ UNCHANGED heard

\* The device repeats its last packet: it missed the answer.
ReceiveAgain ==
    /\ "dup" \in faults
    /\ devSent # ZeroPacket
    /\ Receive(devSent)
    /\ UNCHANGED deviceVars

\* The device does not know the detection sequence.
ReceiveMismatch ==
    /\ "mismatch" \in faults
    /\ due = "detect"
    /\ Receive(Packet("NONE", 0, 0, "EMPTY"))
    /\ due' = "nothing"
    /\ UNCHANGED <<heard, devSent>>

\* The device resets the link, or puts it to sleep.
ReceiveControl ==
    \E c \in (IF "reset" \in faults THEN {"RST"} ELSE {})
                \cup (IF "sleep" \in faults THEN {"SLP", "EAK"} ELSE {}) :
        /\ mState # "INIT"
        /\ Receive(Packet(c, devSent.seq, heard.seq, "EMPTY"))
        /\ due' = "nothing"
        /\ UNCHANGED <<heard, devSent>>

\* Iap2Link_Run, called by the main loop; a re-send that cannot start changes
\* nothing.
Iap2Link_Run ==
    /\ ~hung
    /\ timer = "expired"
    /\ ReSendAllowed
    /\ \E ok \in StartResults : Iap2Link_ReTx(ok)
    /\ UNCHANGED <<sessionVars, linkVars, deviceVars>>

TimeOut == TimerExpires /\ UNCHANGED <<sessionVars, linkVars, deviceVars>>

Device == \/ ReceiveDone \/ ReceiveCorrupt \/ ReceiveAgain \/ ReceiveMismatch
          \/ ReceiveControl \/ ReceiveEmpty
Transport == TransmitDone \/ TransmitLost \/ TransferFails

Next == Iap2Link_Start \/ Iap2Link_Run \/ TimeOut \/ Transport \/ Device

Spec == Init /\ [][Next]_vars
=============================================================================
