--------------------------- MODULE Iap2LinkProps ----------------------------
(***************************************************************************)
(* What the iAP2 link must satisfy: safety, the abstract exchange it         *)
(* implements, and what it must eventually do.                               *)
(***************************************************************************)
EXTENDS Iap2Link

\* A transfer is outstanding, or the main loop will start it again.
ReSendPending == timer # "stopped" /\ ReSendAllowed
Driven == inflight \/ ReSendPending

\* Once started, the link is never without a transfer in progress or a re-send
\* to come, even if the device misses frames or does not know the detection
\* sequence: every handler of Iap2Link.c and iAp2Session.c that consumes a
\* completion starts the next transfer.
NeverSilent ==
    faults \subseteq {"loss", "mismatch"} /\ started /\ ~hung => Driven

\* SwTimer_Start's ASRT(value_ms) holds: no transfer without a re-send
\* interval is ever re-sent.  m_ReTxCount wraps to 0, equal to the limit 0 of
\* such a transfer, so this rests on the timer being stopped by the end of
\* the first session, and on the counter being small until then: it excludes
\* the environments that restart detection or synchronization over and over.
NeverHangs ==
    faults \intersect {"mismatch", "corrupt", "reset"} = {} => ~hung

\* ASRT(value_ms) in SwTimer_Start, whatever the device and transport do.
SwTimerAssertion == ~hung

\* A failure discarded in Iap2Link_TransferDone because the timer runs
\* ("Waiting for time out and re-send") is followed by a re-send.
FailureAwaitsReSend == ~inflight /\ timer # "stopped" => ReSendAllowed

\* The one m_Irb, shared by the link, the session manager and the re-send
\* timer, is outstanding only with the direction and the buffer the handler
\* that will run at its completion expects.
LinkTransferFits ==
    /\ mState = "INIT" =>
           IF irb.isTx THEN irb.buf \in StaticBuffers ELSE irb.buf = "ack"
    /\ mState = "TX_LINK_SYNC" => irb.isTx  /\ irb.buf = "req"
    /\ mState = "RX_LINK_SYNC" => ~irb.isTx /\ irb.buf = "rsp"
    /\ mState = "TX_ACK"       => irb.isTx  /\ irb.buf = "ack"
SessionTransferFits ==
    \/ sState = "RX_REQ" /\ ~irb.isTx /\ irb.buf = "req"
    \/ sState = "TX_ACK" /\ irb.isTx  /\ irb.buf = "ack"
    \/ sState = "TX_RSP" /\ irb.isTx  /\ irb.buf = "rsp"
    \/ sState = "RX_ACK" /\ ~irb.isTx /\ irb.buf = "ack"
TransferFitsState ==
    inflight /\ ~hung =>
        /\ LinkTransferFits
        /\ mState = "LINK_DONE" => SessionTransferFits

\* The inductive form of the above: m_Irb also fits while it is not
\* outstanding, as long as the main loop may start it again with a re-send
\* interval; once the link's SYN is answered the interval is zero.
MayTransfer == inflight \/ (timer # "stopped" /\ reSendMs # 0)
TransferInv ==
    /\ ~started => mState = "INIT" /\ ~inflight /\ timer = "stopped"
    /\ mState \in {"TX_ACK", "LINK_DONE"} => reSendMs = 0
    /\ MayTransfer /\ ~hung =>
          /\ LinkTransferFits
          /\ mState = "LINK_DONE" => SessionTransferFits

\* The control session never issues a request, so SessionMgr_FsmTxReq and
\* SessionMgr_FsmRxRsp never run: only REQ_AUTH is ever waiting for the
\* acknowledgement of a response when IAP2_EVENT_SESSION_DONE is raised.
NoRequestOfOurOwn == sState \notin {"TX_REQ", "RX_RSP"}

\* The inductive form of it: only REQ_AUTH is answered by a response.
ResponseInv ==
    /\ NoRequestOfOurOwn
    /\ sState \in {"TX_RSP", "RX_ACK"} => msgId = "REQ_AUTH"

\* An answer on its way names the packet it answers, although the packet, the
\* answer and the link's own SYN share three buffers.
AnswerNamesRequest ==
    inflight /\ ~hung =>
        /\ mState = "TX_ACK" => pkt["ack"].ack = pkt["rsp"].seq
        /\ mState = "LINK_DONE" /\ sState = "TX_ACK" =>
               pkt["ack"].ack = pkt["req"].seq
        /\ mState = "LINK_DONE" /\ sState \in {"TX_RSP", "RX_ACK"} =>
               pkt["rsp"].ack = pkt["req"].seq

\* End to end: whenever the device goes on after an answer, the last frame it
\* heard named the last packet it sent.  Without receptions that complete with
\* no byte: those make the link answer whatever the buffer last held.
DeviceIsAnswered ==
    "empty" \notin faults /\ due \in {"request", "ack"} =>
        heard.ack = devSent.seq

\* The numbers the device hears have no gap and no repetition: while it owes
\* the answer to a frame, the number in that frame is the last one
\* m_NextSentPSN gave out.  Without faults that make the link answer a packet
\* it answered before, whose numbers its acknowledgement then repeats.
NumbersInStep ==
    /\ faults \intersect {"empty", "dup"} = {}
    /\ due \in {"synack", "request", "ack"}
    => NextSeq(heard.seq) = nextPSN
-----------------------------------------------------------------------------
\* The abstract exchange the link's state stands for.

Phase == IF mState = "INIT" THEN "detecting"
         ELSE IF mState = "LINK_DONE" THEN "up" ELSE "synchronizing"

Stage == IF mState # "LINK_DONE" THEN "idle"
         ELSE IF ~inflight \/ hung THEN "silent"
         ELSE IF sState = "RX_REQ" THEN "listening"
         ELSE IF sState \in {"TX_ACK", "TX_RSP"} THEN "answering"
         ELSE "confirming"

\* The request and its answer are what the shared buffers hold.
OpenRequest ==
    IF Stage \in {"answering", "confirming"}
      THEN [seq |-> pkt["req"].seq, msg |-> msgId]
      ELSE [seq |-> -1, msg |-> "none"]

GivenAnswer ==
    IF Stage \in {"answering", "confirming"}
      THEN IF sState = "TX_ACK"
             THEN [kind |-> "ack", names |-> pkt["ack"].ack]
             ELSE [kind |-> "response", names |-> pkt["rsp"].ack]
      ELSE [kind |-> "none", names |-> -1]

Exchange == INSTANCE Iap2Exchange WITH
    Msgs       <- Messages,
    Answerable <- {"REQ_AUTH"},
    Seqs       <- SeqNums,
    phase      <- Phase,
    stage      <- Stage,
    request    <- OpenRequest,
    answer     <- GivenAnswer

\* The link implements the abstract exchange: one request at a time, each
\* answered by a frame that names it before the next is taken.
ImplementsExchange == Exchange!ExchangeSpec
-----------------------------------------------------------------------------
\* Fairness: the application starts the link; the main loop keeps calling
\* Iap2Link_Run and time passes; a transport that may fail does not fail every
\* time; the device sends what it owes.
FairSpec ==
    /\ Spec
    /\ WF_vars(Iap2Link_Start)
    /\ WF_vars(Iap2Link_Run)
    /\ WF_vars(TimeOut)
    /\ SF_vars(TransmitDone)
    /\ WF_vars(ReceiveDone)

\* With a sound transport and device the link comes up.
LinkComesUp == (faults = {}) ~> (mState = "LINK_DONE")

\* With a sound transport and device every request taken is answered, the
\* answer confirmed if need be, and the link listens for the next one.
RequestIsAnswered ==
    (faults = {} /\ sState \in {"TX_ACK", "TX_RSP", "RX_ACK"})
        ~> (sState = "RX_REQ")

\* Transmissions that fail are re-sent until one gets through, for the
\* detection sequence and for the link's SYN.
DetectionAndSyncGetOut ==
    (/\ faults \subseteq {"txfail"}
     /\ started
     /\ mState \in {"INIT", "TX_LINK_SYNC"}
     /\ irb.isTx) ~> ~irb.isTx

\* Synchronization gets on although frames may be lost, because the link's SYN
\* is sent with a re-send interval and a re-send limit.
LostSynIsReSent ==
    (faults \subseteq {"loss"} /\ mState = "RX_LINK_SYNC")
        ~> (mState = "TX_ACK")
=============================================================================
