------------------------------- MODULE UtpMgr -------------------------------
(***************************************************************************)
(* The UART transfer protocol of CCode/UtpMgr.c as operators on the record  *)
(* of one manager: the parser of received bytes, the one request it can     *)
(* have outstanding, and the one request of its peer it can be answering.   *)
(***************************************************************************)
EXTENDS Integers, SequencesExt

CONSTANTS
    MaxSeq,       \* 255 in the code: sequence numbers are one byte, and not 0
    MaxData       \* MAX_UART_PAYLOAD_DATA_SIZE

HEAD_KEY == 85
TAIL_KEY == 170
REQ == 1
RSP == 2
BROADCAST == 0
RC_SUCCESS == 0
RC_PENDING == 2
RC_UNKNOWN == 4
RC_ABORTED == 6
RC_TIME_OUT == 55
HeadLen == 2      \* MAX_PAYLOAD_HEAD_SIZE, and UART_PKT_HEAD_LEN

NoPacket == [seq |-> 0, control |-> 0, cmd |-> 0, data |-> <<>>]

UtpMgr_Init ==
    [getHead |-> FALSE, rxSeq |-> FALSE, len |-> 0, buff |-> <<>>, seq |-> 0,
     req |-> [state |-> "INIT", pkt |-> NoPacket, tx |-> 0, max |-> 0, late |-> FALSE],
     rsp |-> "INIT"]

\* Exclusive or of two bytes.
Bit(b, i) == (b \div 2 ^ i) % 2
XorBytes(a, b) == SumSet({2 ^ i : i \in {i \in 0..7 : Bit(a, i) # Bit(b, i)}})

Crc_Get(data) ==
    LET crc[i \in 0..Len(data)] ==
          IF i = 0 THEN {0} ELSE {XorBytes(c, data[i]) : c \in crc[i - 1]}
    IN CHOOSE c \in crc[Len(data)] : TRUE

UtpMgr_Packet(p) ==
    LET payload == <<p.control, p.cmd>> \o p.data
    IN <<HEAD_KEY, p.seq, Len(payload)>> \o payload \o <<Crc_Get(payload), TAIL_KEY>>
-----------------------------------------------------------------------------
UtpMgr_Reset(m) == [m EXCEPT !.getHead = FALSE, !.len = 0, !.buff = <<>>]

\* All bytes the length announced are there; the next one is the checksum.
Filled(m) == m.getHead /\ m.rxSeq /\ m.len # 0 /\ Len(m.buff) = m.len + HeadLen

Receives(m, b) == Filled(m) /\ Crc_Get(SubSeq(m.buff, HeadLen + 1, Len(m.buff))) = b

\* The packet in the buffer.
Received(m) ==
    [seq |-> m.buff[1], control |-> m.buff[3], cmd |-> m.buff[4],
     data |-> SubSeq(m.buff, 5, Len(m.buff))]

\* One byte; pkts are the packets received so far.
ParseByte(m, pkts, b) ==
    CASE ~m.getHead /\ b = HEAD_KEY ->
           [m |-> [m EXCEPT !.getHead = TRUE, !.rxSeq = FALSE, !.len = 0, !.buff = <<>>],
            pkts |-> pkts]
      [] ~m.getHead /\ b # HEAD_KEY -> [m |-> m, pkts |-> pkts]
      [] m.getHead /\ m.rxSeq /\ m.len = 0 ->
           [m |-> IF b \in HeadLen..(MaxData + HeadLen)
                    THEN [m EXCEPT !.len = b, !.buff = Append(@, b)] ELSE UtpMgr_Reset(m),
            pkts |-> pkts]
      [] Filled(m) ->
           [m |-> UtpMgr_Reset(m),
            pkts |-> IF Receives(m, b) THEN Append(pkts, Received(m)) ELSE pkts]
      [] OTHER ->
           [m |-> [m EXCEPT !.rxSeq = TRUE, !.buff = Append(@, b)], pkts |-> pkts]

\* The manager and the packets it received once bytes are parsed.
UtpMgr_Parse(m, bytes) ==
    LET after[i \in 0..Len(bytes)] ==
          IF i = 0 THEN {[m |-> m, pkts |-> <<>>]}
          ELSE {ParseByte(r.m, r.pkts, bytes[i]) : r \in after[i - 1]}
    IN CHOOSE r \in after[Len(bytes)] : TRUE
-----------------------------------------------------------------------------
\* Operators that transmit return the frame as well.
With(m, frames) == [m |-> m, tx |-> frames]

UtpMgr_TxPkt(m) ==
    With([m EXCEPT !.req.tx = @ + 1, !.req.late = FALSE], <<UtpMgr_Packet(m.req.pkt)>>)

UtpReq_Reset(m) == [m EXCEPT !.req.state = "INIT", !.req.tx = 0, !.req.late = FALSE]

\* The packet of the request gets the next sequence number.
UtpMgr_Post(m) ==
    LET seq == IF m.seq = MaxSeq THEN 1 ELSE m.seq + 1
    IN UtpMgr_TxPkt([m EXCEPT !.seq = seq, !.req.pkt.seq = seq, !.req.state = "TX_REQ"])

\* A request is taken only while none is outstanding.
UtpMgr_PostReq(m, cmd, data, max) ==
    IF m.req.state # "INIT" THEN With(m, <<>>)
    ELSE UtpMgr_Post([m EXCEPT !.req.max = max,
                !.req.pkt = [seq |-> 0, control |-> REQ, cmd |-> cmd, data |-> data]])

\* Mutant: any response answers the request.
AnswersAny(m, p) == p.control % 4 = RSP /\ m.req.state = "TX_REQ"

Answers(m, p) == p.control % 4 = RSP /\ m.req.state = "TX_REQ" /\ m.req.pkt.seq = p.seq

\* Mutant: one transmission more than are made.
GivesUpLater(m) == m.req.state = "TX_REQ" /\ m.req.late /\ m.req.tx > m.req.max

GivesUp(m) == m.req.state = "TX_REQ" /\ m.req.late /\ m.req.tx >= m.req.max

ReSends(m) == m.req.state = "TX_REQ" /\ m.req.late /\ m.req.tx < m.req.max

\* The part of UtpMgr_Run that does not call the owner.
UtpMgr_ReTx(m) == IF ReSends(m) THEN UtpMgr_TxPkt(m) ELSE With(m, <<>>)

\* A request or a broadcast is handed to ReqProc while no other is in hand.
Accepts(m, p) == p.control % 4 \in {REQ, BROADCAST} /\ m.rsp = "INIT"

\* The answer to request p, when ReqProc returned ret with data.
Answered(m, p, ret, data) ==
    IF p.control = BROADCAST \/ ret = RC_ABORTED THEN With(m, <<>>)
    ELSE IF ret = RC_PENDING THEN With([m EXCEPT !.rsp = "RX_REQ"], <<>>)
    ELSE With(m, <<UtpMgr_Packet([p EXCEPT !.control = RSP,
              !.data = IF ret = RC_UNKNOWN THEN <<RC_UNKNOWN>> ELSE data])>>)
=============================================================================
