------------------------------- MODULE QueueEx -------------------------------
(***************************************************************************)
(* The persistent log of Arch/QueueEx.c: a ring of bytes on a card, whose    *)
(* last sector is collected in m_WriteLen bytes of memory.  Only the pointers  *)
(* are kept, not the bytes: a sector moves between memory and card whole.   *)
(* The loops take one step a turn.                                          *)
(***************************************************************************)
EXTENDS QueueOps

CONSTANTS
    SectorSize,    \* SECTOR_SIZE, which divides the capacity
    MaxLen,        \* the longest text logged, and the longest read
    MaxInfo        \* the bytes kept until the card is there: 5 * 1024

VARIABLES
    queue,         \* m_Queue
    writePos,      \* m_WritePos
    writeLen,      \* m_WriteLen
    state,         \* m_State
    infoLen,       \* g_DebugInfoLen
    card,          \* sd_initialized
    saved,         \* the sector the log's pointers are saved in
    pushing,       \* what is left to push of each text, in turn
    reading,       \* the bytes a read was asked for and has, its sector of the end
    halted         \* an assertion failed: while(1)

logVars == <<queue, writePos, writeLen, state, infoLen, card, saved, pushing, reading, halted>>

NoRead == [len |-> 0, has |-> 0, lba |-> 0]
Idle == pushing = <<>> /\ reading = NoRead /\ ~halted

\* Power on: the memory is zero, and the flag that the queue is empty with it.
ZeroQueue == [QUEUE_init EXCEPT !.empty = FALSE]
PowerOn ==
    /\ queue = ZeroQueue /\ writePos = 0 /\ writeLen = 0 /\ state = "INIT"
    /\ infoLen = 0 /\ card = FALSE /\ pushing = <<>> /\ reading = NoRead /\ halted = FALSE
Init == PowerOn /\ saved = {}
-----------------------------------------------------------------------------
QueueEx_Init ==
    /\ queue' = QUEUE_init /\ writePos' = 0 /\ writeLen' = 0 /\ state' = "START"

\* What a push of QueueEx_PushIn leaves to do: with a text kept from before
\* the card was there, it is pushed first.
Texts(n, info) == IF info = 0 THEN <<n>> ELSE <<info, n>>

\* Keeping a text until the card and the log are there.
QueueEx_PushIn(n) ==
    /\ Idle
    /\ IF card /\ state # "INIT"
         THEN pushing' = Texts(n, infoLen) /\ infoLen' = 0
         ELSE /\ infoLen' = IF state # "START" /\ infoLen < MaxInfo THEN infoLen + n ELSE infoLen
              /\ UNCHANGED pushing
    /\ UNCHANGED <<queue, writePos, writeLen, state, card, saved, reading, halted>>

\* A full ring gives up its oldest sector.
Room(q) == IF q.full THEN QUEUE_RemoveElements(q, SectorSize) ELSE q

\* nProcLen, of a turn of QueueEx_PushInEx that has n bytes left.
ProcLen(q, n) ==
    LET occupied == QUEUE_getElementCount(q) % SectorSize
    IN  IF occupied + n >= SectorSize THEN SectorSize - occupied
        ELSE IF writeLen + n >= SectorSize THEN SectorSize - writeLen
        ELSE n

NextTexts(n) ==
    LET rest == Head(pushing) - n
    IN  IF rest = 0 THEN Tail(pushing) ELSE <<rest>> \o Tail(pushing)

\* A turn: the bytes join the sector in memory, and a sector that is complete
\* is written.
PushInTurn ==
    LET q == Room(queue)
        n == ProcLen(q, Head(pushing))
        moved == QUEUE_PushInEleArray(q, [i \in 1..n |-> Blank]).q
        len == writeLen + n
    IN  /\ pushing # <<>> /\ ~halted /\ Head(pushing) > 0
        /\ queue' = IF writeLen = q.wr % SectorSize THEN moved ELSE q
        /\ halted' = (writeLen # q.wr % SectorSize)
        /\ IF halted' THEN UNCHANGED <<pushing, writePos, writeLen>>
           ELSE /\ pushing' = NextTexts(n)
                /\ writeLen' = IF len = SectorSize THEN 0 ELSE len
                /\ writePos' = IF len = SectorSize THEN moved.wr ELSE writePos
        /\ UNCHANGED <<state, infoLen, card, saved, reading>>

\* Shell_GetLogDataEx reads all there is.
QueueEx_Read(n) ==
    /\ Idle /\ n > 0 /\ state = "START"
    /\ reading' = [len |-> n, has |-> 0, lba |-> queue.wr \div SectorSize]
    /\ UNCHANGED <<queue, writePos, writeLen, state, infoLen, card, saved, pushing, halted>>

\* The sector at the read pointer is on the card, or it is the one in memory.
OnCard == reading.lba # queue.rd \div SectorSize \/ queue.rd > queue.wr
CopyLen == IF OnCard THEN Smaller(reading.len, SectorSize - (queue.rd % SectorSize))
                     ELSE Smaller(reading.len, queue.wr - queue.rd)

ReadTurn ==
    /\ reading # NoRead
    /\ IF reading.has < reading.len /\ ~queue.empty
         THEN /\ queue' = QUEUE_RemoveElements(queue, CopyLen)
              /\ reading' = [reading EXCEPT !.has = @ + CopyLen]
         ELSE reading' = NoRead /\ UNCHANGED queue
    /\ UNCHANGED <<writePos, writeLen, state, infoLen, card, saved, pushing, halted>>
-----------------------------------------------------------------------------
\* What the rest of the firmware may call besides.

CardIsThere ==
    /\ Idle /\ ~card /\ card' = TRUE
    /\ UNCHANGED <<queue, writePos, writeLen, state, infoLen, saved, pushing, reading, halted>>

\* QueueEx_Serialize(False), once a power-on; it hands the text kept so far to
\* QueueEx_PushIn, which pushes the text kept so far and then what it was handed.
QueueEx_Restore ==
    /\ Idle /\ state = "INIT"
    /\ IF saved = {} THEN QueueEx_Init
       ELSE \E s \in saved : /\ queue' = s.queue /\ writePos' = s.writePos
                             /\ writeLen' = s.writeLen /\ state' = "START"
    /\ IF infoLen > 0 /\ card THEN pushing' = <<infoLen, infoLen>> /\ infoLen' = 0
                              ELSE UNCHANGED <<pushing, infoLen>>
    /\ UNCHANGED <<card, saved, reading, halted>>

\* QueueEx_Flush and, with it, QueueEx_Serialize(True).
QueueEx_Flush ==
    /\ Idle /\ card /\ state = "START"
    /\ halted' = ((writePos % SectorSize) + writeLen > SectorSize)
    /\ IF writeLen > 0 /\ ~halted'
         THEN /\ writePos' = queue.wr /\ writeLen' = 0
              /\ saved' = {[queue |-> queue, writePos |-> queue.wr, writeLen |-> 0]}
         ELSE UNCHANGED <<writePos, writeLen, saved>>
    /\ UNCHANGED <<queue, state, infoLen, card, pushing, reading>>

QueueEx_Reset ==
    /\ Idle
    /\ queue' = QUEUE_init /\ writeLen' = 0 /\ writePos' = 0
    /\ UNCHANGED <<state, infoLen, card, saved, pushing, reading, halted>>

PowerOff ==
    /\ queue' = ZeroQueue /\ writePos' = 0 /\ writeLen' = 0 /\ state' = "INIT"
    /\ infoLen' = 0 /\ card' = FALSE /\ pushing' = <<>> /\ reading' = NoRead /\ halted' = FALSE
    /\ UNCHANGED saved

Next ==
    \/ \E n \in 1..MaxLen : QueueEx_PushIn(n) \/ QueueEx_Read(n)
    \/ QueueEx_Read(QUEUE_getElementCount(queue))
    \/ PushInTurn \/ ReadTurn \/ CardIsThere \/ QueueEx_Restore \/ QueueEx_Flush
    \/ QueueEx_Reset \/ PowerOff

Spec == Init /\ [][Next]_logVars
-----------------------------------------------------------------------------
\* The bytes collected in memory never outgrow its one sector, which
\* QueueEx_Flush asserts (QueueEx.c:95).  They do: once a read has left the
\* read pointer inside a sector, QueueEx_PushInEx measures what fits by the
\* bytes queued, not by the bytes collected.
WriteLenFits == writeLen <= SectorSize
=============================================================================
