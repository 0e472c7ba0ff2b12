------------------------- MODULE MessageLoopProofs --------------------------
(***************************************************************************)
(* Proofs that the message a handler works on stays the head of the queue   *)
(* until it is removed, that the loop delivers every accepted message once  *)
(* and in order, that output which was switched off stays off, that the     *)
(* interfaces stay a list while Run functions change it, and that the loop  *)
(* is type correct: for queues of every size and any number of interfaces,  *)
(* whatever interrupts, handlers and commands do.                           *)
(***************************************************************************)
EXTENDS MessageLoop, ArchLemmas

\* The queue is valid, and the message being handled is the oldest one in it.
Inv ==
    /\ Valid(queue)
    /\ pc = "off" => queue = QUEUE_init
    /\ Busy => Queued(queue) # <<>> /\ msg = <<Head(Queued(queue))>>

\* A post appends its message, or leaves a full queue as it is.
LEMMA PostAppends ==
    ASSUME NEW q, Valid(q), NEW e \in Elements
    PROVE  LET r == QUEUE_add(q, e)
           IN  /\ Valid(r.q)
               /\ Queued(q) \in Seq(Contents) /\ Len(Queued(q)) \in 0..Capacity
               /\ Len(Queued(q)) < Capacity => Queued(r.q) = Append(Queued(q), e)
               /\ Len(Queued(q)) = Capacity => Queued(r.q) = Queued(q)
  <1>. DEFINE Q == Queued(q)
              s == <<e>>
              r == QUEUE_add(q, e)
  <1>1. /\ QUEUE_getElementCount(q) \in 0..Capacity
        /\ QUEUE_getSpace(q) = Capacity - QUEUE_getElementCount(q)
    BY Counts
  <1>2. Q \in Seq(Contents) /\ Len(Q) = QUEUE_getElementCount(q)
    BY QueuedIsSeq
  <1>3. /\ Valid(r.q) /\ r.ret = Smaller(1, QUEUE_getSpace(q))
        /\ Queued(r.q) = Q \o SubSeq(s, 1, r.ret)
    BY AddAppends
  <1>4. CASE Len(Q) < Capacity
    <2>1. r.ret = 1
      BY <1>1, <1>2, <1>3, <1>4, QueueAssumption DEF Smaller
    <2>2. SubSeq(s, 1, 1) = s
      BY OneIsSeq, SubSeqFull
    <2>3. Q \o s = Append(Q, e)
      BY <1>2
    <2>. QED
      BY <1>1, <1>2, <1>3, <1>4, <2>1, <2>2, <2>3
  <1>5. CASE Len(Q) = Capacity
    <2>1. r.ret = 0
      BY <1>1, <1>2, <1>3, <1>5, QueueAssumption DEF Smaller
    <2>2. SubSeq(s, 1, 0) = <<>>
      BY SubSeqEmpty
    <2>3. Q \o <<>> = Q
      BY <1>2, ConcatEmptySeq
    <2>. QED
      BY <1>1, <1>2, <1>3, <1>5, <2>1, <2>2, <2>3
  <1>6. Len(Q) \in 0..Capacity /\ (Len(Q) < Capacity \/ Len(Q) = Capacity)
    BY <1>1, <1>2, QueueAssumption
  <1>. QED
    BY <1>2, <1>3, <1>4, <1>5, <1>6

\* Reading and removing the head, at the level of what the queue holds.
LEMMA HeadAndTail ==
    ASSUME NEW q, Valid(q)
    PROVE  /\ Queued(q) = <<>> => QUEUE_getHead(q) = <<>>
           /\ Queued(q) # <<>> =>
                /\ QUEUE_getHead(q) = <<Head(Queued(q))>>
                /\ Queued(QUEUE_removeHead(q)) = Tail(Queued(q))
           /\ Valid(QUEUE_removeHead(q))
  <1>. DEFINE Q == Queued(q)
              held == QUEUE_getElementCount(q)
              h == Smaller(1, held)
  <1>1. held \in Nat /\ Q \in Seq(Contents) /\ Len(Q) = held
    BY Counts, QueuedIsSeq, QueueAssumption
  <1>2. /\ QUEUE_getHead(q) = SubSeq(Q, 1, h) /\ Valid(QUEUE_removeHead(q))
        /\ Queued(QUEUE_removeHead(q)) = SubSeq(Q, h + 1, held)
    BY HeadIsFront
  <1>. HIDE DEF Q, held
  <1>3. CASE Q = <<>>
    <2>1. h = 0
      BY <1>1, <1>3 DEF Smaller
    <2>. QED
      BY <1>2, <1>3, <2>1, SubSeqEmpty DEF Q
  <1>4. CASE Q # <<>>
    <2>1. held > 0 /\ h = 1
      BY <1>1, <1>4, EmptySeq DEF Smaller
    <2>2. SubSeq(Q, 2, Len(Q)) = Tail(Q)
      BY <1>1, <1>4, TailIsSubSeq
    <2>3. SubSeq(Q, 1, 1) = <<Head(Q)>>
      <3>1. 1 \in Int /\ \A i \in 1..1 : Q[i] \in Contents
        BY <1>1, <2>1, ElementOfSeq
      <3>2. /\ SubSeq(Q, 1, 1) \in Seq(Contents) /\ Len(SubSeq(Q, 1, 1)) = 1
            /\ SubSeq(Q, 1, 1)[1] = Q[1]
        BY <3>1, SubSeqProperties
      <3>. DEFINE s == SubSeq(Q, 1, 1)
      <3>3. s \in Seq(Contents) /\ Len(s) = 1 /\ s[1] = Q[1]
        BY <3>2
      <3>. HIDE DEF s
      <3>4. s = <<s[1]>>
        BY <3>3
      <3>5. Head(Q) = Q[1]
        BY <1>1, <1>4
      <3>. QED
        BY <3>3, <3>4, <3>5 DEF s
    <2>. QED
      BY <1>1, <1>2, <1>4, <2>1, <2>2, <2>3 DEF Q
  <1>. QED
    BY <1>3, <1>4
-----------------------------------------------------------------------------
\* A letter is there.
LEMMA SingletonIsSomething == \A x : <<x>> # <<>>
  <1>1. \A x : Len(<<x>>) = 1
    OBVIOUS
  <1>. QED
    BY <1>1

\* A post, from wherever, keeps the invariant and is a post to the mailbox.
LEMMA PostStep ==
    ASSUME Inv, NEW m \in Elements, queue' = QUEUE_add(queue, m).q,
           msg' = msg, Busy' = Busy, pc # "off", pc' # "off"
    PROVE  Inv' /\ Box!Post(m)
  <1>. DEFINE Q == Queued(queue)
              R == Queued(queue')
  <1>1. /\ Valid(queue') /\ Q \in Seq(Contents) /\ Len(Q) \in 0..Capacity
        /\ Len(Q) < Capacity => R = Append(Q, m)
        /\ Len(Q) = Capacity => R = Q
    BY PostAppends DEF Inv
  <1>2. Len(Q) < Capacity \/ Len(Q) = Capacity
    BY <1>1, QueueAssumption
  <1>3. /\ Head(Append(Q, m)) = IF Q = <<>> THEN m ELSE Head(Q)
        /\ Tail(Append(Q, m)) = IF Q = <<>> THEN <<>> ELSE Append(Tail(Q), m)
        /\ Append(Q, m) # <<>>
    <2>1. m \in Contents
      BY DEF Contents
    <2>. QED
      BY <1>1, <2>1, HeadTailAppend, AppendProperties
  <1>4. Queued(queue)' = R /\ Valid(queue)' = Valid(queue')
    BY DEF Queued, QUEUE_getElementCount, SlotOf, Valid
  <1>. HIDE DEF R, Q
  <1>5. CASE Busy
    <2>1. Q # <<>> /\ msg = <<Head(Q)>>
      BY <1>5 DEF Inv, Q
    <2>2. R # <<>> /\ msg' = <<Head(R)>>
      BY <1>1, <1>2, <1>3, <2>1
    <2>3. Inv'
      BY <1>1, <1>4, <2>2 DEF Inv, R
    <2>4. Len(msg) = 1 /\ Len(Tail(Q)) = Len(Q) - 1 /\ Len(Q) \in Nat
      BY <1>1, <2>1, HeadTailProperties, QueueAssumption
    <2>. DEFINE room == Len(Tail(Q)) + Len(msg)
    <2>7. room = Len(Q)
      BY <2>4
    <2>. HIDE DEF room
    <2>5. Tail(R) = IF room < Capacity
                      THEN Append(Tail(Q), m) ELSE Tail(Q)
      <3>1. CASE Len(Q) < Capacity
        BY <1>1, <1>3, <2>1, <2>7, <3>1
      <3>2. CASE Len(Q) = Capacity
        BY <1>1, <2>7, <3>2, QueueAssumption
      <3>. QED
        BY <1>2, <3>1, <3>2
    <2>6. Busy'
      BY <1>5
    <2>. QED
      BY <1>4, <1>5, <2>3, <2>5, <2>6 DEF Box!Post, Q, R, room
  <1>6. CASE ~Busy
    <2>1. ~Busy'
      BY <1>6
    <2>2. Inv'
      BY <1>1, <1>4, <2>1 DEF Inv, R
    <2>3. Len(Q) + Len(<<>>) = Len(Q)
      BY <1>1, QueueAssumption
    <2>4. R = IF Len(Q) + Len(<<>>) < Capacity THEN Append(Q, m) ELSE Q
      BY <1>1, <1>2, <2>3, QueueAssumption
    <2>. QED
      BY <1>4, <1>6, <2>1, <2>2, <2>4 DEF Box!Post, Q, R
  <1>. QED
    BY <1>5, <1>6

\* A step that touches neither the queue nor the message, nor whether one is
\* being handled, is none of the mailbox's.
LEMMA OtherStep ==
    ASSUME Inv, queue' = queue, msg' = msg, Busy' = Busy,
           pc = "off" <=> pc' = "off"
    PROVE  Inv' /\ UNCHANGED Box!mailVars
  <1>1. Queued(queue)' = Queued(queue) /\ Valid(queue)' = Valid(queue)
    BY DEF Queued, QUEUE_getElementCount, SlotOf, Valid
  <1>. QED
    BY <1>1 DEF Inv, Box!mailVars

\* Every step keeps the invariant and is a step of the mailbox.
LEMMA StepIsMailStep ==
    ASSUME Inv, [Next]_vars
    PROVE  Inv' /\ [Box!MailNext]_(Box!mailVars)
  <1>. DEFINE Q == Queued(queue)
  <1>1. CASE UNCHANGED vars
    <2>1. /\ queue' = queue /\ msg' = msg /\ Busy' = Busy
          /\ (pc = "off" <=> pc' = "off")
      BY <1>1 DEF vars, Busy
    <2>. QED
      BY <2>1, OtherStep
  <1>2. ASSUME NEW m \in Elements, Arch_PostMsg(m)
        PROVE  Inv' /\ Box!MailNext
    <2>1. /\ queue' = QUEUE_add(queue, m).q /\ msg' = msg /\ Busy' = Busy
          /\ pc # "off" /\ pc' # "off"
      BY <1>2 DEF Arch_PostMsg, loopVars, Busy
    <2>. QED
      BY <2>1, PostStep DEF Box!MailNext
  <1>3. ASSUME NEW n \in Nodes, Arch_MsgIfAdd(n) \/ Arch_MsgIfRemove(n)
        PROVE  Inv' /\ UNCHANGED Box!mailVars
    <2>1. /\ queue' = queue /\ msg' = msg /\ Busy' = Busy
          /\ (pc = "off" <=> pc' = "off")
      BY <1>3 DEF Arch_MsgIfAdd, Arch_MsgIfRemove, loopVars, Busy
    <2>. QED
      BY <2>1, OtherStep
  <1>4. CASE TakeMessage
    <2>1. /\ ~Busy /\ queue' = queue /\ msg' = QUEUE_getHead(queue)
          /\ pc # "off" /\ pc' # "off"
      BY <1>4 DEF TakeMessage, Busy
    <2>2. Queued(queue)' = Q /\ Valid(queue)' = Valid(queue) /\ Valid(queue)
      BY <2>1 DEF Queued, QUEUE_getElementCount, SlotOf, Valid, Inv
    <2>3. CASE msg' = <<>>
      <3>1. ~Busy' /\ Q = <<>>
        <4>1. Q # <<>> => QUEUE_getHead(queue) = <<Head(Q)>>
          BY <2>2, HeadAndTail
        <4>2. pc' = "run"
          BY <1>4, <2>3 DEF TakeMessage
        <4>. QED
          BY <2>1, <2>3, <4>1, <4>2, SingletonIsSomething DEF Busy
      <3>. QED
        BY <2>1, <2>2, <3>1 DEF Inv, Box!mailVars
    <2>4. CASE msg' # <<>>
      <3>1. Busy' /\ Q # <<>> /\ msg' = <<Head(Q)>>
        BY <1>4, <2>1, <2>2, <2>4, HeadAndTail DEF TakeMessage, Busy
      <3>. QED
        BY <2>1, <2>2, <3>1 DEF Inv, Box!MailNext, Box!Take
    <2>. QED
      BY <2>3, <2>4
  <1>5. CASE HandlerReturns
    <2>1. /\ queue' = queue /\ msg' = msg /\ Busy' = Busy
          /\ (pc = "off" <=> pc' = "off")
      BY <1>5 DEF HandlerReturns, Busy
    <2>. QED
      BY <2>1, OtherStep
  <1>6. CASE RemoveMessage
    <2>1. /\ Busy /\ ~Busy' /\ queue' = QUEUE_removeHead(queue)
          /\ pc # "off" /\ pc' # "off"
      BY <1>6 DEF RemoveMessage, Busy
    <2>2. Valid(queue') /\ Queued(queue') = Tail(Q) /\ msg # <<>>
      BY <2>1, HeadAndTail, SingletonIsSomething DEF Inv
    <2>3. Queued(queue)' = Queued(queue') /\ Valid(queue)' = Valid(queue')
      BY DEF Queued, QUEUE_getElementCount, SlotOf, Valid
    <2>. QED
      BY <2>1, <2>2, <2>3 DEF Inv, Box!MailNext, Box!Free
  <1>7. CASE RunReturns \/ WalkEnds
    <2>1. /\ queue' = queue /\ msg' = msg /\ Busy' = Busy
          /\ (pc = "off" <=> pc' = "off")
      BY <1>7 DEF RunReturns, WalkEnds, Busy
    <2>. QED
      BY <2>1, OtherStep
  <1>8. ASSUME NEW k \in 0..ReadMax, NEW data \in [1..k -> Bytes], Shell_Run(data)
        PROVE  Inv' /\ UNCHANGED Box!mailVars
    <2>1. /\ queue' = queue /\ msg' = msg /\ Busy' = Busy
          /\ (pc = "off" <=> pc' = "off")
      BY <1>8 DEF Shell_Run, Busy
    <2>. QED
      BY <2>1, OtherStep
  <1>9. ASSUME NEW cmd \in Commands, CmdLine_AddStrEx(cmd)
        PROVE  Inv' /\ [Box!MailNext]_(Box!mailVars)
    <2>1. /\ msg' = msg /\ Busy' = Busy
          /\ pc # "off" /\ pc' # "off"
      BY <1>9 DEF CmdLine_AddStrEx, Busy
    <2>2. CASE queue' = queue
      BY <2>1, <2>2, OtherStep
    <2>3. ASSUME NEW m \in Elements, queue' = QUEUE_add(queue, m).q
          PROVE  Inv' /\ Box!MailNext
      BY <2>1, <2>3, PostStep DEF Box!MailNext
    <2>. QED
      BY <1>9, <2>2, <2>3 DEF CmdLine_AddStrEx
  <1>10. CASE PowerOff
    <2>1. queue' = QUEUE_init /\ ~Busy' /\ pc' = "off"
      BY <1>10 DEF PowerOff, Busy
    <2>2. Queued(queue)' = Queued(queue') /\ Valid(queue)' = Valid(queue')
      BY DEF Queued, QUEUE_getElementCount, SlotOf, Valid
    <2>. QED
      BY <2>1, <2>2, InitHoldsNothing DEF Inv, Box!MailNext, Box!PowerLoss
  <1>11. CASE Arch_Init
    <2>1. queue' = QUEUE_init /\ ~Busy /\ ~Busy' /\ pc = "off" /\ pc' = "top"
      BY <1>11 DEF Arch_Init, Busy
    <2>2. Queued(queue)' = Queued(queue') /\ Valid(queue)' = Valid(queue')
      BY DEF Queued, QUEUE_getElementCount, SlotOf, Valid
    <2>. QED
      BY <2>1, <2>2, InitHoldsNothing DEF Inv, Box!MailNext, Box!PowerUp
  <1>. QED
    BY <1>1, <1>2, <1>3, <1>4, <1>5, <1>6, <1>7, <1>8, <1>9, <1>10, <1>11
       DEF Next, LoopStep

\* The loop starts with an empty mailbox.
LEMMA StartsEmpty == Init => Inv /\ Box!MailInit
  BY InitHoldsNothing DEF Init, Inv, Busy, Box!MailInit

\* The message being handled stays the head of the queue until it is removed.
THEOREM HeadStaysInPlace == Spec => []HeadKept
  <1>1. Inv => HeadKept
    BY HeadAndTail, SingletonIsSomething DEF Inv, HeadKept, Busy
  <1>2. Init => Inv
    BY StartsEmpty
  <1>3. Inv /\ [Next]_vars => Inv'
    BY StepIsMailStep
  <1>. QED
    BY <1>1, <1>2, <1>3, PTL DEF Spec

\* The loop delivers every accepted message once and in order.
THEOREM LoopImplementsMailbox == Spec => DeliversInOrder
  <1>1. Init => Inv /\ Box!MailInit
    BY StartsEmpty
  <1>2. Inv /\ [Next]_vars => Inv' /\ [Box!MailNext]_(Box!mailVars)
    BY StepIsMailStep
  <1>. QED
    BY <1>1, <1>2, PTL DEF Spec, DeliversInOrder, Box!MailSpec
-----------------------------------------------------------------------------
\* SilentStaysSilent is not inductive: the command that stores the switch as on
\* must not run while the output is off.  It cannot, since no byte is typed then.
SilentInv ==
    /\ console = [index |-> console.index, len |-> console.len,
                  on |-> console.on, stored |-> console.stored]
    /\ console.on \in BOOLEAN /\ console.stored \in BOOLEAN
    /\ SilentStaysSilent
    /\ typed # <<>> => console.on /\ pc # "off"

\* What a poll of the UART does to the switch: only a match changes it.
LEMMA ScannedSwitch ==
    ASSUME NEW data, SilentInv
    PROVE  LET c == Scanned(console, data)
           IN  /\ c = [index |-> c.index, len |-> c.len, on |-> c.on, stored |-> c.stored]
               /\ c.on \in BOOLEAN /\ c.stored \in BOOLEAN
               /\ ~c.on => ~c.stored
               /\ Typed(console, data) => c.on
  <1> DEFINE hits == Hits(console.index, data)
  <1>1. CASE hits = {}
    <2> DEFINE seen == Indices(console.index, data)[Len(data)]
    <2>1. Scanned(console, data) = [console EXCEPT !.index = seen]
      BY <1>1 DEF Scanned
    <2> HIDE DEF seen
    <2>. QED
      BY <2>1 DEF SilentInv, SilentStaysSilent, Typed
  <1>2. CASE hits # {}
    <2>1. PICK b : Scanned(console, data) = Switched([console EXCEPT !.index = MaskLen], b)
      BY <1>2 DEF Scanned
    <2>2. ~Typed(console, data)
      BY <1>2 DEF Typed
    <2> DEFINE c == [console EXCEPT !.index = MaskLen]
    <2>3. /\ c = [index |-> c.index, len |-> c.len, on |-> c.on, stored |-> c.stored]
          /\ c.on = console.on /\ c.stored = console.stored
      BY DEF SilentInv
    <2> HIDE DEF c
    <2>4. LET s == Switched(c, b)
          IN  /\ s = [index |-> s.index, len |-> s.len, on |-> s.on, stored |-> s.stored]
              /\ s.on \in BOOLEAN /\ s.stored \in BOOLEAN /\ (~s.on => ~s.stored)
      BY <2>3 DEF Switched, SilentInv, SilentStaysSilent
    <2>. QED
      BY <2>1, <2>2, <2>4 DEF c
  <1>. QED
    BY <1>1, <1>2

\* Every step keeps the switch and what a restart will find of it in agreement.
LEMMA SilentStep == SilentInv /\ [Next]_vars => SilentInv'
  <1> SUFFICES ASSUME SilentInv, [Next]_vars PROVE SilentInv'
    OBVIOUS
  <1>1. ASSUME UNCHANGED shellVars, pc' = "off" => pc = "off" PROVE SilentInv'
    BY <1>1 DEF shellVars, SilentInv, SilentStaysSilent
  <1>2. ASSUME NEW data, Shell_Run(data) PROVE SilentInv'
    BY <1>2, ScannedSwitch DEF Shell_Run, SilentInv, SilentStaysSilent
  <1>3. ASSUME NEW cmd, CmdLine_AddStrEx(cmd) PROVE SilentInv'
    <2>1. PICK b : console' = CmdLine_AddByte(console, b, cmd)
      BY <1>3 DEF CmdLine_AddStrEx
    <2>2. console.on
      BY <1>3 DEF CmdLine_AddStrEx, SilentInv
    <2> DEFINE length == LineWithByte(console, b)
    <2>3. /\ console' = [index |-> console'.index, len |-> console'.len,
                         on |-> console'.on, stored |-> console'.stored]
          /\ console'.on = console.on /\ console'.stored \in BOOLEAN
      <3>1. CASE Ends(b)
        BY <2>1, <3>1 DEF CmdLine_AddByte, Executed, SilentInv
      <3>2. CASE ~Ends(b)
        <4>1. console' = [console EXCEPT !.len = length]
          BY <2>1, <3>2 DEF CmdLine_AddByte
        <4> HIDE DEF length
        <4>. QED
          BY <4>1 DEF SilentInv
      <3>. QED
        BY <3>1, <3>2
    <2>4. pc # "off" /\ pc' # "off"
      BY <1>3 DEF CmdLine_AddStrEx
    <2>. QED
      BY <2>2, <2>3, <2>4 DEF SilentInv, SilentStaysSilent
  <1>4. CASE PowerOff \/ Arch_Init
    <2>1. console' = [index |-> 0, len |-> 0, on |-> console.stored, stored |-> console.stored]
      BY <1>4 DEF PowerOff, Arch_Init, Shell_Init
    <2>2. typed' = <<>>
      BY <1>4 DEF PowerOff, Arch_Init, SilentInv
    <2>. QED
      BY <2>1, <2>2 DEF SilentInv, SilentStaysSilent
  <1>5. ASSUME NEW m, Arch_PostMsg(m) PROVE SilentInv'
    BY <1>1, <1>5 DEF Arch_PostMsg, loopVars
  <1>6. ASSUME NEW n, Arch_MsgIfAdd(n) \/ Arch_MsgIfRemove(n) PROVE SilentInv'
    BY <1>1, <1>6 DEF Arch_MsgIfAdd, Arch_MsgIfRemove, loopVars
  <1>7. CASE TakeMessage \/ HandlerReturns \/ RemoveMessage \/ RunReturns \/ WalkEnds
    BY <1>1, <1>7 DEF TakeMessage, HandlerReturns, RemoveMessage, RunReturns, WalkEnds
  <1>. QED
    BY <1>1, <1>2, <1>3, <1>4, <1>5, <1>6, <1>7 DEF Next, LoopStep, vars, shellVars

\* Output that was switched off is off after a restart.
THEOREM SilenceIsKept == Spec => []SilentStaysSilent
  <1>1. Init => SilentInv
    BY DEF Init, Shell_Init, SilentInv, SilentStaysSilent
  <1>2. SilentInv => SilentStaysSilent
    BY DEF SilentInv
  <1>. QED
    BY <1>1, <1>2, SilentStep, PTL DEF Spec
-----------------------------------------------------------------------------
\* The interfaces are a list, of whatever nodes, until one is added that is in it
\* already, and the walk is at a node: one that was taken out leads nowhere, one
\* that is in leads on.
InterfacesInv ==
    /\ links \in Links /\ hung \in BOOLEAN
    /\ head \in Nodes \cup {Null} /\ node \in Nodes \cup {Null}
    /\ ~hung /\ ~Looped => \E M : ListOf(links, head, M)

\* Nothing is in the list before an interface is added.
LEMMA InterfacesStart == Init => InterfacesInv
  BY EmptyList, ListReads DEF Init, InterfacesInv

\* The links have a node, or none, in each place, and a place may be overwritten.
LEMMA LinkFields ==
    ASSUME NEW l \in Links
    PROVE  /\ \A n \in Nodes : l.next[n] \in Nodes \cup {Null}
           /\ \A n \in Nodes, v \in Nodes \cup {Null} :
                  /\ [l EXCEPT !.next[n] = v] \in Links
                  /\ [l EXCEPT !.next[n] = v, !.pre[n] = v] \in Links
  BY DEF Links

\* Adding an interface extends the list, or one that is in it already leaves the
\* loop without an end.
LEMMA InterfaceAdded ==
    ASSUME InterfacesInv, NEW n \in Nodes, Arch_MsgIfAdd(n)
    PROVE  InterfacesInv'
  <1>1. ~hung /\ node' = node
    BY DEF Arch_MsgIfAdd, InCallback, loopVars
  <1>2. CASE ~Looped /\ (head = Null \/ (n # head /\ TailIsFound(n)))
    <2>1. PICK M : ListOf(links, head, M)
      BY <1>1, <1>2 DEF InterfacesInv
    <2>2. n \notin M
      BY <1>2, <2>1, ListReads DEF TailIsFound
    <2>3. /\ head = Null => ListOf(links, n, M \cup {n})
          /\ head # Null => ListOf(List_AddTail(links, head, n).links, head, M \cup {n})
      BY <2>1, <2>2, ListAdds
    <2>4. ListOf(links', head', M \cup {n}) /\ hung' = FALSE
      BY <1>1, <1>2, <2>3 DEF Arch_MsgIfAdd, InterfacesInv
    <2>. QED
      BY <1>1, <2>4, ListReads DEF InterfacesInv
  <1>3. CASE head # Null /\ n = head
    <2>1. /\ links' = [links EXCEPT !.next[n] = n, !.pre[n] = n]
          /\ head' = head /\ hung' = hung
      BY <1>3 DEF Arch_MsgIfAdd
    <2>2. links' \in Links
      BY <2>1, LinkFields DEF InterfacesInv
    <2>3. links'.next[n] = n
      BY <2>1 DEF InterfacesInv, Links
    <2>4. Looped'
      BY <1>3, <2>1, <2>3 DEF Looped
    <2>. QED
      BY <1>1, <2>1, <2>2, <2>4 DEF InterfacesInv
  <1>4. CASE head # Null /\ n # head /\ ~TailIsFound(n)
    <2>1. /\ links' = [links EXCEPT !.next[n] = Null]
          /\ head' = head /\ hung' = TRUE
      BY <1>4 DEF Arch_MsgIfAdd
    <2>2. links' \in Links
      BY <2>1, LinkFields DEF InterfacesInv
    <2>. QED
      BY <1>1, <2>1, <2>2 DEF InterfacesInv
  <1>. QED
    BY <1>2, <1>3, <1>4 DEF Arch_MsgIfAdd, TailIsFound, Looped

\* Removing an interface leaves a list, or hangs where there is none.
LEMMA InterfaceRemoved ==
    ASSUME InterfacesInv, NEW n \in Nodes, Arch_MsgIfRemove(n)
    PROVE  InterfacesInv'
  <1>1. ~hung /\ node' = node
    BY DEF Arch_MsgIfRemove, InCallback, loopVars
  <1>2. CASE ~Looped
    <2>1. PICK M : ListOf(links, head, M)
      BY <1>1, <1>2 DEF InterfacesInv
    <2>2. n \in M
      BY <1>2, <2>1, ListReads DEF Arch_MsgIfRemove
    <2>3. ListOf(List_Remove(links, n).links, List_Remove(links, n).head, M \ {n})
      BY <2>1, <2>2, ListRemoves
    <2>4. ListOf(links', head', M \ {n}) /\ hung' = hung
      BY <1>2, <2>3 DEF Arch_MsgIfRemove
    <2>5. M \ {n} \subseteq Nodes /\ links' \in Links /\ head' \in (M \ {n}) \cup {Null}
      BY <2>4, ListReads
    <2>. QED
      BY <1>1, <2>4, <2>5 DEF InterfacesInv
  <1>3. CASE Looped
    BY <1>1, <1>3 DEF Arch_MsgIfRemove, InterfacesInv
  <1>. QED
    BY <1>2, <1>3

\* The walk and the Run functions leave a list behind, whoever they take out.
LEMMA InterfacesStep == InterfacesInv /\ [Next]_vars => InterfacesInv'
  <1> SUFFICES ASSUME InterfacesInv, [Next]_vars PROVE InterfacesInv'
    OBVIOUS
  <1>1. \A n \in Nodes : links.next[n] \in Nodes \cup {Null}
    BY LinkFields DEF InterfacesInv
  <1>2. ASSUME UNCHANGED listVars, node' \in Nodes \cup {Null} PROVE InterfacesInv'
    BY <1>2 DEF listVars, InterfacesInv, Looped
  <1>3. ASSUME NEW n \in Nodes, Arch_MsgIfAdd(n) \/ Arch_MsgIfRemove(n) PROVE InterfacesInv'
    BY <1>3, InterfaceAdded, InterfaceRemoved
  <1>4. CASE TakeMessage \/ RemoveMessage \/ RunReturns
    BY <1>1, <1>2, <1>4 DEF TakeMessage, RemoveMessage, RunReturns, InterfacesInv
  <1>5. CASE HandlerReturns \/ WalkEnds \/ Arch_Init
    BY <1>2, <1>5 DEF HandlerReturns, WalkEnds, Arch_Init, InterfacesInv
  <1>6. ASSUME NEW data, Shell_Run(data) PROVE InterfacesInv'
    BY <1>2, <1>6 DEF Shell_Run, InterfacesInv
  <1>7. ASSUME NEW cmd, CmdLine_AddStrEx(cmd) PROVE InterfacesInv'
    BY <1>2, <1>7 DEF CmdLine_AddStrEx, InterfacesInv
  <1>8. ASSUME NEW m, Arch_PostMsg(m) PROVE InterfacesInv'
    BY <1>2, <1>8 DEF Arch_PostMsg, loopVars, InterfacesInv
  <1>9. CASE PowerOff
    BY <1>9, EmptyList, ListReads DEF PowerOff, InterfacesInv
  <1>10. CASE UNCHANGED vars
    BY <1>2, <1>10 DEF vars, listVars, InterfacesInv
  <1>. QED
    BY <1>3, <1>4, <1>5, <1>6, <1>7, <1>8, <1>9, <1>10 DEF Next, LoopStep

\* Handlers and Run functions that add and remove interfaces, themselves and
\* the head included, leave a well-formed list, until one of them adds an
\* interface that is in it (Arch_MsgIfAdd, Arch_MsgIfRemove).
THEOREM InterfacesStayAList == Spec => []InterfacesAreAList
  <1>1. InterfacesInv => InterfacesAreAList
    BY ListReads DEF InterfacesInv, InterfacesAreAList
  <1>. QED
    BY <1>1, InterfacesStart, InterfacesStep, PTL DEF Spec
-----------------------------------------------------------------------------
\* One byte moves the count of what was seen of the word within the mask.
LEMMA MatchedInRange ==
    ASSUME NEW k \in 0..MaskLen, NEW b PROVE Matched(k, b) \in 0..MaskLen
  <1>1. Len(Word) \in Nat /\ MaskLen = Len(Word) + 1 /\ k \in Nat
    BY ConsoleAssumption DEF MaskLen
  <1>. QED
    BY <1>1 DEF Matched

\* However the bytes come in pieces, the count of what was seen of the word
\* stays within the mask.
LEMMA IndicesInRange ==
    ASSUME NEW k \in 0..MaskLen, NEW data, Len(data) \in Nat
    PROVE  \A i \in 0..Len(data) : Indices(k, data)[i] \in 0..MaskLen
  <1> DEFINE n == Len(data)
             Seen(m, f) == [i \in 0..m |-> IF i = 0 THEN k ELSE Matched(f[i - 1], data[i])]
             S == {m \in Nat : \E f : f = Seen(m, f)}
             F == CHOOSE f : f = Seen(n, f)
             T == {m \in Nat : m <= n => F[m] \in 0..MaskLen}
  <1>1. Indices(k, data) = F
    BY Zenon DEF Indices
  <1>2. 0 \in S
    <2> DEFINE f == [i \in 0..0 |-> k]
    <2>1. \A i \in 0..0 : (IF i = 0 THEN k ELSE Matched(f[i - 1], data[i])) = k
      OBVIOUS
    <2>2. f = Seen(0, f)
      BY <2>1
    <2>. QED
      BY <2>2, Zenon
  <1>3. ASSUME NEW m \in Nat, m \in S PROVE m + 1 \in S
    <2>1. PICK f : f = Seen(m, f)
      BY <1>3
    <2>2. \A i \in 0..m : f[i] = IF i = 0 THEN k ELSE Matched(f[i - 1], data[i])
      BY <2>1, Zenon
    <2> DEFINE g == [i \in 0..(m + 1) |-> IF i = m + 1 THEN Matched(f[m], data[i]) ELSE f[i]]
    <2>3. ASSUME NEW i \in 0..(m + 1)
          PROVE  g[i] = IF i = 0 THEN k ELSE Matched(g[i - 1], data[i])
      <3>1. CASE i = m + 1
        <4>1. m \in 0..(m + 1) /\ m # m + 1 /\ i # 0 /\ i - 1 = m
          BY <3>1
        <4>2. g[m] = f[m] /\ g[i] = Matched(f[m], data[i])
          BY <3>1, <4>1
        <4>. QED
          BY <4>1, <4>2
      <3>2. CASE i # m + 1
        <4>1. i \in 0..m /\ g[i] = f[i]
          BY <3>2
        <4>2. i # 0 => i - 1 \in 0..(m + 1) /\ i - 1 # m + 1
          OBVIOUS
        <4>3. i # 0 => g[i - 1] = f[i - 1]
          BY <4>2
        <4>. QED
          BY <2>2, <4>1, <4>3
      <3>. QED
        BY <3>1, <3>2
    <2>4. g = [i \in 0..(m + 1) |-> g[i]]
      OBVIOUS
    <2> HIDE DEF g
    <2>5. g = Seen(m + 1, g)
      BY <2>3, <2>4, Zenon
    <2>6. m + 1 \in Nat
      OBVIOUS
    <2>. QED
      BY <2>5, <2>6, Zenon
  <1> HIDE DEF S
  <1>4. n \in S
    BY <1>2, <1>3, SetInduction
  <1>5. F = Seen(n, F)
    BY <1>4, Zenon DEF S
  <1> HIDE DEF F
  <1>6. \A i \in 0..n : F[i] = IF i = 0 THEN k ELSE Matched(F[i - 1], data[i])
    BY <1>5, Zenon
  <1>7. 0 \in T
    BY <1>6
  <1>8. ASSUME NEW m \in Nat, m \in T PROVE m + 1 \in T
    <2> SUFFICES ASSUME m + 1 <= n PROVE F[m + 1] \in 0..MaskLen
      OBVIOUS
    <2>1. m + 1 \in 0..n /\ m + 1 # 0 /\ (m + 1) - 1 = m /\ m <= n
      OBVIOUS
    <2>2. F[m + 1] = Matched(F[m], data[m + 1])
      BY <1>6, <2>1
    <2>3. F[m] \in 0..MaskLen
      BY <1>8, <2>1
    <2>. QED
      BY <2>2, <2>3, MatchedInRange
  <1> HIDE DEF T
  <1>9. Nat \subseteq T
    BY <1>7, <1>8, SetInduction
  <1>. QED
    BY <1>1, <1>9 DEF T

\* A poll of the UART keeps the console in range.
LEMMA ScannedType ==
    ASSUME NEW c \in Consoles, NEW data, Len(data) \in Nat \ {0}
    PROVE  Scanned(c, data) \in Consoles
  <1>1. c.index \in 0..MaskLen /\ MaskLen \in 0..MaskLen
    BY ConsoleAssumption DEF Consoles, MaskLen
  <1> DEFINE seen == Indices(c.index, data)[Len(data)]
  <1>2. seen \in 0..MaskLen
    BY <1>1, IndicesInRange
  <1> HIDE DEF seen
  <1>3. [c EXCEPT !.index = seen] \in Consoles
    BY <1>2 DEF Consoles
  <1>4. ASSUME NEW b PROVE Switched([c EXCEPT !.index = MaskLen], b) \in Consoles
    <2> DEFINE d == [c EXCEPT !.index = MaskLen]
    <2>1. d \in Consoles
      BY <1>1 DEF Consoles
    <2> HIDE DEF d
    <2>2. Switched(d, b) \in Consoles
      BY <2>1 DEF Switched, Consoles
    <2>. QED
      BY <2>2 DEF d
  <1>. QED
    BY <1>3, <1>4 DEF Scanned, seen

\* A byte of a line, and the command it may end, keep the console in range.
LEMMA AddedType ==
    ASSUME NEW c \in Consoles, NEW b, NEW cmd
    PROVE  CmdLine_AddByte(c, b, cmd) \in Consoles
  <1>1. MaxLine \in Nat \ {0} /\ 0 \in 0..MaxLine /\ c.len \in 0..MaxLine
    BY ConsoleAssumption DEF Consoles
  <1>2. LineWithByte(c, b) \in 0..MaxLine
    BY <1>1 DEF LineWithByte
  <1>3. Executed(c, cmd) \in Consoles
    BY DEF Executed, Consoles
  <1> DEFINE d == Executed(c, cmd)
  <1> HIDE DEF d
  <1>4. d \in Consoles => [d EXCEPT !.len = 0] \in Consoles
    BY <1>1 DEF Consoles
  <1> DEFINE m == LineWithByte(c, b)
  <1> HIDE DEF m
  <1>5. m \in 0..MaxLine => [c EXCEPT !.len = m] \in Consoles
    BY DEF Consoles
  <1>. QED
    BY <1>2, <1>3, <1>4, <1>5 DEF CmdLine_AddByte, d, m
-----------------------------------------------------------------------------
\* The message in the hands of the loop, if any.
OneLetter == {<<>>} \cup {<<e>> : e \in Elements}

\* What is queued was posted, which no look at the buffer shows: the mailbox
\* that the loop implements tells.
MailType ==
    /\ (IF Busy THEN Tail(Queued(queue)) ELSE Queued(queue)) \in Seq(Elements)
    /\ msg \in OneLetter /\ (~Busy => msg = <<>>)

\* Where the loop is, and what its console holds.
LoopType ==
    /\ pc \in {"off", "top", "handle", "remove", "run", "shell"}
    /\ console \in Consoles
    /\ typed \in Seq(Bytes) /\ Len(typed) <= ReadMax

\* Only what was posted is queued or handled.
LEMMA MailTypeStep ==
    ASSUME Inv, MailType, [Next]_vars PROVE MailType'
  <1> DEFINE P == IF Busy THEN Tail(Queued(queue)) ELSE Queued(queue)
             T == IF Busy THEN msg ELSE <<>>
  <1>1. P \in Seq(Elements) /\ T \in OneLetter
    BY DEF MailType, OneLetter
  <1>2. [Box!MailNext]_(Box!mailVars)
    BY StepIsMailStep
  <1>3. \/ UNCHANGED <<P, T>>
        \/ T' = <<Head(P)>> /\ P # <<>> /\ P' = Tail(P)
        \/ T' = <<>> /\ P' \in {P, <<>>}
        \/ \E m \in Elements : P' \in {Append(P, m), P} /\ T' = T
    BY <1>2 DEF Box!MailNext, Box!mailVars, Box!Take, Box!Free, Box!PowerLoss,
                Box!PowerUp, Box!Post
  <1> HIDE DEF P, T
  <1>4. P' \in Seq(Elements) /\ T' \in OneLetter
    <2>1. P # <<>> => Head(P) \in Elements /\ Tail(P) \in Seq(Elements)
      BY <1>1, HeadTailProperties
    <2>2. \A m \in Elements : Append(P, m) \in Seq(Elements)
      BY <1>1, AppendProperties
    <2>3. <<>> \in Seq(Elements) /\ <<>> \in OneLetter
      BY DEF OneLetter
    <2>4. CASE T' = <<Head(P)>> /\ P # <<>> /\ P' = Tail(P)
      BY <2>1, <2>4 DEF OneLetter
    <2>5. CASE T' = <<>> /\ P' \in {P, <<>>}
      BY <1>1, <2>3, <2>5
    <2>6. CASE \E m \in Elements : P' \in {Append(P, m), P} /\ T' = T
      BY <1>1, <2>2, <2>6
    <2>7. CASE UNCHANGED <<P, T>>
      BY <1>1, <2>7
    <2>. QED
      BY <1>3, <2>4, <2>5, <2>6, <2>7
  <1>5. ~Busy' => msg' = <<>>
    <2>1. CASE LoopStep
      BY <2>1 DEF LoopStep, TakeMessage, HandlerReturns, RemoveMessage, RunReturns,
                  WalkEnds, Shell_Run, CmdLine_AddStrEx, Busy, MailType
    <2>2. CASE PowerOff \/ Arch_Init
      BY <2>2 DEF PowerOff, Arch_Init, Busy, MailType
    <2>3. ASSUME UNCHANGED <<pc, msg>> PROVE ~Busy' => msg' = <<>>
      BY <2>3 DEF Busy, MailType
    <2>. QED
      BY <2>1, <2>2, <2>3 DEF Next, Arch_PostMsg, Arch_MsgIfAdd, Arch_MsgIfRemove, loopVars, vars
  <1>6. msg' \in OneLetter
    BY <1>4, <1>5 DEF T, OneLetter
  <1>. QED
    BY <1>4, <1>5, <1>6 DEF MailType, P

\* The loop and its console stay in range.
LEMMA LoopTypeStep ==
    ASSUME LoopType, [Next]_vars PROVE LoopType'
  <1>1. ASSUME pc' \in {"off", "top", "handle", "remove", "run", "shell"}, UNCHANGED shellVars
        PROVE  LoopType'
    BY <1>1 DEF LoopType, shellVars
  <1>2. /\ <<>> \in Seq(Bytes) /\ Len(<<>>) <= ReadMax
        /\ \A stored \in BOOLEAN : Shell_Init(stored) \in Consoles
    BY LoopAssumption, ConsoleAssumption DEF Shell_Init, Consoles, MaskLen
  <1>3. ASSUME NEW k \in 0..ReadMax, NEW data \in [1..k -> Bytes], Shell_Run(data)
        PROVE  LoopType'
    <2>1. data \in Seq(Bytes) /\ Len(data) = k /\ k \in Nat /\ k <= ReadMax
      BY LoopAssumption
    <2>2. data # <<>> => Len(data) \in Nat \ {0}
      BY <2>1, EmptySeq
    <2>3. console' \in Consoles
      BY <1>3, <2>2, ScannedType DEF Shell_Run, LoopType
    <2>4. typed' \in {data, <<>>} /\ pc' \in {"top", pc}
      BY <1>3 DEF Shell_Run
    <2>. QED
      BY <1>2, <2>1, <2>3, <2>4 DEF LoopType
  <1>4. ASSUME NEW cmd, CmdLine_AddStrEx(cmd) PROVE LoopType'
    <2>1. console' \in Consoles
      BY <1>4, AddedType DEF CmdLine_AddStrEx, LoopType
    <2>2. typed' = Tail(typed) /\ typed # <<>> /\ typed \in Seq(Bytes) /\ Len(typed) <= ReadMax
      BY <1>4 DEF CmdLine_AddStrEx, LoopType
    <2>3. Tail(typed) \in Seq(Bytes) /\ Len(Tail(typed)) = Len(typed) - 1 /\ Len(typed) \in Nat
      BY <2>2, HeadTailProperties
    <2>4. typed' \in Seq(Bytes) /\ Len(typed') <= ReadMax
      BY <2>2, <2>3, LoopAssumption
    <2>5. pc' \in {"top", pc}
      BY <1>4 DEF CmdLine_AddStrEx
    <2>. QED
      BY <2>1, <2>4, <2>5 DEF LoopType
  <1>5. CASE PowerOff \/ Arch_Init
    <2>1. console' \in Consoles
      BY <1>2, <1>5 DEF PowerOff, Arch_Init, LoopType, Consoles
    <2>. QED
      BY <1>2, <1>5, <2>1 DEF PowerOff, Arch_Init, LoopType
  <1>6. CASE TakeMessage \/ HandlerReturns \/ RemoveMessage \/ RunReturns \/ WalkEnds
    BY <1>1, <1>6 DEF TakeMessage, HandlerReturns, RemoveMessage, RunReturns, WalkEnds, LoopType
  <1>7. ASSUME NEW m, Arch_PostMsg(m) PROVE LoopType'
    BY <1>1, <1>7 DEF Arch_PostMsg, loopVars, LoopType
  <1>8. ASSUME NEW n, Arch_MsgIfAdd(n) \/ Arch_MsgIfRemove(n) PROVE LoopType'
    BY <1>1, <1>8 DEF Arch_MsgIfAdd, Arch_MsgIfRemove, loopVars, LoopType
  <1>. QED
    BY <1>1, <1>3, <1>4, <1>5, <1>6, <1>7, <1>8 DEF Next, LoopStep, vars, shellVars, LoopType

\* The type invariant: the walk stays among the interfaces, the line within its
\* buffer, and what the loop hands to handlers are messages that were posted.
THEOREM LoopTypeCorrect == Spec => []TypeOK
  <1> DEFINE All == Inv /\ InterfacesInv /\ MailType /\ LoopType
  <1>1. Init => All
    <2> SUFFICES ASSUME Init PROVE All
      OBVIOUS
    <2>1. Inv /\ Queued(queue) = <<>> /\ ~Busy /\ InterfacesInv
      BY StartsEmpty, InterfacesStart, InitHoldsNothing DEF Init, Busy
    <2>2. MailType
      BY <2>1 DEF MailType, OneLetter, Init
    <2>3. LoopType
      BY LoopAssumption, ConsoleAssumption DEF Init, LoopType, Shell_Init, Consoles, MaskLen
    <2>. QED
      BY <2>1, <2>2, <2>3
  <1>2. All /\ [Next]_vars => All'
    BY StepIsMailStep, InterfacesStep, MailTypeStep, LoopTypeStep
  <1>3. All => TypeOK
    <2> SUFFICES ASSUME All PROVE TypeOK
      OBVIOUS
    <2>1. links \in Links /\ head \in Nodes \cup {Null} /\ hung \in BOOLEAN
      BY DEF InterfacesInv
    <2>2. typed \in UNION {[1..k -> Bytes] : k \in 0..ReadMax}
      <3>1. /\ typed \in [1..Len(typed) -> Bytes] /\ Len(typed) \in Nat
            /\ Len(typed) <= ReadMax
        BY DEF LoopType
      <3>2. Len(typed) \in 0..ReadMax
        BY <3>1, LoopAssumption
      <3>. QED
        BY <3>1, <3>2
    <2>. QED
      BY <2>1, <2>2 DEF Inv, Valid, InterfacesInv, MailType, OneLetter, LoopType, TypeOK
  <1>. QED
    BY <1>1, <1>2, <1>3, PTL DEF Spec
=============================================================================
