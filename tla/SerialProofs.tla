----------------------------- MODULE SerialProofs ------------------------------
(***************************************************************************)
(* The listener never outlives the handles it uses; and, unless the line or *)
(* the user disturbs it, an answer fits the buffer of the test.  For every  *)
(* size of a read and of an answer, and any number of tests and faults.     *)
(***************************************************************************)
EXTENDS TesterWindow, TLAPS

(* Nothing closes a handle but CSerialWnd::Close, which asks m_hThread whether
   there is a listener to be waited for: it must know of one that runs, and of
   none when the port is opened for another one. *)
IHandles ==
    /\ Alive => hThread
    /\ ui = "opening" => ~hThread

(* What is shown of a step. *)
HandlesStay == IHandles' /\ HandlesKept

(* The variables the handles are kept in, and the listener. *)
handleVars == <<file, hThread, hevt, listener>>

LEMMA HandlesInit == Init => IHandles
BY DEF Init, ListenerInit, IHandles, Alive

LEMMA HandlesStutter ==
  IHandles /\ UNCHANGED handleVars /\ (ui' = "opening" => ui = "opening") => HandlesStay
BY DEF IHandles, HandlesStay, HandlesKept, Alive, handleVars

(* CSerialWnd::Close leaves the handles to StopListener when a thread runs,
   and may close them itself when there is none. *)
LEMMA HandlesClose ==
  ASSUME IHandles, NEW a, CloseCom(a) PROVE HandlesStay
<1>1. CASE hThread
  BY <1>1, HandlesStutter DEF CloseCom, serialVars, handleVars
<1>2. CASE ~hThread
  BY <1>2 DEF CloseCom, IHandles, HandlesStay, HandlesKept, Alive
<1> QED BY <1>1, <1>2

(* The steps of the window's thread that open the port. *)
LEMMA HandlesOpen ==
  ASSUME IHandles, Open PROVE HandlesStay
<1>1. CASE OpenCom
  <2>1. PICK f \in OpenFaults :
          \/ StartListener(f)
          \/ /\ OpenError(f) # "SUCCESS" /\ SerialOpen(f)
             /\ ui' = "idle" /\ UNCHANGED listenerVars
    BY <1>1 DEF OpenCom
  <2>2. ~Alive
    BY <1>1 DEF OpenCom, IHandles
  <2>3. CASE StartListener(f)
    <3>1. Alive' => hThread'
      BY <2>3 DEF StartListener, Alive
    <3>. QED BY <2>2, <2>3, <3>1 DEF StartListener, IHandles, HandlesStay, HandlesKept
  <2>4. CASE /\ OpenError(f) # "SUCCESS" /\ SerialOpen(f)
             /\ ui' = "idle" /\ UNCHANGED listenerVars
    BY <2>2, <2>4 DEF listenerVars, IHandles, HandlesStay, HandlesKept, Alive
  <2> QED BY <2>1, <2>3, <2>4
<1>2. CASE OpenSucceeds
  BY <1>2, HandlesStutter DEF OpenSucceeds, listenerVars, handleVars
<1>3. CASE OpenReturns
  BY <1>3, HandlesStutter DEF OpenReturns, serialVars, listenerVars, handleVars
<1>4. CASE OpenSetsUp \/ UpdateComUI
  BY <1>4, HandlesStutter
     DEF OpenSetsUp, UpdateComUI, Setup, GetLineParameters, SetResult, listenerVars, handleVars
<1>5. CASE OpenFails
  BY <1>5, HandlesStutter DEF OpenFails, listenerVars, handleVars
<1>6. CASE StartListenerDone
  BY <1>6, HandlesStutter DEF StartListenerDone, listenerVars, handleVars
<1>7. CASE StartListenerReturns
  BY <1>7, HandlesStutter, HandlesClose
     DEF StartListenerReturns, serialVars, listenerVars, handleVars
<1> QED BY <1>1, <1>2, <1>3, <1>4, <1>5, <1>6, <1>7 DEF Open

(* Closing lets go of the handles once the thread has ended. *)
LEMMA HandlesStop ==
  ASSUME IHandles, Close PROVE HandlesStay
<1>1. CASE StopListener
  BY <1>1, HandlesStutter DEF StopListener, SetMaskAgain, listenerVars, handleVars
<1>2. CASE Joined
  BY <1>2 DEF Joined, IHandles, HandlesStay, HandlesKept, Alive
<1> QED BY <1>1, <1>2 DEF Close

(* The thread's own steps may end it, and leave the handles alone. *)
LEMMA HandlesThread ==
  ASSUME IHandles, Thread PROVE HandlesStay
<1>1. Alive /\ UNCHANGED <<file, hThread, hevt, ui>>
  BY DEF Thread, ThreadWaits, WaitFails, WaitCommEvent, ThreadTests, ThreadCannotWait,
         ThreadHandles, EventDropped, TakeEvent, ThreadLoops, Alive, serialVars, uiVars
<1> QED BY <1>1 DEF IHandles, HandlesStay, HandlesKept

(* Messages, the timer and the user's other input do not touch the handles. *)
LEMMA HandlesHandle ==
  ASSUME IHandles, Handle \/ TimerRetrieved \/ OnBnClickedUartTestStart PROVE HandlesStay
<1> USE DEF serialVars, listenerVars, handleVars
<1>1. CASE OnTimer \/ TimerRetrieved
  BY <1>1, HandlesStutter DEF OnTimer, TimerRetrieved
<1>2. CASE ReSend
  BY <1>2, HandlesStutter DEF ReSend, Dispatch, OnTxData, WriteDone, SetResult
<1>3. CASE OnSerialOther \/ OnSerialRecv
  BY <1>3, HandlesStutter DEF OnSerialOther, OnSerialRecv, Dispatch
<1>4. CASE ReadLoop
  BY <1>4, HandlesStutter DEF ReadLoop, ReadDone
<1>5. CASE OnBnClickedUartTestStart
  BY <1>5, HandlesStutter DEF OnBnClickedUartTestStart, OnTxData, WriteDone, SetResult, uiVars
<1> QED BY <1>1, <1>2, <1>3, <1>4, <1>5 DEF Handle

(* A device that is pulled leaves the handle open. *)
LEMMA HandlesEnvironment ==
  ASSUME IHandles, Environment PROVE HandlesStay
<1>1. ASSUME NEW b, Arrives(b) PROVE HandlesStay
  BY <1>1, HandlesStutter DEF Arrives, ByteReceived, serialVars, listenerVars, uiVars, handleVars
<1>2. CASE LineDelivers \/ LineChanges
  BY <1>1, <1>2 DEF LineDelivers, LineChanges
<1>3. CASE LineLoses
  BY <1>3, HandlesStutter DEF LineLoses, serialVars, listenerVars, uiVars, handleVars
<1>4. CASE LineBreaks
  BY <1>4, HandlesStutter DEF LineBreaks, BreakReceived, listenerVars, uiVars, handleVars
<1>5. CASE Unplugged
  BY <1>5 DEF Unplugged, DeviceGone, listenerVars, uiVars, IHandles, HandlesStay, HandlesKept, Alive
<1> QED BY <1>2, <1>3, <1>4, <1>5 DEF Environment

LEMMA HandlesStep == IHandles /\ [Next]_vars => IHandles' /\ [HandlesKept]_vars
<1> SUFFICES ASSUME IHandles, [Next]_vars PROVE HandlesStay
  BY DEF HandlesStay
<1>1. CASE UNCHANGED vars
  BY <1>1, HandlesStutter DEF vars, serialVars, listenerVars, uiVars, handleVars
<1>2. CASE OnCbnSelchangeComNum \/ OnDestroy \/ OnDeviceChange
  BY <1>2, HandlesClose DEF OnCbnSelchangeComNum, OnDestroy, OnDeviceChange
<1> QED
  BY <1>1, <1>2, HandlesOpen, HandlesStop, HandlesHandle, HandlesThread, HandlesEnvironment
     DEF Next, Window, User, Listener

(* Whatever the listener does when it is told to stop, CSerialWnd::Close waits
   for it before it closes the port, the event and the thread's handle
   (CSerialEx::StopListener). *)
THEOREM ListenerHasItsHandles == Spec => HandlesOutliveListener
<1> QED BY HandlesInit, HandlesStep, PTL DEF Spec, HandlesOutliveListener
-----------------------------------------------------------------------------
(* AnswerFits is not inductive: an answer of TestSize bytes fits as long as
   the bytes the port has received (r) and those on the line (l) are the last
   ones of one answer, and the test holds the ones before them, or nothing. *)
OnTheWay(r, l) ==
    /\ r \in Seq(Int) /\ l \in Seq(Int) /\ Len(r) + Len(l) <= TestSize
    /\ \A i \in 1..Len(r) : r[i] = TestSize - Len(r) - Len(l) + i
    /\ \A i \in 1..Len(l) : l[i] = TestSize - Len(l) + i

(* What the test may hold, and what it holds when n bytes of an answer are
   still on the way. *)
Tests == [handler : BOOLEAN, timer : BOOLEAN, resent : Int, data : Seq(Int), found : BOOLEAN]
Collects(t, n) ==
    /\ t \in Tests
    /\ t.found <=> t.data # <<>>
    /\ t.data # <<>> => t.handler /\ Len(t.data) < TestSize /\ Len(t.data) + n = TestSize
    /\ \A i \in 1..Len(t.data) : t.data[i] = i

(* Assigning to the fields of a test. *)
LEMMA TestType ==
    ASSUME NEW u \in Tests, NEW x \in BOOLEAN, NEW y \in BOOLEAN, NEW d \in Seq(Int), NEW k \in Int
    PROVE  [u EXCEPT !.resent = k, !.data = d, !.found = x, !.timer = y] \in Tests
  BY DEF Tests

(* The size of an answer. *)
LEMMA SizeType == TestSize \in Nat /\ TestSize > 0
  BY UartTesterAssumption

(* One piece behind another, index by index. *)
LEMMA Joins ==
    ASSUME NEW a \in Seq(Int), NEW b \in Seq(Int)
    PROVE  /\ a \o b \in Seq(Int) /\ Len(a \o b) = Len(a) + Len(b)
           /\ \A i \in 1..Len(a) : (a \o b)[i] = a[i]
           /\ \A i \in Len(a) + 1..Len(a) + Len(b) : (a \o b)[i] = b[i - Len(a)]
  OBVIOUS

(* All of an answer is on its way when it was sent. *)
LEMMA AnswerSent == OnTheWay(<<>>, Answer) /\ Answer \in Seq(Int) /\ Len(Answer) = TestSize
  <1>1. Answer \in Seq(Int) /\ Len(Answer) = TestSize
    BY UartTesterAssumption DEF Answer
  <1>2. \A i \in 1..TestSize : Answer[i] = i
    BY DEF Answer
  <1>. QED BY <1>1, <1>2, UartTesterAssumption DEF OnTheWay

(* Nothing is, before that. *)
LEMMA NothingSent == OnTheWay(<<>>, <<>>)
  BY UartTesterAssumption DEF OnTheWay

(* The line hands its first byte to the port. *)
LEMMA ByteDelivered ==
    ASSUME NEW r, NEW l, OnTheWay(r, l), l # <<>>
    PROVE  /\ OnTheWay(Append(r, Head(l)), Tail(l))
           /\ Len(Append(r, Head(l))) + Len(Tail(l)) = Len(r) + Len(l)
  <1>. DEFINE a == Append(r, Head(l))
  <1>1. /\ a \in Seq(Int) /\ Len(a) = Len(r) + 1 /\ a[Len(r) + 1] = l[1]
        /\ \A i \in 1..Len(r) : a[i] = r[i]
    BY DEF OnTheWay
  <1>2. /\ Tail(l) \in Seq(Int) /\ Len(Tail(l)) = Len(l) - 1 /\ Len(l) \in Nat \ {0}
        /\ \A i \in 1..Len(l) - 1 : Tail(l)[i] = l[i + 1]
    BY DEF OnTheWay
  <1>. HIDE DEF a
  <1>3. \A i \in 1..Len(a) : a[i] = TestSize - Len(a) - Len(Tail(l)) + i
    <2>1. TAKE i \in 1..Len(a)
    <2>2. Len(r) \in Nat
      BY DEF OnTheWay
    <2>3. CASE i = Len(r) + 1
      <3>1. l[1] = TestSize - Len(l) + 1
        BY <1>2 DEF OnTheWay
      <3>. QED BY <1>1, <1>2, <2>2, <2>3, <3>1, SizeType
    <2>4. CASE i # Len(r) + 1
      <3>1. i \in 1..Len(r)
        BY <1>1, <2>2, <2>4
      <3>2. r[i] = TestSize - Len(r) - Len(l) + i
        BY <3>1 DEF OnTheWay
      <3>. QED BY <1>1, <1>2, <2>2, <3>1, <3>2, SizeType
    <2>. QED BY <2>3, <2>4
  <1>4. \A i \in 1..Len(Tail(l)) : Tail(l)[i] = TestSize - Len(Tail(l)) + i
    <2>1. TAKE i \in 1..Len(Tail(l))
    <2>2. i + 1 \in 1..Len(l) /\ Tail(l)[i] = l[i + 1] /\ i \in Int
      BY <1>2
    <2>3. l[i + 1] = TestSize - Len(l) + (i + 1)
      BY <2>2 DEF OnTheWay
    <2>. QED BY <1>2, <2>2, <2>3, SizeType
  <1>5. Len(a) + Len(Tail(l)) = Len(r) + Len(l) /\ Len(r) + Len(l) <= TestSize
    BY <1>1, <1>2 DEF OnTheWay
  <1>. QED BY <1>1, <1>2, <1>3, <1>4, <1>5 DEF OnTheWay, a

(* The bytes of a read are the first of what is on the way. *)
LEMMA BytesTaken ==
    ASSUME NEW r, NEW l, OnTheWay(r, l), NEW n \in 0..Len(r)
    PROVE  LET s == SubSeq(r, 1, n)  q == SubSeq(r, n + 1, Len(r))
           IN  /\ OnTheWay(q, l) /\ Len(q) = Len(r) - n
               /\ s \in Seq(Int) /\ Len(s) = n
               /\ \A i \in 1..n : s[i] = TestSize - Len(r) - Len(l) + i
  <1>. DEFINE s == SubSeq(r, 1, n)
              q == SubSeq(r, n + 1, Len(r))
  <1>1. r \in Seq(Int) /\ Len(r) \in Nat /\ Len(l) \in Nat
    BY DEF OnTheWay
  <1>2. s \in Seq(Int) /\ Len(s) = n /\ \A i \in 1..n : s[i] = r[i]
    BY <1>1
  <1>3. q \in Seq(Int) /\ Len(q) = Len(r) - n /\ \A i \in 1..Len(r) - n : q[i] = r[n + i]
    BY <1>1
  <1>. HIDE DEF s, q
  <1>4. n \in Nat /\ n <= Len(r)
    BY <1>1
  <1>5. \A i \in 1..n : s[i] = TestSize - Len(r) - Len(l) + i
    <2>1. TAKE i \in 1..n
    <2>2. i \in 1..Len(r) /\ s[i] = r[i]
      BY <1>1, <1>2, <1>4
    <2>. QED BY <2>2 DEF OnTheWay
  <1>6. \A i \in 1..Len(q) : q[i] = TestSize - Len(q) - Len(l) + i
    <2>1. TAKE i \in 1..Len(q)
    <2>2. n + i \in 1..Len(r) /\ q[i] = r[n + i] /\ i \in Int
      BY <1>1, <1>3, <1>4
    <2>3. r[n + i] = TestSize - Len(r) - Len(l) + (n + i)
      BY <2>2 DEF OnTheWay
    <2>. QED BY <1>1, <1>3, <1>4, <2>2, <2>3, SizeType
  <1>7. OnTheWay(q, l)
    BY <1>1, <1>3, <1>4, <1>6, SizeType DEF OnTheWay
  <1>. QED BY <1>2, <1>3, <1>5, <1>7 DEF s, q

(* Without a head of an answer nothing is collected. *)
LEMMA HeadFound ==
    ASSUME NEW s, NEW k \in Nat, s \in Seq(Int), \A i \in 1..Len(s) : s[i] = k + i
    PROVE  FromHead(s) = IF k = 0 THEN s ELSE <<>>
  <1>1. CASE k # 0 \/ s = <<>>
    <2>1. {i \in 1..Len(s) : s[i] = Head1} = {}
      BY <1>1 DEF Head1
    <2>. QED BY <1>1, <2>1 DEF FromHead
  <1>2. CASE k = 0 /\ s # <<>>
    <2>. DEFINE heads == {i \in 1..Len(s) : s[i] = Head1}
    <2>1. heads = {1}
      BY <1>2 DEF Head1
    <2>2. (CHOOSE i \in heads : \A j \in heads : i <= j) = 1
      BY <2>1
    <2>3. SubSeq(s, 1, Len(s)) = s
      OBVIOUS
    <2>4. FromHead(s) = SubSeq(s, 1, Len(s))
      BY <2>1, <2>2 DEF FromHead
    <2>. QED BY <1>2, <2>3, <2>4
  <1>. QED BY <1>1, <1>2

(* What the test has collected is the beginning of the answer. *)
LEMMA BeginningCollected ==
    ASSUME NEW t, NEW m \in Nat, m <= TestSize, Collects(t, m),
           NEW s \in Seq(Int), s # <<>>, Len(s) <= m,
           \A i \in 1..Len(s) : s[i] = TestSize - m + i
    PROVE  LET c == Collected(t, s)
           IN  \/ c = <<>> /\ ~t.found
               \/ /\ c \in Seq(Int) /\ Len(c) = TestSize - m + Len(s)
                  /\ \A i \in 1..Len(c) : c[i] = i
  <1>. DEFINE c == Collected(t, s)
  <1>. USE SizeType
  <1>1. CASE ~t.found /\ m # TestSize
    <2>1. FromHead(s) = <<>>
      <3>1. TestSize - m \in Nat /\ TestSize - m # 0
        BY <1>1
      <3>. QED BY <3>1, HeadFound
    <2>2. t.data = <<>>
      BY <1>1 DEF Collects
    <2>. QED BY <1>1, <2>1, <2>2 DEF Collected
  <1>2. CASE ~t.found /\ m = TestSize
    <2>1. t.data = <<>>
      BY <1>2 DEF Collects
    <2>2. \A i \in 1..Len(s) : s[i] = 0 + i
      BY <1>2
    <2>3. FromHead(s) = s
      BY <2>2, HeadFound
    <2>4. c = s
      BY <1>2, <2>1, <2>3 DEF Collected
    <2>. HIDE DEF c
    <2>5. c \in Seq(Int) /\ Len(c) = TestSize - m + Len(s) /\ \A i \in 1..Len(c) : c[i] = i
      BY <1>2, <2>4
    <2>. QED BY <2>5 DEF c
  <1>3. CASE t.found
    <2>. DEFINE d == t.data
    <2>1. d \in Seq(Int) /\ Len(d) = TestSize - m /\ c = d \o s
      BY <1>3 DEF Collects, Collected, Tests
    <2>2. \A i \in 1..Len(d) : d[i] = i
      BY DEF Collects
    <2>. HIDE DEF c, d
    <2>3. Len(d) \in Nat /\ Len(s) \in Nat
      BY <2>1
    <2>4. /\ d \o s \in Seq(Int) /\ Len(d \o s) = Len(d) + Len(s)
          /\ \A i \in 1..Len(d) : (d \o s)[i] = d[i]
          /\ \A i \in Len(d) + 1..Len(d) + Len(s) : (d \o s)[i] = s[i - Len(d)]
      BY <2>1, Joins
    <2>5. ASSUME NEW i \in 1..Len(c) PROVE c[i] = i
      <3>1. CASE i <= Len(d)
        BY <2>1, <2>2, <2>3, <2>4, <3>1
      <3>2. CASE i > Len(d)
        <4>1. i \in Len(d) + 1..Len(d) + Len(s)
          BY <2>1, <2>3, <2>4, <3>2
        <4>2. i - Len(d) \in 1..Len(s) /\ i \in Int
          BY <2>3, <4>1
        <4>3. c[i] = s[i - Len(d)] /\ s[i - Len(d)] = TestSize - m + (i - Len(d))
          BY <2>1, <2>4, <4>1, <4>2
        <4>. QED BY <2>1, <2>3, <4>2, <4>3
      <3>. QED BY <2>3, <3>1, <3>2
    <2>6. c \in Seq(Int) /\ Len(c) = TestSize - m + Len(s)
      BY <2>1, <2>3, <2>4
    <2>. QED BY <2>5, <2>6 DEF c
  <1>4. t.found \in BOOLEAN
    BY DEF Collects, Tests
  <1>. QED BY <1>1, <1>2, <1>3, <1>4

(* RxDataHandler appends what comes to what the test holds, or begins with it,
   and is finished with the last byte. *)
LEMMA BytesHandled ==
    ASSUME NEW t, NEW m \in Nat, m <= TestSize, Collects(t, m), t.handler,
           NEW s \in Seq(Int), s # <<>>, Len(s) <= m,
           \A i \in 1..Len(s) : s[i] = TestSize - m + i
    PROVE  ~Overruns(t, s) /\ Collects(RxDataHandler(t, s), m - Len(s))
  <1>. DEFINE c == Collected(t, s)
              u == [t EXCEPT !.data = c, !.found = c # <<>>]
  <1>1. Len(s) \in Nat /\ Len(s) > 0 /\ <<>> \in Seq(Int)
    OBVIOUS
  <1>2. \/ c = <<>>
        \/ /\ c \in Seq(Int) /\ Len(c) = TestSize - m + Len(s)
           /\ \A i \in 1..Len(c) : c[i] = i
    BY BeginningCollected
  <1>. HIDE DEF c
  <1>3. c \in Seq(Int) /\ Len(c) \in Nat /\ Len(c) <= TestSize
    <2>1. CASE c = <<>>
      BY <2>1, SizeType
    <2>2. CASE c \in Seq(Int) /\ Len(c) = TestSize - m + Len(s)
      <3>1. Len(c) \in Nat
        BY <2>2
      <3>. QED BY <1>1, <2>2, <3>1, SizeType
    <2>. QED BY <1>2, <2>1, <2>2
  <1>4. RxDataHandler(t, s) = IF u.data = Answer THEN Released(TestReset(u)) ELSE u
    BY DEF RxDataHandler, Passed, c
  <1>5. ~Overruns(t, s)
    BY <1>3, SizeType DEF Overruns, c
  <1>6. u \in Tests /\ u.data = c /\ u.handler = t.handler /\ u.found = (c # <<>>)
    BY <1>3 DEF Collects, Tests
  <1>. HIDE DEF u
  <1>7. CASE c = Answer
    <2>. DEFINE v == Released(TestReset(u))
    <2>1. v \in Tests /\ v.data = <<>> /\ v.found = FALSE
      <3>1. TestReset(u) \in Tests /\ TestReset(u).data = <<>> /\ TestReset(u).found = FALSE
        <4>. DEFINE w == TestReset(u)
        <4>1. w = [u EXCEPT !.resent = 0, !.data = <<>>, !.found = FALSE, !.timer = FALSE]
          BY DEF TestReset
        <4>2. u \in Tests
          BY <1>6
        <4>. HIDE DEF w
        <4>3. w.data = <<>> /\ w.found = FALSE /\ w.timer = FALSE /\ w.resent = 0
              /\ w.handler = u.handler
          BY <4>1, <4>2 DEF Tests
        <4>4. w \in Tests
          <5>1. FALSE \in BOOLEAN /\ 0 \in Int
            OBVIOUS
          <5>2. [u EXCEPT !.resent = 0, !.data = <<>>, !.found = FALSE, !.timer = FALSE] \in Tests
            BY <1>1, <4>2, <5>1, TestType, Zenon
          <5>. QED BY <4>1, <5>2
        <4>. QED BY <4>3, <4>4 DEF w
      <3>. QED BY <3>1 DEF Tests, Released, Registered
    <2>. HIDE DEF v
    <2>2. Collects(v, m - Len(s))
      BY <2>1 DEF Collects
    <2>. QED BY <1>4, <1>5, <1>6, <1>7, <2>2 DEF v
  <1>8. CASE c # Answer
    <2>1. RxDataHandler(t, s) = u
      BY <1>4, <1>6, <1>8
    <2>2. CASE c = <<>>
      <3>1. u \in Tests /\ u.data = <<>> /\ u.found = FALSE
        BY <1>6, <2>2
      <3>2. Collects(u, m - Len(s))
        BY <3>1 DEF Collects
      <3>. QED BY <1>5, <2>1, <3>2
    <2>3. CASE c # <<>>
      <3>1. Len(c) = TestSize - m + Len(s) /\ \A i \in 1..Len(c) : c[i] = i
        BY <1>2, <2>3
      <3>2. Len(c) # TestSize
        <4>1. SUFFICES ASSUME Len(c) = TestSize PROVE FALSE
          OBVIOUS
        <4>2. c = [i \in 1..TestSize |-> i]
          BY <1>3, <3>1, <4>1
        <4>. QED BY <1>8, <4>2 DEF Answer
      <3>3. Len(c) < TestSize /\ Len(c) + (m - Len(s)) = TestSize
        <4>1. Len(c) = TestSize - m + Len(s)
          BY <3>1
        <4>2. Len(c) < TestSize
          BY <1>3, <3>2, SizeType
        <4>3. Len(c) + (m - Len(s)) = TestSize
          BY <1>1, <4>1, SizeType
        <4>. QED BY <4>2, <4>3
      <3>. QED BY <1>5, <1>6, <2>1, <2>3, <3>1, <3>3 DEF Collects
    <2>. QED BY <2>2, <2>3
  <1>. QED BY <1>7, <1>8
-----------------------------------------------------------------------------
(* While the port is being opened, and while it is not open, nothing is on the
   way; a port that is closed for another one is a disturbance, and nobody
   opens a port again once the window is being closed. *)
Closing == ui \in {"closing", "joining"}
Leaving == ui = "gone" \/ (Closing /\ after = "gone")
Opening ==
    \/ ui \in {"opening", "created", "started", "opened", "returning", "setup", "showing",
               "openFailed"}
    \/ Closing /\ after = "openFailed"

(* What a port is closed for: all but a failed open and the window's end is a
   disturbance. *)
ClosedFor(a, d) == a \in {"gone", "openFailed"} \/ (a \in {"opening", "idle"} /\ d)

(* What holds of the window's thread in every state. *)
ControlInv ==
    /\ disturbed \in BOOLEAN /\ overrun \in BOOLEAN
    /\ Closing => ClosedFor(after, disturbed)
    /\ overrun => disturbed
(* Nothing has been disturbed, and the port may be opened again. *)
Calm == ~disturbed /\ ~overrun /\ ~Leaving
(* Then the bytes of the last answer are accounted for. *)
BytesInv ==
    /\ OnTheWay(rx, line) /\ Collects(test, Len(rx) + Len(line))
    /\ Opening \/ file # "open" => rx = <<>> /\ line = <<>>
AnswerInv == ControlInv /\ (Calm => BytesInv)

(* The test is cleared and the line silent. *)
LEMMA AnswerStarts == Init => AnswerInv
  <1>. SUFFICES ASSUME Init PROVE AnswerInv
    OBVIOUS
  <1>1. /\ rx = <<>> /\ line = <<>> /\ ui = "opening" /\ disturbed = FALSE /\ overrun = FALSE
        /\ test = NoTest
    BY DEF Init, SerialInit
  <1>2. NoTest \in Tests /\ NoTest.data = <<>> /\ NoTest.found = FALSE
    BY DEF NoTest, Tests
  <1>3. Collects(NoTest, Len(rx) + Len(line))
    BY <1>2 DEF Collects
  <1>. QED
    BY <1>1, <1>3, NothingSent DEF AnswerInv, ControlInv, Closing, BytesInv

(* What is neither calm nor becomes calm again needs no bytes. *)
LEMMA AnswerKept ==
    ASSUME AnswerInv, UNCHANGED <<rx, line, test, file, overrun, disturbed>>,
           Closing' => ClosedFor(after', disturbed),
           Opening' => Opening, Leaving => Leaving'
    PROVE  AnswerInv'
  <1>1. ControlInv'
    BY DEF AnswerInv, ControlInv
  <1>2. ASSUME Calm' PROVE BytesInv'
    <2>1. BytesInv
      BY <1>2 DEF AnswerInv, Calm
    <2>2. OnTheWay(rx', line') /\ Collects(test', Len(rx') + Len(line'))
      BY <2>1 DEF BytesInv
    <2>. QED BY <2>1, <2>2 DEF BytesInv
  <1>. QED BY <1>1, <1>2 DEF AnswerInv

(* A step of the window's thread, of the listener or of the driver that
   touches no byte and neither closes nor opens anything. *)
LEMMA AnswerUntouched ==
    ASSUME AnswerInv, UNCHANGED <<rx, line, test, file, overrun, disturbed>>,
           UNCHANGED <<ui, after>> \/ {ui, ui'} \subseteq {"idle", "timer", "reading"}
    PROVE  AnswerInv'
  <1>1. CASE UNCHANGED <<ui, after>>
    BY <1>1, AnswerKept DEF AnswerInv, ControlInv, Closing, Opening, Leaving
  <1>2. CASE {ui, ui'} \subseteq {"idle", "timer", "reading"}
    <2>1. ui \in {"idle", "timer", "reading"} /\ ui' \in {"idle", "timer", "reading"}
      BY <1>2
    <2>. QED BY <2>1, AnswerKept DEF Closing, Opening, Leaving
  <1>. QED BY <1>1, <1>2

(* A step that disturbs the line leaves nothing to show. *)
LEMMA AnswerDisturbed ==
    ASSUME AnswerInv, disturbed' = TRUE, overrun' = overrun,
           \/ UNCHANGED <<ui, after>>
           \/ ui' \notin {"closing", "joining"}
           \/ after' \in {"gone", "openFailed", "opening", "idle"}
    PROVE  AnswerInv'
  BY DEF AnswerInv, ControlInv, ClosedFor, Closing, Calm

(* A port that nothing is on its way to, or that is closed for good. *)
LEMMA NothingLeft ==
    ASSUME AnswerInv, UNCHANGED <<line, test, overrun, disturbed>>,
           Closing' => after' \in {"gone", "openFailed"},
           Calm' => Calm /\ rx' = <<>> /\ line = <<>> /\ rx = <<>>
    PROVE  AnswerInv'
  <1>1. ControlInv'
    BY DEF AnswerInv, ControlInv, ClosedFor
  <1>2. ASSUME Calm' PROVE BytesInv'
    <2>1. rx' = rx /\ line' = line /\ rx' = <<>> /\ line' = <<>> /\ Collects(test, Len(rx) + Len(line))
      BY <1>2 DEF AnswerInv, BytesInv
    <2>2. Collects(test', Len(rx') + Len(line'))
      BY <2>1
    <2>3. OnTheWay(rx', line')
      BY <2>1, NothingSent
    <2>. QED BY <2>1, <2>2, <2>3 DEF BytesInv
  <1>. QED BY <1>1, <1>2 DEF AnswerInv

(* Close either leaves the port to StopListener or closes it at once. *)
LEMMA AnswerClose ==
    ASSUME AnswerInv, NEW a \in {"gone", "openFailed"}, CloseCom(a),
           a = "openFailed" => ui = "started",
           UNCHANGED <<line, test, overrun, disturbed>>
    PROVE  AnswerInv'
  <1>1. after' = a
    BY DEF CloseCom
  <1>2. hThread => ui' = "closing" /\ rx' = rx
    BY DEF CloseCom, serialVars
  <1>3. ~hThread => ui' = a /\ rx' = <<>>
    BY DEF CloseCom, SerialClose
  <1>4. CASE a = "gone"
    <2>1. Leaving'
      BY <1>1, <1>2, <1>3, <1>4 DEF Leaving, Closing
    <2>. QED BY <1>1, <1>4, <2>1, NothingLeft DEF Calm
  <1>5. CASE a = "openFailed"
    <2>1. Opening /\ ~Leaving
      BY <1>5 DEF Opening, Leaving, Closing
    <2>2. Calm' => Calm
      BY <2>1 DEF Calm
    <2>3. Calm => rx = <<>> /\ line = <<>>
      BY <2>1 DEF AnswerInv, BytesInv
    <2>4. Calm' => Calm /\ rx' = <<>> /\ line = <<>> /\ rx = <<>>
      BY <1>2, <1>3, <2>2, <2>3
    <2>. QED BY <1>1, <1>5, <2>4, NothingLeft
  <1>. QED BY <1>4, <1>5

(* The steps that open the port find nothing on the way, and leave nothing. *)
LEMMA AnswerOpen == ASSUME AnswerInv, Open PROVE AnswerInv'
  <1>1. CASE OpenCom
    <2>1. PICK f \in OpenFaults :
            /\ IF f = "none" THEN UNCHANGED <<budget, disturbed>>
               ELSE Spend("fault") /\ disturbed' = TRUE
            /\ \/ StartListener(f) /\ UNCHANGED enabled
               \/ /\ OpenError(f) # "SUCCESS" /\ SerialOpen(f)
                  /\ enabled' = FALSE /\ ui' = "idle"
                  /\ UNCHANGED <<listenerVars, after, queue>>
      BY <1>1 DEF OpenCom
    <2>2. UNCHANGED <<test, line, overrun>> /\ ui = "opening"
      BY <1>1 DEF OpenCom
    <2>3. ui' \in {"created", "idle"}
      BY <2>1 DEF StartListener
    <2>4. rx' = <<>> \/ rx' = rx
      BY <2>1 DEF StartListener, OpenedInVain, SerialOpen
    <2>5. CASE f # "none"
      BY <2>1, <2>2, <2>3, <2>5, AnswerDisturbed
    <2>6. CASE f = "none"
      <3>1. disturbed' = disturbed
        BY <2>1, <2>6
      <3>2. Opening /\ ~Leaving /\ ~Closing'
        BY <2>2, <2>3 DEF Opening, Leaving, Closing
      <3>3. Calm' => Calm
        BY <2>2, <3>1, <3>2 DEF Calm
      <3>4. Calm => rx = <<>> /\ line = <<>>
        BY <3>2 DEF AnswerInv, BytesInv
      <3>5. Calm' => Calm /\ rx' = <<>> /\ line = <<>> /\ rx = <<>>
        BY <2>4, <3>3, <3>4
      <3>. QED BY <2>2, <3>1, <3>2, <3>5, NothingLeft
    <2>. QED BY <2>5, <2>6
  <1>2. CASE \/ OpenSucceeds \/ OpenReturns \/ OpenSetsUp \/ UpdateComUI \/ OpenFails
             \/ StartListenerDone /\ UNCHANGED windowVars
    <2>1. /\ UNCHANGED <<rx, line, test, file, overrun, disturbed>>
          /\ ui \in {"opened", "returning", "setup", "showing", "openFailed", "created"}
          /\ ui' \in {"returning", "setup", "showing", "idle", "started"}
      BY <1>2 DEF OpenSucceeds, OpenReturns, OpenSetsUp, UpdateComUI, OpenFails,
                  StartListenerDone, Setup, GetLineParameters, SetResult, serialVars, windowVars
    <2>2. Opening /\ ~Leaving /\ ~Closing'
      BY <2>1 DEF Opening, Leaving, Closing
    <2>. QED BY <2>1, <2>2, AnswerKept
  <1>3. CASE StartListenerReturns /\ UNCHANGED windowVars
    <2>1. UNCHANGED <<line, test, overrun, disturbed>> /\ ui = "started"
      BY <1>3 DEF windowVars, StartListenerReturns
    <2>2. CASE ui' = "opened" /\ UNCHANGED serialVars
      <3>1. UNCHANGED <<rx, file>>
        BY <2>2 DEF serialVars
      <3>2. Opening /\ ~Leaving /\ ~Closing'
        BY <2>1, <2>2 DEF Opening, Leaving, Closing
      <3>. QED BY <2>1, <3>1, <3>2, AnswerKept
    <2>3. CASE CloseCom("openFailed")
      BY <2>1, <2>3, AnswerClose
    <2>. QED BY <1>3, <2>2, <2>3 DEF StartListenerReturns
  <1>. QED BY <1>1, <1>2, <1>3 DEF Open

(* StopListener ends and the port is closed behind it. *)
LEMMA AnswerJoin == ASSUME AnswerInv, Close PROVE AnswerInv'
  <1>1. UNCHANGED <<line, test, overrun, disturbed, after>> /\ Closing
    BY DEF Close, StopListener, Joined, windowVars, Closing
  <1>2. CASE StopListener
    <2>1. ui' = "joining" /\ UNCHANGED <<rx, file>>
      BY <1>2 DEF StopListener, SetMaskAgain
    <2>2. Closing' /\ (Opening' => Opening) /\ (Leaving => Leaving')
      BY <1>1, <2>1 DEF Closing, Opening, Leaving
    <2>3. ClosedFor(after, disturbed)
      BY <1>1 DEF AnswerInv, ControlInv
    <2>. QED BY <1>1, <2>1, <2>2, <2>3, AnswerKept
  <1>3. CASE Joined
    <2>1. ui' = after /\ rx' = <<>>
      BY <1>3 DEF Joined, SerialClose
    <2>2. ClosedFor(after, disturbed)
      BY <1>1 DEF AnswerInv, ControlInv
    <2>3. Closing' => FALSE
      BY <2>1, <2>2 DEF Closing, ClosedFor
    <2>4. Calm' => Calm /\ after = "openFailed"
      BY <1>1, <2>1, <2>2 DEF Calm, Leaving, Closing, ClosedFor
    <2>5. after = "openFailed" => Opening
      BY <1>1 DEF Opening
    <2>6. Calm' => Calm /\ rx' = <<>> /\ line = <<>> /\ rx = <<>>
      BY <2>1, <2>4, <2>5 DEF AnswerInv, BytesInv
    <2>. QED BY <1>1, <2>3, <2>6, NothingLeft
  <1>. QED BY <1>2, <1>3 DEF Close

(* The test sends its text: when nothing is on the way, a whole answer is, or
   nothing; otherwise this is a disturbance. *)
LEMMA AnswerSends ==
    ASSUME AnswerInv, OnTxData, UNCHANGED <<ui, after, overrun>>, ui = "idle",
           Collects(test, 0) => Collects(test', 0) /\ test'.data = test.data
    PROVE  AnswerInv'
  <1>1. rx' = rx /\ file' = file
    BY DEF OnTxData, WriteDone, SetResult
  <1>2. /\ line' = IF file = "open" THEN line \o Answer ELSE line
        /\ disturbed' = (disturbed \/ line # <<>> \/ rx # <<>>)
    BY DEF OnTxData, WriteAccepted
  <1>3. ControlInv'
    BY <1>2 DEF AnswerInv, ControlInv, Closing
  <1>4. ASSUME Calm' PROVE BytesInv'
    <2>1. Calm /\ rx = <<>> /\ line = <<>>
      BY <1>2, <1>4 DEF Calm, Leaving, Closing
    <2>2. Collects(test, 0)
      BY <2>1 DEF AnswerInv, BytesInv
    <2>3. test.data = <<>> /\ Collects(test', 0) /\ test'.data = <<>>
      BY <2>2 DEF Collects, Tests
    <2>4. \A n : Collects(test', n)
      BY <2>3 DEF Collects
    <2>5. <<>> \o Answer = Answer
      BY AnswerSent
    <2>6. (line' = Answer /\ file' = "open") \/ line' = <<>>
      BY <1>1, <1>2, <2>1, <2>5
    <2>7. OnTheWay(rx', line')
      BY <1>1, <2>1, <2>6, AnswerSent, NothingSent
    <2>8. ~Opening'
      BY DEF Opening, Closing
    <2>. QED BY <1>1, <2>1, <2>4, <2>6, <2>7, <2>8 DEF BytesInv
  <1>. QED BY <1>3, <1>4 DEF AnswerInv

(* What is on the way stays, and the test keeps what it collected, or lets go
   of all of it. *)
LEMMA AnswerTests ==
    ASSUME AnswerInv, UNCHANGED <<rx, line, file, ui, after, overrun, disturbed>>,
           \A n : Collects(test, n) => Collects(test', n)
    PROVE  AnswerInv'
  <1>1. ControlInv' /\ (Calm' => Calm) /\ (Opening' => Opening)
    BY DEF AnswerInv, ControlInv, Calm, Leaving, Closing, Opening
  <1>2. ASSUME Calm' PROVE BytesInv'
    <2>1. BytesInv
      BY <1>1, <1>2 DEF AnswerInv
    <2>2. OnTheWay(rx', line') /\ Collects(test', Len(rx') + Len(line'))
      BY <2>1 DEF BytesInv
    <2>. QED BY <1>1, <2>1, <2>2 DEF BytesInv
  <1>. QED BY <1>1, <1>2 DEF AnswerInv

(* Starting a test changes its timer only, not what it holds. *)
LEMMA StartCollects ==
    ASSUME NEW t, NEW n, Collects(t, n)
    PROVE  /\ Collects(UartTestStart(t), n) /\ UartTestStart(t).data = t.data
           /\ UartTestStart(t).handler = t.handler
  <1>. DEFINE u == UartTestStart(t)
  <1>1. t \in Tests
    BY DEF Collects
  <1>2. u \in Tests /\ u.data = t.data /\ u.found = t.found /\ u.handler = t.handler
    <2>1. CASE ~t.timer
      <3>1. u = [t EXCEPT !.timer = TRUE]
        BY <2>1 DEF UartTestStart
      <3>. QED BY <1>1, <3>1 DEF Tests
    <2>2. CASE t.timer
      <3>1. u = [t EXCEPT !.resent = @ + 1]
        BY <2>2 DEF UartTestStart
      <3>. QED BY <1>1, <3>1 DEF Tests
    <2>. QED BY <2>1, <2>2
  <1>. HIDE DEF u
  <1>3. Collects(u, n)
    BY <1>2 DEF Collects
  <1>. QED BY <1>2, <1>3 DEF u

(* Nor does registering the handler. *)
LEMMA RegisterCollects ==
    ASSUME NEW t, NEW n, Collects(t, n)
    PROVE  Collects(Registered(t, TRUE), n) /\ Registered(t, TRUE).data = t.data
  <1>. DEFINE u == Registered(t, TRUE)
  <1>1. t \in Tests
    BY DEF Collects
  <1>2. u \in Tests /\ u.data = t.data /\ u.found = t.found /\ u.handler = TRUE
    BY <1>1 DEF Registered, Tests
  <1>. HIDE DEF u
  <1>3. Collects(u, n)
    BY <1>2 DEF Collects
  <1>. QED BY <1>2, <1>3 DEF u

(* TestReset leaves nothing of an answer. *)
LEMMA ResetCollects ==
    ASSUME NEW t \in Tests, NEW n
    PROVE  Collects(Released(TestReset(t)), n)
  <1>. DEFINE w == TestReset(t)
              v == Released(w)
  <1>1. w = [t EXCEPT !.resent = 0, !.data = <<>>, !.found = FALSE, !.timer = FALSE]
    BY DEF TestReset
  <1>2. w \in Tests
    <2>1. FALSE \in BOOLEAN /\ 0 \in Int /\ <<>> \in Seq(Int)
      OBVIOUS
    <2>2. [t EXCEPT !.resent = 0, !.data = <<>>, !.found = FALSE, !.timer = FALSE] \in Tests
      BY <2>1, TestType, Zenon
    <2>. QED BY <1>1, <2>2
  <1>. HIDE DEF w
  <1>3. w.data = <<>> /\ w.found = FALSE
    BY <1>1 DEF Tests
  <1>4. v \in Tests /\ v.data = <<>> /\ v.found = FALSE
    BY <1>2, <1>3 DEF Tests, Released, Registered
  <1>. HIDE DEF v
  <1>5. Collects(v, n)
    BY <1>4 DEF Collects
  <1>. QED BY <1>5 DEF v, w

(* A re-send that gives up clears what was collected. *)
LEMMA ReSendCollects ==
    ASSUME NEW t, NEW n, Collects(t, n)
    PROVE  Collects(OnReSend(t), n) /\ (~GivesUp(t) => OnReSend(t).data = t.data)
  BY ResetCollects, StartCollects DEF Collects, OnReSend

(* The button of the test, which may send it again. *)
LEMMA AnswerInput ==
    ASSUME AnswerInv, OnBnClickedUartTestStart PROVE AnswerInv'
  <1>1. /\ test' = UartTestStart(Registered(test, TRUE)) /\ ui = "idle"
        /\ UNCHANGED <<ui, after, overrun>>
    BY DEF OnBnClickedUartTestStart, Idle, uiVars
  <1>2. ASSUME NEW n, Collects(test, n) PROVE Collects(test', n) /\ test'.data = test.data
    <2>1. Collects(Registered(test, TRUE), n) /\ Registered(test, TRUE).data = test.data
      BY <1>2, RegisterCollects
    <2>. QED BY <1>1, <2>1, StartCollects
  <1>3. CASE Sends(test)
    BY <1>1, <1>2, <1>3, AnswerSends DEF OnBnClickedUartTestStart
  <1>4. CASE ~Sends(test)
    <2>1. UNCHANGED <<rx, line, file, disturbed>>
      BY <1>4 DEF OnBnClickedUartTestStart, serialVars
    <2>. QED BY <1>1, <1>2, <2>1, AnswerTests
  <1>. QED BY <1>3, <1>4

(* The timer of the test, which sends it again or gives up. *)
LEMMA AnswerReSend == ASSUME AnswerInv, ReSend PROVE AnswerInv'
  <1>1. test' = OnReSend(test) /\ ui = "idle" /\ UNCHANGED <<ui, after, overrun>>
    BY DEF ReSend, Dispatch
  <1>2. CASE Sends(test) /\ ~GivesUp(test)
    <2>1. OnTxData
      BY <1>2 DEF ReSend
    <2>2. Collects(test, 0) => Collects(test', 0) /\ test'.data = test.data
      BY <1>1, <1>2, ReSendCollects
    <2>. QED BY <1>1, <2>1, <2>2, AnswerSends
  <1>3. CASE ~(Sends(test) /\ ~GivesUp(test))
    <2>1. UNCHANGED <<rx, line, file, disturbed>>
      BY <1>3 DEF ReSend, serialVars
    <2>2. \A n : Collects(test, n) => Collects(test', n)
      BY <1>1, ReSendCollects
    <2>. QED BY <1>1, <2>1, <2>2, AnswerTests
  <1>. QED BY <1>2, <1>3

(* A read hands over the first bytes of what is on the way, or they are lost
   when no test waits for them. *)
LEMMA AnswerReads == ASSUME AnswerInv, ~overrun, ReadLoop PROVE AnswerInv'
  <1>1. /\ ui = "reading" /\ ui' \in {"idle", "reading"} /\ UNCHANGED <<after, line, disturbed, file>>
        /\ rx' = SubSeq(rx, ReadLen + 1, Len(rx))
    BY DEF ReadLoop, ReadDone
  <1>2. (Calm' => Calm) /\ ~Opening' /\ ~Opening /\ ~Closing' /\ ~Leaving
    BY <1>1 DEF Calm, Opening, Leaving, Closing
  <1>3. CASE disturbed
    <2>1. overrun' \in BOOLEAN
      BY DEF ReadLoop, HandOver, AnswerInv, ControlInv
    <2>. QED BY <1>1, <1>2, <1>3, <2>1 DEF AnswerInv, ControlInv, Calm
  <1>4. CASE ~disturbed
    <2>1. BytesInv /\ Calm
      BY <1>2, <1>4 DEF AnswerInv, Calm
    <2>. DEFINE m == Len(rx) + Len(line)
    <2>2. Len(rx) \in Nat /\ Len(line) \in Nat /\ m <= TestSize /\ m \in Nat
      BY <2>1 DEF BytesInv, OnTheWay
    <2>3. ReadLen \in 0..Len(rx)
      BY <2>2, ReadSizeAssumption DEF ReadLen
    <2>. DEFINE s == Read
    <2>4. /\ OnTheWay(rx', line) /\ Len(rx') = Len(rx) - ReadLen
          /\ s \in Seq(Int) /\ Len(s) = ReadLen
          /\ \A i \in 1..ReadLen : s[i] = TestSize - Len(rx) - Len(line) + i
      BY <1>1, <2>1, <2>3, BytesTaken DEF BytesInv, Read
    <2>5. Collects(test, m)
      BY <2>1 DEF BytesInv
    <2>6. file # "open" => rx' = <<>> /\ line = <<>>
      <3>1. ASSUME file # "open" PROVE rx' = <<>> /\ line = <<>>
        <4>1. rx = <<>> /\ line = <<>>
          BY <2>1, <3>1 DEF BytesInv
        <4>2. Len(rx') = 0
          BY <2>2, <2>3, <2>4, <4>1
        <4>. QED BY <2>4, <4>1, <4>2 DEF OnTheWay
      <3>. QED BY <3>1
    <2>7. overrun' = overrun /\ Collects(test', Len(rx') + Len(line))
      <3>1. CASE s = <<>>
        <4>1. ReadLen = 0
          BY <2>3, <2>4, <3>1
        <4>2. Len(rx') + Len(line) = m
          BY <2>2, <2>4, <4>1
        <4>3. UNCHANGED <<test, overrun>>
          BY <3>1 DEF ReadLoop, HandOver
        <4>. QED BY <2>5, <4>2, <4>3
      <3>2. CASE ~test.handler
        <4>1. UNCHANGED <<test, overrun>>
          BY <3>2 DEF ReadLoop, HandOver
        <4>2. test.data = <<>>
          BY <2>5, <3>2 DEF Collects
        <4>3. \A n : Collects(test, n)
          BY <2>5, <4>2 DEF Collects
        <4>. QED BY <4>1, <4>3
      <3>3. CASE s # <<>> /\ test.handler
        <4>. HIDE DEF s, m
        <4>1. Len(s) <= m /\ \A i \in 1..Len(s) : s[i] = TestSize - m + i
          BY <2>2, <2>3, <2>4, SizeType DEF m
        <4>2. ~Overruns(test, s) /\ Collects(RxDataHandler(test, s), m - Len(s))
          BY <2>2, <2>4, <2>5, <3>3, <4>1, BytesHandled
        <4>3. HandOver(s)
          BY DEF ReadLoop, s
        <4>4. test' = RxDataHandler(test, s) /\ overrun' = overrun
          BY <3>3, <4>2, <4>3 DEF HandOver
        <4>5. m - Len(s) = Len(rx') + Len(line)
          BY <2>2, <2>3, <2>4 DEF m
        <4>. QED BY <4>2, <4>4, <4>5
      <3>. QED BY <3>1, <3>2, <3>3
    <2>8. BytesInv'
      BY <1>1, <1>2, <2>4, <2>6, <2>7 DEF BytesInv
    <2>9. ControlInv'
      BY <1>1, <1>2, <2>7 DEF AnswerInv, ControlInv
    <2>. QED BY <2>8, <2>9 DEF AnswerInv
  <1>5. disturbed \in BOOLEAN
    BY DEF AnswerInv, ControlInv
  <1>. QED BY <1>3, <1>4, <1>5

(* A byte comes off the line as it was sent. *)
LEMMA AnswerArrives == ASSUME AnswerInv, LineDelivers PROVE AnswerInv'
  <1>1. /\ line # <<>> /\ line' = Tail(line) /\ UNCHANGED <<ui, after, test, overrun, disturbed>>
        /\ IF file = "open" THEN ByteReceived(Head(line)) ELSE UNCHANGED serialVars
    BY DEF LineDelivers, Arrives, uiVars
  <1>2. ControlInv' /\ (Calm' => Calm) /\ (Opening' => Opening)
    BY <1>1 DEF AnswerInv, ControlInv, Calm, Leaving, Closing, Opening
  <1>3. ASSUME Calm' PROVE BytesInv'
    <2>1. BytesInv
      BY <1>2, <1>3 DEF AnswerInv
    <2>2. ~Opening /\ file = "open"
      BY <1>1, <2>1 DEF BytesInv
    <2>3. rx' = Append(rx, Head(line)) /\ file' = "open"
      BY <1>1, <2>2 DEF ByteReceived
    <2>4. OnTheWay(rx', line') /\ Len(rx') + Len(line') = Len(rx) + Len(line)
      BY <1>1, <2>1, <2>3, ByteDelivered DEF BytesInv
    <2>5. Collects(test', Len(rx') + Len(line'))
      BY <1>1, <2>1, <2>4 DEF BytesInv
    <2>. QED BY <1>2, <2>2, <2>3, <2>4, <2>5 DEF BytesInv
  <1>. QED BY <1>2, <1>3 DEF AnswerInv

(* Every step of the window, the listener and the line. *)
LEMMA AnswerStep == AnswerInv /\ [Next]_vars => AnswerInv'
  <1>. SUFFICES ASSUME AnswerInv, [Next]_vars PROVE AnswerInv'
    OBVIOUS
  <1>1. CASE UNCHANGED vars
    BY <1>1, AnswerUntouched DEF vars, serialVars, uiVars, windowVars
  <1>2. CASE OnTimer \/ TimerRetrieved \/ OnSerialOther \/ OnSerialRecv
    <2>1. /\ UNCHANGED <<rx, line, test, file, overrun, disturbed>>
          /\ ui \in {"idle", "timer"} /\ ui' \in {"idle", "timer", "reading"}
      BY <1>2 DEF OnTimer, TimerRetrieved, OnSerialOther, OnSerialRecv, Dispatch, Idle,
                  serialVars, windowVars
    <2>. QED BY <2>1, AnswerUntouched
  <1>3. CASE Listener
    <2>1. UNCHANGED <<rx, file, ui, after>>
      BY <1>3 DEF Listener, Thread, ThreadWaits, WaitFails, WaitCommEvent, ThreadTests,
                  ThreadCannotWait, ThreadHandles, EventDropped, TakeEvent, ThreadLoops, serialVars, uiVars
    <2>2. UNCHANGED <<line, test, overrun, disturbed>>
      BY <1>3 DEF Listener, windowVars
    <2>. QED BY <2>1, <2>2, AnswerUntouched
  <1>4. CASE OnCbnSelchangeComNum \/ OnDeviceChange
    BY <1>4, AnswerDisturbed DEF OnCbnSelchangeComNum, OnDeviceChange, CloseCom
  <1>5. CASE OnDestroy
    BY <1>5, AnswerClose DEF OnDestroy, windowVars
  <1>6. CASE LineChanges \/ LineLoses \/ Unplugged
    BY <1>6, AnswerDisturbed DEF LineChanges, LineLoses, Unplugged, Arrives, uiVars
  <1>7. CASE LineBreaks
    <2>1. UNCHANGED <<rx, line, test, file, overrun, disturbed, ui, after>>
      BY <1>7 DEF LineBreaks, BreakReceived, uiVars
    <2>. QED BY <2>1, AnswerUntouched
  <1>8. CASE Open \/ Close
    BY <1>8, AnswerOpen, AnswerJoin
  <1>9. CASE ReSend \/ OnBnClickedUartTestStart \/ LineDelivers
    BY <1>9, AnswerReSend, AnswerInput, AnswerArrives
  <1>10. CASE ~overrun /\ ReadLoop
    BY <1>10, AnswerReads
  <1>. QED
    BY <1>1, <1>2, <1>3, <1>4, <1>5, <1>6, <1>7, <1>8, <1>9, <1>10
       DEF Next, Window, User, Handle, Environment

(* The test's copy never leaves its buffer as long as nothing is lost, changed
   or left over, however an answer is cut into reads (RxDataHandler,
   OnSerialMsg, TestReset). *)
THEOREM AnswersFitTheBuffer == Spec => []AnswerFits
  <1>1. AnswerInv => AnswerFits
    BY DEF AnswerInv, ControlInv, AnswerFits
  <1>. QED BY <1>1, AnswerStarts, AnswerStep, PTL DEF Spec
=============================================================================
