----------------------------- MODULE TesterWindow ------------------------------
(***************************************************************************)
(* CMainDlg (MainDlg.cpp) with its UART test: the window opens the port,     *)
(* reads it when the listener says so, hands what it reads to the test, and  *)
(* closes it when the user picks another port or closes the window.          *)
(*                                                                          *)
(* The window's thread takes the posted messages first, the user's input     *)
(* next, and its timer when there is nothing else.  Outside of src: the      *)
(* device, which answers each text, and the line, which may lose or change   *)
(* a byte, or break.                                                         *)
(***************************************************************************)
EXTENDS SerialListener, UartTester

CONSTANTS
    MaxInputs,    \* how often the user starts the test or picks a port
    MaxFaults     \* breaks, bytes lost or changed, devices pulled, opens that fail

VARIABLES
    enabled,      \* the start button
    test,         \* the test, see UartTester
    line,         \* what the device has sent
    overrun,      \* the test has written behind its buffer
    disturbed,    \* a fault, a port closed, or a text sent before the last answer was used
    budget        \* what is left of the two bounds

windowVars == <<enabled, test, line, overrun, disturbed, budget>>
vars == <<serialVars, listenerVars, uiVars, windowVars>>

Spend(k) == budget[k] > 0 /\ budget' = [budget EXCEPT ![k] = @ - 1]

Init ==
    /\ SerialInit /\ ListenerInit
    /\ ui = "opening" /\ after = "idle" /\ queue = <<>>
    /\ enabled = TRUE /\ test = NoTest /\ line = <<>>
    /\ overrun = FALSE /\ disturbed = FALSE
    /\ budget = [input |-> MaxInputs, fault |-> MaxFaults]
-----------------------------------------------------------------------------
\* OpenCom: CSerialWnd::Open is refused, or goes on in SerialListener.
OpenCom ==
    /\ ui = "opening"
    /\ \E f \in OpenFaults :
         /\ IF f = "none" THEN UNCHANGED <<budget, disturbed>> ELSE Spend("fault") /\ disturbed' = TRUE
         /\ \/ StartListener(f) /\ UNCHANGED enabled
            \/ /\ OpenError(f) # "SUCCESS" /\ SerialOpen(f)
               /\ enabled' = FALSE /\ ui' = "idle"
               /\ UNCHANGED <<listenerVars, after, queue>>
    /\ UNCHANGED <<test, line, overrun>>

\* The listener runs: CSerialWnd::Open clears the error, and returns it.
OpenSucceeds ==
    /\ ui = "opened" /\ ui' = "returning"
    /\ lastError' = "SUCCESS"
    /\ UNCHANGED <<file, mask, event, drvMask, recorded, wait, rx, listenerVars, after, queue, windowVars>>

OpenReturns ==
    /\ ui = "returning"
    /\ enabled' = (lastError = "SUCCESS")
    /\ ui' = IF lastError = "SUCCESS" THEN "setup" ELSE "idle"
    /\ UNCHANGED <<serialVars, listenerVars, after, queue, test, line, overrun, disturbed, budget>>

\* The line parameters are set, whether that works or not, and shown.
OpenSetsUp ==
    /\ ui = "setup" /\ ui' = "showing"
    /\ Setup
    /\ UNCHANGED <<listenerVars, after, queue, windowVars>>

UpdateComUI ==
    /\ ui = "showing" /\ ui' = "idle"
    /\ GetLineParameters
    /\ UNCHANGED <<listenerVars, after, queue, windowVars>>

OpenFails ==
    /\ ui = "openFailed" /\ ui' = "idle"
    /\ lastError' = "FAILED" /\ enabled' = FALSE
    /\ UNCHANGED <<file, mask, event, drvMask, recorded, wait, rx, listenerVars, after, queue,
                   test, line, overrun, disturbed, budget>>

\* The thread of the window takes input or a timer.
Idle == ui = "idle" /\ queue = <<>>

\* OnCbnSelchangeComNum, when the selection differs.
OnCbnSelchangeComNum ==
    /\ Idle /\ Spend("input")
    /\ CloseCom("opening")
    /\ disturbed' = TRUE
    /\ UNCHANGED <<enabled, test, line, overrun>>

\* OnDeviceChange, sent to the window before any posted message: the port of
\* the window is not in the list of the system any more, and another one is.
OnDeviceChange ==
    /\ ui = "idle" /\ file # "open"
    /\ CloseCom("idle")
    /\ disturbed' = TRUE
    /\ UNCHANGED <<enabled, test, line, overrun, budget>>

OnDestroy ==
    /\ Idle
    /\ CloseCom("gone")
    /\ UNCHANGED windowVars

Open ==
    \/ OpenCom \/ OpenSucceeds \/ OpenReturns \/ OpenSetsUp \/ UpdateComUI \/ OpenFails
    \/ (StartListenerDone \/ StartListenerReturns) /\ UNCHANGED windowVars
Close == (StopListener \/ Joined) /\ UNCHANGED windowVars
-----------------------------------------------------------------------------
\* OnTxData: the device answers what reaches it.
OnTxData ==
    /\ WriteDone
    /\ line' = IF WriteAccepted THEN line \o Answer ELSE line
    /\ disturbed' = (disturbed \/ line # <<>> \/ rx # <<>>)

OnBnClickedUartTestStart ==
    /\ Idle /\ enabled /\ CanRegister(test, TRUE) /\ Spend("input")
    /\ test' = UartTestStart(Registered(test, TRUE))
    /\ IF Sends(test) THEN OnTxData ELSE UNCHANGED <<serialVars, line, disturbed>>
    /\ UNCHANGED <<listenerVars, uiVars, enabled, overrun>>

\* WM_TIMER is taken, and OnTimer posts WM_RESEND.
TimerRetrieved ==
    /\ Idle /\ test.timer
    /\ ui' = "timer"
    /\ UNCHANGED <<serialVars, listenerVars, after, queue, windowVars>>

OnTimer ==
    /\ ui = "timer" /\ ui' = "idle"
    /\ queue' = Append(queue, "RESEND")
    /\ UNCHANGED <<serialVars, listenerVars, after, windowVars>>

\* The thread of the window takes the message m.
Dispatch(m) ==
    /\ ui = "idle" /\ queue # <<>> /\ Head(queue) = m
    /\ queue' = Tail(queue)
    /\ UNCHANGED <<listenerVars, after>>

ReSend ==
    /\ Dispatch("RESEND")
    /\ test' = OnReSend(test)
    /\ IF Sends(test) /\ ~GivesUp(test) THEN OnTxData ELSE UNCHANGED <<serialVars, line, disturbed>>
    /\ UNCHANGED <<ui, enabled, overrun, budget>>

\* OnSerialMsg, for an event without data and for one with data.
OnSerialOther ==
    /\ Dispatch("SERIAL_OTHER")
    /\ UNCHANGED <<serialVars, ui, windowVars>>

OnSerialRecv ==
    /\ Dispatch("SERIAL_RECV")
    /\ ui' = "reading"
    /\ UNCHANGED <<serialVars, windowVars>>

\* One turn of its loop: it reads, and hands over what it read.
HandOver(s) ==
    IF s = <<>> \/ ~test.handler THEN UNCHANGED <<test, overrun>>
    ELSE IF Overruns(test, s) THEN overrun' = TRUE /\ UNCHANGED test
    ELSE test' = RxDataHandler(test, s) /\ UNCHANGED overrun

ReadOnce ==
    /\ ui = "reading" /\ ui' = "idle"
    /\ HandOver(Read) /\ ReadDone
    /\ UNCHANGED <<listenerVars, after, queue, enabled, line, disturbed, budget>>

ReadLoop ==
    /\ ui = "reading"
    /\ ui' = IF Read = <<>> THEN "idle" ELSE "reading"
    /\ HandOver(Read) /\ ReadDone
    /\ UNCHANGED <<listenerVars, after, queue, enabled, line, disturbed, budget>>

Handle == OnTimer \/ ReSend \/ OnSerialOther \/ OnSerialRecv \/ ReadLoop
-----------------------------------------------------------------------------
\* The line.  What comes while the port is not open is lost.
Arrives(b) ==
    /\ line # <<>> /\ line' = Tail(line)
    /\ IF file = "open" THEN ByteReceived(b) ELSE UNCHANGED serialVars
    /\ UNCHANGED <<listenerVars, uiVars, enabled, test, overrun>>

LineDelivers == Arrives(Head(line)) /\ UNCHANGED <<disturbed, budget>>
LineChanges == Arrives(Noise) /\ Spend("fault") /\ disturbed' = TRUE

LineLoses ==
    /\ line # <<>> /\ line' = Tail(line)
    /\ Spend("fault") /\ disturbed' = TRUE
    /\ UNCHANGED <<serialVars, listenerVars, uiVars, enabled, test, overrun>>

LineBreaks ==
    /\ BreakReceived /\ Spend("fault")
    /\ UNCHANGED <<listenerVars, uiVars, enabled, test, line, overrun, disturbed>>

Unplugged ==
    /\ DeviceGone /\ line' = <<>>
    /\ Spend("fault") /\ disturbed' = TRUE
    /\ UNCHANGED <<listenerVars, uiVars, enabled, test, overrun>>
-----------------------------------------------------------------------------
Window == Open \/ Close \/ Handle
User == OnCbnSelchangeComNum \/ OnDestroy \/ OnBnClickedUartTestStart
Environment == LineDelivers \/ LineChanges \/ LineLoses \/ LineBreaks \/ Unplugged
Listener == Thread /\ UNCHANGED windowVars

\* What follows an overrun is not known.
Next == ~overrun /\ (Window \/ User \/ OnDeviceChange \/ TimerRetrieved \/ Listener \/ Environment)

Spec == Init /\ [][Next]_vars

\* Both threads run, the timer expires, and a byte that is sent arrives or is lost.
RunningSpec ==
    /\ Spec
    /\ WF_vars(~overrun /\ Window) /\ WF_vars(~overrun /\ Listener)
    /\ SF_vars(~overrun /\ TimerRetrieved)
    /\ WF_vars(~overrun /\ LineDelivers)
-----------------------------------------------------------------------------
\* What a listener that runs relies on is still there after the step.
HandlesKept ==
    Alive => /\ file # "closed" => file' # "closed"
             /\ hevt => hevt'
             /\ hThread => hThread'

\* The listener uses the port's handle and its own event without asking
\* whether they are still there (ThreadProc): what is there while it runs is not
\* let go of before it has ended, whatever it is doing when CSerialWnd::Close
\* tells it to stop; nor is the handle of the thread itself.
HandlesOutliveListener == [][HandlesKept]_vars

\* An answer fits into the buffer of the test as long as it comes whole, and
\* before the text is sent again: nothing of an earlier test is left in it
\* (RxDataHandler, TestReset).
AnswerFits == overrun => disturbed

\* What the port has received is read, although one event may stand for
\* several bytes, and an event that arrives while another one is handled is
\* only recorded (ThreadProc, OnSerialMsg): unless the port is being closed or
\* is lost, or its listener has ended or waits for nothing.
BytesAreRead ==
    (rx # <<>> /\ file = "open" /\ Alive) ~>
        (rx = <<>> \/ stopping \/ file # "open" \/ ~Alive \/ WaitsForNothing \/ overrun)

\* Whoever closes the port comes back when the listener is waiting, or has
\* handled its event, as it is told to stop: setting the mask ends its wait
\* (StopListener waits for the listener without a time-out).  Not so when the
\* listener is between the test of m_fStopping and the wait: then the close
\* lasts until something happens on the line; and not when it waits for
\* nothing, because it took its failed wait for a good one.
CloseEnds ==
    (ui = "closing" /\ listener # "wait" /\ ~WaitsForNothing) ~> (ui \notin {"closing", "joining"} \/ overrun)

\* A test ends, with its handler taken back so that another one can start,
\* even if the device is gone and every text is lost (OnReSend, RxDataHandler);
\* unless the window is closed, or closes a port whose listener does not end.
TestEnds ==
    (test.timer \/ test.handler) ~>
        ((~test.timer /\ ~test.handler) \/ overrun \/ ui \in {"gone", "joining"})
=============================================================================
