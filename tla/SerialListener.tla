---------------------------- MODULE SerialListener ----------------------------
(***************************************************************************)
(* CSerialEx and CSerialWnd (Serial/SerialEx.cpp, Serial/SerialWnd.cpp): a   *)
(* thread of its own waits for the events of the port and posts them to the  *)
(* window.  The window's thread starts it when it opens the port, and has to *)
(* stop it before it closes the port.  The calls of the window's thread that *)
(* race with the listener are taken in steps.                                *)
(***************************************************************************)
EXTENDS SerialPort

VARIABLES
    stopping,     \* m_fStopping
    hThread,      \* m_hThread # 0
    hevt,         \* m_hevtOverlappedWorkerThread # 0
    hwnd,         \* m_hwndDest # 0
    listener,     \* where the thread is in ThreadProc: wait, returned, waiting,
                  \*   looped; or none, ended
    ui,           \* what the thread of the window is doing: idle, or a step of
                  \*   opening, closing, reading; gone
    after,        \* what it does once the port is closed
    queue         \* the messages posted to the window

listenerVars == <<stopping, hThread, hevt, hwnd, listener>>
uiVars == <<ui, after, queue>>

Alive == listener \notin {"none", "ended"}

ListenerInit ==
    /\ stopping = FALSE /\ hThread = FALSE /\ hevt = FALSE /\ hwnd = FALSE
    /\ listener = "none"
-----------------------------------------------------------------------------
\* CSerialWnd::Open, by the thread of the window.

\* CSerialWnd::Open up to CreateThread, when the port is not refused.  Without
\* an event CSerialEx::Open returns the error after its Close has cleared it, and
\* the listener is started above a closed port.
StartListener(f) ==
    /\ OpenError(f) = "SUCCESS"
    /\ IF f = "event" THEN OpenedInVain ELSE SerialOpen(f)
    /\ hevt' = (f # "event") /\ hwnd' = TRUE /\ hThread' = (f # "thread")
    /\ listener' = IF f = "thread" THEN "none" ELSE "wait"
    /\ ui' = "created"
    /\ UNCHANGED <<stopping, after, queue>>

\* The rest of StartListener: the error of CreateThread, or none.
StartListenerDone ==
    /\ ui = "created" /\ ui' = "started"
    /\ lastError' = IF hThread THEN "SUCCESS" ELSE "FAILED"
    /\ UNCHANGED <<file, mask, event, drvMask, recorded, wait, rx, listenerVars, after, queue>>

\* CSerialWnd::Close and CSerialEx::Close, then what a says.  Nothing is to be
\* waited for when no thread runs.
CloseCom(a) ==
    /\ hwnd' = FALSE
    /\ after' = a
    /\ IF hThread
         THEN /\ stopping' = TRUE /\ ui' = "closing"
              /\ UNCHANGED <<serialVars, hThread, hevt, listener>>
         ELSE /\ hevt' = FALSE /\ SerialClose /\ ui' = a
              /\ UNCHANGED <<stopping, hThread, listener>>
    /\ UNCHANGED queue

\* What StartListener returned is m_lLastError as it is now.
StartListenerReturns ==
    /\ ui = "started"
    /\ IF lastError = "SUCCESS"
         THEN ui' = "opened" /\ UNCHANGED <<serialVars, listenerVars, after, queue>>
         ELSE CloseCom("openFailed")

\* CSerialEx::StopListener: the pending WaitEvent is to end.
StopListener ==
    /\ ui = "closing" /\ ui' = "joining"
    /\ SetMaskAgain
    /\ UNCHANGED <<listenerVars, after, queue>>

JoinedNow ==
    /\ ui = "joining"
    /\ stopping' = FALSE /\ hThread' = FALSE /\ hevt' = FALSE
    /\ SerialClose
    /\ ui' = after
    /\ UNCHANGED <<hwnd, listener, after, queue>>

\* WaitForSingleObject(m_hThread, INFINITE) returns, and the port is closed.
Joined ==
    /\ ui = "joining"
    /\ listener = "ended" /\ listener' = "none"
    /\ stopping' = FALSE /\ hThread' = FALSE /\ hevt' = FALSE
    /\ SerialClose
    /\ ui' = after
    /\ UNCHANGED <<hwnd, after, queue>>
-----------------------------------------------------------------------------
\* CSerialEx::ThreadProc.

\* ResetEvent and WaitEvent.
ThreadWaits ==
    /\ listener = "wait"
    /\ WaitFails \/ WaitCommEvent
    /\ listener' = "returned"
    /\ UNCHANGED <<stopping, hThread, hevt, hwnd, uiVars>>

\* What WaitEvent returned is m_lLastError as it is now: the thread may end
\* although it waits, and may wait for nothing.
ThreadTests ==
    /\ listener = "returned"
    /\ listener' = IF lastError = "SUCCESS" THEN "waiting" ELSE "ended"
    /\ UNCHANGED <<serialVars, stopping, hThread, hevt, hwnd, uiVars>>

\* No event comes for the thread, however long it waits.
WaitsForNothing == listener \in {"returned", "waiting"} /\ wait = "none" /\ hevt

\* WaitForSingleObject has no event to wait for, and fails.
ThreadCannotWait ==
    /\ listener = "waiting" /\ ~hevt
    /\ listener' = "ended"
    /\ lastError' = "FAILED"
    /\ UNCHANGED <<file, mask, event, drvMask, recorded, wait, rx,
                   stopping, hThread, hevt, hwnd, uiVars>>

Message(e) == IF "EEventRecv" \in e THEN "SERIAL_RECV" ELSE "SERIAL_OTHER"

\* CSerialWnd::OnEvent.  Without a window the message goes to nobody.
OnEvent(e) == queue' = IF e = {} \/ ~hwnd THEN queue ELSE Append(queue, Message(e))

\* The wait ended.  While the listener is to stop, the event is dropped.
ThreadHandles ==
    /\ listener = "waiting" /\ wait = "done"
    /\ listener' = "looped"
    /\ IF stopping THEN EventDropped /\ UNCHANGED queue ELSE TakeEvent /\ OnEvent(EventType)
    /\ UNCHANGED <<stopping, hThread, hevt, hwnd, ui, after>>

ThreadLoopsOn ==
    /\ listener = "looped" /\ listener' = "wait"
    /\ UNCHANGED <<serialVars, stopping, hThread, hevt, hwnd, uiVars>>

\* while(!m_fStopping)
ThreadLoops ==
    /\ listener = "looped"
    /\ listener' = IF stopping THEN "ended" ELSE "wait"
    /\ UNCHANGED <<serialVars, stopping, hThread, hevt, hwnd, uiVars>>

Thread == ThreadWaits \/ ThreadTests \/ ThreadCannotWait \/ ThreadHandles \/ ThreadLoops
=============================================================================
