------------------------------ MODULE SerialPort -------------------------------
(***************************************************************************)
(* CSerial (Serial/Serial.cpp): one Win32 handle, the last error, and the   *)
(* event mask, above the driver of the port.  The driver keeps what it       *)
(* received and the events it saw, and answers the one overlapped            *)
(* WaitCommEvent at the first event of the mask.  Line parameters do not     *)
(* matter here; they decide what a byte looks like on the wire only.         *)
(*                                                                          *)
(* An operation leaves what it does in the primed variables.                *)
(***************************************************************************)
EXTENDS Integers, Sequences

CONSTANT ReadSize          \* how many bytes one Read asks for: 100 in the code

ASSUME ReadSizeAssumption == ReadSize \in Nat \ {0}

VARIABLES
    file,         \* m_hFile: closed, open, or dead (open, its device is gone)
    mask,         \* m_dwEventMask
    event,        \* m_eEvent, written by the driver when a wait ends
    lastError,    \* m_lLastError, shared by the threads that use the port
    drvMask,      \* the driver: the events it looks for,
    recorded,     \*   those it has not reported,
    wait,         \*   the WaitCommEvent it has in hand,
    rx            \*   and the bytes received

serialVars == <<file, mask, event, lastError, drvMask, recorded, wait, rx>>

Events == {"EEventRecv", "EEventBreak"}
DefaultMask == Events

\* The Win32 call that fails when a port is opened; event and thread are those
\* its listener needs.
OpenFaults == {"none", "refused", "mask", "timeouts", "event", "thread"}

SerialInit ==
    /\ file = "closed" /\ mask = {} /\ event = {} /\ lastError = "SUCCESS"
    /\ drvMask = {} /\ recorded = {} /\ wait = "none" /\ rx = <<>>

\* What a call leaves that needs a port in order.
PortResult == IF file = "open" THEN "SUCCESS" ELSE "FAILED"
SetResult ==
    /\ lastError' = PortResult
    /\ UNCHANGED <<file, mask, event, drvMask, recorded, wait, rx>>
-----------------------------------------------------------------------------
\* CSerial::SetupReadTimeouts of an open port: the error it leaves.
SetupReadTimeouts(f) == IF f = "timeouts" THEN "FAILED" ELSE "SUCCESS"

\* CSerial::Open.  A mask that is not set goes unnoticed, SetupReadTimeouts
\* clears the error; timeouts that are not set are reported, with the port
\* left open.
OpenError(f) ==
    IF file # "closed" THEN "ALREADY_INITIALIZED"
    ELSE IF f = "refused" THEN "FAILED" ELSE SetupReadTimeouts(f)

SerialOpen(f) ==
    /\ lastError' = OpenError(f)
    /\ IF file # "closed" \/ f = "refused"
         THEN UNCHANGED <<file, mask, drvMask, recorded, wait, rx>>
         ELSE /\ file' = "open" /\ recorded' = {} /\ wait' = "none" /\ rx' = <<>>
              /\ mask' = IF f = "mask" THEN mask ELSE DefaultMask
              /\ drvMask' = IF f = "mask" THEN {} ELSE DefaultMask
    /\ UNCHANGED event

\* The port is opened, and closed again, which clears the error.
OpenedInVain ==
    /\ mask' = DefaultMask /\ lastError' = "SUCCESS"
    /\ UNCHANGED <<file, event, drvMask, recorded, wait, rx>>

\* CSerial::Close.
SerialClose ==
    /\ file' = "closed" /\ lastError' = "SUCCESS"
    /\ drvMask' = {} /\ recorded' = {} /\ wait' = "none" /\ rx' = <<>>
    /\ UNCHANGED <<mask, event>>

\* CSerial::Setup, and the getters of the line parameters: their data are left
\* out.
Setup == SetResult
GetLineParameters == SetResult

\* CSerial::SetMask(GetEventMask()): a pending WaitCommEvent ends without an
\* event.  The driver forgets what it recorded under the mask before.
SetMaskAgain ==
    IF file # "open"
      THEN lastError' = "FAILED" /\ UNCHANGED <<file, mask, event, drvMask, recorded, wait, rx>>
      ELSE /\ lastError' = "SUCCESS" /\ drvMask' = mask /\ recorded' = {}
           /\ IF wait = "pending" THEN wait' = "done" /\ event' = {}
              ELSE UNCHANGED <<wait, event>>
           /\ UNCHANGED <<file, mask, rx>>

\* CSerial::WaitEvent, up to what it returns.  WaitCommEvent refuses a dead
\* port, and one that looks for no event.
WaitRefused == file # "open" \/ drvMask = {}

WaitFails ==
    /\ WaitRefused
    /\ lastError' = "FAILED"
    /\ UNCHANGED <<file, mask, event, drvMask, recorded, wait, rx>>

\* It completes at once with what was recorded, or is pending.
WaitCommEvent ==
    /\ ~WaitRefused
    /\ lastError' = "SUCCESS"
    /\ IF recorded # {} THEN wait' = "done" /\ event' = recorded ELSE wait' = "pending" /\ UNCHANGED event
    /\ recorded' = {}
    /\ UNCHANGED <<file, mask, drvMask, rx>>

\* CSerial::GetEventType, then ClearCommError.
EventType == event \intersect mask
TakeEvent ==
    /\ event' = {} /\ wait' = "none"
    /\ lastError' = IF file = "open" THEN lastError ELSE "FAILED"
    /\ UNCHANGED <<file, mask, drvMask, recorded, rx>>

\* The event stays in m_eEvent.
EventDropped == wait' = "none" /\ UNCHANGED <<file, mask, event, lastError, drvMask, recorded, rx>>

\* CSerial::Read, which does not wait: the bytes it returns, and the rest.
ReadLen == IF file # "open" THEN 0 ELSE IF Len(rx) < ReadSize THEN Len(rx) ELSE ReadSize
Read == SubSeq(rx, 1, ReadLen)
ReadDone ==
    /\ rx' = SubSeq(rx, ReadLen + 1, Len(rx))
    /\ lastError' = PortResult
    /\ UNCHANGED <<file, mask, event, drvMask, recorded, wait>>

\* CSerial::Write: the port takes the data unless it is closed or dead.
WriteAccepted == file = "open"
WriteDone == SetResult
-----------------------------------------------------------------------------
\* The driver sees an event.
Signal(e) ==
    IF e \notin drvMask THEN UNCHANGED <<wait, event, recorded>>
    ELSE IF wait = "pending"
      THEN wait' = "done" /\ event' = {e} /\ UNCHANGED recorded
      ELSE recorded' = recorded \cup {e} /\ UNCHANGED <<wait, event>>

ByteReceived(b) ==
    /\ file = "open"
    /\ rx' = Append(rx, b)
    /\ Signal("EEventRecv")
    /\ UNCHANGED <<file, mask, lastError, drvMask>>

BreakReceived ==
    /\ file = "open"
    /\ Signal("EEventBreak")
    /\ UNCHANGED <<file, mask, lastError, drvMask, rx>>

\* The device is pulled out: what was pending ends.
DeviceGone ==
    /\ file = "open"
    /\ file' = "dead"
    /\ IF wait = "pending" THEN wait' = "done" /\ event' = {} ELSE UNCHANGED <<wait, event>>
    /\ UNCHANGED <<mask, lastError, drvMask, recorded, rx>>
=============================================================================
