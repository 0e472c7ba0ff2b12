------------------------------ MODULE UartTester -------------------------------
(***************************************************************************)
(* CDlgUartTester (DlgUartTester.cpp): sends a fixed text to the device      *)
(* every 200 ms until it has been answered, or has been sent often enough.   *)
(* The answer is the text upside down; what is received before its first     *)
(* byte is skipped, and what follows goes to a buffer of the answer's size.  *)
(*                                                                          *)
(* A test is a record: handler is the main window's Hander, timer m_TimerId, *)
(* resent m_nReTxCounter, data what m_dstData holds (m_nLen bytes of it),    *)
(* and found m_isFoundHead.                                                  *)
(***************************************************************************)
EXTENDS Integers, Sequences

CONSTANTS
    TestSize,       \* TEST_DATA_SIZE: 8 in the code
    MaxReSendCount  \* m_nMaxReSendCount: 20 when the profile says nothing

ASSUME UartTesterAssumption ==
    /\ TestSize \in Nat \ {0}
    /\ MaxReSendCount \in 1..255

Head1 == 1                            \* 0xA5
Noise == 0                            \* a byte that the device did not send
Answer == [i \in 1..TestSize |-> i]   \* g_TestDataDst
-----------------------------------------------------------------------------
TestResetKeeps(t) == [t EXCEPT !.resent = 0, !.timer = FALSE]
TestReset(t) == [t EXCEPT !.resent = 0, !.data = <<>>, !.found = FALSE, !.timer = FALSE]

\* The constructor: no test runs.
NoTest == [handler |-> FALSE, timer |-> FALSE, resent |-> 0, data |-> <<>>, found |-> FALSE]

\* CMainDlg::RegsterRcvDataCb.
CanRegister(t, h) == ~t.handler \/ ~h
Registered(t, h) == [t EXCEPT !.handler = h]

\* What UpdateProcessCtrl(DOWNLOAD_END) does besides the progress bar.
Released(t) == Registered(t, FALSE)

\* UartTestStart: the first call starts the timer, the others send.
Sends(t) == t.timer
UartTestStart(t) ==
    IF ~t.timer THEN [t EXCEPT !.timer = TRUE]
    ELSE [t EXCEPT !.resent = @ + 1]

\* OnReSend gives up, or goes on.
GivesUp(t) == t.resent >= MaxReSendCount
OnReSendKeeps(t) == IF GivesUp(t) THEN TestReset(t) ELSE UartTestStart(t)
OnReSend(t) == IF GivesUp(t) THEN Released(TestReset(t)) ELSE UartTestStart(t)
-----------------------------------------------------------------------------
\* RxDataHandler: the bytes from the first byte of an answer on.
FromHead(s) ==
    LET heads == {i \in 1..Len(s) : s[i] = Head1}
    IN IF heads = {} THEN <<>>
       ELSE SubSeq(s, CHOOSE i \in heads : \A j \in heads : i <= j, Len(s))

\* m_nLen is 0 as long as the head was not found.
Collected(t, s) == t.data \o IF t.found THEN s ELSE FromHead(s)

\* The copy leaves m_dstData.
Overruns(t, s) == Len(Collected(t, s)) > TestSize

Passed(t) == t.data = Answer
RxDataHandler(t, s) ==
    LET r == [t EXCEPT !.data = Collected(t, s), !.found = Collected(t, s) # <<>>]
    IN IF Passed(r) THEN Released(TestReset(r)) ELSE r
=============================================================================
