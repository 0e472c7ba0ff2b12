# Verification of Iap2

TLA+ models of the programs in this repository, model-checked with TLC and, where
they matter most, proved with TLAPS.  The repository holds an iAP2 accessory link
for a small device (`Src/`), the run-time it uses (`Arch/`: timers, lists, queues,
message loop, console), and a Windows tester (`PsFwTester/`) with a serial port, a
UART transfer protocol, an OTA download and a bench that runs the iAP2 link
against packets the user plays.

1. The system · 2. The modules · 3. The runs · 4. The proofs · 5. Not modelled · 6. Plan

## 1. The system

| Component | State it keeps | Operations | What makes it correct |
|---|---|---|---|
| iAP2 link, `Src/Iap2Link.c` | `m_State`, the one I/O request block `m_Irb`, three packet buffers, `m_ReTxTimer` with its counter and limits, `m_NextSentPSN` | `Iap2Link_Start`, `Iap2Link_TransferDone` (detection, synchronization, dispatch), `Iap2Link_Run` (re-send) | the transfer in progress is always the one the next handler expects; the link comes up; it never stops while the device behaves |
| Session manager, `Src/iAp2Session.c` | `m_State` of the session | `SessionMgr_Fsm` and its handlers | each request is answered by name, a response is confirmed before the next request |
| Control session, `Src/Iap2CtrlSession.c` | `m_MsgId` | `ReqProc`, `EventProc` | after every answer the session listens again |
| iAP2 test driver, `PsFwTester/Code/Driver`, `IapTester.cpp` | two completion flags, a pointer to `m_Irb`, `m_isExit` | `Driver_TransferStart`, `Driver_Check`, `Driver_TxDone`, `Driver_RxDone`, `iAP2_Run` | a completion is not lost between two threads; a stop ends the loop |
| Software timers and list, `Arch/SwTimer.c`, `Arch/List.c` | timers in a list, ticks that wrap | create, start, reset, stop, release, run | a timer fires when its time has passed and not before; handlers may change the list |
| Ring queue, `Arch/queue.c` | two pointers, full and empty flags | push, pop, count, for one element or an array | a bounded first-in first-out sequence |
| Persistent log, `Arch/QueueEx.c` | pointers on a card, one sector in memory | push, read, flush, restore, reset | what is collected fits its sector |
| Message loop, `Arch/Arch.c`, `Arch/Message.c` | the message queue, the list of interfaces | post, add and remove an interface, one turn of the loop | every accepted message is handled once, in order; every interface runs |
| Console, `Arch/Shell.c`, `Arch/CmdLine.c`, `Arch/Str.c` | the word that switches the output, the line being typed | one poll of the UART, one byte of a line, one command | output switched off stays off; a command gets the arguments its title asks for |
| UART transfer protocol, `PsFwTester/CCode/UtpMgr.c` | request and response slot, sequence number, parser | post, send, receive, answer, retry | an answer reaches the request it is for |
| OTA download, `PsFwTester/Code/DlgOta.cpp` | file, offset, timer | start, next block, answer, finish | blocks are sent in order; success means the device holds the file; it ends |
| OTA file, `PsFwTester/Code/OtaFile.cpp` | the file | convert, append, crc, open | the image holds the file and is recognised |
| Serial port and its window, `PsFwTester/Code/Serial` | two handles, two events, a listener thread | open, close, wait, read, write | the handles outlive the listener; nothing received is left unread |
| Main window and UART test, `MainDlg.cpp`, `DlgUartTester.cpp` | registered handler, test counters, buffer | select a port, read loop, send, re-send, compare | a whole answer fits; a test ends |
| Test case runner, `PsFwTester/Code/TreeCtrl` | thread handle, counters, the tree | run, stop, walk | one run at a time; every case of a walk is run |
| UART driver, bits, printing, flashing, other dialogs, widgets | | | not modelled: see section 5 |

How the parts meet.

* **Device.**  The main loop (`Arch_Run`) takes one message, walks over the
  interfaces and runs the console, in turn; interrupts post to the same queue.  The
  link is run from it through `Iap2Link_Run`.  The owner of the transport is given
  `m_Irb` by `TransferStart` and calls `Iap2Link_TransferDone` when the transfer is
  over; that one call runs the link's state machine or, once the link is up, the
  session's, which calls the control session back and starts the next transfer.
  There is no other source of activity: **a handler that ends without starting a
  transfer, while no re-send is to come, stops the link for good.**
* **Tester.**  One thread owns the windows.  A listener thread waits for events of
  the serial port and posts them to the main window, which reads all there is and
  hands it to the one registered handler: the UART test, or the UART protocol of the
  OTA download.  The iAP2 bench has two more threads, one per tree: the first runs
  the link, the second plays the device.  They share flags and buffers without a lock.

What is hard here: one request block and three buffers shared by three layers and
the re-send timer; failures swallowed or ignored; counters and limits that wrap; a
list changed by the functions that are called while it is walked over; a head of a
queue used outside its lock; a listener that may wait forever on a port that is
being closed; an answer that comes after its request was given up; packets and bytes
that are lost, repeated, corrupted, or come at any time.  `hazards` in PROJECT.json
lists these, line by line.

## 2. The modules

Five groups, each with the instance TLC checks in its `MC...` module.

| Group | Module | Models |
|---|---|---|
| iAP2 link | `Iap2LinkIo` | the transfer services of `Iap2Link.c`, the timer and the counters, the packets |
| | `Iap2Session` | `iAp2Session.c` with `Iap2CtrlSession.c`: one operator per branch of each handler |
| | `Iap2Link` | the rest of `Iap2Link.c`, the transport and the device |
| | `Iap2Exchange` | abstract: what a link promises, without buffers, timers or transfers |
| | `Iap2LinkProps` | the properties, the refinement mapping, the fairness |
| | `Iap2LinkProofs` | the theorems |
| Queues | `QueueOps` | `queue.c` as operators on a record of pointers and flags |
| | `RingQueue` | one action per call of `queue.c` |
| | `BoundedQueue` | abstract: a sequence of at most `Capacity` elements |
| | `ArchLemmas`, `RingQueueProofs` | what each operator does to the queued sequence, and each operation of `List.c` to the nodes of a list; the theorems |
| | `QueueEx` | `QueueEx.c`: the same ring with its bytes on a card, sector by sector |
| Run-time | `LinkedList`, `TimerManager` | `List.c` as operators on two pointer functions; `SwTimer.c` |
| | `TimerProofs` | the theorems on when timers fire and on their list |
| | `MessageLoop` | `Arch.c` and `Message.c` over `QueueOps`, `LinkedList` and `Console` |
| | `Mailbox` | abstract: what posting a message promises |
| | `Console`, `CmdLine`, `Str` | `Shell.c`; `CmdLine.c` from a line to a command and its arguments; `Str.c` |
| | `MessageLoopProofs` | the theorems |
| Serial tester | `SerialPort`, `SerialListener` | `Serial.cpp`; `SerialEx.cpp` and `SerialWnd.cpp` with the listener thread |
| | `UartTester`, `TesterWindow` | `DlgUartTester.cpp`; `MainDlg.cpp` with all of the above and the line |
| | `SerialProofs` | the theorems |
| | `UtpMgr`, `OtaDownload` | `UtpMgr.c` as operators, used for both ends; `DlgOta.cpp`, the main window's dispatch, the line and the device |
| | `RemoteCalls` | abstract: calls with at-least-once execution |
| | `OtaProofs` | the theorem on the slot of the protocol manager |
| | `OtaFile` | `OtaFile.cpp` and the two dialogs that use it, as operators on files |
| iAP2 bench | `CaseTree`, `TreeData` | `CaseTreeCtrl.cpp` and its thread; how lists become trees and are searched |
| | `IapTester` | `IapTester.cpp` and `Driver.c` in place of the transport of `Iap2Link` |
| | `IapTesterProofs` | the theorems on the trees, their threads and the transmissions |

`map` in PROJECT.json gives the lines each definition stands for.  In every group
one action is one step that another thread, an interrupt or a handler can come
between; what the code does in one such step, whole, is in it.

### The link

`irb` is `m_Irb`: its direction, the buffer it points to and
whether `m_ActLen` is zero.  `inflight` says that the transport holds it;
`TransferStart`'s refusal is the parameter `ok` of every operator that starts a
transfer.  `timer`, `reTxCount`, `maxReTx`, `reSendMs`, `nextPSN` are the fields
of `Iap2Link` (`m_ReTxTimer`, `m_ReTxCount`, `m_MaxReTxCount`, `m_ReSendTimeMs`,
`m_NextSentPSN`), `mState` and `sState` the two state machines, `msgId` the
control session's `m_MsgId`.  `pkt` holds the packets in `m_pReqPkt`, `m_pRspPkt`
and `m_pAckPkt`.  A packet is kept as what the code tells apart: whether
`Iap2Link_Verify` accepts it, its control bits, its two sequence numbers and the
kind of its payload; it has no length, so that the reception of the bytes of a request into
the smaller buffer of an acknowledgement (`iAp2Session.c:116`) does not show: the device's
acknowledgement is taken to fit.  `hung` is a failed `ASRT`, which loops forever in the
debug build.  (The release build compiles the assertion away and re-sends without pause.)

One action of `Next` is one call into the code, whole: `Complete` runs
`Iap2Link_TransferDone` with everything it calls, down to the control session and
back to the next `TransferStart`.  `Iap2Link_Run` is one turn of the main loop,
`TimeOut` the moment its timer's condition becomes true.

Handlers that are not actions: `SessionMgr_FsmTxReq` and `SessionMgr_FsmRxRsp`
belong to states that are never entered (theorem `NoOwnRequests`);
`Iap2CtrlSession_SendMsg`, `Iap2CtrlSession_RspProc` and `Iap2Link_TimeOut` are
never called or are empty.

**Its environment.**  The transport and the device are not in `Src/`; they are modelled from how the
code uses them (`external` in PROJECT.json).  The device answers a frame it hears
with the frame the protocol calls for, numbered after the last one it sent, and
sends a new request after an acknowledgement.  What may go wrong is a set of
faults, `faults`, chosen in the initial state and never changed: a start is
refused, a transmission or a reception fails, a frame is lost, a packet is
corrupted, a reception brings no byte, the device repeats its last packet, does
not know the detection sequence, resets the link, or puts it to sleep.  A property
that holds only in some environments says in which; this turns "what happens
under which failure" into one run instead of one per failure.

Which environments can stop the link was found by checking `Driven` ("a transfer
is outstanding or a re-send will come") for every single fault: it holds with no
fault, with lost frames and with a device that does not echo the detection
sequence, and it fails with each of the other eight.  `NeverSilent` states the
first half.  The second is how the code is: it has no recovery from these faults,
and `Iap2Exchange` says so with its `FallSilent` step.

### Queues

`QueueOps` keeps `m_pRd`, `m_pWr` and the two flags as the code does, with pointers
counted in elements: what is queued is computed from them, never stored.
`RingQueue` calls every operation in every state, with arrays that are longer than
the buffer.  `QueueEx` has the pointers of the log and those of the sector in
memory (`m_WriteLen`, `m_WritePos`), pushes and reads one turn of their loops at a
time, the texts kept until the card is there, and `PowerOff`, after which only what
`QueueEx_Serialize` saved is there.  It is checked for one property only, which
fails: what it does after that is not a state worth exploring (finding 4).

### The main loop

`pc` says where the loop is: before the message (`top`), in a handler (`handle`),
before the removal (`remove`), in the `Run` function of an interface (`run`), in the
console (`shell`).  Interrupts may call `Arch_PostMsg` at every `pc`; handlers and
`Run` functions may post, and add or remove interfaces, themselves included, and those
that are in the list already.  `Arch_MsgIfRemove` looks whether the interface is in the
list; `Arch_MsgIfAdd` does not.  Adding the head again cuts the list behind it and links
the head to itself (`Looped`: the assertion of `List.c:28` compares the nodes behind the
head only), and whoever follows `m_pNext` from it, in the walk or in a search, walks forever;
adding any other member again stops at that assertion.  `hung` is the loop that will not get
on, in a search of `List.c` or in `ASRT`.  (The release build compiles the assertion
away and links that member to itself, too; that build is not modelled from there on.)  The
walk's next node is read after `Run` returned, as in `Arch.c:219`.  The console
takes up to `ReadMax` bytes in a turn, so the word that switches the output may be
cut anywhere; a NUL, which `str_SearchInStream` takes for the end of its mask, is not
among the bytes (`Bytes`), so what a NUL in the middle of the word does is not shown.
`PowerOff` may come at any step and keeps the stored switch only.

What a line of the console means is in `CmdLine`, and is not part of the state: the
argument count read from a title, the split of a line, the command found, the
conversion of its arguments.  `MCMessageLoop` states what that comes to as
assumptions, which TLC evaluates over every line of up to four characters.  Read
from it: a comma inside a comment of a title asks for one argument more than the
function takes, so `SetMcuState`, `SetPartNumber` and others cannot be called with
the number their function has; a command whose name is the beginning of an earlier
one is never found; a sixth argument is written past `pArgs` before the line is
refused.  In `Str`, an odd-sized buffer is exceeded by one byte by
`str_ConvertToUnicod`, and `str_add` does not return the length; only
`str_GetFromStream` is called from this repository.

### Timers

`TimerManager` has the timers, the list, and the walk of `TimerManager_Run` with
the node it is at and, after a timer fired, the next one it read beforehand.  Time
passes between its steps, up to `MaxLag` ticks from the end of one run to that of the
next, and the handler of a timer that fires may call every operation on every timer.
`age` is a history variable: how long ago a timer was started, which the code does not
know.  `SwTimer_ReStart` does not ask whether the timer has a time-out: one that has none is
re-started all the same.

### The serial tester

Two threads.  `SerialListener` splits `ThreadProc` at the test of `m_fStopping`, the
overlapped wait, its result and the handling of the event, and the open and close of
the window's thread at each step that matters to the listener.  `TesterWindow` adds
the messages posted to the main window, in their order, its read loop, the timer of
the UART test and the line that brings bytes, breaks, or loses the port; and
`OnDeviceChange`, which Windows sends to the window before any posted message and which
closes a port that is not in the system's list any more, at some time or never.  An open
may fail at each call of Win32 it makes (`OpenFaults`).  Without a thread the port is
closed again.
Without an event for the listener, `CSerialEx::Open` keeps the error in `m_lLastError` and
calls `CSerial::Close`, which clears it; "Return the error" (`SerialEx.cpp:98`) then returns
a success, the listener is started above a closed port, and the window enables the test.
An answer that does not fit `m_dstData` sets `overrun`, after which nothing is known: no
action is enabled.  The line and Win32 are modelled from how the code uses them (`external`).

`OtaDownload` puts `UtpMgr` on both ends of a line of frames: the host's in the window
thread, driven by its messages and by the timer of the dialog, the device's from the
same source.  Messages that were posted come before input and input before the
timer, as Windows delivers them.  The OTA dialog is taken as a page of the main
window, although `MainDlg.cpp` creates only two others: its handlers are the ones in
the source.  Sequence numbers and blocks are numbers; frames are bytes with their head, tail
and XOR, as a lost byte shifts them.

### The iAP2 bench

`IapTester` extends `Iap2Link` and uses its operators with a transport of its own:
`Driver_TransferStart` sets a flag, `Driver_Check` calls the handler and clears it
afterwards, in separate steps, and the second thread sets flags, the length and the
buffer of whatever `m_Irb` describes, in three.  `CaseTree` has the thread of the user
interface and one thread per tree; each look at a tree is a message that waits for
the user interface (`UiAnswers`).  A packet copied where it does not fit, or while
there is no buffer, sets `overrun`, as above.  `TreeData` says which cases an item
stands for; the assumption `SelectionsAreRuns` ties it to what `CaseTree` lets the
user select.

## 3. The runs

| Run | Module | Properties | Distinct states | Shows |
|---|---|---|---|---|
| `link_safety` | `MCIap2Link` | nine, below | 1.34 million | the link under no fault, each, each pair, and two sets with nearly all |
| `link_liveness` | `MCIap2Link` | `LinkComesUp`, `RequestIsAnswered`, `DetectionAndSyncGetOut` | | the link gets on, also when transmissions fail |
| `ring_queue` | `MCRingQueue` | `FlagsTellMeeting`, `CountsAgree`, `ImplementsBoundedQueue` | | the ring is a bounded queue |
| `message_loop` | `MCMessageLoop` | `TypeOK`, `HeadKept`, `InterfacesAreAList`, `SilentStaysSilent`, `DeliversInOrder`, `MailIsHandled`, `MembersRun` | 290 thousand | the loop implements the mailbox, and nothing starves |
| `timers` | `MCTimerManager` | `TypeOK`, `ListHoldsUsedTimers`, `FiresNeitherEarlyNorDead`, `NotPassedWhenDue`, `KeepsFiring` | 377 thousand | timers against handlers that change the list, and the wrap |
| `serial_port` | `MCTesterWindow` | `HandlesOutliveListener`, `AnswerFits`, `BytesAreRead`, `CloseEnds`, `TestEnds` | 301 thousand | window and listener on a port that fails |
| `ota_download` | `MCOtaDownload` | `SlotFreeWhenPosting`, `SuccessIsComplete`, `AnswersAreForTheirRequest`, `DownloadEnds` | 130 thousand | a download over a line that loses frames and bytes |
| `iap_tester` | `MCIapTester` | `HandleMatchesThread`, `EveryCaseIsRun`, `TransmissionsEnd`, `StopIsNotLost` | 327 thousand | the link's thread against the user's and the player's |
| `swallowed_failure` | `MCIap2Link` | `FailureAwaitsReSend` | | violated: finding 1 |
| `timer_assertion` | `MCIap2Link` | `SwTimerAssertion` | | violated: finding 2 |
| `lost_syn` | `MCIap2Link` | `LostSynIsReSent` | | violated: finding 3 |
| `log_sector` | `MCQueueEx` | `WriteLenFits` | | violated: finding 4 |

Every property has a mutant of a mapped definition in PROJECT.json that breaks it.

### The link

The runs of the link use `SeqMod = 3` (sequence numbers, 256 in the code), `CounterMod = 6` (the
`uint8` counter, 256) and `MaxReTx = 3` (`IAP2_MAX_RETX_COUNT`, 10), and three
kinds of request: one that gets a response, one that is acknowledged, and the
acceptance of the identification.  With three sequence numbers a current, a
previous and a next number are distinct.  The counter passes its limit and wraps
within one detection and one synchronization followed by a few requests, and the
unlimited value, the limit and zero are distinct, as `CounterAssumption` requires.
The state space is finite with no other bound.

The safety properties:

* `TypeOK`.
* `NeverSilent`: with lost frames and an unknown device, a started link always has
  a transfer in progress or a re-send to come.
* `NeverHangs`: outside the environments that restart detection or
  synchronization again and again, no transfer without an interval is re-sent.
* `TransferFitsState`: what is outstanding has the direction and the buffer the
  handler of its completion expects, in all environments, re-sends included.
* `NoRequestOfOurOwn`: the half of the session's state machine that issues
  requests is never entered.
* `AnswerNamesRequest`: an answer on its way names the packet it answers,
  although the buffers are shared.
* `DeviceIsAnswered`: the same seen from the device, end to end.
* `NumbersInStep`: the numbers the device hears have no gap and no repetition.
* `ImplementsExchange`: the link implements `Iap2Exchange`.  The mapping reads the
  phase from `m_State`, the stage from the session's state and `inflight`, and
  the request and the answer from the packets in the buffers, so that an answer
  built from the wrong buffer, a second request taken before the first is
  answered, or a response not confirmed is not a step of the abstract one.

`CHECK_DEADLOCK FALSE`: under the faults named above the link does stop; where it
may not, `NeverSilent` and the liveness properties say so.

Fairness.  `FairSpec` assumes that the application calls `Iap2Link_Start`, that the main loop
keeps calling `Iap2Link_Run` and time passes (weak fairness: both are endless
loops); that the device sends what it owes (weak); and that a transport which may
fail does not fail forever (strong fairness of `TransmitDone`: a failed
transmission disables it until the re-send).  Losing frames is not excluded by
any of these.

### The ring queue

`Capacity = 3`, two elements, arrays of up to four: an array may go round the ring,
fill it exactly and exceed it, from every position.  `FlagsTellMeeting`: pointers that
meet mean exactly one of empty and full.  `CountsAgree`: the four counting functions
agree, and an empty stretch means there is nothing to move, which is what the loops
of the array operations stop on.  `ImplementsBoundedQueue`: no call loses, repeats,
reorders or invents an element.

### The message loop

Two places for messages, so that a handler that posts meets a full queue; three
interfaces, so that one may be removed before, at and behind the walk; a word of two
letters read at most two bytes at a time.  `HeadKept` is what makes the use of the
head without the lock right.  `DeliversInOrder` is the refinement of `Mailbox`.
`SilentStaysSilent` relates the switch to what a restart finds.
`MailIsHandled` and `MembersRun` assume weak fairness of `LoopStep`: the loop is
endless and every handler returns.  Both are stated for calm walks
(`CalmWalks`): two `Run` functions that keep taking each other out and adding each
other back at the tail make one walk endless, since the walk reaches what is added
while it lasts.  TLC finds this when the assumption is dropped.  Calm walks are also those
of a loop that does not hang and a list that was not `Looped` by adding its head again;
until then, `InterfacesAreAList` says, the interfaces are a list.

### The timers

Two timers, a tick counter of 5 values and a time-out of 2, one tick from the end of one
run to the next: the wrap falls into a running time, and one tick is lost at it, as the code
computes it.  `FiresNeitherEarlyNorDead` and `NotPassedWhenDue` bound the
firing from both sides, by `age`; the slack of one tick in the second is the code's.
`ListHoldsUsedTimers` is the list under handlers.  `KeepsFiring`: a started timer that
is left alone is reached again and again, as handlers cut a walk short but cannot keep
it from a node.  Fairness: the loop calls `TimerManager_Run` and ticks pass.

### The serial tester

Texts of two bytes and reads of two, one re-send, two acts of the user, one fault
(a lost or changed byte, a break, an unplugged port, a refused call of Win32).
`HandlesOutliveListener`: no step lets go of the port, the event or the thread's handle
while the listener runs.
`AnswerFits` relates the buffer to what the line did: only a disturbed line overruns
it.  `BytesAreRead`: one event may stand for several bytes, and nothing stays in the
port.  `CloseEnds` says for which positions of the listener a close comes back by
itself: not when it has tested `m_fStopping` and not begun to wait (the close then
lasts until something happens on the line), and not when its wait failed and the
window's thread has overwritten `m_lLastError` with a success, so that it waits for
nothing.  `TestEnds`: a test whose port is closed, unplugged or silent still comes to
its end.  Fairness: both threads run (weak), the line delivers (weak), and a timer
that keeps expiring is retrieved at some time although posted messages come first
(strong).

### The OTA download

Two blocks, one of which looks like the head of a frame; three sequence numbers for at least five
requests, so that they wrap and an old answer may carry a new request's number; two
transmissions of each; one fault, of the line, the device or the file; three acts of
the user.  `AnswersAreForTheirRequest` is the refinement of `RemoteCalls`.
`SuccessIsComplete` relates the report to the device's memory.
`SlotFreeWhenPosting`: `UtpMgr_PostReq`'s result is not looked at, so the slot has to
be free.  `DownloadEnds` holds as long as the dialog's timer runs: it is started once,
in `OnInitDialog`, and killed at the end of the first download, so a later one has
nothing to drive its retries.  The XOR does not notice a lost byte that equals the one
shifted into its place, the tail of the frame; the blocks avoid that value, and in the program
the verification at the end is what would notice.  Fairness: the window handles its messages,
its timer runs, time passes; the line and the device may be dead.

`XorIsBitwise` compares the exclusive or of `UtpMgr`, bit by bit because the library's cannot
be proved about, with the library's.  The other assumptions of `MCOtaDownload` check `OtaFile`
for files of every length up to two
sectors and a bit: the crc is CRC-16/CCITT, an image holds the file and its version,
and an image is recognised when it is opened again.  They also say what the code does
not do: an image shorter than `MIN_FILE_LEN` is taken as raw and would be wrapped a
second time, and opening checks the crc of the last sector, never that of the code.

### The iAP2 bench

Three sequence numbers, a counter of three, three clicks, the first three cases of the
player (four pass as well, with 855 thousand states).  `HandleMatchesThread`: the
handle a double click decides by is right although the thread may begin before it is
stored.  `EveryCaseIsRun`: only a stop makes a walk pass over a case, by the counters
the two threads share.  `TransmissionsEnd`: the flag the driver clears late never
swallows the end of a transmission, as long as the user does not play one himself.
`StopIsNotLost`: a stop always ends the link's loop, when it comes before the
loop, in it or as it ends; a second stop leaves the flag set, and the next run then
ends at once.  Fairness: each thread runs (weak) while nothing was overrun.

`CHECK_DEADLOCK FALSE` in the runs of the link, the serial port, the download, the bench
and the log: under the faults named, after an overrun, or when the user has no acts
left, the system does stop; where it may not, the liveness properties say so.

### Findings

1. A failed transfer is discarded while the timer runs, "Waiting for time out and
   re-send" (`Src/Iap2Link.c:327`).  The timer of the SYN keeps running until the
   first session ends, but the transfers after the SYN have a limit of 0, so
   nothing is re-sent: the link has stopped.
2. `m_ReTxCount` is incremented by each `Iap2Link_TxData` and never reset.  When it
   wraps to 0 while the SYN's timer runs, `Iap2Link_ReTx` calls `SwTimer_Start`
   with 0, against its assertion (`Arch/SwTimer.c:17`).
3. The "Re send timer" of a SYN expires when `m_Irb` already describes the reception
   of the answer, and re-starts that: a SYN the device did not hear is never sent
   again, whatever the limit.
4. `QueueEx_PushInEx` measures what fits the sector in memory from the read pointer
   (`Arch/QueueEx.c:131`), and copies it behind the `m_WriteLen` bytes already there.
   After a read that ended inside a sector the sum exceeds the sector, against the
   assertion of `QueueEx.c:95`.
## 4. The proofs

For every value of the constants, from the named assumptions of the modules:

| Module | Theorem | States |
|---|---|---|
| `Iap2LinkProofs` | `LinkTypeCorrect` | `Spec => []TypeOK` |
| | `LinkTransferCorrect` | `Spec => []TransferFitsState` |
| | `LinkAnswersCorrect` | `Spec => []AnswerNamesRequest` |
| | `NoOwnRequests` | `Spec => []NoRequestOfOurOwn` |
| | `LinkImplementsExchange` | `Spec => ImplementsExchange` |
| | `NumbersStayInStep` | `Spec => []NumbersInStep` |
| | `DeviceHearsItsAnswer` | `Spec => []DeviceIsAnswered` |
| | `LinkStaysDriven` | `Spec => []NeverSilent` |
| | `LinkNeverHangs` | `Spec => []NeverHangs`, if `CounterMod > 4` |
| `RingQueueProofs` | `FlagsTheorem` | `Spec => []FlagsTellMeeting` |
| | `CountsTheorem` | `Spec => []CountsAgree` |
| | `RingQueueImplementsBoundedQueue` | `Spec => ImplementsBoundedQueue` |
| `MessageLoopProofs` | `LoopTypeCorrect` | `Spec => []TypeOK` |
| | `HeadStaysInPlace` | `Spec => []HeadKept` |
| | `LoopImplementsMailbox` | `Spec => DeliversInOrder` |
| | `SilenceIsKept` | `Spec => []SilentStaysSilent` |
| | `InterfacesStayAList` | `Spec => []InterfacesAreAList` |
| `TimerProofs` | `TimersTypeCorrect` | `Spec => []TypeOK` |
| | `NoneFiresEarly` | `Spec => FiresNeitherEarlyNorDead` |
| | `NoneIsPassedWhenDue` | `Spec => NotPassedWhenDue` |
| | `ListHoldsTimersInUse` | `Spec => []ListHoldsUsedTimers` |
| `SerialProofs` | `ListenerHasItsHandles` | `Spec => []HandlesOutliveListener` |
| | `AnswersFitTheBuffer` | `Spec => []AnswerFits` |
| `OtaProofs` | `SlotIsFree` | `Spec => []SlotFreeWhenPosting` |
| `IapTesterProofs` | `HandleTellsTheThread` | `TesterSpec => []HandleMatchesThread` |
| | `WalksAreComplete` | `TesterSpec => []EveryCaseIsRun` |
| | `TransmissionsAreNotLost` | `TesterSpec => []TransmissionsEnd` |

**The link.**  For every width of the numbers and of the counter, every limit below the
unlimited value, every set of requests and of fault sets (`SeqModAssumption`,
`CounterAssumption`, `RequestsAssumption`, `FaultsAssumption`).

`TransferFitsState` is not inductive: while nothing is outstanding it says nothing,
and then the main loop may start `m_Irb` again.  `TransferInv` extends it to every
state in which a re-send could come, `MayTransfer`.  That would be false once the
link is up (a session that was reset may be left with a stale `m_Irb` and a
running timer), so it needs a second fact: from the acknowledgement of the
device's SYN on, the re-send interval is 0, and what `Iap2Link_Run` then starts it
also hangs on.  `NoRequestOfOurOwn` needs `ResponseInv`: a response is only ever in
progress for `REQ_AUTH`, hence the event that ends it never takes the branch that
asks to send a request.  `Inv` is the conjunction of these with `TypeOK` and
`AnswerNamesRequest`; all its parts were checked with TLC before they were proved.

The argument follows the code: a lemma for each service (`TxDataType`,
`RcvDataType`, `StartNothingType`), one for each state machine
(`HandShakeInv`, `SyncLinkInv`, `SessionFsmInv`), `TransferDoneInv` to put them
together, `CompleteInv` and `ReceiveInv` for what the environment hands over, and
`StepInv` with one step per action of `Next`.

The refinement is proved from `Inv`.  `Mapped` says, case by case, which abstract
state a state of the link stands for, now and after a step; six lemmas then give
the abstract step of each kind of change (`SilentStep`, `DownStep`,
`SynchronizeStep`, `ListenStep`, `TakeStep`, and `Respond` inside
`SessionFsmStep`), and the handlers are gone through branch by branch.  `Inv` is
needed in four places: a reset can only arrive while the session waits to
receive (`TransferFitsState`), the response being sent still names the request in
`m_pReqPkt`, the end of a confirmed response always listens again
(`ResponseInv`), and what the main loop re-sends once the link is up it hangs on
(`TransferInv`), which is why silence is final.

**The link and its faults.**  The four properties that hold in some environments only
have an inductive invariant each, and these rest on `Inv`, on `StaleInv` (a reception
that the timer did not start again has received nothing yet, so what a handler finds in
the buffer came with this transfer) and on `Dialled` (until detection ends the device
owes nothing but the detection sequence).
`NumbersInv`, for `NumbersInStep`: the frame being transmitted, now *or when the timer
starts it again*, bears the last number given out (`LastNumberOut`).
`NamesInv`, for `DeviceIsAnswered`: an answer in progress names the last packet of the
device, whose first number is 0.
`DrivenInv`, for `NeverSilent`: the session that waits for the confirmation of its
response is owed that confirmation, for that response, or nothing; the one event a
session has no answer to is a confirmation of something else.
`HangInv`, for `NeverHangs`: `Counted` says what `m_ReTxCount` comes to in each state
while the re-send timer may run, which is at most 4: one detection, one SYN, the
acknowledgement of the device's, the answer of the first session.  Hence the hypothesis
`CounterMod > 4`; the counter of the code has 256 values, and with three the property is
false.  The handlers are gone through once: `TransmitCases`, `ReceiveCases` and
`FailureCases` reduce `Iap2Link_TransferDone` to its branches under `Inv`, and each
invariant has one lemma for each of the three and one step per action of `Next`.

**The ring queue.**  For every capacity and every length of an array
(`QueueAssumption`, `PushAssumption`).  `Valid`, the type of a queue with
`FlagsTellMeeting` in it, is inductive, and enough.  The first part of `ArchLemmas` says of
each operator of `queue.c` what it does to the queued sequence; the difficult ones are the array operations, which move one stretch up to
the end of the buffer and a second one from its start.  Each stretch is a step on
sequences (`Queued(q') = SubSeq(...) \o ...`), proved by cases on where the pointers
stand, and two such steps give the abstract one.  The refinement then has one step per
call.

**The message loop.**  For every capacity, any set of interfaces, words and read sizes.
The inductive invariant is `Valid` for the queue and, while a message is handled, that
it is the head of what is queued, of which `HeadKept` is the code's view: posts append behind
the head, and while a message is handled the queue is not empty, so a post never writes
the slot the loop points at.  The lemmas on the queue are those of the ring.  From the
invariant each action of `Next` is a `Post`, `Take`, `Free`, a loss of power or a
stutter of `Mailbox`.  The walk, the list and the console do not touch the queue, except
by the command that posts.  `SilentStaysSilent` has an invariant of its own: what is
typed was read while the output was on, since with the output off nothing but the word is
looked for; so the command that stores the switch as on cannot run while it is off.
`TypeOK` needs that what is queued was posted, which no look at the buffer shows, as the
code leaves removed elements in it: it is carried over from the mailbox, by the
refinement (`MailTypeStep`).  `ReadMax` is a natural number (`LoopAssumption`).

**Lists.**  For any set of nodes.  The operations of `List.c` follow links, and so do the
definitions of what is on a list; both are functions defined along the chain.  `Row` says
what the links of a list look like: N different nodes, each linked to its neighbours, and
no other node linked at all.  `RowChain`, `RowTail` and `RowHead` show, by induction along
the row (`SetInduction`, from the library's theorem on well-founded relations), that
following links from the head visits exactly its nodes, and ends at the last one or at
the first; `RowAdd` and `RowRemove` then say which row an operation leaves.  Users see
`ListOf`: a head, links and a set of members.  `InterfacesAreAList` is about a list that no
member was added to again.  Of what `Arch_MsgIfAdd` may come upon, an empty list and a node
that the search for the tail does not meet leave a list; the head added again leaves it
`Looped`, and no step mends that but a restart (a removal hangs); any other member hangs the
loop.  Removing a node that is not in the list does nothing, and a node taken out while the
walk is at it has no next one.
`ListHoldsUsedTimers` needs that a timer is in the list exactly if it is in use, and that
the managed ones are those in use, by which `SwTimer_Release` decides.

**The timers.**  For every width of the tick counter, any set of timers, and time-outs that
fit it with the tick of the wrap and the longest delay (`TimerAssumption`).  The invariant
is that a started timer is in use and that the tick it counts from and its age name the
same moment, on one side of the wrap or the other, as long as it is less than a turn old;
from it `Elapsed` is the age or one less.  It holds of every timer of the pool, in the list
or not, so that nothing about the list is needed for when timers fire.

**The serial port.**  For every size of a read and of an answer, and any number of acts
and faults.  `HandlesOutliveListener` is about steps.  A handle is only let go of by `Close`,
which goes by `m_hThread`: the invariant is that `m_hThread` knows of a listener that runs,
and that there is none when the port is opened for another one (`IHandles`).
`AnswerFits` says that only a disturbed line makes an answer overrun the buffer.  Its
invariant follows the bytes of an answer from the line (`line`) through the port (`rx`) to
the test: what is on the way are the *last* ones of one answer, in order (`OnTheWay`), and
the test holds the ones before them, or nothing (`Collects`).  A read takes a first part of
what the port holds, and only the beginning of an answer, wherever a read cuts it, starts
the collection.  A new answer is sent only into an empty line: whoever asks again while
bytes are on the way, or opens a port anew, has disturbed it.

**The OTA download.**  For every file, any number of transmissions, clicks and faults, any
room on the line; no constant needs an assumption.  `SlotFreeWhenPosting` is not inductive:
two posted requests would both find the slot free, and the second then not.  `OtaInv` says
that one is posted at most (`Mail`), and only requests of a download are ever outstanding,
so that `Utp_RspProc` has a branch for each (`HostFit`); `RspIs` is that callback, `ProcIs` the
callback with the reset of the slot behind it.  What comes in is gone through byte by byte
(`UtpMgr_Parse`) and the packets one by one (`FoldLeft`), and a read may hold any number of
them.  Such a recursion can be followed only over sequences, so `OtaInv` also says that lines,
buffers and payloads are some, which lost frames and bytes leave true (`LineLost`); what is
in them does not matter.  Four inductions follow: over the frames of a read (`FlattenedIs`),
its bytes (`ParsedIs`), the packets of the host (`ProcessedIs`) and of the device
(`CarriedOutIs`).  Each first shows that the recursive function exists.

**The bench.**  For any trees and cases, any number of clicks, and whatever the link does.
While `OnRun` has not stored the handle, the thread it started cannot have got beyond its
first message: this is the case in which `HandleMatchesThread` says nothing.  For
`EveryCaseIsRun` the invariant says what the two counters of a walk come to at each point,
until a stop has reset one of them.  The link enters through one fact: it runs as long as
the case `iAP2_Run` does.
`TransmissionsEnd` needs the link: the driver clears its flag after the handler has run,
so the flag of a transmission that the handler starts would be lost.  `LinkFits` says that
a transmission is never out in a state that waits for a reception, not even one that the
timer starts again, and from it no handler starts a transmission at the end of another;
`FlagFits` then says that the flag stands for the transmission that is out.

What stays with TLC.

* The liveness properties, which are out of the prover's reach: `LinkComesUp`,
  `RequestIsAnswered`, `DetectionAndSyncGetOut`, `MailIsHandled`, `MembersRun`,
  `KeepsFiring`, `BytesAreRead`, `CloseEnds`, `TestEnds`, `DownloadEnds`, `StopIsNotLost`.
* Of the OTA download `SuccessIsComplete` and `AnswersAreForTheirRequest`, which do not
  hold for all constants: they depend on the number of a late answer not being in use
  again, and on two payloads not having one checksum.
* What `CmdLine`, `Str`, `TreeData` and `OtaFile` compute, which TLC evaluates as
  assumptions over bounded inputs.

## 5. Not modelled

* **Bytes of the iAP2 packets**: checksum, parameters, certificate, the six-byte
  detection sequence are one kind of packet each.  `SessionMgr_FsmTxReq`,
  `SessionMgr_FsmRxRsp`, `Iap2CtrlSession_SendMsg` are never reached or called.
* **UART driver** (`UsartDrv.c`): it hands addresses and lengths to the USART and its
  DMA; the position that matters is in the hardware.  What `USART_Read` returns is an
  input of `Shell_Run`.
* **Bits, printing, the operating system layer**: no state, or empty stubs.
* **The synchronous send of the UART protocol** (`UtpMgr_Send`, `UtpMgr_SendReq`): nothing
  calls it; nor managers of several slots, which nothing sets up.
* **Flashing over mass storage** (`DlgDownLoad.cpp`): I/O on a device handle.
* **Of the serial tester**: the settings dialog (its button is hidden), what line
  parameters mean, the list of ports in the selection, the dialogs the main window does
  not create, the nested message loops of message boxes.
  `DlgBleOta.cpp` is in `OtaFile` for the files it makes, but is not built.
* **Of the bench**: the context menu, which is never shown, and a thread that cannot be
  created.
* **Of the console**: what the commands do that call parts that are not in the
  repository; formatting.
* **Widgets** (`XTabCtrl`, `HtmlStatic`, colours and settings): presentation, most of it
  third-party.
* **The log after finding 4**, and what a restart must find of it: nothing in the
  repository calls it or says so.  A flush inside a sector moreover leaves `m_WriteLen`
  out of step, so that the next push stops at the assertion of `QueueEx.c:146`, and
  `QueueEx_Restore` pushes what was kept a second time.

## 6. Plan

Done: the link, the queue, the message loop with the console, the timers, the UART
protocol with the download, the OTA file, the serial tester and the bench; theorems for
all of these but the file, and one for every safety invariant that a run checks.  Left:
the synchronous send of `UtpMgr`, if a caller appears.
