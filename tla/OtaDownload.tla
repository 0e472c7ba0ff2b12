---------------------------- MODULE OtaDownload -----------------------------
(***************************************************************************)
(* A firmware download: the dialog of DlgOta.cpp, the protocol manager it   *)
(* owns, the messages it and the main window post to the one thread of the  *)
(* user interface, the serial line, and a device that runs the same         *)
(* protocol.  The line loses frames and bytes; the device may refuse,       *)
(* ignore or never finish a request.                                        *)
(***************************************************************************)
EXTENDS UtpMgr

CONSTANTS
    File,         \* the blocks of the file, one byte each here, 128 in the code
    MaxTx,        \* RE_TX_COUNT
    LineMax,      \* how many frames are under way in one direction
    MaxFaults,    \* how often the line, the file or the device fails
    MaxInputs     \* how often the user acts

VARIABLES
    host,         \* g_pUtpMgr
    dlg,          \* the dialog
    posted,       \* the message queue of the thread
    open,         \* m_Serial is open
    dev,          \* the manager of the device
    image,        \* what the device stored
    toDev, toHost,
    given, told,  \* history: see RemoteCalls
    result,       \* history: how the last download ended
    faults, inputs

vars == <<host, dlg, posted, open, dev, image, toDev, toHost, given, told, result,
          faults, inputs>>
devVars == <<dev, image>>

REQ_OTA_START == 22
REQ_OTA_UPDATE == 23
REQ_OTA_COMPLETE == 24
REQ_OTA_VERIFY == 25

Init ==
    /\ host = UtpMgr_Init /\ dev = UtpMgr_Init
    /\ dlg = [fileLen |-> 0, isUpdate |-> FALSE, timer |-> TRUE, button |-> TRUE,
              handler |-> FALSE]
    /\ posted = <<>> /\ open = TRUE /\ image = <<>> /\ toDev = <<>> /\ toHost = <<>>
    /\ given = {} /\ told = <<>> /\ result = "none" /\ faults = 0 /\ inputs = 0
-----------------------------------------------------------------------------
\* What a handler of the thread works on, and one of a posted message.
Thread == [host |-> host, dlg |-> dlg, posted |-> posted, out |-> <<>>,
           given |-> given, told |-> told, result |-> result]
Handling == [Thread EXCEPT !.posted = Tail(@)]

OtaSendMsg(req, offset) == [msg |-> "OTA_SEND", req |-> req, offset |-> offset]
Msg(name) == [msg |-> name, req |-> 0, offset |-> 0]
Download(end) == Msg(IF end THEN "DOWNLOAD_END" ELSE "DOWNLOAD_START")

PostMessage(t, m) == [t EXCEPT !.posted = Append(@, m)]

\* UpdateProcessCtrl(DOWNLOAD_END) also gives up the received data.
DownloadDone(t, how) ==
    LET u == IF t.dlg.fileLen = 0 THEN t
             ELSE [PostMessage(t, Download(TRUE)) EXCEPT
                     !.dlg.fileLen = 0, !.dlg.handler = FALSE, !.result = how]
    IN [u EXCEPT !.dlg.timer = FALSE]

PostReq(t, cmd, data) ==
    LET r == UtpMgr_PostReq(t.host, cmd, data, MaxTx)
    IN IF r.tx = <<>> THEN t
       ELSE [t EXCEPT !.host = r.m, !.out = @ \o r.tx, !.given = {}, !.told = <<>>]

\* Mutant: the result of the request is not looked at.
RefusedIfNotAnswered(t, errCode, data) == errCode # RC_SUCCESS

Refused(t, errCode, data) == errCode # RC_SUCCESS \/ data[1] # RC_SUCCESS

\* The block after the one the request carried.
NextOffset(req) == req.data[1] + 1

Utp_RspProc(t, req, data, errCode) ==
    CASE ~t.dlg.isUpdate -> DownloadDone(t, "stopped")
      [] t.dlg.isUpdate /\ Refused(t, errCode, data) -> DownloadDone(t, "failed")
      [] OTHER ->
           CASE req.cmd = REQ_OTA_START ->
                  PostMessage(PostMessage(t, Download(FALSE)), OtaSendMsg(REQ_OTA_UPDATE, 0))
             [] req.cmd = REQ_OTA_UPDATE ->
                  PostMessage(t, IF NextOffset(req) < t.dlg.fileLen
                                   THEN OtaSendMsg(REQ_OTA_UPDATE, NextOffset(req))
                                   ELSE OtaSendMsg(REQ_OTA_COMPLETE, 0))
             [] req.cmd = REQ_OTA_COMPLETE -> PostMessage(t, OtaSendMsg(REQ_OTA_VERIFY, 0))
             [] req.cmd = REQ_OTA_VERIFY -> DownloadDone(t, "success")

\* Mutant: the slot is not reset once RspProc returned.
ProcUnreset(t, data, errCode) ==
    [Utp_RspProc(t, t.host.req.pkt, data, errCode) EXCEPT !.told = data]

\* The answer to the request is handed to RspProc, and the slot is free then.
Proc(t, data, errCode) ==
    LET u == Utp_RspProc(t, t.host.req.pkt, data, errCode)
    IN [u EXCEPT !.host = UtpReq_Reset(@), !.told = data]

\* The host only makes requests: UtpMgr_ProcRxPkt without its first branch.
ProcRxPkt(t, p) == IF Answers(t.host, p) THEN Proc(t, p.data, RC_SUCCESS) ELSE t

UtpMgr_Run(t) ==
    IF GivesUp(t.host) THEN Proc(t, <<>>, RC_TIME_OUT)
    ELSE LET r == UtpMgr_ReTx(t.host) IN [t EXCEPT !.host = r.m, !.out = @ \o r.tx]

Line(line, frames) ==
    IF open /\ Len(line) + Len(frames) <= LineMax THEN line \o frames ELSE line

\* A handler ends with t.
Ends(r) == \E t \in {r} :
    /\ host' = t.host /\ dlg' = t.dlg /\ posted' = t.posted
    /\ toDev' = Line(toDev, t.out) /\ result' = t.result
    /\ given' = t.given /\ told' = t.told
    /\ UNCHANGED <<open, devVars>>

Dispatches(name) == posted # <<>> /\ posted[1].msg = name
-----------------------------------------------------------------------------
\* Input and WM_TIMER wait until no posted message is left.
Input == posted = <<>> /\ inputs < MaxInputs /\ inputs' = inputs + 1

OnBnClickedButtonDownload ==
    /\ Input /\ dlg.button
    /\ IF dlg.fileLen # 0
         THEN /\ dlg' = [dlg EXCEPT !.isUpdate = FALSE]
              /\ UNCHANGED <<host, posted, open, devVars, toDev, told, result, given>>
         ELSE LET t == [Thread EXCEPT !.posted = <<Download(FALSE)>>, !.result = "none",
                          !.dlg.handler = TRUE, !.dlg.isUpdate = TRUE,
                          !.dlg.fileLen = Len(File)]
              IN Ends(PostReq(t, REQ_OTA_START, <<Len(File)>>))
    /\ UNCHANGED <<toHost, faults>>

\* The user picks a port: what is on its way is gone, and every dialog is told
\* whether the port could be opened.
OnCbnSelchangeComNum(opens) ==
    /\ Input
    /\ open' = opens /\ toDev' = <<>> /\ toHost' = <<>>
    /\ dlg' = [dlg EXCEPT !.button = opens]
    /\ UNCHANGED <<host, posted, devVars, told, result, given, faults>>

OnTimer ==
    /\ posted = <<>> /\ dlg.timer
    /\ posted' = <<Msg("UTP_RUN")>>
    /\ UNCHANGED <<host, dlg, open, devVars, toDev, toHost, given, told, result, faults, inputs>>

UtpRun ==
    /\ Dispatches("UTP_RUN")
    /\ Ends(UtpMgr_Run(Handling))
    /\ UNCHANGED <<toHost, faults, inputs>>

Block(offset) == File[offset + 1]

\* Nothing else touches the file between the blocks, but reading it may fail.
OtaSend ==
    /\ Dispatches("OTA_SEND")
    /\ LET m == posted[1] IN
       \/ /\ m.req = REQ_OTA_UPDATE /\ faults < MaxFaults
          /\ Ends(DownloadDone(Handling, "failed"))
          /\ faults' = faults + 1
       \/ /\ Ends(PostReq(Handling, m.req, IF m.req = REQ_OTA_UPDATE
                                          THEN <<m.offset, Block(m.offset)>> ELSE <<>>))
          /\ UNCHANGED faults
    /\ UNCHANGED <<toHost, inputs>>

\* Packets do not touch the parser, so that all bytes can be parsed before.
Utp_RxDataHandler(t, bytes) ==
    \E r \in {UtpMgr_Parse(t.host, bytes)} :
    \E u \in {FoldLeft(ProcRxPkt, [t EXCEPT !.host = r.m], r.pkts)} :
        Ends(UtpMgr_Run(u))

\* The main window reads all there is, and drops it when nobody asked for it.
OnSerialMsg ==
    /\ Dispatches("SERIAL")
    /\ IF dlg.handler THEN Utp_RxDataHandler(Handling, FlattenSeq(toHost)) ELSE Ends(Handling)
    /\ toHost' = <<>>
    /\ UNCHANGED <<faults, inputs>>

\* CMainDlg::OnDownload tells the dialog.
OnDownload ==
    \/ /\ Dispatches("DOWNLOAD_START")
       /\ Ends([Handling EXCEPT !.dlg.button = FALSE])
       /\ UNCHANGED <<toHost, faults, inputs>>
    \/ /\ Dispatches("DOWNLOAD_END")
       /\ Ends(DownloadDone([Handling EXCEPT !.dlg.fileLen = 0, !.dlg.button = TRUE], "failed"))
       /\ UNCHANGED <<toHost, faults, inputs>>

\* The listener posts that there is something to read.
SerialEvent ==
    /\ toHost # <<>> /\ \A i \in DOMAIN posted : posted[i].msg # "SERIAL"
    /\ posted' = Append(posted, Msg("SERIAL"))
    /\ UNCHANGED <<host, dlg, open, devVars, toDev, toHost, given, told, result, faults, inputs>>

TimePasses ==
    /\ host.req.state = "TX_REQ" /\ ~host.req.late
    /\ host' = [host EXCEPT !.req.late = TRUE]
    /\ UNCHANGED <<dlg, posted, open, devVars, toDev, toHost, given, told, result, faults, inputs>>
-----------------------------------------------------------------------------
\* What a device does when it carries out a request.
Stored(img, p) ==
    CASE p.cmd = REQ_OTA_START -> [i \in 1..p.data[1] |-> 0]
      [] p.cmd = REQ_OTA_UPDATE /\ p.data[1] < Len(img) ->
           [img EXCEPT ![p.data[1] + 1] = p.data[2]]
      [] OTHER -> img

Status(img, p) ==
    IF p.cmd = REQ_OTA_VERIFY /\ img # File THEN <<1>> ELSE <<RC_SUCCESS>>

\* The device receives packet p, and its handler returns ret; d is its state.
DevProc(d, p, ret) ==
    IF ~Accepts(d.dev, p) THEN d
    ELSE LET img == IF ret = RC_SUCCESS THEN Stored(d.image, p) ELSE d.image
             status == Status(img, p)
             r == Answered(d.dev, p, ret, status)
             runs == host.req.state = "TX_REQ" /\ host.req.pkt.cmd = p.cmd
                       /\ host.req.pkt.data = p.data
         IN [dev |-> r.m, image |-> img, out |-> d.out \o r.tx,
             given |-> IF ~runs \/ r.tx = <<>> THEN d.given
                       ELSE d.given \cup {IF ret = RC_UNKNOWN THEN <<RC_UNKNOWN>> ELSE status}]

DeviceReceives(ret) ==
    /\ toDev # <<>>
    /\ \E r \in {UtpMgr_Parse(dev, Head(toDev))} :
       \E d \in {FoldLeft(LAMBDA e, p : DevProc(e, p, ret),
                  [dev |-> r.m, image |-> image, out |-> <<>>, given |-> given], r.pkts)} :
          /\ dev' = d.dev /\ image' = d.image /\ given' = d.given
          /\ toHost' = Line(toHost, d.out)
    /\ toDev' = Tail(toDev)
    /\ faults' = (IF ret = RC_SUCCESS THEN faults ELSE faults + 1) /\ faults' <= MaxFaults
    /\ UNCHANGED <<host, dlg, posted, open, told, result, inputs>>

\* The line loses frame i, or byte j of it.
Lossy(line) ==
    UNION {{RemoveAt(line, i)} \cup {[line EXCEPT ![i] = RemoveAt(@, j)] : j \in DOMAIN line[i]}
             : i \in DOMAIN line}

LineLoses ==
    /\ faults < MaxFaults /\ faults' = faults + 1
    /\ \/ toDev' \in Lossy(toDev) /\ UNCHANGED toHost
       \/ toHost' \in Lossy(toHost) /\ UNCHANGED toDev
    /\ UNCHANGED <<host, dlg, posted, open, devVars, given, told, result, inputs>>

Handlers == UtpRun \/ OtaSend \/ OnSerialMsg \/ OnDownload

Next ==
    \/ Handlers \/ OnTimer \/ SerialEvent \/ TimePasses \/ LineLoses
    \/ OnBnClickedButtonDownload \/ \E opens \in BOOLEAN : OnCbnSelchangeComNum(opens)
    \/ \E ret \in {RC_SUCCESS, RC_PENDING, RC_UNKNOWN, RC_ABORTED} : DeviceReceives(ret)

\* The thread handles its messages, its timer and the clock run; the line and
\* the device may be dead.
Spec ==
    Init /\ [][Next]_vars /\ WF_vars(Handlers) /\ WF_vars(OnTimer) /\ WF_vars(TimePasses)
-----------------------------------------------------------------------------
\* A download is only reported as a success when the device holds the file at
\* that moment, whatever was lost or sent twice (DlgOta.cpp:30-93).
SuccessIsComplete == [][result' = "success" /\ result # "success" => image = File]_vars

\* A request that the dialog posts is never refused because another is still
\* outstanding: nothing checks that it was taken (DlgOta.cpp:314, 344, 482, 487).
SlotFreeWhenPosting ==
    Dispatches("OTA_SEND") => host.req.state = "INIT"

\* An answer is only taken for the request it was given to, and after that
\* request was made (UtpMgr.c:74-101, 224-240).
Requests ==
    {<<REQ_OTA_START, <<Len(File)>>>>, <<REQ_OTA_COMPLETE, <<>>>>, <<REQ_OTA_VERIFY, <<>>>>}
      \cup {<<REQ_OTA_UPDATE, <<i - 1, File[i]>>>> : i \in DOMAIN File}

Calls == INSTANCE RemoteCalls WITH
    Calls <- Requests, Outcomes <- {<<RC_SUCCESS>>, <<1>>, <<RC_UNKNOWN>>},
    NoCall <- <<>>, Unknown <- <<>>,
    call <- IF host.req.state = "TX_REQ" THEN <<host.req.pkt.cmd, host.req.pkt.data>> ELSE <<>>

AnswersAreForTheirRequest == Calls!Spec

\* As long as the timer of the dialog runs, a download ends, even when the
\* device does not answer (UtpMgr.c:461-492, DlgOta.cpp:458-462).
DownloadEnds == (dlg.fileLen # 0 /\ dlg.timer) ~> dlg.fileLen = 0
=============================================================================
