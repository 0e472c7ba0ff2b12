---------------------------- MODULE MessageLoop -----------------------------
(***************************************************************************)
(* The main loop of Arch/Arch.c with everything it runs: the message queue,  *)
(* the list of message interfaces and the debug console.  Interrupts post    *)
(* messages between any two steps; handlers and Run functions add and        *)
(* remove interfaces while the loop walks over them.                         *)
(***************************************************************************)
EXTENDS QueueOps, LinkedList, Console

CONSTANT ReadMax     \* how much Shell_Run reads at once, 8 in the code

ASSUME LoopAssumption == ReadMax \in Nat

VARIABLES
    queue,      \* m_MsgQueue
    links,      \* the m_Base of every interface
    head,       \* m_pMsgIfList
    hung,       \* the loop never gets on: an assertion failed, or a walk of List.c does not end
    pc,         \* where Arch_Run is
    msg,        \* what the current handler was called with
    node,       \* pNode
    console,
    typed       \* what CmdLine_AddStrEx has still to take

vars == <<queue, links, head, hung, pc, msg, node, console, typed>>
loopVars == <<pc, msg, node>>
listVars == <<links, head, hung>>
shellVars == <<console, typed>>

Init ==
    /\ queue = QUEUE_init /\ links = List_Init /\ head = Null /\ hung = FALSE
    /\ pc = "off" /\ msg = <<>> /\ node = Null
    /\ \E stored \in BOOLEAN : console = Shell_Init(stored)
    /\ typed = <<>>
-----------------------------------------------------------------------------
\* Arch_PostMsg, from an interrupt or from whatever the loop is running; the
\* lock makes it one step.
Arch_PostMsg(m) ==
    /\ pc # "off"
    /\ queue' = QUEUE_add(queue, m).q
    /\ UNCHANGED <<listVars, loopVars, shellVars>>

\* Code of an interface runs: its message handler, or its Run function.
InCallback == ~hung /\ (pc = "handle" \/ (pc = "run" /\ node # Null))

\* The head is its own successor: whoever follows m_pNext from it walks forever.
Looped == head # Null /\ links.next[head] = head

\* The search for the tail ends, and does not come upon the node.
TailIsFound(n) == ~Looped /\ ~List_isIn(links, head, n)

\* Nothing looks whether the interface is in the list already.  The head added
\* again is found to be the tail and linked to itself; for any other the search
\* for the tail comes upon it (the assertion of List_AddTail) or never ends.
Arch_MsgIfAdd(n) ==
    /\ InCallback
    /\ \/ head = Null /\ head' = n /\ UNCHANGED <<links, hung>>
       \/ /\ head # Null /\ n # head /\ TailIsFound(n)
          /\ links' = List_AddTail(links, head, n).links /\ UNCHANGED <<head, hung>>
       \/ /\ head # Null /\ n = head
          /\ links' = [links EXCEPT !.next[n] = n, !.pre[n] = n] /\ UNCHANGED <<head, hung>>
       \/ /\ head # Null /\ n # head /\ ~TailIsFound(n)
          /\ links' = [links EXCEPT !.next[n] = Null] /\ hung' = TRUE /\ UNCHANGED head
    /\ UNCHANGED <<queue, loopVars, shellVars>>

\* An interface that is not in the list is left alone; in one whose head is its
\* own successor, the search for the interface or for the new head never ends.
Arch_MsgIfRemove(n) ==
    /\ InCallback
    /\ \/ /\ ~Looped /\ List_isIn(links, head, n)
          /\ LET r == List_Remove(links, n) IN links' = r.links /\ head' = r.head
          /\ UNCHANGED hung
       \/ Looped /\ hung' = TRUE /\ UNCHANGED <<links, head>>
    /\ UNCHANGED <<queue, loopVars, shellVars>>

\* The head of the queue is read without the lock and stays in it.
TakeMessage ==
    /\ pc = "top"
    /\ msg' = QUEUE_getHead(queue)
    /\ IF msg' = <<>> THEN pc' = "run" /\ node' = head
                      ELSE pc' = "handle" /\ UNCHANGED node
    /\ UNCHANGED <<queue, listVars, shellVars>>

HandlerReturns ==
    /\ pc = "handle" /\ ~hung /\ pc' = "remove"
    /\ UNCHANGED <<queue, listVars, msg, node, shellVars>>

\* Mutant: the queue is emptied.
RemoveMessages ==
    /\ pc = "remove" /\ pc' = "run"
    /\ queue' = QUEUE_removeAll(queue) /\ node' = head /\ msg' = <<>>
    /\ UNCHANGED <<listVars, shellVars>>

RemoveMessage ==
    /\ pc = "remove" /\ pc' = "run"
    /\ queue' = QUEUE_removeHead(queue) /\ node' = head /\ msg' = <<>>
    /\ UNCHANGED <<listVars, shellVars>>

\* Mutant: the walk always goes on at the second node.
RunSecond ==
    /\ pc = "run" /\ node # Null /\ ~hung
    /\ node' = IF node = head THEN links.next[node] ELSE Null
    /\ UNCHANGED <<queue, listVars, pc, msg, shellVars>>

\* The link to the next node is read after the Run function returned, which
\* may have removed the node.
RunReturns ==
    /\ pc = "run" /\ node # Null /\ ~hung
    /\ node' = links.next[node]
    /\ UNCHANGED <<queue, listVars, pc, msg, shellVars>>

WalkEnds ==
    /\ pc = "run" /\ node = Null /\ pc' = "shell"
    /\ UNCHANGED <<queue, listVars, msg, node, shellVars>>

\* Mutant: the loop goes back to the walk.
Shell_RunAgain(data) ==
    /\ pc = "shell" /\ typed = <<>>
    /\ console' = (IF data = <<>> THEN console ELSE Scanned(console, data))
    /\ typed' = (IF data # <<>> /\ Typed(console, data) THEN data ELSE <<>>)
    /\ pc' = IF typed' = <<>> THEN "run" ELSE pc
    /\ UNCHANGED <<queue, listVars, msg, node>>

Shell_Run(data) ==
    /\ pc = "shell" /\ typed = <<>>
    /\ console' = (IF data = <<>> THEN console ELSE Scanned(console, data))
    /\ typed' = (IF data # <<>> /\ Typed(console, data) THEN data ELSE <<>>)
    /\ pc' = IF typed' = <<>> THEN "top" ELSE pc
    /\ UNCHANGED <<queue, listVars, msg, node>>

CmdLine_AddStrEx(cmd) ==
    /\ pc = "shell" /\ typed # <<>>
    /\ cmd = "none" \/ (Ends(Head(typed)) /\ LineWithByte(console, Head(typed)) > 0)
    /\ console' = CmdLine_AddByte(console, Head(typed), cmd)
    /\ typed' = Tail(typed)
    /\ pc' = IF typed' = <<>> THEN "top" ELSE pc
    /\ \/ cmd = "VerifyPwd" /\ \E m \in Elements : queue' = QUEUE_add(queue, m).q
       \/ cmd # "VerifyPwd" /\ UNCHANGED queue
    /\ UNCHANGED <<listVars, msg, node>>

\* The power fails, or the command Reset runs: only the OEM information
\* survives.
PowerOff ==
    /\ pc # "off" /\ pc' = "off"
    /\ queue' = QUEUE_init /\ links' = List_Init /\ head' = Null /\ hung' = FALSE
    /\ msg' = <<>> /\ node' = Null
    /\ console' = Shell_Init(console.stored) /\ typed' = <<>>

\* Arch_Init, on memory that PowerOff already cleared, and the start of the loop.
Arch_Init ==
    /\ pc = "off" /\ pc' = "top"
    /\ queue' = QUEUE_init /\ console' = Shell_Init(console.stored)
    /\ UNCHANGED <<listVars, msg, node, typed>>

LoopStep ==
    \/ TakeMessage \/ HandlerReturns \/ RemoveMessage \/ RunReturns \/ WalkEnds
    \/ \E k \in 0..ReadMax : \E data \in [1..k -> Bytes] : Shell_Run(data)
    \/ \E cmd \in Commands : CmdLine_AddStrEx(cmd)

Next ==
    \/ LoopStep \/ PowerOff \/ Arch_Init
    \/ \E m \in Elements : Arch_PostMsg(m)
    \/ \E n \in Nodes : Arch_MsgIfAdd(n) \/ Arch_MsgIfRemove(n)

\* The loop is endless, and every handler and Run function returns that does not
\* hang in the list.
Spec == Init /\ [][Next]_vars /\ WF_vars(LoopStep)
-----------------------------------------------------------------------------
\* The queue, the list, the console and the place of the loop keep their forms,
\* and a line fits its buffer (CmdLine_AddStrEx).
TypeOK ==
    /\ queue \in Queues /\ links \in Links
    /\ head \in Nodes \cup {Null} /\ node \in Nodes \cup {Null} /\ hung \in BOOLEAN
    /\ pc \in {"off", "top", "handle", "remove", "run", "shell"}
    /\ msg \in {<<>>} \cup {<<e>> : e \in Elements}
    /\ console \in Consoles
    /\ typed \in UNION {[1..k -> Bytes] : k \in 0..ReadMax}

\* From before its handler is called until it is removed, the message the loop
\* points at, without the lock, is the head of the queue: no post overwrites
\* its slot, and what is removed is what was handled (Arch.c:204-216).
HeadKept ==
    pc \in {"handle", "remove"} => msg # <<>> /\ QUEUE_getHead(queue) = msg

\* However handlers and Run functions add and remove interfaces, themselves
\* included, the two directions of the list agree, its head is its first node
\* and a node outside it points nowhere, for as long as none of them adds an
\* interface that is in the list (Arch.c:41-59, List.c).
InterfacesAreAList == ~hung /\ ~Looped => IsList(links, head)

\* Output that was switched off is off after a restart: no restart between
\* the bytes of the word, and no command, brings it back (Shell.c:343-354,
\* 376-400).
SilentStaysSilent == ~console.on => ~console.stored

Busy == pc \in {"handle", "remove"}

Box == INSTANCE Mailbox WITH
    Places <- Capacity, Letters <- Elements,
    pending <- IF Busy THEN Tail(Queued(queue)) ELSE Queued(queue),
    taken <- IF Busy THEN msg ELSE <<>>,
    powered <- pc # "off"

\* The loop implements the mailbox: a message that Arch_PostMsg accepted, from
\* whatever context, is handed to its handler once and in order, and until the
\* handler has returned it takes one of the places (Arch.c:8-23, 202-217).
DeliversInOrder == Box!MailSpec

\* From some point on Run functions add no interfaces, and none was added while it
\* was in the list since the last start.  Two that keep taking each other out and
\* adding each other back would walk forever: a node added at the tail is still
\* reached by the walk it was added in.
CalmWalks ==
    /\ <>[](~hung /\ ~Looped)
    /\ <>[][~(pc = "run" /\ \E n \in Nodes : Arch_MsgIfAdd(n))]_vars

\* Every accepted message is handled, and every place is freed, whatever else
\* the loop has to run, when the walks over the interfaces are calm
\* (Arch.c:202-229).
MailIsHandled == CalmWalks => Box!MailFair

\* An interface that stays in the list has its Run function called again and
\* again, although one that removes itself cuts the walk short, when walks are
\* calm (Arch.c:219-226).
MembersRun ==
    CalmWalks => \A n \in Nodes :
        <>[](~Looped /\ List_isIn(links, head, n)) => []<>(pc = "run" /\ node = n)
=============================================================================
