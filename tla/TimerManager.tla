---------------------------- MODULE TimerManager ----------------------------
(***************************************************************************)
(* The software timers of Arch/SwTimer.c: a pool of timers, the list of     *)
(* those in use, and TimerManager_Run walking over it while the handlers of *)
(* the timers that expire create, start, stop, reset and release timers.    *)
(* The tick counter has the width of its type and wraps.                    *)
(***************************************************************************)
EXTENDS LinkedList

CONSTANTS
    TickWrap,    \* 2^32 in the code
    Timeouts,    \* the periods timers are started with, in ticks
    MaxLag       \* the longest time between the ends of two runs, in ticks

ASSUME TimerAssumption ==
    /\ TickWrap \in Nat \ {0} /\ MaxLag \in Nat \ {0}
    /\ Timeouts \subseteq Nat \ {0}
    /\ \A t \in Timeouts : t + 1 + MaxLag < TickWrap
    /\ Nodes \subseteq Nat

Ticks == 0..(TickWrap - 1)
Timer == [used : BOOLEAN, start : BOOLEAN, timeout : {0} \cup Timeouts,
          init : Ticks, managed : BOOLEAN]

VARIABLES
    timer,      \* the pool
    links,      \* the m_base of every timer
    head,       \* m_timerList
    ticks,      \* m_ticks
    now,        \* GET_TICKS()
    pc,         \* "idle", or where TimerManager_Run is
    cur,        \* pTimer
    nxt,        \* pListNode, once the handler of pTimer runs
    age,        \* history: the ticks since the time a timer counts from
    lag         \* history: the ticks since the last run ended

vars == <<timer, links, head, ticks, now, pc, cur, nxt, age, lag>>
listVars == <<links, head>>
walkVars == <<pc, cur, nxt>>
clockVars == <<now, lag>>

Cleared == [used |-> FALSE, start |-> FALSE, timeout |-> 0, init |-> 0, managed |-> FALSE]

Init ==
    /\ timer = [n \in Nodes |-> Cleared] /\ links = List_Init /\ head = Null
    /\ ticks = 0 /\ now \in Ticks /\ pc = "idle" /\ cur = Null /\ nxt = Null
    /\ age = [n \in Nodes |-> 0] /\ lag = 0

\* Ages are counted up to one turn of the tick counter.
Older(a) == IF a < TickWrap THEN a + 1 ELSE a

\* The hardware counts, with or without a run in progress.
Tick ==
    /\ lag < MaxLag
    /\ now' = (now + 1) % TickWrap /\ lag' = lag + 1
    /\ age' = [n \in Nodes |-> Older(age[n])]
    /\ UNCHANGED <<timer, listVars, ticks, walkVars>>
-----------------------------------------------------------------------------
\* Clients call these between two runs and from the handlers of timers.
Calling == pc \in {"idle", "fire"}

\* TimerArray_New, SwTimer_Init and TimerManager_AddTimer, as its users call
\* them: the first timer of the pool that is not used.
NewTimer(n) ==
    /\ Calling /\ ~timer[n].used /\ \A m \in Nodes : ~timer[m].used => n <= m
    /\ timer' = [timer EXCEPT ![n] = [Cleared EXCEPT !.used = TRUE, !.managed = TRUE]]
    /\ IF head = Null
         THEN /\ head' = n
              /\ links' = [links EXCEPT !.next[n] = Null, !.pre[n] = Null]
         ELSE links' = List_AddTail(links, head, n).links /\ UNCHANGED head
    /\ UNCHANGED <<ticks, walkVars, age, clockVars>>

Counts_from_now(n) == age' = [age EXCEPT ![n] = 0]

SwTimer_Start(n, t) ==
    /\ Calling /\ timer[n].used
    /\ timer' = [timer EXCEPT ![n].timeout = t, ![n].init = now, ![n].start = TRUE]
    /\ Counts_from_now(n)
    /\ UNCHANGED <<listVars, ticks, walkVars, clockVars>>

SwTimer_ReStart(n) ==
    /\ Calling /\ timer[n].used
    /\ timer' = [timer EXCEPT ![n].init = now, ![n].start = TRUE]
    /\ Counts_from_now(n)
    /\ UNCHANGED <<listVars, ticks, walkVars, clockVars>>

SwTimer_Stop(n) ==
    /\ Calling /\ timer[n].used
    /\ timer' = [timer EXCEPT ![n].start = FALSE]
    /\ UNCHANGED <<listVars, ticks, walkVars, age, clockVars>>

\* How long ago the tick count t was, which is at most one turn.
Since(t) == (now - t) % TickWrap

\* Mutant: the tick of the manager is taken as it is counted next.
SwTimer_ResetAhead(n) ==
    /\ Calling /\ timer[n].managed
    /\ timer' = [timer EXCEPT ![n].init = ticks + 1]
    /\ age' = [age EXCEPT ![n] = Since(ticks)]
    /\ UNCHANGED <<listVars, ticks, walkVars, clockVars>>

\* The timer counts from the tick the manager last saw, not from now.
SwTimer_Reset(n) ==
    /\ Calling /\ timer[n].managed
    /\ timer' = [timer EXCEPT ![n].init = ticks]
    /\ age' = [age EXCEPT ![n] = Since(ticks)]
    /\ UNCHANGED <<listVars, ticks, walkVars, clockVars>>

TimerManager_ResetTimer ==
    /\ Calling
    /\ ticks' = now
    /\ timer' = [n \in Nodes |->
                   IF List_isIn(links, head, n) /\ timer[n].start
                     THEN [timer[n] EXCEPT !.init = now] ELSE timer[n]]
    /\ age' = [n \in Nodes |-> IF List_isIn(links, head, n) /\ timer[n].start
                                 THEN 0 ELSE age[n]]
    /\ UNCHANGED <<listVars, walkVars, clockVars>>

TimerManager_RemoveTimer(n) ==
    IF timer[n].managed /\ List_isIn(links, head, n)
    THEN LET r == List_Remove(links, n) IN links' = r.links /\ head' = r.head
    ELSE UNCHANGED listVars

\* Mutant: the timer is cleared before it is removed, and not found then.
SwTimer_ReleaseCleared(n) ==
    /\ Calling /\ timer[n].used
    /\ timer' = [timer EXCEPT ![n] = Cleared]
    /\ UNCHANGED <<listVars, ticks, walkVars, age, clockVars>>

SwTimer_Release(n) ==
    /\ Calling /\ timer[n].used
    /\ TimerManager_RemoveTimer(n)
    /\ timer' = [timer EXCEPT ![n] = Cleared]
    /\ UNCHANGED <<ticks, walkVars, age, clockVars>>
-----------------------------------------------------------------------------
\* Mutant: two ticks long instead of one short.
ElapsedLong(init, new) ==
    IF new < init THEN TickWrap + 1 - init + new ELSE new - init

\* Mutant: a wrap restarts the time.
ElapsedSinceWrap(init, new) == IF new < init THEN 0 ELSE new - init

\* One tick short once the counter has wrapped.
Elapsed(init, new) ==
    IF new < init THEN (TickWrap - 1) - init + new ELSE new - init

SwTimer_isTimerOut(init, new, timeout) == Elapsed(init, new) >= timeout

\* TimerManager_Run is called, with the ticks of the moment.
RunStarts ==
    /\ pc = "idle"
    /\ ticks' = now
    /\ IF head = Null THEN lag' = 0 /\ UNCHANGED walkVars
                      ELSE pc' = "walk" /\ cur' = head /\ UNCHANGED <<nxt, lag>>
    /\ UNCHANGED <<timer, listVars, now, age>>

Expired(n) ==
    timer[n].start /\ SwTimer_isTimerOut(timer[n].init, now, timer[n].timeout)

\* The walk goes on at n, or ends.
GoTo(n) ==
    /\ cur' = n /\ nxt' = Null
    /\ pc' = IF n = Null THEN "idle" ELSE "walk"
    /\ lag' = IF n = Null THEN 0 ELSE lag

\* The handler is called; where to go on is read before that.
Fires ==
    /\ pc = "walk" /\ Expired(cur)
    /\ pc' = "fire" /\ nxt' = links.next[cur]
    /\ UNCHANGED <<timer, listVars, ticks, cur, age, clockVars>>

Passes ==
    /\ pc = "walk" /\ ~Expired(cur)
    /\ GoTo(links.next[cur])
    /\ UNCHANGED <<timer, listVars, ticks, now, age>>

\* Mutant: the walk starts again once a timer fired.
HandlerReturnsToHead ==
    /\ pc = "fire"
    /\ GoTo(head)
    /\ UNCHANGED <<timer, listVars, ticks, now, age>>

HandlerReturns ==
    /\ pc = "fire"
    /\ GoTo(nxt)
    /\ UNCHANGED <<timer, listVars, ticks, now, age>>

RunStep == RunStarts \/ Fires \/ Passes \/ HandlerReturns

Next ==
    \/ RunStep \/ Tick \/ TimerManager_ResetTimer
    \/ \E n \in Nodes :
         \/ NewTimer(n) \/ SwTimer_ReStart(n) \/ SwTimer_Stop(n)
         \/ SwTimer_Reset(n) \/ SwTimer_Release(n)
         \/ \E t \in Timeouts : SwTimer_Start(n, t)

\* The main loop calls TimerManager_Run again and again, handlers return, and
\* time passes.
Spec == Init /\ [][Next]_vars /\ WF_vars(RunStep) /\ WF_vars(Tick)
-----------------------------------------------------------------------------
\* Timers, the list and the walk keep their forms, and no age or lag exceeds what
\* the counter can tell (SwTimer.c).
TypeOK ==
    /\ timer \in [Nodes -> Timer] /\ links \in Links
    /\ {head, cur, nxt} \subseteq Nodes \cup {Null}
    /\ ticks \in Ticks /\ now \in Ticks /\ lag \in 0..MaxLag
    /\ pc \in {"idle", "walk", "fire"} /\ age \in [Nodes -> 0..TickWrap]

\* Whatever handlers do to the list while it is walked over, it stays a list
\* of the timers in use, and the walk is at a timer of it or at one that was
\* released since (SwTimer.c:131-154, 184-206).
ListHoldsUsedTimers ==
    /\ IsList(links, head)
    /\ \A n \in Nodes : List_isIn(links, head, n) <=> timer[n].used

\* No timer fires before its time has passed since it was started or reset,
\* across any wrap of the tick counter, and none that was released fires: the
\* assertion of SwTimer_TimerOut holds (SwTimer.c:41, 55-75, 189-196).
FiresNeitherEarlyNorDead ==
    [][\A n \in Nodes : Fires /\ cur = n => timer[n].used /\ age[n] >= timer[n].timeout]_vars

\* A walk that comes to a timer whose time has passed, with one more tick for
\* the wrap, does not pass it by (SwTimer.c:55-69).
NotPassedWhenDue ==
    [][\A n \in Nodes : Passes /\ cur = n =>
           ~(timer[n].start /\ age[n] \in (timer[n].timeout + 1)..(TickWrap - 1))]_vars

\* From some point on handlers create no timers.
CalmWalks == <>[][\A n \in Nodes : NewTimer(n) => pc = "idle"]_vars

\* From some point on nothing touches timer n.
LeftAlone(n) == <>[][timer'[n] = timer[n] /\ timer[n].start]_vars

\* A timer that is started and then left alone fires again and again, until
\* it is stopped: handlers that release the timers around it cut a walk short
\* but cannot keep it from being reached (SwTimer.c:184-206).
KeepsFiring ==
    \A n \in Nodes : CalmWalks /\ LeftAlone(n) => []<>(pc = "fire" /\ cur = n)
=============================================================================
