----------------------------- MODULE TimerProofs ------------------------------
(***************************************************************************)
(* When timers fire, for every width of the tick counter, any timers and     *)
(* time-outs, and whatever handlers do: these facts hold of every timer of   *)
(* the pool, on the list or not.  Then what is on the list, for pools of any  *)
(* size, while handlers take timers off the list that is being walked over.   *)
(***************************************************************************)
EXTENDS TimerManager, ArchLemmas

(* The tick the timer counts from and its age name the same moment, on either
   side of the wrap. *)
InStep(n) ==
    \/ now = timer[n].init + age[n]
    \/ now = timer[n].init + age[n] - TickWrap

ClockType ==
    /\ timer \in [Nodes -> Timer] /\ age \in [Nodes -> 0..TickWrap]
    /\ now \in Ticks /\ ticks \in Ticks

(* What is started is in use and in step, until it is a turn old. *)
Started(n) ==
    timer[n].start => timer[n].used /\ (age[n] < TickWrap => InStep(n))

ClockInv == ClockType /\ \A n \in Nodes : Started(n)

(* A time-out is less than a turn of the counter; that of a timer restarted before
   it was ever started is 0. *)
LEMMA TimeoutFits == ASSUME NEW t \in {0} \cup Timeouts PROVE t \in Nat /\ t < TickWrap
  BY TimerAssumption

LEMMA TimerFields ==
    ASSUME ClockInv, NEW n \in Nodes
    PROVE  /\ timer[n].init \in Ticks /\ age[n] \in 0..TickWrap
         /\ timer[n].timeout \in {0} \cup Timeouts
  BY DEF ClockInv, ClockType, Timer

(* A count of one turn. *)
LEMMA TickWraps ==
    ASSUME NEW W \in Nat \ {0}, NEW t \in 0..(W - 1)
    PROVE  (t + 1) % W = IF t + 1 = W THEN 0 ELSE t + 1
<1>1. CASE t + 1 = W
  <2>1. W % W = 0
    OBVIOUS
  <2>. QED BY <1>1, <2>1
<1>2. CASE t + 1 # W
  <2> DEFINE u == t + 1
  <2>1. u \in 0..(W - 1)
    BY <1>2
  <2>2. ASSUME NEW a \in 0..(W - 1) PROVE a % W = a
    OBVIOUS
  <2>. QED BY <1>2, <2>1, <2>2
<1>. QED BY <1>1, <1>2

LEMMA TurnsAgo ==
    ASSUME NEW W \in Nat \ {0}, NEW t \in 0..(W - 1), NEW s \in 0..(W - 1)
    PROVE  /\ (t - s) % W \in 0..(W - 1)
           /\ \/ t = s + ((t - s) % W)
              \/ t = s + ((t - s) % W) - W
<1> DEFINE d == t - s
<1>1. ASSUME NEW a \in 0..(W - 1) PROVE a % W = a
  OBVIOUS
<1>2. ASSUME NEW a \in (-W)..(-1) PROVE a % W = a + W
  OBVIOUS
<1>3. d \in Int /\ t = s + d /\ (d \in 0..(W - 1) \/ d \in (1 - W)..(-1))
  OBVIOUS
<1>4. CASE d \in 0..(W - 1)
  <2>1. d % W = d
    BY <1>1, <1>4
  <2>. QED BY <2>1, <1>4
<1>5. CASE d \in (1 - W)..(-1)
  <2>1. d % W = d + W
    BY <1>2, <1>5
  <2>. QED BY <2>1, <1>5
<1>. QED BY <1>3, <1>4, <1>5
-----------------------------------------------------------------------------
(* The ticks that count pass for the timer too, but for one at the wrap. *)
LEMMA ElapsedIsAge ==
    ASSUME ClockInv, NEW n \in Nodes, timer[n].start, age[n] < TickWrap
    PROVE  Elapsed(timer[n].init, now) \in {age[n], age[n] - 1}
<1>1. InStep(n)
  BY DEF ClockInv, Started
<1>2. now \in Ticks
  BY DEF ClockInv, ClockType
<1>3. ASSUME NEW W \in Nat, NEW t \in 0..(W - 1), NEW i \in 0..(W - 1), NEW a \in 0..W,
             a < W, t = i + a \/ t = i + a - W
      PROVE  (IF t < i THEN (W - 1) - i + t ELSE t - i) \in {a, a - 1}
  BY <1>3
<1>. QED BY <1>1, <1>2, <1>3, TimerFields, TimerAssumption DEF InStep, Elapsed, Ticks

LEMMA InTime ==
    ASSUME ClockInv, NEW n \in Nodes, timer[n].start
    PROVE  /\ Expired(n) => timer[n].used /\ age[n] >= timer[n].timeout
           /\ age[n] \in (timer[n].timeout + 1)..(TickWrap - 1) => Expired(n)
<1> DEFINE e == Elapsed(timer[n].init, now)
           time == timer[n].timeout
<1>1. timer[n].used /\ time \in {0} \cup Timeouts
  BY TimerFields DEF ClockInv, Started
<1>2. time \in Nat /\ time < TickWrap /\ age[n] \in 0..TickWrap /\ TickWrap \in Nat
  BY <1>1, TimeoutFits, TimerFields, TimerAssumption
<1>3. Expired(n) <=> e >= time
  BY DEF Expired, SwTimer_isTimerOut
<1>4. age[n] < TickWrap => e \in {age[n], age[n] - 1}
  BY ElapsedIsAge
<1> HIDE DEF e, time
<1>5. e >= time => age[n] >= time
  BY <1>2, <1>4
<1>6. age[n] \in (time + 1)..(TickWrap - 1) => e >= time
  BY <1>2, <1>4
<1>. QED BY <1>1, <1>3, <1>5, <1>6 DEF time

(* The tick counter counts. *)
LEMMA TickInv == ASSUME ClockInv, Tick PROVE ClockInv'
<1>1. TickWrap \in Nat \ {0}
  BY TimerAssumption DEF ClockInv, ClockType, Ticks
<1>2. now' = IF now + 1 = TickWrap THEN 0 ELSE now + 1
  BY <1>1, TickWraps DEF ClockInv, ClockType, Ticks, Tick
<1>3. /\ timer' = timer /\ ticks' = ticks
      /\ age' = [n \in Nodes |-> Older(age[n])]
  BY DEF Tick
<1>4. ClockType'
  BY <1>1, <1>2, <1>3 DEF ClockInv, ClockType, Ticks, Older
<1>5. ASSUME NEW n \in Nodes PROVE Started(n)'
  <2>1. /\ timer[n].init \in Ticks /\ age[n] \in 0..TickWrap /\ now \in Ticks
        /\ age'[n] = Older(age[n])
    BY <1>3, TimerFields DEF ClockInv, ClockType
  <2>2. CASE timer[n].start /\ age'[n] < TickWrap
    <3>1. age[n] < TickWrap /\ age'[n] = age[n] + 1
      BY <1>1, <2>1, <2>2 DEF Older
    <3>2. InStep(n)
      BY <2>2, <3>1 DEF ClockInv, Started
    <3>3. ASSUME NEW i \in Ticks, NEW a \in Ticks, now = i + a \/ now = i + a - TickWrap
          PROVE  now' = i + (a + 1) \/ now' = i + (a + 1) - TickWrap
      BY <1>1, <1>2, <2>1, <3>3 DEF Ticks
    <3>4. age[n] \in Ticks
      BY <1>1, <2>1, <3>1 DEF Ticks
    <3>5. InStep(n)'
      BY <1>3, <2>1, <3>1, <3>2, <3>3, <3>4 DEF InStep
    <3>. QED BY <1>3, <2>2, <3>5 DEF ClockInv, Started
  <2>3. CASE ~(timer[n].start /\ age'[n] < TickWrap)
    BY <1>3, <2>3 DEF ClockInv, Started
  <2>. QED BY <2>2, <2>3
<1>. QED BY <1>4, <1>5 DEF ClockInv

(* What a call does to timer n: nothing, or it is cleared and unused, stopped,
   or counts from a tick that it is as old as. *)
LEMMA CallInv ==
    ASSUME ClockInv, ClockType', now' = now,
           \A n \in Nodes :
              \/ timer'[n] = timer[n] /\ age'[n] = age[n]
              \/ ~timer'[n].start
              \/ (timer'[n].start => timer'[n].used) /\ InStep(n)'
    PROVE  ClockInv'
<1>1. ASSUME NEW n \in Nodes PROVE Started(n)'
  BY DEF ClockInv, Started, InStep
<1>. QED BY <1>1 DEF ClockInv

(* One timer of the pool becomes r. *)
LEMMA TimerBecomes ==
    ASSUME ClockInv, NEW n \in Nodes, NEW r \in Timer, NEW a \in 0..TickWrap,
           timer' = [timer EXCEPT ![n] = r], age' = [age EXCEPT ![n] = a],
           now' = now, ticks' = ticks
    PROVE  /\ ClockType' /\ timer'[n] = r /\ age'[n] = a
           /\ \A m \in Nodes \ {n} : timer'[m] = timer[m] /\ age'[m] = age[m]
  BY DEF ClockInv, ClockType

LEMMA StartInv == ASSUME ClockInv, NEW n \in Nodes, NEW t \in Timeouts, SwTimer_Start(n, t) PROVE ClockInv'
<1>1. /\ timer' = [timer EXCEPT ![n].timeout = t, ![n].init = now, ![n].start = TRUE]
      /\ age' = [age EXCEPT ![n] = 0] /\ now' = now /\ ticks' = ticks /\ timer[n].used
  BY DEF SwTimer_Start, Counts_from_now, clockVars
<1> DEFINE r == [timer[n] EXCEPT !.timeout = t, !.init = now, !.start = TRUE]
<1>2. now \in Ticks /\ now \in Int /\ 0 \in 0..TickWrap /\ timer[n] \in Timer
  BY TimerAssumption DEF ClockInv, ClockType, Ticks
<1>3. r \in Timer
  BY <1>2 DEF Timer
<1>4. timer' = [timer EXCEPT ![n] = r]
  BY <1>1 DEF ClockInv, ClockType
<1>5. r.init = now
  BY <1>2 DEF Timer
<1>6. r.used = timer[n].used
  BY <1>2 DEF Timer
<1> HIDE DEF r
<1>7. /\ ClockType' /\ timer'[n] = r /\ age'[n] = 0
      /\ \A m \in Nodes \ {n} : timer'[m] = timer[m] /\ age'[m] = age[m]
  BY <1>1, <1>2, <1>3, <1>4, TimerBecomes
<1>8. timer'[n].used
  BY <1>1, <1>6, <1>7
<1>9. InStep(n)'
  BY <1>1, <1>2, <1>5, <1>7 DEF InStep
<1>. QED BY <1>1, <1>7, <1>8, <1>9, CallInv

LEMMA ReStartInv == ASSUME ClockInv, NEW n \in Nodes, SwTimer_ReStart(n) PROVE ClockInv'
<1>1. /\ timer' = [timer EXCEPT ![n].init = now, ![n].start = TRUE]
      /\ age' = [age EXCEPT ![n] = 0] /\ now' = now /\ ticks' = ticks
      /\ timer[n].used
  BY DEF SwTimer_ReStart, Counts_from_now, clockVars
<1> DEFINE r == [timer[n] EXCEPT !.init = now, !.start = TRUE]
<1>2. now \in Ticks /\ now \in Int /\ 0 \in 0..TickWrap /\ timer[n] \in Timer
  BY TimerAssumption DEF ClockInv, ClockType, Ticks
<1>3. r \in Timer
  BY <1>2 DEF Timer
<1>4. timer' = [timer EXCEPT ![n] = r]
  BY <1>1 DEF ClockInv, ClockType
<1>5. r.init = now
  BY <1>2 DEF Timer
<1>6. r.used = timer[n].used
  BY <1>2 DEF Timer
<1> HIDE DEF r
<1>7. /\ ClockType' /\ timer'[n] = r /\ age'[n] = 0
      /\ \A m \in Nodes \ {n} : timer'[m] = timer[m] /\ age'[m] = age[m]
  BY <1>1, <1>2, <1>3, <1>4, TimerBecomes
<1>8. timer'[n].used
  BY <1>1, <1>6, <1>7
<1>9. InStep(n)'
  BY <1>1, <1>2, <1>5, <1>7 DEF InStep
<1>. QED BY <1>1, <1>7, <1>8, <1>9, CallInv

(* The timer counts from the manager's tick, and is as old as that. *)
LEMMA ResetInv == ASSUME ClockInv, NEW n \in Nodes, SwTimer_Reset(n) PROVE ClockInv'
<1>1. /\ timer' = [timer EXCEPT ![n].init = ticks]
      /\ age' = [age EXCEPT ![n] = Since(ticks)] /\ now' = now /\ ticks' = ticks
  BY DEF SwTimer_Reset, clockVars
<1> DEFINE ago == Since(ticks)
<1>2. /\ now \in Ticks /\ ticks \in Ticks /\ TickWrap \in Nat \ {0}
  BY TimerAssumption DEF ClockInv, ClockType, Ticks
<1>3. /\ ago \in 0..(TickWrap - 1)
      /\ now = ticks + ago \/ now = ticks + ago - TickWrap
  BY <1>2, TurnsAgo DEF Ticks, Since
<1> HIDE DEF ago
<1>4. age' = [age EXCEPT ![n] = ago]
  BY <1>1 DEF ago
<1>5. ClockType'
  BY <1>1, <1>2, <1>3, <1>4 DEF ClockInv, ClockType, Timer
<1>6. /\ timer'[n].used = timer[n].used /\ timer'[n].timeout = timer[n].timeout
      /\ timer'[n].start = timer[n].start /\ timer'[n].init = ticks /\ age'[n] = ago
  BY <1>1, <1>4 DEF ClockInv, ClockType, Timer
<1>7. InStep(n)'
  BY <1>1, <1>3, <1>6 DEF InStep
<1>. QED BY <1>1, <1>4, <1>5, <1>6, <1>7, CallInv DEF ClockInv, ClockType, Started

LEMMA ResetTimersInv == ASSUME ClockInv, TimerManager_ResetTimer PROVE ClockInv'
<1> DEFINE Reset(n) == List_isIn(links, head, n) /\ timer[n].start
<1>1. /\ timer' = [n \in Nodes |-> IF Reset(n) THEN [timer[n] EXCEPT !.init = now] ELSE timer[n]]
      /\ age' = [n \in Nodes |-> IF Reset(n) THEN 0 ELSE age[n]]
      /\ now' = now /\ ticks' = now
  BY DEF TimerManager_ResetTimer, clockVars
<1>2. now \in Ticks /\ now \in Int /\ TickWrap \in Nat
  BY TimerAssumption DEF ClockInv, ClockType, Ticks
<1>3. \A n \in Nodes : Reset(n) => timer[n].start
  OBVIOUS
<1> HIDE DEF Reset
<1>4. ClockType'
  BY <1>1, <1>2 DEF ClockInv, ClockType, Timer
<1>5. ASSUME NEW n \in Nodes, Reset(n)
      PROVE  timer'[n].used /\ InStep(n)'
  <2> DEFINE r == [timer[n] EXCEPT !.init = now]
  <2>1. timer[n] \in Timer /\ timer'[n] = r /\ age'[n] = 0
    BY <1>1, <1>5 DEF ClockInv, ClockType
  <2>2. timer[n].used
    BY <1>3, <1>5 DEF ClockInv, Started
  <2>3. r.init = now
    BY <2>1 DEF Timer
  <2>4. r.used = timer[n].used
    BY <2>1 DEF Timer
  <2> HIDE DEF r
  <2>5. InStep(n)'
    BY <1>1, <1>2, <2>1, <2>3 DEF InStep
  <2>. QED BY <2>1, <2>2, <2>3, <2>4, <2>5
<1>6. ASSUME NEW n \in Nodes, ~Reset(n) PROVE timer'[n] = timer[n] /\ age'[n] = age[n]
  BY <1>1, <1>6
<1>. QED BY <1>1, <1>4, <1>5, <1>6, CallInv

(* Timers that come, go or stop. *)
LEMMA IdleTimersInv ==
    ASSUME ClockInv, NEW n \in Nodes, NewTimer(n) \/ SwTimer_Stop(n) \/ SwTimer_Release(n)
    PROVE  ClockInv'
<1>1. timer[n] \in Timer /\ 0 \in Ticks /\ age[n] \in 0..TickWrap
  BY TimerAssumption DEF ClockInv, ClockType, Ticks
<1>2. age' = [age EXCEPT ![n] = age[n]] /\ now' = now /\ ticks' = ticks
  BY DEF NewTimer, SwTimer_Stop, SwTimer_Release, clockVars, ClockInv, ClockType
<1>3. PICK r \in Timer : timer' = [timer EXCEPT ![n] = r] /\ ~r.start
  <2>1. CASE NewTimer(n)
    <3> DEFINE r == [Cleared EXCEPT !.used = TRUE, !.managed = TRUE]
    <3>1. r \in Timer
      BY <1>1 DEF Timer, Cleared
    <3>2. ~r.start
      BY DEF Cleared
    <3>. QED BY <2>1, <3>1, <3>2 DEF NewTimer
  <2>2. CASE SwTimer_Stop(n)
    <3> DEFINE r == [timer[n] EXCEPT !.start = FALSE]
    <3>1. r \in Timer
      BY <1>1 DEF Timer
    <3>2. ~r.start
      BY <1>1 DEF Timer
    <3>3. timer' = [timer EXCEPT ![n] = r]
      BY <2>2 DEF SwTimer_Stop, ClockInv, ClockType
    <3>. QED BY <3>1, <3>2, <3>3
  <2>3. CASE SwTimer_Release(n)
    <3>1. Cleared \in Timer
      BY <1>1 DEF Timer, Cleared
    <3>2. ~Cleared.start
      BY DEF Cleared
    <3>. QED BY <2>3, <3>1, <3>2 DEF SwTimer_Release
  <2>. QED BY <2>1, <2>2, <2>3
<1>4. /\ ClockType' /\ timer'[n] = r /\ age' = age
      /\ \A m \in Nodes \ {n} : timer'[m] = timer[m] /\ age'[m] = age[m]
  BY <1>1, <1>2, <1>3, TimerBecomes DEF ClockInv, ClockType
<1>. QED BY <1>2, <1>3, <1>4, CallInv

(* Every step keeps what is started in step. *)
LEMMA ClockStep == ClockInv /\ [Next]_vars => ClockInv'
<1> SUFFICES ASSUME ClockInv, [Next]_vars PROVE ClockInv'
  OBVIOUS
<1>1. ASSUME UNCHANGED <<timer, age, now>>, ticks' \in {ticks, now} PROVE ClockInv'
  BY <1>1 DEF ClockInv, ClockType, Started, InStep
<1>2. CASE RunStep
  BY <1>1, <1>2 DEF RunStep, RunStarts, Fires, Passes, HandlerReturns, GoTo, clockVars
<1>3. CASE UNCHANGED vars
  BY <1>1, <1>3 DEF vars
<1>. QED
  BY <1>2, <1>3, TickInv, StartInv, ReStartInv, ResetInv, ResetTimersInv, IdleTimersInv DEF Next

(* Nothing is started at first. *)
LEMMA ClockStarts == Init => ClockInv
<1> SUFFICES ASSUME Init PROVE ClockInv
  OBVIOUS
<1>1. TickWrap \in Nat \ {0}
  BY TimerAssumption DEF Init, Ticks
<1>. QED BY <1>1 DEF Init, ClockInv, ClockType, Started, Ticks, Timer, Cleared
-----------------------------------------------------------------------------
(* No timer fires early, or when it is released, on either side of the wrap of
   the tick counter (SwTimer_isTimerOut, SwTimer_TimerOut). *)
THEOREM NoneFiresEarly == Spec => FiresNeitherEarlyNorDead
<1>1. ClockInv /\ [Next]_vars =>
        [\A n \in Nodes : Fires /\ cur = n => timer[n].used /\ age[n] >= timer[n].timeout]_vars
  BY InTime DEF Fires, Expired
<1>. QED BY <1>1, ClockStarts, ClockStep, PTL DEF Spec, FiresNeitherEarlyNorDead

(* No walk passes by a timer that is due, with one more tick for the wrap
   (TimerManager_Run, SwTimer_isTimerOut). *)
THEOREM NoneIsPassedWhenDue == Spec => NotPassedWhenDue
<1>1. ClockInv /\ [Next]_vars =>
        [\A n \in Nodes : Passes /\ cur = n =>
           ~(timer[n].start /\ age[n] \in (timer[n].timeout + 1)..(TickWrap - 1))]_vars
  BY InTime DEF Passes
<1>. QED BY <1>1, ClockStarts, ClockStep, PTL DEF Spec, NotPassedWhenDue
-----------------------------------------------------------------------------
(* The timers in use, and where a walk may be. *)
InUse == {n \in Nodes : timer[n].used}

WalkType ==
    /\ {cur, nxt} \subseteq Nodes \cup {Null} /\ lag \in 0..MaxLag
    /\ pc \in {"idle", "walk", "fire"} /\ (pc # "idle" => cur # Null)

(* The list is that of the timers in use.  That they are the managed ones is
   what makes SwTimer_Release take a timer off: it asks the timer, not its user. *)
ListInv ==
    /\ timer \in [Nodes -> Timer] /\ WalkType
    /\ ListOf(links, head, InUse)
    /\ \A n \in Nodes : timer[n].managed <=> timer[n].used

(* The list is empty at first. *)
LEMMA ListStarts == Init => ListInv
<1> SUFFICES ASSUME Init PROVE ListInv
  OBVIOUS
<1>1. timer = [n \in Nodes |-> Cleared] /\ timer \in [Nodes -> Timer]
  BY ClockStarts DEF Init, ClockInv, ClockType
<1>2. InUse = {}
  BY <1>1 DEF InUse, Cleared
<1>3. \A n \in Nodes : timer[n].managed <=> timer[n].used
  BY <1>1 DEF Cleared
<1>4. WalkType
  BY TimerAssumption DEF Init, WalkType
<1>. QED BY <1>1, <1>2, <1>3, <1>4, EmptyList DEF Init, ListInv

(* A step that leaves the list alone, and which timers are in use. *)
LEMMA SameList ==
    ASSUME ListInv, timer' \in [Nodes -> Timer], WalkType', UNCHANGED <<links, head>>,
           \A n \in Nodes : timer'[n].used = timer[n].used /\ timer'[n].managed = timer[n].managed
    PROVE  ListInv'
<1>1. InUse' = InUse
  BY DEF InUse
<1>2. ListOf(links, head, InUse)'
  BY <1>1 DEF ListInv
<1>. QED BY <1>2 DEF ListInv

(* A timer that is taken from the pool goes to the tail of the list, one that
   is released comes off it, wherever it is. *)
LEMMA NewTimerOnList ==
    ASSUME ClockInv', ListInv, NEW n \in Nodes, NewTimer(n) PROVE ListInv'
<1> DEFINE r == [Cleared EXCEPT !.used = TRUE, !.managed = TRUE]
<1>1. /\ ~timer[n].used /\ timer' = [timer EXCEPT ![n] = r] /\ timer' \in [Nodes -> Timer]
      /\ r.used /\ r.managed /\ timer \in [Nodes -> Timer]
  BY DEF NewTimer, ListInv, ClockInv, ClockType, Cleared
<1>2. WalkType'
  BY DEF NewTimer, walkVars, clockVars, ListInv, WalkType
<1> HIDE DEF r
<1>3. InUse' = InUse \cup {n} /\ n \in Nodes \ InUse
  BY <1>1 DEF InUse
<1>4. \A m \in Nodes : timer'[m].managed <=> timer'[m].used
  BY <1>1 DEF ListInv
<1>5. ListOf(links, head, InUse)
  BY DEF ListInv
<1>6. /\ head = Null => ListOf(links, n, InUse \cup {n})
      /\ head # Null => ListOf(List_AddTail(links, head, n).links, head, InUse \cup {n})
      /\ [links EXCEPT !.next[n] = Null, !.pre[n] = Null] = links
  BY <1>3, <1>5, ListAdds, ListLeavesFree
<1>7. ListOf(links', head', InUse \cup {n})
  BY <1>6 DEF NewTimer
<1>. QED BY <1>1, <1>2, <1>3, <1>4, <1>7 DEF ListInv

(* SwTimer_Release takes the timer off the list, wherever it is. *)
LEMMA ReleasedOffList ==
    ASSUME ClockInv', ListInv, NEW n \in Nodes, SwTimer_Release(n) PROVE ListInv'
<1>1. /\ timer[n].used /\ timer' = [timer EXCEPT ![n] = Cleared]
      /\ timer' \in [Nodes -> Timer] /\ timer \in [Nodes -> Timer]
      /\ ~Cleared.used /\ ~Cleared.managed
  BY DEF SwTimer_Release, ListInv, ClockInv, ClockType, Cleared
<1>2. WalkType'
  BY DEF SwTimer_Release, walkVars, clockVars, ListInv, WalkType
<1>3. InUse' = InUse \ {n} /\ n \in InUse
  BY <1>1 DEF InUse
<1>4. \A m \in Nodes : timer'[m].managed <=> timer'[m].used
  BY <1>1 DEF ListInv
<1>5. timer[n].managed /\ List_isIn(links, head, n)
  BY <1>1, <1>3, ListReads DEF ListInv
<1>6. links' = List_Remove(links, n).links /\ head' = List_Remove(links, n).head
  BY <1>5 DEF SwTimer_Release, TimerManager_RemoveTimer
<1>7. ListOf(links', head', InUse')
  BY <1>3, <1>6, ListRemoves DEF ListInv
<1>. QED BY <1>1, <1>2, <1>4, <1>7 DEF ListInv

(* The walk goes from a timer along its link, which leads to a timer or ends. *)
LEMMA WalkSteps == ASSUME ListInv, RunStep PROVE ListInv'
<1>1. timer' = timer /\ UNCHANGED <<links, head>>
  BY DEF RunStep, RunStarts, Fires, Passes, HandlerReturns, listVars
<1>2. /\ head \in Nodes \cup {Null} /\ cur \in Nodes \cup {Null} /\ nxt \in Nodes \cup {Null}
      /\ \A n \in Nodes : links.next[n] \in Nodes \cup {Null}
      /\ lag \in 0..MaxLag /\ 0 \in 0..MaxLag /\ pc \in {"idle", "walk", "fire"}
      /\ pc # "idle" => cur # Null
  BY ListReads, TimerAssumption DEF ListInv, WalkType, Links
<1>3. WalkType'
  <2>1. CASE RunStarts
    BY <1>2, <2>1 DEF RunStarts, walkVars, WalkType
  <2>2. CASE Fires
    BY <1>2, <2>2 DEF Fires, clockVars, WalkType
  <2>3. CASE Passes
    BY <1>2, <2>3 DEF Passes, GoTo, WalkType
  <2>4. CASE HandlerReturns
    BY <1>2, <2>4 DEF HandlerReturns, GoTo, WalkType
  <2>. QED BY <2>1, <2>2, <2>3, <2>4 DEF RunStep
<1>. QED BY <1>1, <1>3, SameList DEF ListInv

(* Every step leaves the list of the timers in use behind. *)
LEMMA ListStep == ClockInv /\ ClockInv' /\ ListInv /\ [Next]_vars => ListInv'
<1> SUFFICES ASSUME ClockInv, ClockInv', ListInv, [Next]_vars PROVE ListInv'
  OBVIOUS
<1>1. timer \in [Nodes -> Timer] /\ timer' \in [Nodes -> Timer]
  BY DEF ClockInv, ClockType
<1>2. ASSUME UNCHANGED <<walkVars, lag, listVars>>,
             \A n \in Nodes : timer'[n].used = timer[n].used /\ timer'[n].managed = timer[n].managed
      PROVE  ListInv'
  BY <1>1, <1>2, SameList DEF ListInv, WalkType, walkVars, listVars
<1>3. CASE Tick
  <2>1. WalkType'
    BY <1>3, TimerAssumption DEF Tick, walkVars, ListInv, WalkType
  <2>. QED BY <1>1, <1>3, <2>1, SameList DEF Tick, listVars
<1>4. ASSUME NEW n \in Nodes, NEW t \in Timeouts, SwTimer_Start(n, t) PROVE ListInv'
  BY <1>1, <1>2, <1>4 DEF SwTimer_Start, clockVars, Timer
<1>5. ASSUME NEW n \in Nodes, SwTimer_ReStart(n) PROVE ListInv'
  BY <1>1, <1>2, <1>5 DEF SwTimer_ReStart, clockVars, Timer
<1>6. ASSUME NEW n \in Nodes, SwTimer_Stop(n) PROVE ListInv'
  BY <1>1, <1>2, <1>6 DEF SwTimer_Stop, clockVars, Timer
<1>7. ASSUME NEW n \in Nodes, SwTimer_Reset(n) PROVE ListInv'
  BY <1>1, <1>2, <1>7 DEF SwTimer_Reset, clockVars, Timer
<1>8. CASE TimerManager_ResetTimer
  BY <1>1, <1>2, <1>8 DEF TimerManager_ResetTimer, clockVars, Timer
<1>9. CASE UNCHANGED vars
  BY <1>2, <1>9 DEF vars, walkVars, listVars
<1>. QED
  BY <1>3, <1>4, <1>5, <1>6, <1>7, <1>8, <1>9, NewTimerOnList, ReleasedOffList, WalkSteps DEF Next

(* Hence both invariants hold of every behaviour. *)
LEMMA TimersInv == Spec => [](ClockInv /\ ListInv)
  BY ClockStarts, ClockStep, ListStarts, ListStep, PTL DEF Spec

(* The type invariant: no walk leaves the pool, and time between the ends of
   two runs stays within its bound (TimerManager_Run). *)
THEOREM TimersTypeCorrect == Spec => []TypeOK
<1>1. ClockInv /\ ListInv => TypeOK
  <2> SUFFICES ASSUME ClockInv, ListInv PROVE TypeOK
    OBVIOUS
  <2>1. links \in Links /\ head \in Nodes \cup {Null}
    BY ListReads DEF ListInv
  <2>. QED BY <2>1 DEF ClockInv, ClockType, ListInv, WalkType, TypeOK
<1>. QED BY <1>1, TimersInv, PTL

(* Handlers that create and release timers, the firing one and its neighbours
   included, leave a well-formed list of exactly the timers in use
   (TimerManager_AddTimer, TimerManager_RemoveTimer, SwTimer_Release). *)
THEOREM ListHoldsTimersInUse == Spec => []ListHoldsUsedTimers
<1>1. ListInv => ListHoldsUsedTimers
  BY ListReads DEF ListInv, InUse, ListHoldsUsedTimers
<1>. QED BY <1>1, TimersInv, PTL
=============================================================================
