------------------------ MODULE LockControllerProofs ------------------------
(***************************************************************************)
(* Safety of the lock for every queue size, every pool of timer threads    *)
(* and every set of durations.                                             *)
(*                                                                         *)
(* The inductive invariant is TypeOK, NoProcess, HardwareMatchesConfig,    *)
(* TimerDiscipline and FullDuration together: the hardware and the timers  *)
(* of a process that starts are right because the one before it left       *)
(* nothing behind (NoProcess), and an unlock keeps its full duration       *)
(* because the only thread that can fire is the one self._timer names      *)
(* (TimerDiscipline).                                                      *)
(***************************************************************************)
EXTENDS LockController, TLAPS

\* A process that is gone has left no thread, no event and no logical state.
NoProcess ==
    phase \in {"crashed", "stopped"} =>
        /\ state = "LOCKED"
        /\ timer = NoTimer
        /\ \A t \in TimerThreads : thread[t] = "idle"
        /\ queue = <<>>

----------------------------------------------------------------------------
(* The queue *)

\* Taking an event leaves a queue of events that is one shorter.
LEMMA TailType ==
    ASSUME NEW q \in Seq(Events), q # <<>>
    PROVE  /\ Tail(q) \in Seq(Events)
           /\ Len(Tail(q)) = Len(q) - 1
           /\ Head(q) \in Events
  OBVIOUS

\* Taking anything but an expiry neither brings nor removes one.
LEMMA TailExpiry ==
    ASSUME NEW q \in Seq(Events), q # <<>>, Head(q) # "UNLOCK_TIMER_EXPIRED"
    PROVE  ExpiryQueued(Tail(q)) <=> ExpiryQueued(q)
<1>1. ASSUME ExpiryQueued(Tail(q)) PROVE ExpiryQueued(q)
  <2>1. PICK i \in 1..Len(Tail(q)) : Tail(q)[i] = "UNLOCK_TIMER_EXPIRED"
    BY <1>1 DEF ExpiryQueued, Contains
  <2>2. i + 1 \in 1..Len(q) /\ q[i + 1] = "UNLOCK_TIMER_EXPIRED"
    BY <2>1
  <2> QED BY <2>2 DEF ExpiryQueued, Contains
<1>2. ASSUME ExpiryQueued(q) PROVE ExpiryQueued(Tail(q))
  <2>1. PICK i \in 1..Len(q) : q[i] = "UNLOCK_TIMER_EXPIRED"
    BY <1>2 DEF ExpiryQueued, Contains
  <2>2. i # 1 BY <2>1
  <2>3. i - 1 \in 1..Len(Tail(q)) /\ Tail(q)[i - 1] = "UNLOCK_TIMER_EXPIRED"
    BY <2>1, <2>2
  <2> QED BY <2>3 DEF ExpiryQueued, Contains
<1> QED BY <1>1, <1>2

\* Appending an event adds it and keeps the rest.
LEMMA AppendExpiry ==
    ASSUME NEW q \in Seq(Events), NEW e \in Events
    PROVE  ExpiryQueued(Append(q, e))
              <=> ExpiryQueued(q) \/ e = "UNLOCK_TIMER_EXPIRED"
<1>1. ASSUME ExpiryQueued(q) PROVE ExpiryQueued(Append(q, e))
  <2>1. PICK i \in 1..Len(q) : q[i] = "UNLOCK_TIMER_EXPIRED"
    BY <1>1 DEF ExpiryQueued, Contains
  <2>2. i \in 1..Len(Append(q, e)) /\ Append(q, e)[i] = "UNLOCK_TIMER_EXPIRED"
    BY <2>1
  <2> QED BY <2>2 DEF ExpiryQueued, Contains
<1>2. ASSUME e = "UNLOCK_TIMER_EXPIRED" PROVE ExpiryQueued(Append(q, e))
  <2>1. Len(q) + 1 \in 1..Len(Append(q, e)) /\ Append(q, e)[Len(q) + 1] = e
    OBVIOUS
  <2> QED BY <1>2, <2>1 DEF ExpiryQueued, Contains
<1>3. ASSUME ExpiryQueued(Append(q, e)), e # "UNLOCK_TIMER_EXPIRED"
      PROVE  ExpiryQueued(q)
  <2>1. PICK i \in 1..Len(Append(q, e)) : Append(q, e)[i] = "UNLOCK_TIMER_EXPIRED"
    BY <1>3 DEF ExpiryQueued, Contains
  <2>2. i \in 1..Len(q) /\ q[i] = "UNLOCK_TIMER_EXPIRED"
    BY <2>1, <1>3
  <2> QED BY <2>2 DEF ExpiryQueued, Contains
<1> QED BY <1>1, <1>2, <1>3

----------------------------------------------------------------------------
(* Type correctness *)

\* Cancelling self._timer leaves every thread and every remaining time typed.
LEMMA CancelType ==
    ASSUME TypeOK
    PROVE  /\ Cancelled \in [TimerThreads -> {"idle", "waiting", "firing"}]
           /\ LeftAfterCancel \in [TimerThreads -> Nat]
  BY DEF TypeOK, Cancelled, LeftAfterCancel

\* unlock() and lock() keep the controller's variables typed, whether or not the
\* timer thread starts.
LEMMA LockOpsType ==
    ASSUME TypeOK, Lock \/ \E t \in TimerThreads : Unlock(t) \/ UnlockStartFails(t)
    PROVE  /\ state' \in {"LOCKED", "UNLOCKED"}
           /\ timer' \in TimerThreads \cup {NoTimer}
           /\ thread' \in [TimerThreads -> {"idle", "waiting", "firing"}]
           /\ left' \in [TimerThreads -> Nat]
           /\ relay' \in {"LOW", "HIGH", "INPUT"}
           /\ led' \in {"LOW", "HIGH", "INPUT"}
<1>1. CASE Lock
  BY <1>1, CancelType DEF Lock, ApplyState, RelayLevel, LedLevel
<1>2. CASE \E t \in TimerThreads : Unlock(t)
  <2>1. default_duration \in Nat BY DurationsAssumption DEF TypeOK
  <2> QED BY <1>2, <2>1, CancelType DEF Unlock, ApplyState, RelayLevel, LedLevel
<1>3. CASE \E t \in TimerThreads : UnlockStartFails(t)
  BY <1>3, CancelType DEF UnlockStartFails, ApplyState, RelayLevel, LedLevel
<1> QED BY <1>1, <1>2, <1>3

\* The main loop's get() keeps the queue typed and within its bound.
LEMMA GetType ==
    ASSUME TypeOK, NEW e \in Events, Get(e)
    PROVE  /\ queue' \in Seq(Events)
           /\ Len(queue') <= QueueSize
           /\ phase' = "running"
<1>1. queue' = Tail(queue) /\ queue # <<>> /\ phase' = "running"
  BY DEF Get
<1>2. queue \in Seq(Events) /\ Len(queue) <= QueueSize
  BY DEF TypeOK
<1>3. Len(Tail(queue)) <= QueueSize
  BY <1>1, <1>2, QueueSizeAssumption
<1> QED BY <1>1, <1>2, <1>3, TailType

\* The two settings in a config.
LEMMA ConfigFields ==
    ASSUME NEW c \in Configs
    PROVE  c.active_low \in BOOLEAN /\ c.duration \in Durations
  BY DEF Configs

\* The initial states are typed.
LEMMA TypeInit == Init => TypeOK
<1> SUFFICES ASSUME Init PROVE TypeOK
  OBVIOUS
<1>1. active_low \in BOOLEAN /\ default_duration \in Durations
  BY ConfigFields DEF Init
<1>2. queue \in Seq(Events) /\ Len(queue) <= QueueSize
  BY QueueSizeAssumption DEF Init
<1> QED BY <1>1, <1>2 DEF Init, TypeOK

\* A process that ends leaves typed variables.
LEMMA ProcessEndsType ==
    ASSUME ProcessEnds
    PROVE  /\ state' \in {"LOCKED", "UNLOCKED"}
           /\ timer' \in TimerThreads \cup {NoTimer}
           /\ thread' \in [TimerThreads -> {"idle", "waiting", "firing"}]
           /\ left' \in [TimerThreads -> Nat]
           /\ queue' \in Seq(Events)
           /\ Len(queue') <= QueueSize
           /\ undisturbed' \in BOOLEAN
<1>1. <<>> \in Seq(Events) /\ Len(<<>>) <= QueueSize
  BY QueueSizeAssumption
<1> QED BY <1>1 DEF ProcessEnds, NoThreads

\* No step of the lock, its timers or its process loses a type.
LEMMA TypeStep == TypeOK /\ [Next]_vars => TypeOK'
<1> SUFFICES ASSUME TypeOK, [Next]_vars PROVE TypeOK'
  OBVIOUS
<1> USE DEF controller, timers, pins
<1>1. ASSUME NEW e \in Posted, Post(e) PROVE TypeOK'
  <2>1. e \in Events BY PostedAssumption DEF Events
  <2>2. Append(queue, e) \in Seq(Events) /\ Len(Append(queue, e)) <= QueueSize
    BY <1>1, <2>1, QueueSizeAssumption DEF TypeOK, Post, Room
  <2> QED BY <1>1, <2>2 DEF TypeOK, Post
<1>2. CASE DispatchUnlock
  <2>1. PICK e \in Events : Get(e)
    BY <1>2 DEF DispatchUnlock, UnlockEvents, Requests, Events
  <2>2. undisturbed' \in BOOLEAN
    BY <1>2 DEF DispatchUnlock
  <2> QED BY <1>2, <2>1, <2>2, GetType, LockOpsType DEF TypeOK, DispatchUnlock
<1>3. CASE DispatchUnlockFails
  <2>1. PICK e \in Events : Get(e)
    BY <1>3 DEF DispatchUnlockFails, UnlockEvents, Requests, Events
  <2> QED BY <1>3, <2>1, GetType, LockOpsType DEF TypeOK, DispatchUnlockFails
<1>4. CASE DispatchLock
  BY <1>4, GetType, LockOpsType DEF TypeOK, DispatchLock, Events, Requests
<1>5. CASE DispatchExpired
  BY <1>5, GetType, LockOpsType DEF TypeOK, DispatchExpired, Events
<1>6. CASE DispatchSetPolarity
  <2>1. config' \in Configs BY <1>6 DEF TypeOK, Configs, DispatchSetPolarity
  <2> QED BY <1>6, <2>1, GetType
         DEF TypeOK, DispatchSetPolarity, SetActiveLow, ApplyState, RelayLevel,
             LedLevel, Events, Requests
<1>7. CASE DispatchSetDuration
  <2>1. config' \in Configs /\ default_duration' \in Durations
    BY <1>7 DEF TypeOK, Configs, DispatchSetDuration, SetDefaultDuration
  <2> QED BY <1>7, <2>1, GetType
         DEF TypeOK, DispatchSetDuration, SetDefaultDuration, Events, Requests
<1>8. CASE DispatchNoEffect
  <2>1. PICK e \in Events : Get(e)
    BY <1>8 DEF DispatchNoEffect, Requests, Events
  <2> QED BY <1>8, <2>1, GetType DEF TypeOK, DispatchNoEffect
<1>9. CASE Tick
  BY <1>9 DEF TypeOK, Tick
<1>10. ASSUME NEW t \in TimerThreads, TimerFires(t) PROVE TypeOK'
  BY <1>10 DEF TypeOK, TimerFires
<1>11. ASSUME NEW t \in TimerThreads, TimerPosts(t) PROVE TypeOK'
  <2>1. /\ Append(queue, "UNLOCK_TIMER_EXPIRED") \in Seq(Events)
        /\ Len(Append(queue, "UNLOCK_TIMER_EXPIRED")) <= QueueSize
    BY <1>11, QueueSizeAssumption DEF TypeOK, TimerPosts, Room, Events
  <2> QED BY <1>11, <2>1 DEF TypeOK, TimerPosts
<1>12. ASSUME NEW t \in TimerThreads, TimerDrops(t) PROVE TypeOK'
  BY <1>12 DEF TypeOK, TimerDrops
<1>13. CASE Start
  <2>1. active_low' \in BOOLEAN /\ default_duration' \in Durations
    BY <1>13, ConfigFields DEF TypeOK, Start
  <2> QED BY <1>13, <2>1 DEF TypeOK, Start, ApplyState, RelayLevel, LedLevel
<1>14. CASE Shutdown
  BY <1>14 DEF TypeOK, Shutdown
<1>15. CASE Cleanup \/ StopTimesOut \/ Crash
  BY <1>15, ProcessEndsType DEF TypeOK, Cleanup, StopTimesOut, Crash
<1>16. CASE CrashAfterSave
  <2>1. config' \in Configs
    <3>1. CASE config' = [config EXCEPT !.active_low = ~config.active_low]
      BY <3>1 DEF TypeOK, Configs
    <3>2. ASSUME NEW d \in Durations, config' = [config EXCEPT !.duration = d]
          PROVE  config' \in Configs
      BY <3>2 DEF TypeOK, Configs
    <3> QED BY <1>16, <3>1, <3>2 DEF CrashAfterSave
  <2> QED BY <1>16, <2>1, ProcessEndsType DEF TypeOK, CrashAfterSave
<1>17. CASE UNCHANGED vars
  BY <1>17 DEF TypeOK, vars
<1> QED
  BY <1>1, <1>2, <1>3, <1>4, <1>5, <1>6, <1>7, <1>8, <1>9, <1>10, <1>11, <1>12,
     <1>13, <1>14, <1>15, <1>16, <1>17
  DEF Next, Dispatch

\* The variables of the lock keep their types and the event queue never exceeds its
\* maxsize (main.py:498), whatever is posted and however the process ends.
THEOREM TypeCorrect == Spec => []TypeOK
  BY TypeInit, TypeStep, PTL DEF Spec

----------------------------------------------------------------------------
(* The inductive invariant *)

IInv ==
    /\ TypeOK
    /\ NoProcess
    /\ HardwareMatchesConfig
    /\ TimerDiscipline
    /\ FullDuration

\* The inductive invariant holds when the service has never run.
LEMMA InvInit == Init => IInv
<1> SUFFICES ASSUME Init PROVE IInv
  OBVIOUS
<1>1. TypeOK BY TypeInit
<1>2. NoProcess BY DEF Init, NoProcess
<1>3. HardwareMatchesConfig BY DEF Init, HardwareMatchesConfig
<1>4. TimerDiscipline BY DEF Init, TimerDiscipline
<1>5. FullDuration BY DEF Init, FullDuration
<1> QED BY <1>1, <1>2, <1>3, <1>4, <1>5 DEF IInv

\* A process that is gone stays without state, and one that starts finds none.
LEMMA NoProcessStep == IInv /\ [Next]_vars => NoProcess'
<1> SUFFICES ASSUME IInv, [Next]_vars PROVE NoProcess'
  OBVIOUS
<1> USE DEF NoProcess, controller, timers, pins
<1>1. CASE (\E e \in Posted : Post(e)) \/ Shutdown \/ Start
  BY <1>1 DEF IInv, Post, Shutdown, Start
<1>2. CASE Dispatch
  BY <1>2 DEF Dispatch, DispatchUnlock, DispatchUnlockFails, DispatchLock,
     DispatchExpired, DispatchSetPolarity, DispatchSetDuration, DispatchNoEffect, Get
<1>3. CASE Tick
  BY <1>3 DEF IInv, Tick
<1>4. CASE \E t \in TimerThreads : TimerFires(t) \/ TimerPosts(t) \/ TimerDrops(t)
  BY <1>4 DEF IInv, TimerFires, TimerPosts, TimerDrops
<1>5. CASE Cleanup \/ StopTimesOut \/ Crash \/ CrashAfterSave
  BY <1>5 DEF Cleanup, StopTimesOut, Crash, CrashAfterSave, ProcessEnds, NoThreads
<1>6. CASE UNCHANGED vars
  BY <1>6 DEF IInv, vars
<1> QED BY <1>1, <1>2, <1>3, <1>4, <1>5, <1>6 DEF Next

\* Only unlock(), lock() and set_active_low() touch the pins of a running process,
\* and each drives them from the state and polarity it leaves.
LEMMA HardwareStep == IInv /\ [Next]_vars => HardwareMatchesConfig'
<1> SUFFICES ASSUME IInv, [Next]_vars PROVE HardwareMatchesConfig'
  OBVIOUS
<1> USE DEF HardwareMatchesConfig, controller, timers, pins
<1>1. CASE (\E e \in Posted : Post(e)) \/ Tick \/ Shutdown
  BY <1>1 DEF IInv, Post, Tick, Shutdown
<1>2. CASE DispatchUnlock
  BY <1>2 DEF IInv, DispatchUnlock, Get, Unlock, ApplyState
<1>3. CASE DispatchUnlockFails
  BY <1>3 DEF IInv, DispatchUnlockFails, Get, UnlockStartFails, ApplyState
<1>4. CASE DispatchLock \/ DispatchExpired
  BY <1>4 DEF IInv, DispatchLock, DispatchExpired, Get, Lock, ApplyState
<1>5. CASE DispatchSetPolarity
  BY <1>5 DEF IInv, TypeOK, Configs, DispatchSetPolarity, Get, SetActiveLow, ApplyState
<1>6. CASE DispatchSetDuration
  BY <1>6 DEF IInv, TypeOK, Configs, DispatchSetDuration, Get, SetDefaultDuration
<1>7. CASE DispatchNoEffect
  BY <1>7 DEF IInv, DispatchNoEffect, Get
<1>8. CASE \E t \in TimerThreads : TimerFires(t) \/ TimerPosts(t) \/ TimerDrops(t)
  BY <1>8 DEF IInv, TimerFires, TimerPosts, TimerDrops
<1>9. CASE Start
  BY <1>9 DEF IInv, NoProcess, Start, ApplyState
<1>10. CASE Cleanup \/ StopTimesOut \/ Crash \/ CrashAfterSave
  BY <1>10 DEF Cleanup, StopTimesOut, Crash, CrashAfterSave
<1>11. CASE UNCHANGED vars
  BY <1>11 DEF IInv, vars
<1> QED
  BY <1>1, <1>2, <1>3, <1>4, <1>5, <1>6, <1>7, <1>8, <1>9, <1>10, <1>11
  DEF Next, Dispatch

\* Nothing waits once self._timer is cancelled.
LEMMA CancelLeavesNone ==
    ASSUME TypeOK, TimerDiscipline, NEW t \in TimerThreads
    PROVE  Cancelled[t] # "waiting"
  BY DEF TypeOK, TimerDiscipline, Cancelled

\* Each step keeps the only timer that counts down the one self._timer names.
LEMMA TimerStep == IInv /\ [Next]_vars => TimerDiscipline'
<1> SUFFICES ASSUME IInv, [Next]_vars, NEW t \in TimerThreads, thread'[t] = "waiting"
             PROVE  t = timer' /\ state' = "UNLOCKED"
  BY DEF TimerDiscipline
<1> USE DEF controller, timers, pins
<1>1. ASSUME UNCHANGED <<state, timer>>, thread[t] = "waiting"
      PROVE  t = timer' /\ state' = "UNLOCKED"
  BY <1>1 DEF IInv, TimerDiscipline
<1>2. Cancelled[t] # "waiting"
  BY CancelLeavesNone DEF IInv
<1>3. CASE (\E e \in Posted : Post(e)) \/ Tick \/ Shutdown \/ Start
  BY <1>1, <1>3 DEF Post, Tick, Shutdown, Start
<1>4. CASE DispatchUnlock
  <2>1. PICK u \in TimerThreads : Unlock(u)
    BY <1>4 DEF DispatchUnlock
  <2>2. Cancelled \in [TimerThreads -> {"idle", "waiting", "firing"}]
    BY CancelType DEF IInv
  <2> QED BY <1>2, <2>1, <2>2 DEF Unlock
<1>5. CASE DispatchUnlockFails \/ DispatchLock \/ DispatchExpired
  BY <1>2, <1>5 DEF DispatchUnlockFails, UnlockStartFails, DispatchLock,
     DispatchExpired, Lock
<1>6. CASE DispatchSetPolarity \/ DispatchSetDuration \/ DispatchNoEffect
  BY <1>1, <1>6 DEF DispatchSetPolarity, DispatchSetDuration, SetDefaultDuration,
     DispatchNoEffect
<1>7. CASE \E u \in TimerThreads : TimerFires(u) \/ TimerPosts(u) \/ TimerDrops(u)
  BY <1>1, <1>7 DEF IInv, TypeOK, TimerFires, TimerPosts, TimerDrops
<1>8. CASE Cleanup \/ StopTimesOut \/ Crash \/ CrashAfterSave
  BY <1>8 DEF Cleanup, StopTimesOut, Crash, CrashAfterSave, ProcessEnds, NoThreads
<1>9. CASE UNCHANGED vars
  BY <1>1, <1>9 DEF vars
<1> QED
  BY <1>3, <1>4, <1>5, <1>6, <1>7, <1>8, <1>9 DEF Next, Dispatch

\* Until its time is up, nothing expires for an undisturbed unlock: the one thread
\* that can fire is its own.
LEMMA FullDurationStep == IInv /\ [Next]_vars => FullDuration'
<1> SUFFICES ASSUME IInv, [Next]_vars,
                    undisturbed', state' = "UNLOCKED", timer' # NoTimer, left'[timer'] > 0
             PROVE  ~ExpiryUnderway(queue)'
  BY DEF FullDuration
<1> USE DEF controller, timers, pins
<1>1. TypeOK /\ FullDuration /\ TimerDiscipline
  BY DEF IInv
\* The old state's promise carries over when its threads do and no expiry is queued.
<1>2. ASSUME ~ExpiryUnderway(queue),
             \A t \in TimerThreads : thread'[t] = "firing" => thread[t] = "firing",
             ExpiryQueued(queue') => ExpiryQueued(queue)
      PROVE  ~ExpiryUnderway(queue)'
  BY <1>2 DEF ExpiryUnderway, ExpiryQueued
<1>3. ASSUME UNCHANGED <<undisturbed, state, timer>>, timer # NoTimer => left[timer] > 0
      PROVE  ~ExpiryUnderway(queue)
  BY <1>1, <1>3 DEF FullDuration
<1>4. ASSUME NEW e \in Posted, Post(e) PROVE ~ExpiryUnderway(queue)'
  <2>1. e \in Events /\ e # "UNLOCK_TIMER_EXPIRED"
    BY PostedAssumption DEF Requests, UnlockEvents, Events
  <2>2. ExpiryQueued(queue') => ExpiryQueued(queue)
    BY <1>1, <1>4, <2>1, AppendExpiry DEF TypeOK, Post
  <2> QED BY <1>2, <1>3, <1>4, <2>2 DEF Post
<1>5. ASSUME NEW e \in Events, Get(e), e # "UNLOCK_TIMER_EXPIRED"
      PROVE  ExpiryQueued(queue') => ExpiryQueued(queue)
  BY <1>1, <1>5, TailExpiry DEF TypeOK, Get
<1>6. CASE DispatchUnlock
  <2>1. PICK e \in UnlockEvents : Get(e)
    BY <1>6 DEF DispatchUnlock
  <2>2. PICK u \in TimerThreads : Unlock(u)
    BY <1>6 DEF DispatchUnlock
  <2>3. ~ExpiryUnderway(queue)
    BY <1>6 DEF DispatchUnlock
  <2>4. ASSUME NEW t \in TimerThreads, thread'[t] = "firing" PROVE thread[t] = "firing"
    BY <1>1, <2>2, <2>4, CancelType DEF Unlock, Cancelled
  <2>5. ExpiryQueued(queue') => ExpiryQueued(queue)
    BY <1>5, <2>1 DEF UnlockEvents, Requests, Events
  <2> QED BY <1>2, <2>3, <2>4, <2>5
<1>7. CASE DispatchUnlockFails
  BY <1>7 DEF DispatchUnlockFails
<1>8. CASE DispatchLock \/ DispatchExpired
  BY <1>8 DEF DispatchLock, DispatchExpired, Lock
<1>9. CASE DispatchSetPolarity \/ DispatchSetDuration \/ DispatchNoEffect
  <2>1. PICK e \in {"other", "set_lock_polarity", "set_unlock_duration"} : Get(e)
    BY <1>9 DEF DispatchSetPolarity, DispatchSetDuration, DispatchNoEffect
  <2>2. UNCHANGED <<undisturbed, state, timer, thread, left>>
    BY <1>9 DEF DispatchSetPolarity, DispatchSetDuration, SetDefaultDuration,
       DispatchNoEffect
  <2>3. ExpiryQueued(queue') => ExpiryQueued(queue)
    BY <1>5, <2>1 DEF Requests, Events
  <2> QED BY <1>2, <1>3, <2>2, <2>3
<1>10. CASE Tick
  <2>1. timer # NoTimer => left[timer] > 0
    BY <1>1, <1>10 DEF TypeOK, Tick
  <2> QED BY <1>2, <1>3, <1>10, <2>1 DEF Tick
<1>11. ASSUME NEW t \in TimerThreads, TimerFires(t) PROVE ~ExpiryUnderway(queue)'
  \* The thread that fires is self._timer's, and its time is up.
  BY <1>1, <1>11 DEF TimerDiscipline, TimerFires
<1>12. ASSUME NEW t \in TimerThreads, TimerPosts(t) \/ TimerDrops(t)
       PROVE  ~ExpiryUnderway(queue)'
  <2>1. ExpiryUnderway(queue)
    BY <1>12 DEF TimerPosts, TimerDrops, ExpiryUnderway
  <2> QED BY <1>3, <1>12, <2>1 DEF TimerPosts, TimerDrops
<1>13. CASE Start \/ Shutdown
  <2>1. UNCHANGED <<undisturbed, state, timer, thread, left, queue>>
    BY <1>13 DEF Start, Shutdown
  <2> QED BY <1>2, <1>3, <2>1
<1>14. CASE Cleanup \/ StopTimesOut \/ Crash \/ CrashAfterSave
  BY <1>14 DEF Cleanup, StopTimesOut, Crash, CrashAfterSave, ProcessEnds
<1>15. CASE UNCHANGED vars
  BY <1>2, <1>3, <1>15 DEF vars
<1> QED
  BY <1>4, <1>6, <1>7, <1>8, <1>9, <1>10, <1>11, <1>12, <1>13, <1>14, <1>15
  DEF Next, Dispatch

\* The inductive invariant is inductive.
LEMMA InvStep == IInv /\ [Next]_vars => IInv'
  BY TypeStep, NoProcessStep, HardwareStep, TimerStep, FullDurationStep DEF IInv

\* The inductive invariant holds in every reachable state.
LEMMA Invariance == Spec => []IInv
  BY InvInit, InvStep, PTL DEF Spec

\* While the service runs the relay and LED show the logical state under the
\* configured polarity, whatever was dispatched, changed, or cut short by a crash
\* (lock_controller.py:90-97 and 109-116, main.py:315-330).
THEOREM HardwareAlwaysMatches == Spec => []HardwareMatchesConfig
  BY Invariance, PTL DEF IInv

\* There is never a second countdown, nor one without an unlocked door
\* (the cancels of lock_controller.py:66-68 and 78-80).
THEOREM TimersAlwaysDisciplined == Spec => []TimerDiscipline
  BY Invariance, PTL DEF IInv

\* An unlock with no expiry underway when it is dispatched is never relocked by one
\* before its time (lock_controller.py:75-85, main.py:438-441).
THEOREM FullDurationAlways == Spec => []FullDuration
  BY Invariance, PTL DEF IInv

----------------------------------------------------------------------------
(* The automatic relock is lost in two ways only *)

\* A step that abandons an unlocked door is one of the two kinds of loss.
LEMMA LossStep ==
    ASSUME IInv, Next, ~Abandoned, Abandoned'
    PROVE  DispatchUnlockFails \/ \E t \in TimerThreads : TimerDrops(t)
<1> USE DEF controller, timers, pins
<1>1. TypeOK /\ NoProcess
  BY DEF IInv
<1>2. /\ phase' = "running"
      /\ state' = "UNLOCKED"
      /\ \A t \in TimerThreads : thread'[t] = "idle"
      /\ ~ExpiryQueued(queue')
  BY DEF Abandoned, ExpiryQueued
\* A step that keeps the threads and takes no expiry keeps the relock coming.
<1>3. ASSUME phase = "running", UNCHANGED <<state, thread>>,
             ExpiryQueued(queue) => ExpiryQueued(queue')
      PROVE  FALSE
  BY <1>2, <1>3 DEF Abandoned
<1>4. ASSUME NEW e \in Posted, Post(e) PROVE FALSE
  <2>1. e \in Events
    BY PostedAssumption DEF Events
  <2>2. ExpiryQueued(queue) => ExpiryQueued(queue')
    BY <1>1, <1>4, <2>1, AppendExpiry DEF TypeOK, Post
  <2> QED BY <1>2, <1>3, <1>4, <2>2 DEF Post
<1>5. CASE DispatchUnlock
  <2>1. PICK u \in TimerThreads : Unlock(u)
    BY <1>5 DEF DispatchUnlock
  <2>2. thread'[u] = "waiting"
    BY <1>1, <2>1, CancelType DEF Unlock
  <2> QED BY <1>2, <2>2
<1>6. CASE DispatchLock \/ DispatchExpired
  BY <1>2, <1>6 DEF DispatchLock, DispatchExpired, Lock
<1>7. CASE DispatchSetPolarity \/ DispatchSetDuration \/ DispatchNoEffect
  <2>1. PICK e \in {"other", "set_lock_polarity", "set_unlock_duration"} : Get(e)
    BY <1>7 DEF DispatchSetPolarity, DispatchSetDuration, DispatchNoEffect
  <2>2. UNCHANGED <<state, thread>>
    BY <1>7 DEF DispatchSetPolarity, DispatchSetDuration, SetDefaultDuration,
       DispatchNoEffect
  <2>3. ExpiryQueued(queue) => ExpiryQueued(queue')
    BY <1>1, <2>1, TailExpiry DEF TypeOK, Get
  <2> QED BY <1>3, <2>1, <2>2, <2>3 DEF Get
<1>8. CASE Tick
  BY <1>2, <1>3, <1>8 DEF Tick
<1>9. ASSUME NEW t \in TimerThreads, TimerFires(t) PROVE FALSE
  BY <1>1, <1>2, <1>9 DEF TypeOK, TimerFires
<1>10. ASSUME NEW t \in TimerThreads, TimerPosts(t) PROVE FALSE
  <2>1. ExpiryQueued(queue')
    BY <1>1, <1>10, AppendExpiry DEF TypeOK, TimerPosts, Events
  <2> QED BY <1>2, <2>1
<1>11. CASE Start
  BY <1>1, <1>2, <1>11 DEF NoProcess, Start
<1>12. CASE Shutdown \/ Cleanup \/ StopTimesOut \/ Crash \/ CrashAfterSave
  BY <1>2, <1>12 DEF Shutdown, Cleanup, StopTimesOut, Crash, CrashAfterSave
<1> QED
  BY <1>4, <1>5, <1>6, <1>7, <1>8, <1>9, <1>10, <1>11, <1>12 DEF Next, Dispatch

\* An unlocked door stops having an automatic relock on its way only when an expiry
\* meets a full queue or a timer thread cannot be started
\* (lock_controller.py:83-85 and 118-122).
THEOREM RelockLostOnlyByLoss == Spec => OnlyLossAbandons
<1>1. ASSUME IInv, [Next]_vars
      PROVE  [~Abandoned /\ Abandoned'
                => DispatchUnlockFails \/ \E t \in TimerThreads : TimerDrops(t)]_vars
  BY <1>1, LossStep
<1> QED BY <1>1, Invariance, PTL DEF Spec, OnlyLossAbandons

----------------------------------------------------------------------------
(* Only unlocks release the strike *)

\* The two levels of the relay differ, and neither is that of a pin cleaned up.
LEMMA LevelsDiffer ==
    ASSUME NEW low \in BOOLEAN
    PROVE  /\ RelayLevel("LOCKED", low) # RelayLevel("UNLOCKED", low)
           /\ RelayLevel("UNLOCKED", low) # "INPUT"
  BY DEF RelayLevel

\* In a running process the strike is released exactly while the state is UNLOCKED.
LEMMA ReleasedIsUnlocked ==
    ASSUME TypeOK, HardwareMatchesConfig, phase = "running"
    PROVE  Released <=> state = "UNLOCKED"
  BY LevelsDiffer DEF TypeOK, HardwareMatchesConfig, Released

\* A step that releases the strike takes an unlock request.
LEMMA ReleaseStep ==
    ASSUME IInv, Next, ~Released, Released'
    PROVE  UnlockStep
<1> USE DEF controller, timers, pins
<1>1. TypeOK /\ HardwareMatchesConfig /\ TypeOK' /\ HardwareMatchesConfig'
  BY InvStep DEF IInv
<1>2. ASSUME UNCHANGED <<relay, active_low>> PROVE FALSE
  BY <1>2 DEF Released
<1>3. ASSUME phase = "running", phase' = "running", state' = "LOCKED" \/ state' = state
      PROVE  FALSE
  <2>1. Released <=> state = "UNLOCKED"
    BY <1>1, <1>3, ReleasedIsUnlocked
  <2>2. Released' <=> state' = "UNLOCKED"
    BY <1>1, <1>3, LevelsDiffer DEF TypeOK, HardwareMatchesConfig, Released
  <2> QED BY <1>3, <2>1, <2>2
<1>4. CASE DispatchUnlock \/ DispatchUnlockFails
  BY <1>4 DEF DispatchUnlock, DispatchUnlockFails, UnlockStep
<1>5. CASE DispatchLock \/ DispatchExpired
  BY <1>3, <1>5 DEF DispatchLock, DispatchExpired, Get, Lock
<1>6. CASE DispatchSetPolarity
  BY <1>3, <1>6 DEF DispatchSetPolarity, Get
<1>7. CASE DispatchSetDuration \/ DispatchNoEffect
  BY <1>2, <1>7 DEF DispatchSetDuration, DispatchNoEffect
<1>8. CASE \/ \E e \in Posted : Post(e)
           \/ Tick
           \/ \E t \in TimerThreads : TimerFires(t) \/ TimerPosts(t) \/ TimerDrops(t)
  BY <1>2, <1>8 DEF Post, Tick, TimerFires, TimerPosts, TimerDrops
<1>9. CASE Start
  \* setup() drives the pins locked, under the polarity just loaded.
  <2>1. /\ relay' = RelayLevel("LOCKED", config.active_low)
        /\ active_low' = config.active_low
    BY <1>9 DEF Start, ApplyState
  <2>2. config.active_low \in BOOLEAN
    BY <1>1, ConfigFields DEF TypeOK
  <2> QED BY <2>1, <2>2, LevelsDiffer DEF Released
<1>10. CASE Cleanup
  BY <1>1, <1>10, LevelsDiffer DEF TypeOK, Cleanup, Released
<1>11. CASE Shutdown \/ StopTimesOut \/ Crash \/ CrashAfterSave
  BY <1>2, <1>11 DEF Shutdown, StopTimesOut, Crash, CrashAfterSave
<1> QED
  BY <1>4, <1>5, <1>6, <1>7, <1>8, <1>9, <1>10, <1>11 DEF Next, Dispatch

\* The strike is released by a granted tag, the button or the web's unlock and by
\* nothing else: not by a new polarity (lock_controller.py:109-116), by a crash once
\* it is saved (main.py:315-330), by a restart or by cleanup().
THEOREM OnlyUnlocksEverRelease == Spec => OnlyUnlocksRelease
<1>1. ASSUME IInv, [Next]_vars
      PROVE  [~Released /\ Released' => UnlockStep]_vars
  BY <1>1, ReleaseStep
<1> QED BY <1>1, Invariance, PTL DEF Spec, OnlyUnlocksRelease

=============================================================================
