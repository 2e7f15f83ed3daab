--------------------------- MODULE LockController ---------------------------
(***************************************************************************)
(* The lock of door_access: LockController (lock_controller.py), the       *)
(* threading.Timer it starts for every unlock, the bounded event queue and *)
(* the handlers of main.py that drive it, the process's start, shutdown    *)
(* and crash.                                                              *)
(*                                                                         *)
(* Every caller of lock(), unlock() and set_active_low() runs on the main  *)
(* thread, so a dispatched event is one step.  The timers are threads of   *)
(* their own: a cancelled Timer that is already past its `finished` check  *)
(* still calls its callback, and the callback only posts an event, which   *)
(* the main thread sees after everything queued before it.                 *)
(***************************************************************************)
EXTENDS Integers, Sequences, SequencesExt

CONSTANTS
    QueueSize,      \* maxsize of the event queue
    TimerThreads,   \* the Timer objects that can exist at once
    NoTimer,        \* self._timer is None
    Durations,      \* the durations set_unlock_duration is called with
    Posted          \* the requests the environment makes in this instance

\* Requests other threads put on the event queue.  "NFC_UID" is a scan that
\* _handle_nfc grants; "other" is every event that leaves the lock alone
\* (denied scans, door states and alerts, the other web commands).
UnlockEvents == {"NFC_UID", "BUTTON_PRESS", "unlock"}
Requests == UnlockEvents
            \cup {"lock", "set_lock_polarity", "set_unlock_duration", "other"}
Events == Requests \cup {"UNLOCK_TIMER_EXPIRED"}

ASSUME QueueSizeAssumption == QueueSize \in Nat \ {0}
ASSUME DurationsAssumption == Durations # {} /\ Durations \subseteq Nat \ {0}
ASSUME TimerAssumption     == NoTimer \notin TimerThreads
ASSUME PostedAssumption    == Posted \subseteq Requests

VARIABLES
    phase,              \* "running", "stopping" (main()'s finally), "crashed", "stopped"
    config,             \* config["lock"], in memory and on disk
    active_low,         \* LockController._active_low
    default_duration,   \* LockController._default_duration
    state,              \* LockController._state
    timer,              \* LockController._timer
    thread,             \* "idle", "waiting" in finished.wait(), "firing" past the check
    left,               \* seconds until a waiting thread's wait() times out
    relay, led,         \* the GPIO output levels, "INPUT" once cleaned up
    queue,              \* the event queue
    undisturbed         \* history: no expiry was on its way at the last unlock

controller == <<config, active_low, default_duration>>
timers     == <<timer, thread, left>>
pins       == <<relay, led>>
vars == <<phase, controller, state, timers, pins, queue, undisturbed>>

Configs == [active_low : BOOLEAN, duration : Durations]

----------------------------------------------------------------------------
(* Outputs *)

\* _apply_state: the relay level for a logical state under a polarity.
RelayLevel(s, low) == IF (s = "UNLOCKED") = low THEN "LOW" ELSE "HIGH"
LedLevel(s) == IF s = "UNLOCKED" THEN "HIGH" ELSE "LOW"

ApplyState(s, low) ==
    /\ relay' = RelayLevel(s, low)
    /\ led' = LedLevel(s)

(* Timer threads *)

\* self._timer.cancel(): a thread still waiting ends without its callback, one
\* past the check does not notice.
NotCancelled == thread
Cancelled ==
    [t \in TimerThreads |->
        IF t = timer /\ thread[t] = "waiting" THEN "idle" ELSE thread[t]]
LeftAfterCancel ==
    [t \in TimerThreads |-> IF Cancelled[t] = "waiting" THEN left[t] ELSE 0]

NoThreads ==
    /\ timer' = NoTimer
    /\ thread' = [t \in TimerThreads |-> "idle"]
    /\ left' = [t \in TimerThreads |-> 0]

ExpiryQueued(q) == Contains(q, "UNLOCK_TIMER_EXPIRED")
ExpiryUnderway(q) == ExpiryQueued(q) \/ \E t \in TimerThreads : thread[t] = "firing"

----------------------------------------------------------------------------
(* LockController's operations, as the main thread calls them *)

LockKeepingTimer ==
    /\ timer' = NoTimer
    /\ UNCHANGED <<thread, left>>
    /\ state' = "LOCKED"
    /\ ApplyState("LOCKED", active_low)
Lock ==
    /\ timer' = NoTimer
    /\ thread' = Cancelled
    /\ left' = LeftAfterCancel
    /\ state' = "LOCKED"
    /\ ApplyState("LOCKED", active_low)

\* unlock() with Timer.start() succeeding on thread t.
Unlock(t) ==
    /\ thread[t] = "idle"
    /\ timer' = t
    /\ thread' = [Cancelled EXCEPT ![t] = "waiting"]
    /\ left' = [LeftAfterCancel EXCEPT ![t] = default_duration]
    /\ state' = "UNLOCKED"
    /\ ApplyState("UNLOCKED", active_low)

\* unlock() with Timer.start() raising RuntimeError ("can't start new thread"):
\* the door is already released, and run_event_loop logs the exception.
UnlockStartFails(t) ==
    /\ thread[t] = "idle"
    /\ timer' = t
    /\ thread' = Cancelled
    /\ left' = LeftAfterCancel
    /\ state' = "UNLOCKED"
    /\ ApplyState("UNLOCKED", active_low)

SetActiveLowOnly(low) ==
    /\ active_low' = low
    /\ UNCHANGED pins
SetActiveLow(low) ==
    /\ active_low' = low
    /\ ApplyState(state, low)

SetDefaultDurationRestarting(d) ==
    /\ default_duration' = d
    /\ thread' = Cancelled
    /\ left' = LeftAfterCancel
    /\ UNCHANGED timer
SetDefaultDuration(d) ==
    /\ default_duration' = d
    /\ UNCHANGED timers

----------------------------------------------------------------------------
(* The event queue *)

RoomUnchecked == TRUE
Room == Len(queue) < QueueSize

\* put_nowait by the reader thread, the button's callback, the door sensors and
\* the control socket, until GPIO.cleanup() and the end of the process.  With the
\* queue full the request is dropped: nothing changes.
Post(e) ==
    /\ phase \in {"running", "stopping"}
    /\ Room
    /\ queue' = Append(queue, e)
    /\ UNCHANGED <<phase, controller, state, timers, pins, undisturbed>>

----------------------------------------------------------------------------
(* dispatch_event, on the main thread *)

\* run_event_loop takes an event of kind e from the queue.
Get(e) ==
    /\ phase = "running"
    /\ queue # <<>>
    /\ Head(queue) = e
    /\ queue' = Tail(queue)
    /\ UNCHANGED phase

DispatchUnlock ==
    /\ \E e \in UnlockEvents : Get(e)
    /\ \E t \in TimerThreads : Unlock(t)
    /\ undisturbed' = ~ExpiryUnderway(queue)
    /\ UNCHANGED controller

DispatchUnlockFails ==
    /\ \E e \in UnlockEvents : Get(e)
    /\ \E t \in TimerThreads : UnlockStartFails(t)
    /\ undisturbed' = FALSE
    /\ UNCHANGED controller

DispatchLock ==
    /\ Get("lock")
    /\ Lock
    /\ UNCHANGED <<controller, undisturbed>>

\* UNLOCK_TIMER_EXPIRED: lock(), whichever unlock the timer belonged to.
DispatchExpired ==
    /\ Get("UNLOCK_TIMER_EXPIRED")
    /\ Lock
    /\ UNCHANGED <<controller, undisturbed>>

\* set_lock_polarity with a value that differs from the current one and a
\* successful save; without either the command changes nothing (DispatchNoEffect).
DispatchSetPolarity ==
    /\ Get("set_lock_polarity")
    /\ config' = [config EXCEPT !.active_low = ~config.active_low]
    /\ SetActiveLow(~config.active_low)
    /\ UNCHANGED <<default_duration, state, timers, undisturbed>>

DispatchSetDuration ==
    /\ Get("set_unlock_duration")
    /\ \E d \in Durations :
        /\ config' = [config EXCEPT !.duration = d]
        /\ SetDefaultDuration(d)
    /\ UNCHANGED <<active_low, state, pins, undisturbed>>

\* An event that leaves the lock alone, a setting refused, or one whose save
\* failed and was rolled back.
DispatchNoEffect ==
    /\ \E e \in {"other", "set_lock_polarity", "set_unlock_duration"} : Get(e)
    /\ UNCHANGED <<controller, state, timers, pins, undisturbed>>

Dispatch ==
    \/ DispatchUnlock \/ DispatchUnlockFails
    \/ DispatchLock   \/ DispatchExpired
    \/ DispatchSetPolarity \/ DispatchSetDuration \/ DispatchNoEffect

----------------------------------------------------------------------------
(* Timer threads *)

\* One second passes.  A thread whose wait() has timed out may be scheduled any
\* time later, so time does not stop for it.
Tick ==
    /\ \E t \in TimerThreads : left[t] > 0
    /\ left' = [t \in TimerThreads |-> IF left[t] > 0 THEN left[t] - 1 ELSE 0]
    /\ UNCHANGED <<phase, controller, state, timer, thread, pins, queue, undisturbed>>

\* wait() timed out and finished is not set: from here cancel() comes too late.
TimerFires(t) ==
    /\ thread[t] = "waiting"
    /\ left[t] = 0
    /\ thread' = [thread EXCEPT ![t] = "firing"]
    /\ UNCHANGED <<phase, controller, state, timer, left, pins, queue, undisturbed>>

\* _timer_callback, with room on the queue ...
TimerPosts(t) ==
    /\ thread[t] = "firing"
    /\ Room
    /\ thread' = [thread EXCEPT ![t] = "idle"]
    /\ queue' = Append(queue, "UNLOCK_TIMER_EXPIRED")
    /\ UNCHANGED <<phase, controller, state, timer, left, pins, undisturbed>>

\* ... and with the queue full: the expiry is logged and dropped.
TimerDrops(t) ==
    /\ thread[t] = "firing"
    /\ ~Room
    /\ thread' = [thread EXCEPT ![t] = "idle"]
    /\ UNCHANGED <<phase, controller, state, timer, left, pins, queue, undisturbed>>

----------------------------------------------------------------------------
(* The process *)

\* What ends with the process: its threads, its queue, its objects.
ProcessEnds ==
    /\ NoThreads
    /\ queue' = <<>>
    /\ state' = "LOCKED"
    /\ undisturbed' = FALSE

StartLeavingPins ==
    /\ phase \in {"crashed", "stopped"}
    /\ phase' = "running"
    /\ active_low' = config.active_low
    /\ default_duration' = config.duration
    /\ relay' = IF relay = "INPUT" THEN RelayLevel("LOCKED", config.active_low) ELSE relay
    /\ led' = LedLevel("LOCKED")
    /\ UNCHANGED <<config, state, timers, queue, undisturbed>>

\* main() up to run_event_loop: load_config, __init__, setup().
Start ==
    /\ phase \in {"crashed", "stopped"}
    /\ phase' = "running"
    /\ active_low' = config.active_low
    /\ default_duration' = config.duration
    /\ ApplyState("LOCKED", config.active_low)
    /\ UNCHANGED <<config, state, timers, queue, undisturbed>>

\* SIGTERM or SIGINT: the loop ends before its next event.
Shutdown ==
    /\ phase = "running"
    /\ phase' = "stopping"
    /\ UNCHANGED <<controller, state, timers, pins, queue, undisturbed>>

\* cleanup() at the end of main(): the queue is not drained.
Cleanup ==
    /\ phase = "stopping"
    /\ phase' = "stopped"
    /\ relay' = "INPUT"
    /\ led' = "INPUT"
    /\ ProcessEnds
    /\ UNCHANGED controller

\* TimeoutStopSec runs out before cleanup() (the joins may take 3 + 5 + 3 s a
\* door): SIGKILL.  The pins keep their levels and systemd starts nothing.
StopTimesOut ==
    /\ phase = "stopping"
    /\ phase' = "stopped"
    /\ ProcessEnds
    /\ UNCHANGED <<controller, pins>>

\* The process dies.  The pins keep their levels; systemd restarts it.
Crash ==
    /\ phase = "running"
    /\ phase' = "crashed"
    /\ ProcessEnds
    /\ UNCHANGED <<controller, pins>>

\* The process dies after set_lock_polarity or set_unlock_duration has saved the
\* config and before the controller is told.
CrashAfterSave ==
    /\ phase = "running"
    /\ queue # <<>>
    /\ \/ /\ Head(queue) = "set_lock_polarity"
          /\ config' = [config EXCEPT !.active_low = ~config.active_low]
       \/ /\ Head(queue) = "set_unlock_duration"
          /\ \E d \in Durations : config' = [config EXCEPT !.duration = d]
    /\ phase' = "crashed"
    /\ ProcessEnds
    /\ UNCHANGED <<active_low, default_duration, pins>>

----------------------------------------------------------------------------
Init ==
    /\ phase = "stopped"
    /\ config \in Configs
    /\ active_low = config.active_low
    /\ default_duration = config.duration
    /\ state = "LOCKED"
    /\ timer = NoTimer
    /\ thread = [t \in TimerThreads |-> "idle"]
    /\ left = [t \in TimerThreads |-> 0]
    /\ relay = "INPUT"
    /\ led = "INPUT"
    /\ queue = <<>>
    /\ undisturbed = FALSE

Next ==
    \/ \E e \in Posted : Post(e)
    \/ Dispatch
    \/ Tick
    \/ \E t \in TimerThreads : TimerFires(t) \/ TimerPosts(t) \/ TimerDrops(t)
    \/ Start \/ Shutdown \/ Cleanup \/ StopTimesOut \/ Crash \/ CrashAfterSave

Spec == Init /\ [][Next]_vars

\* The main loop keeps taking events, time passes, a thread that can run does,
\* systemd restarts a crashed service (Restart=on-failure) and a stopping one ends.
\* Nothing makes anybody press a button, stop the service or start it after a stop.
Fairness ==
    /\ WF_vars(Dispatch)
    /\ WF_vars(Tick)
    /\ \A t \in TimerThreads :
        WF_vars(TimerFires(t)) /\ WF_vars(TimerPosts(t) \/ TimerDrops(t))
    /\ WF_vars(phase = "crashed" /\ Start)
    /\ WF_vars(Cleanup \/ StopTimesOut)

FairSpec == Spec /\ Fairness

----------------------------------------------------------------------------
(* Properties *)

\* Every variable keeps its type; the queue never exceeds maxsize.
TypeOK ==
    /\ phase \in {"running", "stopping", "crashed", "stopped"}
    /\ config \in Configs
    /\ active_low \in BOOLEAN
    /\ default_duration \in Durations
    /\ state \in {"LOCKED", "UNLOCKED"}
    /\ timer \in TimerThreads \cup {NoTimer}
    /\ thread \in [TimerThreads -> {"idle", "waiting", "firing"}]
    /\ left \in [TimerThreads -> Nat]
    /\ relay \in {"LOW", "HIGH", "INPUT"}
    /\ led \in {"LOW", "HIGH", "INPUT"}
    /\ queue \in Seq(Events)
    /\ Len(queue) <= QueueSize
    /\ undisturbed \in BOOLEAN

\* While the service runs, the relay and the LED show the lock's logical state
\* under the polarity that is in the config, also after a polarity change in the
\* middle of an unlock, a crash between saving and applying it, and a restart
\* (set_active_low re-applies the current state, setup() comes up locked).
HardwareMatchesConfig ==
    phase = "running" =>
        /\ active_low = config.active_low
        /\ default_duration = config.duration
        /\ relay = RelayLevel(state, config.active_low)
        /\ led = LedLevel(state)

\* At most one Timer is counting down, it is the one self._timer names, and only
\* while the door is unlocked: no earlier unlock's timer runs on behind a later
\* unlock or a lock.
TimerDiscipline ==
    \A t \in TimerThreads :
        thread[t] = "waiting" => t = timer /\ state = "UNLOCKED"

\* An unlock that was dispatched with no expiry queued and no timer past its check
\* has none on its way until its own time is up: it is not relocked early
\* (README.md:189, "Seconds the lock stays released").
FullDuration ==
    /\ undisturbed
    /\ state = "UNLOCKED"
    /\ timer # NoTimer
    /\ left[timer] > 0
    => ~ExpiryUnderway(queue)

\* The door is unlocked and nothing will relock it by itself: no timer counts
\* down or is about to post, no expiry is queued.
Abandoned ==
    /\ phase = "running"
    /\ state = "UNLOCKED"
    /\ \A t \in TimerThreads : thread[t] = "idle"
    /\ ~ExpiryQueued(queue)

\* The door loses its automatic relock in two ways only: the expiry finds the
\* queue full, or the timer thread cannot be started.  No other order of unlocks,
\* locks, settings, ticks and callbacks does it.
OnlyLossAbandons ==
    [][~Abandoned /\ Abandoned'
        => DispatchUnlockFails \/ \E t \in TimerThreads : TimerDrops(t)]_vars

\* The strike is released under the polarity the pins were last driven with.
Released == relay = RelayLevel("UNLOCKED", active_low)

UnlockStep == \E e \in UnlockEvents : Get(e)

\* Only an unlock request ever releases the strike: no relock, no change of
\* polarity or duration, no crash, also between the save of a polarity and its
\* application, no restart and no stop lets the door go (set_active_low re-applies
\* the current state, setup() comes up locked under the polarity it has loaded).
OnlyUnlocksRelease ==
    [][~Released /\ Released' => UnlockStep]_vars

\* Once unlock requests cease, a released strike engages again, whatever else is
\* queued and through any crash: by the timer, a lock command, cleanup or the
\* restart that systemd makes.  The exceptions are the ones Abandoned names and
\* a stop that systemd had to cut short: nothing locks the door after that.  Between
\* a crash and the restart the strike stays released too, and README.md:62 says that
\* neither happens; what the property says of a crash is that the restart ends it.
StrikeEngagesAgain ==
    <>[][~UnlockStep]_vars
        => (Released ~> ~Released \/ Abandoned \/ phase = "stopped")

\* The automatic relock never takes place while the current unlock still has time
\* left.  README.md:189 says so of every unlock; see FullDuration for what holds.
NoEarlyRelock ==
    [][DispatchExpired /\ timer # NoTimer => left[timer] = 0]_vars

=============================================================================
