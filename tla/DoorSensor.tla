----------------------------- MODULE DoorSensor -----------------------------
(***************************************************************************)
(* One door's reed switch: DoorSensor (door_sensor.py) and the handlers of *)
(* main.py that report it.  Three threads share the sensor:                *)
(*   - GPIO's callback thread runs _edge_callback, which samples and       *)
(*     interprets the pin before it takes _state_lock, and posts after it  *)
(*     has released it;                                                    *)
(*   - the alert thread looks for a door left open;                        *)
(*   - the main thread sets the sensor up, then dispatches the queue, and  *)
(*     re-derives the state under a new polarity for set_door_polarity.    *)
(***************************************************************************)
EXTENDS Integers, Sequences, SequencesExt

CONSTANTS
    QueueSize,      \* maxsize of the event queue
    Threshold       \* open_alert_threshold_seconds

ASSUME QueueSizeAssumption == QueueSize \in Nat \ {0}
ASSUME ThresholdAssumption == Threshold \in Nat \ {0}

Doors == {"OPEN", "CLOSED"}
\* DOOR_STATE events are named by the state they carry.
Events == Doors \cup {"DOOR_ALERT", "set_door_polarity", "other"}
NotOpen == -1       \* _door_open_since is None

VARIABLES
    level,          \* the pin's level, driven by the reed switch
    edge,           \* the kernel has an edge the callback thread has not taken
    active_low,     \* _active_low, equal to the config's between dispatches
    state,          \* _state
    open_for,       \* seconds since _door_open_since, capped at Threshold
    alert_sent,     \* _alert_sent
    callback,       \* "idle", "sampled", "interpreted", "stored"
    sample,         \* the callback's val
    reading,        \* the callback's new_state
    main,           \* "down", "set_up", "detecting", "posting", "loop"
    snapshot,       \* start()'s argument self._state, evaluated before the put
    queue,          \* the event queue
    reported,       \* the last state handed to publish_door_state
    alerts,         \* history: alerts posted since the state last became OPEN
    excuses         \* history: why state or report may be out of date

sensor   == <<active_low, state, open_for, alert_sent>>
edges    == <<level, edge>>
callbk   == <<callback, sample, reading>>
history  == <<alerts, excuses>>
vars == <<edges, sensor, callbk, main, snapshot, queue, reported, history>>

Excuses == {"missed",       \* an edge came before add_event_detect, or too soon
                            \* after the last one (bouncetime)
            "raced",        \* the polarity changed under a callback's reading
            "dropped",      \* a DOOR_STATE met a full queue
            "overtaken"}    \* a newer report was made before an older one

\* _read_state for a sampled level under a polarity.
Interpret(val, low) == IF (val = "LOW") = low THEN "OPEN" ELSE "CLOSED"

RoomUnchecked == TRUE
Room == Len(queue) < QueueSize

StoreNoTimer(s) ==
    /\ state' = s
    /\ open_for' = NotOpen
    /\ alert_sent' = FALSE
    /\ alerts' = 0
\* Storing a state that differs restarts the open timer and re-arms the alert.
Store(s) ==
    /\ state' = s
    /\ open_for' = IF s = "OPEN" THEN 0 ELSE NotOpen
    /\ alert_sent' = FALSE
    /\ alerts' = 0

StoreRearming(s) ==
    IF s # state THEN Store(s)
    ELSE alert_sent' = FALSE /\ UNCHANGED <<state, open_for, alerts>>
StoreIfChanged(s) ==
    IF s # state THEN Store(s) ELSE UNCHANGED <<state, open_for, alert_sent, alerts>>

----------------------------------------------------------------------------
(* The door *)

\* The door moves: an edge, once event detection is on.
DoorMoves ==
    /\ level' = IF level = "LOW" THEN "HIGH" ELSE "LOW"
    /\ edge' = (main \in {"detecting", "posting", "loop"})
    /\ excuses' = IF main = "set_up" THEN excuses \cup {"missed"} ELSE excuses
    /\ UNCHANGED <<sensor, callbk, main, snapshot, queue, reported, alerts>>

\* The GPIO library ignores an edge less than bouncetime after the last one.
EdgeIgnored ==
    /\ edge
    /\ callback = "idle"
    /\ edge' = FALSE
    /\ excuses' = excuses \cup {"missed"}
    /\ UNCHANGED <<level, sensor, callbk, main, snapshot, queue, reported, alerts>>

Tick ==
    /\ open_for \in 0..(Threshold - 1)
    /\ open_for' = open_for + 1
    /\ UNCHANGED <<edges, active_low, state, alert_sent, callbk, main, snapshot, queue,
                   reported, history>>

----------------------------------------------------------------------------
(* _edge_callback, on GPIO's callback thread *)

\* val = GPIO.input(self._pin)
CallbackSamples ==
    /\ edge
    /\ callback = "idle"
    /\ edge' = FALSE
    /\ callback' = "sampled"
    /\ sample' = level
    /\ excuses' = excuses \ {"missed", "raced"}
    /\ UNCHANGED <<level, sensor, reading, main, snapshot, queue, reported, alerts>>

\* if self._active_low: ... without _state_lock
CallbackInterprets ==
    /\ callback = "sampled"
    /\ callback' = "interpreted"
    /\ reading' = Interpret(sample, active_low)
    /\ UNCHANGED <<edges, sensor, sample, main, snapshot, queue, reported, history>>

\* with self._state_lock: unchanged means nothing to post
CallbackStores ==
    /\ callback = "interpreted"
    /\ StoreIfChanged(reading)
    /\ callback' = IF reading = state THEN "idle" ELSE "stored"
    /\ excuses' = IF reading = state THEN excuses ELSE excuses \ {"dropped", "overtaken"}
    /\ UNCHANGED <<edges, active_low, sample, reading, main, snapshot, queue, reported>>

CallbackPosts ==
    /\ callback = "stored"
    /\ callback' = "idle"
    /\ IF Room
       THEN queue' = Append(queue, reading) /\ UNCHANGED excuses
       ELSE excuses' = excuses \cup {"dropped"} /\ UNCHANGED queue
    /\ UNCHANGED <<edges, sensor, sample, reading, main, snapshot, reported, alerts>>

----------------------------------------------------------------------------
(* _alert_monitor_loop, with _state_lock held over the put *)

AlertMonitorChecks ==
    /\ main \in {"posting", "loop"}
    /\ state = "OPEN"
    /\ open_for = Threshold
    /\ ~alert_sent
    /\ alert_sent' = TRUE
    /\ IF Room
       THEN queue' = Append(queue, "DOOR_ALERT") /\ alerts' = alerts + 1
       ELSE UNCHANGED <<queue, alerts>>
    /\ UNCHANGED <<edges, active_low, state, open_for, callbk, main, snapshot, reported,
                   excuses>>

----------------------------------------------------------------------------
(* The main thread *)

\* __init__ and setup(): the pin is read, edges are not detected yet.
SetUp ==
    /\ main = "down"
    /\ main' = "set_up"
    /\ Store(Interpret(level, active_low))
    /\ excuses' = {}
    /\ UNCHANGED <<edges, active_low, callbk, snapshot, queue, reported>>

\* start(): add_event_detect, ...
StartDetecting ==
    /\ main = "set_up"
    /\ main' = "detecting"
    /\ UNCHANGED <<edges, sensor, callbk, snapshot, queue, reported, history>>

\* ... the alert thread, self._state read for the initial report without the lock, ...
ReadInitial ==
    /\ main = "detecting"
    /\ main' = "posting"
    /\ snapshot' = state
    /\ UNCHANGED <<edges, sensor, callbk, queue, reported, history>>

\* ... and put_nowait.  A callback may have posted a newer state in between.
PostInitial ==
    /\ main = "posting"
    /\ main' = "loop"
    /\ IF Room
       THEN /\ queue' = Append(queue, snapshot)
            /\ excuses' = IF callback # "stored" /\ snapshot # state
                          THEN excuses \cup {"overtaken"} ELSE excuses
       ELSE /\ UNCHANGED queue
            /\ excuses' = excuses \cup {"dropped"}
    /\ UNCHANGED <<edges, sensor, callbk, snapshot, reported, alerts>>

\* Another thread posts: an event of no concern here, or, once main() has started the
\* control socket, a polarity command.
Post(e) ==
    /\ main = "loop" \/ (e = "other" /\ main # "down")
    /\ Room
    /\ queue' = Append(queue, e)
    /\ UNCHANGED <<edges, sensor, callbk, main, snapshot, reported, history>>

Get ==
    /\ main = "loop"
    /\ queue # <<>>
    /\ queue' = Tail(queue)
    /\ UNCHANGED <<edges, callbk, main, snapshot>>

\* _handle_door_state publishes what the event carries.
DispatchDoorState ==
    /\ Get
    /\ Head(queue) \in Doors
    /\ reported' = Head(queue)
    /\ UNCHANGED <<sensor, history>>

\* _handle_door_alert, events of no concern, and set_door_polarity refused,
\* unchanged, or not saved.
DispatchNoEffect ==
    /\ Get
    /\ Head(queue) \notin Doors
    /\ UNCHANGED <<sensor, reported, history>>

SetActiveLowKeepingState(low) ==
    /\ active_low' = low
    /\ UNCHANGED <<state, open_for, alert_sent, alerts>>
\* set_active_low: re-derive the state from the live level, under _state_lock.
SetActiveLow(low) ==
    /\ active_low' = low
    /\ StoreIfChanged(Interpret(level, low))

DispatchSetPolarityUnreported ==
    /\ Get
    /\ Head(queue) = "set_door_polarity"
    /\ SetActiveLow(~active_low)
    /\ excuses' = IF callback = "interpreted" THEN {"raced"} ELSE {}
    /\ UNCHANGED reported
\* set_door_polarity with a new value and a successful save: the resulting state is
\* published at once, ahead of any DOOR_STATE still queued or about to be.
DispatchSetPolarity ==
    /\ Get
    /\ Head(queue) = "set_door_polarity"
    /\ SetActiveLow(~active_low)
    /\ reported' = state'
    /\ excuses' =
         (IF callback = "interpreted" THEN {"raced"} ELSE {})
         \cup (IF callback = "stored" \/ \E i \in 2..Len(queue) : queue[i] \in Doors
               THEN {"overtaken"} ELSE {})

Dispatch == DispatchDoorState \/ DispatchNoEffect \/ DispatchSetPolarity

\* The process ends, by a signal or a crash, and everything in it; the topic keeps
\* the last report.
ProcessEnds ==
    /\ main # "down"
    /\ main' = "down"
    /\ edge' = FALSE
    /\ callback' = "idle"
    /\ state' = "UNKNOWN"
    /\ open_for' = NotOpen
    /\ alert_sent' = FALSE
    /\ queue' = <<>>
    /\ alerts' = 0
    /\ excuses' = {}
    /\ UNCHANGED <<level, active_low, sample, reading, snapshot, reported>>

----------------------------------------------------------------------------
Init ==
    /\ level \in {"LOW", "HIGH"}
    /\ edge = FALSE
    /\ active_low \in BOOLEAN
    /\ state = "UNKNOWN"
    /\ open_for = NotOpen
    /\ alert_sent = FALSE
    /\ callback = "idle"
    /\ sample = "LOW"
    /\ reading = "CLOSED"
    /\ main = "down"
    /\ snapshot = "CLOSED"
    /\ queue = <<>>
    /\ reported \in Doors
    /\ alerts = 0
    /\ excuses = {}

Callback == CallbackSamples \/ CallbackInterprets \/ CallbackStores \/ CallbackPosts
Startup == SetUp \/ StartDetecting \/ ReadInitial \/ PostInitial

Next ==
    \/ DoorMoves \/ EdgeIgnored \/ Tick
    \/ Callback
    \/ AlertMonitorChecks
    \/ Startup
    \/ \E e \in {"set_door_polarity", "other"} : Post(e)
    \/ Dispatch
    \/ ProcessEnds

Spec == Init /\ [][Next]_vars

\* Each thread keeps running while it has something to do, and time passes.  The door,
\* the operator and the failures owe nothing.
FairSpec ==
    /\ Spec
    /\ WF_vars(Callback)
    /\ WF_vars(AlertMonitorChecks)
    /\ WF_vars(Tick)
    /\ WF_vars(StartDetecting \/ ReadInitial \/ PostInitial)
    /\ WF_vars(Dispatch)

----------------------------------------------------------------------------
(* Properties *)

\* Every variable keeps its type, and the queue its bound.
TypeOK ==
    /\ level \in {"LOW", "HIGH"}
    /\ edge \in BOOLEAN
    /\ active_low \in BOOLEAN
    /\ state \in Doors \cup {"UNKNOWN"}
    /\ open_for \in 0..Threshold \cup {NotOpen}
    /\ alert_sent \in BOOLEAN
    /\ callback \in {"idle", "sampled", "interpreted", "stored"}
    /\ sample \in {"LOW", "HIGH"}
    /\ reading \in Doors
    /\ main \in {"down", "set_up", "detecting", "posting", "loop"}
    /\ snapshot \in Doors
    /\ queue \in Seq(Events)
    /\ Len(queue) <= QueueSize
    /\ reported \in Doors
    /\ alerts \in Nat
    /\ excuses \subseteq Excuses

Settled == main # "down" /\ callback = "idle" /\ ~edge

\* With no edge waiting and no callback under way, the state is the pin's level under
\* the polarity in force, unless an edge was missed or the polarity changed while a
\* callback held a reading: nothing else leaves a stale OPEN or CLOSED behind.
StateFollowsLevel ==
    /\ Settled
    /\ excuses \cap {"missed", "raced"} = {}
    => state = Interpret(level, active_low)

\* What Home Assistant will have been told last, once the callback under way has posted
\* and the queue is worked off.
LastReport ==
    LET i == SelectLastInSeq(queue, LAMBDA e : e \in Doors)
    IN  IF callback = "stored" THEN reading
        ELSE IF i # 0 THEN queue[i]
        ELSE reported

\* The last state reported is the sensor's, in whatever order edges, the initial report
\* and polarity changes come, unless a report was dropped by a full queue or overtaken
\* by a newer one.
ReportFollowsState ==
    /\ main = "loop"
    /\ excuses \cap {"dropped", "overtaken"} = {}
    => LastReport = state

\* Between two changes of the state to OPEN at most one alert is posted, and only once
\* the threshold has passed since the last of them.
AlertDiscipline ==
    /\ alerts <= 1
    /\ alerts = 1 => alert_sent /\ state = "OPEN" /\ open_for = Threshold

\* A door that stays open is alerted (README.md:497), unless the process ends; the
\* alert of a full queue counts as made: it is not tried again.
LongOpenIsAlerted ==
    (state = "OPEN") ~> (alert_sent \/ state # "OPEN")

=============================================================================
