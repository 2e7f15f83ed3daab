# Verification of the door access controller

TLA+ models of the program in this repository: a Raspberry Pi service
(`door_access`) that drives an electromagnetic door lock from an NFC reader, an
exit button, timers and a web admin; the web admin (`door_admin`) itself; and the
scripts that install and update both. The modules are model-checked with TLC on
small instances, and every safety property that is checked there is also proved with
TLAPS for every value of the constants (section 5).

Source paths below are relative to the repository.

## 1. The system

### 1.1 Processes and threads

```
  browser (nfc.js, updates.js)
     | HTTP
  door_admin: gunicorn, 1 worker, 4 threads (web_admin.py)
     | Unix socket                       | systemctl start --no-block
  door_access, one process:              door_update[_check].service: update.sh
     control-socket thread                  -> git, install.sh, systemctl restart
     NFC reader thread
     GPIO callback threads (button, doors)
     one alert thread per door
     one threading.Timer per unlock
          \  put_nowait
           v
     event_queue = Queue(maxsize=100)   -> main thread: run_event_loop, dispatch_event
                                            -> LockController, DoorSensor, config,
                                               EventStore (SQLite, read by door_admin),
                                               MQTTHandler -> paho thread -> broker
```

Every thread but the main one only *posts* (paho's, which posts nothing, sets
`_connected` and publishes); the main thread takes one event at a
time and runs its handler to the end. So the questions worth asking are not about
two handlers interleaving, but about what is stale by the time its event is
dispatched, what is read outside a lock, what is lost by a full queue, what
survives a crash between two steps of one handler, and what the three parties of
a request (browser, web admin, service) may conclude when one of them stops
waiting.

### 1.2 Components

| Component | State | Operations | Modelled by |
|---|---|---|---|
| Lock (`lock_controller.py`, its handlers in `main.py`) | `_state`, `_timer`, `_active_low`, `_default_duration`, relay and LED pins | `setup`, `lock`, `unlock`, timer callback, `set_active_low`, `set_default_duration`, `cleanup` | `LockController` |
| Door sensor (`door_sensor.py`) | `_state`, `_door_open_since`, `_alert_sent`, `_active_low`, under `_state_lock` | `setup`, `start`, edge callback, alert monitor, `set_active_low`, `stop` | `DoorSensor` |
| Configuration (`main.py`: `save_config`, `_persist`, `add_tag`, `remove_tag`, `rename_tag`, `_capture_tag`, the settings) | the dict, `config.json`, its temporary file | the commands, each with its rollback | `ConfigStore`, `AtomicChange` |
| Config migration (`install.sh: migrate_config`) | `config.json` | read, add missing keys, write in place | `ConfigMigration` |
| Enrollment (`main.py`, `static/nfc.js`, two routes of `web_admin.py`) | `runtime["enroll_*"]`; the page's `timer` | arm, capture, expire, cancel, poll | `Enrollment` |
| Control socket (`control_socket.py`) | backlog, reply queues | serve, call, timeouts on both sides, stop | `ControlSocket`, `CommandLog` |
| Updater (`update.sh`, its units, the Updates page's status) | checkout, installed files, service, `update-status.json` | check, apply, rollback | `Updater` |
| NFC reader (`nfc_reader.py`, `_handle_nfc`) | `_last_uid`, `_last_uid_time`, the card's connection | read, LED, debounce, post, poll until the card leaves | `NfcReader` |
| MQTT (`mqtt_handler.py`) | `_connected`, paho's messages, the broker's retained topics | connect, publish, `_on_connect`, `_on_disconnect`, disconnect | `MqttHandler` |
| Event history (`event_store.py`, the History page) | the connection and its open transaction, the SQLite file | setup, log, prune, close; count, recent | `EventStore` |
| Login (`web_admin.py: LoginThrottle, login`) | `_failures` | `locked_for`, PAM, `record_failure`, `reset` | `LoginThrottle` |
| Main loop and process (`main.py: run_event_loop, dispatch_event, main`) | event queue, `shutdown_event` | start, dispatch, shutdown | the part each module needs; no composition |
| The rest of the web admin (`web_admin.py`) | sessions (signed cookies) | pages, API | only through what its calls do |

Every part is listed with its status in `PROJECT.json`, those left out as well.

### 1.3 What makes each of them correct

* **Lock.** The relay shows the lock's state under the saved polarity. One timer
  at most counts down, the right one. A door that was unlocked locks again by
  itself, not before its time and not never.
* **Door sensor.** The state is the pin's under the polarity in force; what was
  reported last is the state; a door left open is alerted once.
* **Configuration.** Memory and disk agree between commands, the file is whole at
  every instant, a command is atomic towards its caller.
* **Enrollment.** One arm captures one scan at most; the operator gets to see what
  became of it; an arm does not stay; a page does not wait forever.
* **Control socket.** What a caller is told is true, commands are carried out in the
  order the operators gave them, and a main thread that hangs does not hang the
  socket.
* **Updater.** The files installed are those of the checkout, a release that does not
  come up is undone, the page stops waiting.
* **NFC reader.** A card that is held to the reader is handled, also the second time;
  the LED says what will happen.
* **MQTT.** Home Assistant is shown the state the door is in, a dead service as
  offline and a live one as online.
* **Event history.** What was recorded is there until its retention is over; paging through it skips nothing.
* **Login.** Threads that ask PAM at once exceed the limit by no more than their
  number, and a lockout ends.

### 1.4 What is hard here

`PROJECT.json` lists the hazards line by line. In short:

* *late cancellation*: `Timer.cancel()` comes too late for a timer past its
  `finished` check, and the expiry it posts does not say which unlock it is from;
* *a read outside the lock*: `_edge_callback` interprets the pin before it takes
  `_state_lock`;
* *ordering*: `set_door_polarity` publishes directly, past events still queued;
* *full queue*: expiries, door states and alerts are dropped with a log line;
* *partial failure*: each configuration command edits the dict before it saves;
* *requests nobody waits for any more*: commands whose caller or server timed out
  are carried out all the same, and an answer can take the only copy of an
  outcome with it;
* *two writers*: the installer rewrites `config.json` under a running service,
  the two update units share one status file;
* *rollback that fails itself*;
* *decided at one time, shown at another*: the LED is chosen when the card is read,
  the outcome when the event is dispatched; a history page is counted and read in
  two queries;
* *nothing is published while offline*, and nothing is published again on connect:
  the retained topics keep what they last got;
* *a will, an "online" and an "offline"* that pass each other;
* *a transaction that stays open* after a commit has failed;
* *check, then act*: `locked_for` is asked before PAM, the failure counted after it.

## 2. The modules

Names are those of the source where TLA+ allows it. A line or two of TLA+ stands
for a handler with all it calls; logging is left out, and so are, outside
`EventStore` and `MqttHandler`, what handlers send to the history and to MQTT. `PROJECT.json` `map` gives the lines of each
definition.

### LockController

State: `config` (the two entries of `config["lock"]` that change), the
controller's fields, one `thread`/`left` pair per `Timer` object, the two pins,
the queue. `undisturbed` is a history variable, read by `FullDuration` alone.

* `Post` is any other thread's `put_nowait`. `DispatchUnlock`, `DispatchLock`,
  `DispatchExpired`, `DispatchSetPolarity`, `DispatchSetDuration`,
  `DispatchNoEffect` are `dispatch_event`, one step each: every method of the
  controller is called by the main thread, none by a timer thread.
  `DispatchUnlockFails` is `unlock()` with `Timer.start()` raising.
* A timer thread is `waiting` until `wait()` times out, then `firing` (no cancel
  reaches it), then posts (`TimerPosts`) or finds the queue full (`TimerDrops`).
  `Tick` does not wait for threads that are due: they may be scheduled late.
* `Start`, `Shutdown`, `Cleanup`, `StopTimesOut` (SIGKILL after `TimeoutStopSec`,
  pins as they were), `Crash`, `CrashAfterSave` (between the save and
  `set_active_low`) are the process. The pins keep their level through a
  crash, the worse of what the kernel may do with them (see Known exceptions).

### DoorSensor

The callback is four steps (sample, interpret, store, post), because other threads
get in between them; the alert check and `set_active_low` run under the lock and
are one step each; `setup`, `start` and its initial report are separate steps of
the main thread. `excuses` is a history of the only things that may make state or
report stale: an edge missed (before `add_event_detect` or within `bouncetime`), a
polarity change under a callback's reading, a report dropped by a full queue, a
report overtaken by a newer one. The invariants say: without one of these nothing
is stale.

### AtomicChange, ConfigStore, ConfigMigration

`AtomicChange` is the abstract promise: a change takes effect in one step or not
at all, `ok` only after it, `error` only without it; a service that goes down
answers nothing; a power loss gives back something that was stored.

`ConfigStore` follows `save_config` call by call (open, write, fsync, chmod,
`os.replace`), each of which can fail, with a process crash or a power loss between
any two. `durable` is the set of contents the path may have after a power
loss: the directory is not fsynced, so the old file may come back. It implements
`AtomicChange` with `value <- file`, `recoverable <- durable`, `wanted` the pending
dict and `answer` "applied" from `os.replace` on.

`ConfigMigration` extends it with the installer's read and in-place write. A power loss
ends the installer too; a service that finds a truncated file does not start
(`StartWhole`). `overlapped` is a history variable: the last save replaced the file
between the migration's read and its truncation.

### Enrollment

The main loop (the expiry check before each get, then the dispatch), the
capture, the queue, and the page's script with up to two fetches at once. A reply
can be dropped on its way, come late, or be given up on by the web admin while the
request is still queued (`NoCall`); a service that goes down fails them all.
`leaked` is an interval that the script's `timer` no longer names (a second arm
answered before the first was cleared). Outcomes carry the number of their arm,
which the code's do not: only properties look at it. `drops` tells a dropped call from a
delivered one that changed nothing, for the hypothesis of `PageSettles`.

### CommandLog, ControlSocket

Three parties: callers (at most `MaxCalls` calls), the server thread, the main
thread. A caller's timeout leaves its connection in the backlog; the server's
leaves the request on the queue; shutdown leaves both. `executed` and `before` are
histories. Events of other kinds take part as `NoCall` entries on the queue.

`CommandLog` is what that amounts to for a caller: commands are given in an order, each
takes effect once or not at all, in that order, and an answer says no more about its
command than is so. A command that was taken in is lost by `TurnAway`, which needs a
queue without room, or by `GoDown`, which needs the service to stop or end, and by
nothing else: a server that took a request back when it stops waiting for the reply
would not implement it (that is the mutant). `ControlSocket` does, with
`log <- executed`, `pending` the calls on their way to the main thread, `answer` what
the caller was told, `phase <- service` and `room <- Room`. The steps of the socket that
are none of the log's own, such as those of the other events on the queue, are `Crowd`.

### Updater

Commits are numbers; what each release does when installed or started is fixed in
`sound` (good, dead at once, dead later, not installable). `apply` and `check` are the
two units, which may run at the same time and are each interrupted at any point; each
action is a step of the script with the status it writes, except that what was seen of
the service (`healthy`, `recovered`, `lost`) is written in a step of its own, with the
service free to die in between. Of the status file the model keeps the state, which is
what the page waits on.

`files` is a commit, or `Mixed`: files of no one commit, after a failed installation or
one from an edited checkout (`Tree`). Local edits are `edited`: a merge may refuse them
or carry them along, `git reset --hard` drops them, any git command may fail and leave
some behind. They are made between updates. A local commit, or a branch that was
rewritten, is a merge that fails. `service` is what the door service runs; systemd
starts it again with the files that are there (`ServiceStarts`). `trouble` is a history
of what went wrong since the last update that ended well, and names the exceptions of
the invariants.

### NfcReader

The card is on the reader or not, and its connection works or not (`Lift`, `Glitch`).
The thread is at `waitforcard`, between the LED and the event, or in the poll of the
card; the three exceptions of `_run` go back to waiting and change nothing. An event
carries its LED and what decided it (arm, authorization), which the code's does not:
only `LedMatchesOutcome` looks at it. Commands that change the arm or the tags take
their turn on the same queue, so that a scan can never be overtaken by one that was
queued after it. `fate` is a history of the card that is there.

### MqttHandler

`connected` is `_connected`; `client` is where paho is, which the flag follows late in
both directions. `_on_connect` is two steps, since the main thread can publish as soon
as it has set the flag; what paho has to send again (`held`) is sent when it returns.
`disconnect()` is two steps for the same reason. The broker has the client's session
(`served`) until DISCONNECT, or until it finds the connection gone and publishes the
will; a new session of the same `client_id` ends the old one, will first. Messages are
QoS 1: delivered at least once, in order, and lost only with the process. Reconnection
is possible until the process ends, a little longer than paho's own thread allows.

### LoginThrottle

One client's entry, and the threads that serve it. A request is admitted by
`locked_for` in one step and ends in another, because its lock is not held across PAM;
a malformed name takes the same two steps. The audit call that follows goes to the
door service, and its answer is ignored.

### EventStore

An event is the number of its `log()` call. Ids are `AUTOINCREMENT` and grow the same
way, so a table is a set of events, `ORDER BY id` the order of their numbers, and a
page the rows of a range of ranks. `work` is the table with the writer's open
transaction, `table` what is committed, `synced` what a power loss leaves. A commit succeeds, fails and leaves the transaction
open, or fails and SQLite rolls it back. `Age` moves the cutoff: clocks that jump are
not modelled. The reader is an operator who opens the History page and follows its
links; `Count` and `Recent` are the two queries of a page.

## 3. The runs

| Run | Shows | Bounds |
|---|---|---|
| `lock` | the lock's invariants, that only unlocks release the strike, that an automatic relock is lost in two ways only, that a released strike engages again | queue of 3, three `Timer` objects, durations 1 and 2 |
| `door_sensor` | state and report are stale only with an excuse; alerts | queue of 3, threshold 1 |
| `config_store` | memory equals disk, file whole and with its mode, `AtomicChange` implemented | 2 tags, 1 setting, 2 values, 3 versions on disk |
| `enrollment` | one-shot, outcome kept, arm expires, page settles | 1 tag, window 1, queue of 2, 2 fetches, 2 arms |
| `control_socket` | true answers, order, no hang, `CommandLog` implemented | 3 calls, queue of 2, backlog of 2 |
| `updater` | files follow the checkout, a bad release is undone, page stops | 3 commits |
| `nfc_reader` | the LED matches the outcome, a held card is handled | 2 tags, queue of 2, 1 restart |
| `mqtt` | retained topics follow the state, availability is true | paho holds 3 messages when another is added |
| `login` | failures bounded, lockout ends | the code's own 4 threads and 5 attempts, a lockout of 2 ticks |
| `history` | history faithful, no row skipped | 4 events, 2 rows a page |
| `lock_early_relock`, `config_migration` | a documented promise that the code does not keep | as the run of the same module; `config_migration` 1 tag |

Why the bounds are enough:

* *Queue of 3 (lock)*: an expiry can be queued behind one request and before
  another with the queue full, which is what distinguishes an expiry that is stale,
  one that is dropped and one that is in time. *Three timers*: one waiting, and two
  past their check from earlier unlocks, so that a stale expiry can follow a stale
  expiry. *Durations 1 and 2*: a change of duration in the middle of an unlock, and
  an unlock that still has time left when an earlier one's timer is late.
* *Queue of 3 (door)*: two reports of opposite content and a polarity change, or a
  full queue. *Threshold 1*: time only matters as "before" and "since"; an
  `open_for` that is reset is told from one that is not.
* *Config*: two tags and a setting show that one entry's rollback leaves the others
  alone; three versions are the file, its predecessor that a power loss may bring
  back, and the one under way. The model's symmetry in tags and texts is used;
  the properties are safety properties.
* *Enrollment*: two arms and two fetches give a late answer of one arm during the
  next, and two polls racing for one outcome. One tag is enough: a second changes
  only which name is added, and the same tag twice already covers "already enrolled".
* *Control socket*: three calls are one in service, one waiting and one that came
  after another had given up.
* *Updater*: three commits allow an update, a push in the middle, and a second
  update after a rollback; each of the two releases is of any of the four kinds.

* *NFC*: with two tags one can replace the other between read and post, and with a
  queue of two a command can be dispatched between a scan's LED and its decision, or
  the scan meet a full queue. One restart finds a card on the reader.
* *MQTT*: three messages are the two of a greeting and a state behind them, or a state
  that is resent after a newer one of the same topic; more only repeat a topic.
* *Login*: one client; the entries of `_failures` are independent. Two ticks tell a
  lockout that is extended from one that is not.
* *History*: four events make two pages, with a row that moves from the first to the
  second while the reader is between them and one that is pruned from the end.

Deadlock is checked in every run.

### Findings

1. `lock_early_relock`: an expiry of an earlier unlock that is past cancellation
   relocks the next one at once (`main.py:439` does not ask whose it is).
   `README.md:189` promises the seconds to every unlock. `FullDuration` is what
   does hold.
2. `config_migration`: a tag saved by the running service while the installer's
   migration is between read and write is lost (`install.sh:407`).
   `OnlyOverlapLosesEntries` is what does hold: a save before the read, after the
   truncation, or one that fails, loses nothing. `OnlyMigrationTears` says that the
   in-place write, which is not synced, is also the only way to a `config.json` that the
   service cannot load after a crash.

### Known exceptions

The other invariants hold with exceptions that are states of the model, kept in a
history variable and named in the property, so that nothing but the exception can
break it. Some of them are at odds with a sentence of the docs or a comment:

* `StateFollowsLevel`, excuse `raced`: a polarity change between a callback's
  interpretation and its store leaves the old interpretation in place until the next
  edge (`door_sensor.py:90`; `README.md:307-309` says a stale reading does not linger).
* `ReportFollowsState`, excuse `overtaken`: a report that is published directly, or
  the initial one, and an older one still queued (`main.py:349`, `door_sensor.py:71`).
* `OutcomeIsKept`, `lost`: `enroll_status` forgets the outcome as it builds the
  answer (`main.py:252`); `nfc.js:78-79` says a dropped poll is not fatal.
* `StrikeEngagesAgain` holds once systemd has restarted a crashed service, and not at
  all after a stop that ends in SIGKILL (`phase = "stopped"`): the model lets the pins
  keep their level when the process is gone, and nothing in the code drives them then.
  `README.md:62` says "anything that stops driving GPIO17 leaves the door locked", a
  crashed service included. Whether a pin falls back is up to the kernel; what the code
  itself guarantees is only what `cleanup()` and `setup()` do (`door_access.service:24`).
* `FilesFollowCheckout` and `BadReleaseIsUndone`, `local edits`: the comment at
  `update.sh:144-145` says that hand-edited files make the merge fail instead of being
  discarded, `README.md:369` that the update refuses to run. `git merge --ff-only`
  refuses only edits that overlap the incoming commits. Others are installed with the
  release, under its commit's name, and a rollback's `git reset --hard` discards them.
* The same two, `reinstall failed`, `interrupted` and (the second) `reset failed`: the
  results of a rollback's reset and of its installer are ignored (`update.sh:165-166`,
  `:183-184`). After a failed installation nobody looks at the service either and
  `rolled_back` is said (`update.sh:168`), while `README.md:366` says that a failed
  rollback is said explicitly. An update interrupted after its merge leaves HEAD ahead
  of the files, and the next one finds nothing to do (`update.sh:135`).
* `BadReleaseIsUndone` lets a release that dies late be down. The sample at
  `update.sh:179` is one look after 8 s, and the service may die between it and the
  report at `:195`, which then says ok.
* `TopicsFollowState`, `stale`: nothing is published while `_connected` is not set and
  nothing is repeated on connect (`mqtt_handler.py:236`). The first door state is
  dispatched before the connection is up, so "Publish the initial state so HA gets it
  on startup" (`door_sensor.py:69`) holds only if the broker is quicker. The other way
  is a publish in the middle of `_on_connect`, which paho sends before an older one
  that it has to send again.
* `GoneIsOffline`, `late`: `_on_connect` running while `disconnect()` is under way
  says "online" after the "offline", or without one, and DISCONNECT cancels the will.
* `HeldCardIsHandled`, fates `misread` and `dropped`: such a card gets nothing until
  it is lifted (`nfc_reader.py:98-104`). `_last_uid` is reset whenever a card leaves, so
  `_is_debounced` never suppresses anything, although the comment at
  `nfc_reader.py:98` says the polling is there "so debounce works correctly". In
  particular a card whose connection breaks for a moment is posted twice.
* `GoneIsOffline` and `UpIsOnline` rest on availability being retained
  (`mqtt_handler.py:70`, `:99`, `:217`); the table at `README.md:460` says it is not.
* `NoRowSkipped` is about the rows on the way: the total is counted before the rows
  are read, so a page may lack its "Older" link for the row that just moved past it,
  and a page that was pruned away has no pager at all.

## 4. Fairness

Liveness is checked under weak fairness of what the operating system keeps running,
never of people or of failures:

* `LockController`: the main loop takes events (it blocks in `queue.get` only),
  time passes, a timer thread that is due runs, systemd restarts a crashed service
  (`Restart=on-failure`) and ends a stopping one (`TimeoutStopSec`). Nobody must
  press, stop or start anything. `StrikeEngagesAgain` asks besides that unlock
  requests cease, because every one legitimately extends the release.
* `DoorSensor`: each of its threads, time, the main loop. Not the door, the
  operator or the edges.
* `Enrollment`: the main loop, time, the page's interval, the delivery of answers
  that were not dropped. `PageSettles` asks besides that fetches cease to be
  dropped.
* `ControlSocket`: the server thread only. The main thread owes nothing:
  `ServedDespiteStall` is about a main thread that hangs.
* `Updater`: both scripts run on. Pushes and clicks owe nothing.
* `NfcReader`: the reader thread and the main loop run, and a card that stays is read
  at last (a request that times out or a connection that fails is tried again).
  Neither cards nor commands owe anything.
* `MqttHandler`: a connection that is up delivers, a shutdown that has begun ends.
  `UpIsOnline` asks besides that the connection lasts.
* `LoginThrottle`: time passes, PAM answers, and the client keeps trying, which makes
  `LockoutEnds` harder, not easier, since `locked_for` is what drops an entry.
* `ConfigStore`, `EventStore`: no liveness is claimed; their specifications have no fairness.

## 5. The proofs

Every safety property of a passing run is a theorem for every value of the constants:
all invariants, the three action properties and the refinements of `AtomicChange` and
`CommandLog`. Theorems are, beyond that, the type invariants of `Updater` and
`LoginThrottle`, which no run lists because the properties of their runs say more, and
the two properties of `ConfigMigration` that hold, whose run is about the one that
does not (they and `MInv` also hold on that run's instance).

| Module | Theorem | States `Spec =>` |
|---|---|---|
| `LockControllerProofs` | `TypeCorrect` | `[]TypeOK` |
| | `HardwareAlwaysMatches` | `[]HardwareMatchesConfig` |
| | `TimersAlwaysDisciplined` | `[]TimerDiscipline` |
| | `FullDurationAlways` | `[]FullDuration` |
| | `RelockLostOnlyByLoss` | `OnlyLossAbandons` (action property) |
| | `OnlyUnlocksEverRelease` | `OnlyUnlocksRelease` (action property) |
| `DoorSensorProofs` | `TypeCorrect` | `[]TypeOK` |
| | `StateAlwaysFollowsLevel` | `[]StateFollowsLevel` |
| | `ReportAlwaysFollowsState` | `[]ReportFollowsState` |
| | `AlertsAlwaysDisciplined` | `[]AlertDiscipline` |
| `ConfigStoreProofs` (`ConfigStore`, `ConfigMigration`, `NfcReader`) | `TypeCorrect` | `[]TypeOK` |
| | `RunningAlwaysMatchesDisk` | `[]RunningMatchesDisk` |
| | `CommandsAlwaysAtomic` | `CommandsAreAtomic` (refinement) |
| | `OnlyOverlapEverLosesEntries` | `MSpec => []OnlyOverlapLosesEntries` |
| | `OnlyMigrationEverTears` | `MSpec => OnlyMigrationTears` (action property) |
| | `NfcTypeCorrect` | `NfcSpec => []NfcTypeOK` |
| | `LedAlwaysMatches` | `NfcSpec => LedMatchesOutcome` (action property) |
| `EnrollmentProofs` | `TypeCorrect` | `[]TypeOK` |
| | `ArmIsAlwaysOneShot` | `[]OneShot` |
| | `OutcomeIsAlwaysKept` | `[]OutcomeIsKept` |
| `ControlSocketProofs` | `TypeCorrect` | `[]TypeOK` |
| | `AnswersAreAlwaysTrue` | `[]AnswersAreTrue` |
| | `RealTimeOrderAlwaysHolds` | `[]RealTimeOrder` |
| | `CommandsAreAlwaysLogged` | `CommandsAreLogged` (refinement) |
| `UpdaterProofs` | `TypeCorrect` | `[]TypeOK` |
| | `FilesAlwaysFollowCheckout` | `[]FilesFollowCheckout` |
| | `BadReleaseIsAlwaysUndone` | `[]BadReleaseIsUndone` |
| `MqttHandlerProofs` | `TypeCorrect` | `[]TypeOK` |
| | `TopicsAlwaysFollowState` | `[]TopicsFollowState` |
| | `GoneIsAlwaysOffline` | `[]GoneIsOffline` |
| `WebAdminProofs` (`EventStore`, `LoginThrottle`) | `TypeCorrect` | `[]TypeOK` |
| | `HistoryIsAlwaysFaithful` | `[]HistoryIsFaithful` |
| | `NoRowIsEverSkipped` | `[]NoRowSkipped` |
| | `LoginTypeCorrect` | `LoginSpec => []LoginTypeOK` |
| | `FailuresAlwaysBounded` | `LoginSpec => []FailuresBounded` |

The assumptions are the `ASSUME`s of the modules, which TLC evaluates on every run:
sizes of queues, windows and durations are positive (or natural, where they are
bounds), sets are finite where they are counted, and values such as `None`, `Failed`,
`Torn` or `Mixed` are not members of the sets they stand beside. No
theorem has any other hypothesis.

The argument is the same everywhere: an inductive invariant (`IInv`), checked by TLC
on the runs' instances before it was proved, with one lemma or step per action. What
it has to add to the properties is different each time:

* **Lock.** `HardwareMatchesConfig` speaks of a running service only, so it says
  nothing of the state `Start` begins in; `NoProcess` (without a process the state is
  locked, there are no threads and the queue is empty) supplies that. `FullDuration`
  needs `TimerDiscipline`: that no expiry comes on its way while the current timer has
  time left takes that any *other* timer is not waiting, so that the only `TimerFires`
  possible is the current timer's, whose time is then up. `TimerDiscipline` in turn
  rests on what a cancellation does (`CancelLeavesNone`). `RelockLostOnlyByLoss` goes
  by cases on the action: the only steps that leave no thread, no expiry queued and
  the door unlocked are an unlock without a started timer and an expiry that met a
  full queue. `OnlyUnlocksEverRelease` uses `HardwareMatchesConfig` on both sides of a
  step of a running process, where a released strike and the state `UNLOCKED` are the
  same (`ReleasedIsUnlocked`), and what `setup()` drives in a step that starts one:
  between a crash and the restart the pins keep a level whose meaning the saved
  polarity may already have changed.
* **Door sensor.** `StateFollowsLevel` says nothing while a callback is under way.
  `FreshReading` follows the reading through the callback: what has been sampled,
  interpreted or stored is what the pin says, stage by stage, as long as no further
  edge waits. `FreshReport` does the same for what is about to be posted. The last
  report on the queue is a maximum over positions, which is where the lemmas on the
  queue go.
* **Configuration.** `TypeOK` is not inductive: putting an entry back is only typed
  because it gives the configuration that is still on disk, which `OnDisk` says of
  every step of a save, and the mode survives a replace only because chmod came before
  it (`Prepared`). With these every step of a save maps to a step of `AtomicChange` or
  to none (`AtomicStep`).
* **Migration.** With two writers the file is no longer what `OnDisk` says of it. `MInv`
  says it of what the file will hold once the migration has written (`Settled`), as long
  as no save was overlapped; that a rollback is typed has to be said without the file
  (`Restorable`).
* **Enrollment.** An outcome passes through the reply of a request that may have timed
  out in the meantime. It is not overwritten there because a request on the queue is
  the only one of its call and the call has no answer yet (`Awaited`). `Clicked` says
  that the arms still queued come from clicks of their own, in their order, which
  keeps `session` below `arms`.
* **NFC reader.** Every scan on its way, in the thread and on the queue, shows the LED
  that its arm and its authorization called for (`LedFits`). Only a dispatch shortens
  the queue without a restart (`LedStep`).
* **Control socket.** Both properties follow from `Pipeline`: calls may be lost on
  their way from the backlog over the server and the queue to the main thread, but
  they never overtake each other and never turn back; `TrueWhenSent` says of an answer
  that it is true before anybody receives it. For `CommandsAreLogged`, `Waited` says that
  a request the server waits for is queued or has been carried out, `OldestFirst` that
  the main thread takes the oldest of the pending ones. Every step that is neither a
  busy answer nor the end of the service leaves what is pending alone (`PendingStays`),
  the two timeouts among them.
* **Updater.** Both properties speak of a unit that is off. Through a run, files and
  HEAD agree at every point of the script except between the merge and the installer and
  while a rollback is still to be made (`Settled`). For `BadReleaseIsUndone` the release
  a rollback would go back to has to be one that came up (`WayBack`): it was installed,
  in order, when the update began. And an update that ends well makes good whatever went
  wrong in earlier ones, so what a restart says of the files it was made with
  (`Started`) must not depend on `trouble`.
* **MQTT.** Both properties speak of topics with nothing on its way to them. The
  invariants speak of what a topic will *settle* at: the last message about it that
  paho still has to send, else the retained one. Sending a message, sending it twice,
  losing the connection and the greeting of the next one do not change that
  (`SettlesInserted`, `SettlesAround`, `SettlesTail`, `SettlesResent`). `Sessions` and
  `OutBound` bound what paho holds.
* **Event history.** Both properties rest on what the open transaction can be
  (`OpenTransaction`): it misses only the oldest of the committed rows, expired ones,
  and brings back none that was gone when the walk began. So, whatever commit comes
  next, the rows newer than one that survives it survive too and its rank does not
  shrink (`NewerCounted`), and the pages already passed keep their promise
  (`WalkedSoFar`).
* **Login.** `FailuresBounded` is inductive as it stands, because it counts the
  attempts still being asked along with the failures. The lemmas are about the number
  of asking threads (`AskingCounted`).

Model-checked only, because the installed provers cannot reach liveness:
`StrikeEngagesAgain`, `LongOpenIsAlerted`, `ArmExpires`, `PageSettles`,
`ServedDespiteStall`, `PageStopsWaiting`, `UpIsOnline`, `HeldCardIsHandled` and
`LockoutEnds`. The two properties that fail (section 3, Findings) are counterexamples
of TLC's.

## 6. What is not modelled, and why

* Templates, CSS, `logs.js`, polkit rules, dependency files: no behaviour.
* PAM, Flask sessions and CSRF tokens: per-request state of libraries. The system
  log page is a read-only view of journald.
* Phone scanning (Web NFC) fills a form field and shares no state.
* `install.sh` other than the migration: sequential provisioning.
* Malformed and oversized requests on the socket never reach the queue.
* MQTT alerts and tag scans, which are not retained: they are sent or they are not.
  The filters of the History page, `types` and `unknown_uids` only read.
* In `LockController` one unlock event stands for the three in TLC's instance (they
  call `unlock()` alike); the proofs cover all of them.
* In `Updater` edits made while an update runs, and the installer that goes on when
  `TimeoutStartSec` ends its script (`KillMode=process`) are left out; the invariants say
  nothing of an installation that is changed under the installer or raced by a second
  one. The status file is written in one step: two writers of one temporary
  file (`update.sh:88`) are not told apart. `update.sh` has no `set -e`, so the writer
  that finds no file to rename goes on, and a file that does not parse is read as
  `error` (`web_admin.py:690`) until the next `write_status`: the page stops waiting.
* A composition of the users of the event queue: each module has the other events on
  its queue as entries without effect on its state, and the product of two modules is
  beyond TLC.

## 7. Plan

Order of the work: what moves the lock first, then what is persisted, then what is
remote.

1. Done: `LockController` and its proofs, `DoorSensor`, `ConfigStore` with
   `AtomicChange`, `ConfigMigration`, `Enrollment`, `ControlSocket`, `Updater`; then
   `MqttHandler`, `NfcReader`, `LoginThrottle`, `EventStore`.
2. Done: the proofs of section 5.
3. Left: `write_status` split into its steps (see "Not modelled").

## 8. Files

* `<Module>.tla`: specification and properties; `MC<Module>.tla` and `.cfg`: its
  instance; the other `.cfg` files: one property each that fails (see Findings).
* `<Module>Proofs.tla`: theorems about `<Module>`; `ConfigStoreProofs.tla` also has
  those about `ConfigMigration` and `NfcReader`, `WebAdminProofs.tla` those about
  `EventStore` and `LoginThrottle`.
* `AtomicChange.tla`, `CommandLog.tla`: the abstract specifications.
* `PROJECT.json`: components, runs, map to the source, mutants (for every property
  a plausible slip in the code that it catches), hazards, findings, theorems.

To run: `tlc -config MCLockController.cfg MCLockController`, and
`tlapm LockControllerProofs.tla`.
