---------------------------- MODULE ConfigStore ----------------------------
(***************************************************************************)
(* The configuration of door_access: the dict the main thread works on,    *)
(* config.json, and the commands of main.py that change one entry of both: *)
(* add_tag, remove_tag, rename_tag, the tag captured at the reader, and    *)
(* the unlock duration and polarities.  Each changes the dict, saves it    *)
(* with save_config, and puts the entry back if the save failed.           *)
(*                                                                         *)
(* save_config is followed call by call, because each call can fail and    *)
(* the process or the power can go in between.                             *)
(***************************************************************************)
EXTENDS FiniteSets, Integers

CONSTANTS
    Uids,           \* tags, by normalised UID
    Settings,       \* the other entries (duration, polarities)
    Texts,          \* names of tags and values of settings
    None,           \* a UID not in authorized_uids; a value that is not there
    Torn,           \* a file whose bytes are not all there
    MaxVersions     \* bound: versions of config.json the disk may hold at once

ASSUME KeysAssumption == Uids \cap Settings = {}
ASSUME NoneAssumption == None \notin Texts
ASSUME MaxVersionsAssumption == MaxVersions \in Nat \ {0}

Keys == Uids \cup Settings

\* A config: the name of each enrolled tag, the value of each setting.
Configs == {c \in [Keys -> Texts \cup {None}] : \A s \in Settings : c[s] # None}

ASSUME TornAssumption == Torn \notin Configs /\ None \notin Configs

VARIABLES
    up,             \* the service runs
    config,         \* the dict, None while the service is down
    file,           \* config.json, as a reader sees it
    mode,           \* its permission bits
    durable,        \* the contents a power loss may leave at its path
    tmp,            \* config.json.tmp
    tmp_mode,       \* its permission bits
    step,           \* how far the command under way is
    undo,           \* the entry it changes and what that entry held
    answer          \* to the last command: "none", "pending", "ok", "error"

disk    == <<file, mode, durable, tmp, tmp_mode>>
command == <<step, undo, answer>>
vars == <<up, config, disk, command>>

InstalledMode == "0640"
UmaskMode == "0644"
Steps == {"idle", "changed", "opened", "written", "synced", "moded", "replaced"}

----------------------------------------------------------------------------
(* The commands, on the main thread *)

\* Which commands are carried out: add_tag and _capture_tag for a UID that is not
\* enrolled, remove_tag and rename_tag for one that is, a setting for any value.
Accepted(k, v) ==
    \/ k \in Uids /\ config[k] = None /\ v # None
    \/ k \in Uids /\ config[k] # None
    \/ k \in Settings /\ v # None

\* The dict is changed first.
Change(k, v) ==
    /\ up
    /\ step = "idle"
    /\ Accepted(k, v)
    /\ undo' = [key |-> k, previous |-> config[k]]
    /\ config' = [config EXCEPT ![k] = v]
    /\ step' = "changed"
    /\ answer' = "pending"
    /\ UNCHANGED <<up, disk>>

\* No such tag, already enrolled, not hex, out of range: nothing is touched.
Refuse ==
    /\ up
    /\ step = "idle"
    /\ answer' = "error"
    /\ UNCHANGED <<up, config, disk, step, undo>>

\* A polarity that is the current one already: answered ok, nothing saved.
Confirm ==
    /\ up
    /\ step = "idle"
    /\ answer' = "ok"
    /\ UNCHANGED <<up, config, disk, step, undo>>

\* save_config, call by call: os.stat and open(tmp, "w"), ...
OpenTmp ==
    /\ step = "changed"
    /\ step' = "opened"
    /\ tmp' = Torn
    /\ tmp_mode' = UmaskMode
    /\ UNCHANGED <<up, config, file, mode, durable, undo, answer>>

\* ... json.dump and flush, ...
WriteTmp ==
    /\ step = "opened"
    /\ step' = "written"
    /\ tmp' = config
    /\ UNCHANGED <<up, config, file, mode, durable, tmp_mode, undo, answer>>

\* ... fsync, ...
SyncTmp ==
    /\ step = "written"
    /\ step' = "synced"
    /\ UNCHANGED <<up, config, disk, undo, answer>>

\* ... chmod and chown to what stat found, ...
ChmodTmp ==
    /\ step = "synced"
    /\ step' = "moded"
    /\ tmp_mode' = mode
    /\ UNCHANGED <<up, config, file, mode, durable, tmp, undo, answer>>

\* ... and os.replace: at once for every reader, for the disk when it is written back.
\* What the disk has of a file that was not synced first is anyone's guess.
ReplaceUnsynced ==
    /\ step \in {"written", "moded"}
    /\ step' = "replaced"
    /\ file' = tmp
    /\ mode' = tmp_mode
    /\ durable' = durable \cup {IF step = "written" THEN Torn ELSE tmp}
    /\ tmp' = None
    /\ UNCHANGED <<up, config, tmp_mode, undo, answer>>
Replace ==
    /\ step = "moded"
    /\ Cardinality(durable) < MaxVersions
    /\ step' = "replaced"
    /\ file' = tmp
    /\ mode' = tmp_mode
    /\ durable' = durable \cup {tmp}
    /\ tmp' = None
    /\ UNCHANGED <<up, config, tmp_mode, undo, answer>>

SaveStep == OpenTmp \/ WriteTmp \/ SyncTmp \/ ChmodTmp \/ Replace

SucceedUnsaved ==
    /\ step \in {"synced", "replaced"}
    /\ step' = "idle"
    /\ answer' = "ok"
    /\ undo' = None
    /\ UNCHANGED <<up, config, disk>>
\* _persist returned True: the command is answered ok.
Succeed ==
    /\ step = "replaced"
    /\ step' = "idle"
    /\ answer' = "ok"
    /\ undo' = None
    /\ UNCHANGED <<up, config, disk>>

FailKeeping ==
    /\ step \in {"changed", "opened", "written", "synced", "moded"}
    /\ step' = "idle"
    /\ answer' = "error"
    /\ undo' = None
    /\ UNCHANGED <<up, config, disk>>
\* A call of save_config raised (no space, no permission, an I/O error): _persist
\* returned False, the entry is put back and the command is answered with the error.
Fail ==
    /\ step \in {"changed", "opened", "written", "synced", "moded"}
    /\ step' = "idle"
    /\ config' = [config EXCEPT ![undo.key] = undo.previous]
    /\ answer' = "error"
    /\ undo' = None
    /\ UNCHANGED <<up, disk>>

----------------------------------------------------------------------------
(* The process and the machine *)

\* main(): load_config.
Start ==
    /\ ~up
    /\ up' = TRUE
    /\ config' = file
    /\ UNCHANGED <<disk, command>>

ProcessEnds ==
    /\ up' = FALSE
    /\ step' = "idle"
    /\ answer' = "none"
    /\ config' = None
    /\ undo' = None

\* The process dies or is stopped, between any two calls.
Crash ==
    /\ up
    /\ ProcessEnds
    /\ UNCHANGED disk

\* The kernel writes the directory entry back.
WriteBack ==
    /\ durable # {file}
    /\ durable' = {file}
    /\ UNCHANGED <<up, config, file, mode, tmp, tmp_mode, command>>

\* The power goes: config.json is one of the files that were durable, a temporary
\* file is anything.
PowerLoss ==
    /\ file' \in durable
    /\ durable' = {file'}
    /\ tmp' = Torn
    /\ ProcessEnds
    /\ UNCHANGED <<mode, tmp_mode>>

----------------------------------------------------------------------------
Init ==
    /\ up = FALSE
    /\ config = None
    /\ file \in Configs
    /\ mode = InstalledMode
    /\ durable = {file}
    /\ tmp = None
    /\ tmp_mode = UmaskMode
    /\ step = "idle"
    /\ undo = None
    /\ answer = "none"

Next ==
    \/ \E k \in Keys, v \in Texts \cup {None} : Change(k, v)
    \/ Refuse \/ Confirm
    \/ SaveStep
    \/ Succeed \/ Fail
    \/ Start \/ Crash \/ WriteBack \/ PowerLoss

Spec == Init /\ [][Next]_vars

----------------------------------------------------------------------------
(* Properties *)

\* Every variable keeps its type: config.json, and what a power loss leaves of it, is at
\* all times a whole configuration (main.py:35, "Writes atomically") with the permissions
\* it was installed with (main.py:37, "inherits the *original* file's mode").
TypeOK ==
    /\ up \in BOOLEAN
    /\ config \in IF up THEN Configs ELSE {None}
    /\ file \in Configs
    /\ mode = InstalledMode
    /\ durable \subseteq Configs
    /\ tmp \in Configs \cup {Torn, None}
    /\ tmp_mode \in {InstalledMode, UmaskMode}
    /\ step \in Steps
    /\ undo \in [key : Keys, previous : Texts \cup {None}] \cup {None}
    /\ answer \in {"none", "pending", "ok", "error"}

\* Between commands the running configuration is what is on disk (main.py:414, "the
\* running set never diverges from what is on disk"), after any mixture of saves that
\* succeeded, saves that failed at any call, crashes and power losses.
RunningMatchesDisk ==
    up /\ step = "idle" => config = file

\* Every command is atomic towards its caller: see AtomicChange.
Requested == IF step = "idle" THEN None ELSE config
Outcome == IF step = "replaced" THEN "applied" ELSE answer

Atomic == INSTANCE AtomicChange
          WITH Values <- Configs, Nothing <- None,
               value <- file, recoverable <- durable,
               wanted <- Requested, answer <- Outcome

CommandsAreAtomic == Atomic!Spec

=============================================================================
