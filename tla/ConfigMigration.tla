-------------------------- MODULE ConfigMigration --------------------------
(***************************************************************************)
(* ConfigStore with a second writer of config.json: migrate_config of      *)
(* install.sh, which update.sh runs while the door service is up.  It      *)
(* reads the file, adds the keys that are missing, none of which is one of *)
(* Keys, and writes the file in place.  This is the case where some are    *)
(* missing; otherwise it only reads.                                       *)
(***************************************************************************)
EXTENDS ConfigStore

VARIABLES
    migration,      \* "none", "read" (the file is loaded), "truncated"
    loaded,         \* what it loaded
    overlapped      \* history: the last save came between a read and its truncation

migrating == <<migration, loaded>>
mvars == <<vars, migrating, overlapped>>

NotMigrating == UNCHANGED migrating

\* with open(path) as f: cfg = json.load(f), at each update; a file that is not whole
\* ends the installation.
MigrateReads ==
    /\ migration = "none"
    /\ file # Torn
    /\ migration' = "read"
    /\ loaded' = file
    /\ UNCHANGED <<vars, overlapped>>

\* open(path, "w") ...
MigrateTruncates ==
    /\ migration = "read"
    /\ migration' = "truncated"
    /\ file' = Torn
    /\ durable' = durable \cup {Torn}
    /\ UNCHANGED <<up, config, mode, tmp, tmp_mode, command, loaded, overlapped>>

\* ... and json.dump, to the file that was opened: nobody's, if it was replaced since.
MigrateWrites ==
    /\ migration = "truncated"
    /\ migration' = "none"
    /\ IF file = Torn
       THEN file' = loaded /\ durable' = durable \cup {loaded}
       ELSE UNCHANGED <<file, durable>>
    /\ UNCHANGED <<up, config, mode, tmp, tmp_mode, command, loaded, overlapped>>

\* A save puts a new file at the path.
Save ==
    /\ Replace
    /\ overlapped' = (migration = "read")

\* The service cannot start from a file that is not whole: json.load raises.
StartWhole == file # Torn /\ Start

ServiceStep ==
    \/ Save
    \/ /\ \/ \E k \in Keys, v \in Texts \cup {None} : Change(k, v)
          \/ Refuse \/ Confirm
          \/ OpenTmp \/ WriteTmp \/ SyncTmp \/ ChmodTmp
          \/ Succeed \/ Fail
          \/ StartWhole \/ Crash \/ WriteBack
       /\ UNCHANGED overlapped

\* The power goes, for the installer too.
AllPowerLoss ==
    /\ PowerLoss
    /\ migration' = "none"
    /\ UNCHANGED <<loaded, overlapped>>

MInit == Init /\ migration = "none" /\ loaded = None /\ overlapped = FALSE

MNext ==
    \/ ServiceStep /\ NotMigrating
    \/ MigrateReads \/ MigrateTruncates \/ MigrateWrites
    \/ AllPowerLoss

MSpec == MInit /\ [][MNext]_mvars

\* install.sh:385: the migration "never touches keys that are already present", and
\* main.py:415, "the running set never diverges from what is on disk": with no command
\* and no migration under way the service's entries are those of the file.
MigrationKeepsEntries ==
    migration = "none" => RunningMatchesDisk

\* What does hold of install.sh:385 and main.py:415: only a save that replaces
\* config.json between the migration's json.load and its open(path, "w") is lost.  One
\* that is under way then, that fails, or that comes before the migration's write, which
\* then goes to a file that is no longer at the path, is not, whatever crashes meanwhile.
OnlyOverlapLosesEntries ==
    migration = "none" /\ ~overlapped => RunningMatchesDisk

\* Nothing but the migration's truncation puts config.json, as a reader or a power loss
\* finds it, into a state the service cannot start from (main.py:35, "Writes atomically",
\* holds of the service's own saves also while the installer writes in place).
OnlyMigrationTears ==
    [][/\ Torn \notin {file} \cup durable
       /\ Torn \in ({file} \cup durable)'
       => MigrateTruncates]_mvars

=============================================================================
