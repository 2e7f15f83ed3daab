--------------------------- MODULE ConfigStoreProofs ---------------------------
(***************************************************************************)
(* The configuration and what its tags decide at the door.                 *)
(*                                                                         *)
(* ConfigStore, for every set of tags, settings and values: its type, that *)
(* the running configuration is the one on disk between commands, and that *)
(* every command is atomic towards its caller (the refinement of           *)
(* AtomicChange).                                                          *)
(*                                                                         *)
(* TypeOK is not inductive: putting an entry back is only typed because it *)
(* gives the configuration that is still on disk, which OnDisk says of     *)
(* every step of a save, and a permission bit survives a replace only      *)
(* because chmod came before it, which Prepared says.                      *)
(*                                                                         *)
(* ConfigMigration, for every order of the installer's steps among those   *)
(* of the service: which entry an update can lose, and what can leave a    *)
(* file that cannot be loaded (MInv).                                      *)
(*                                                                         *)
(* NfcReader, for every set of tags and every queue size: the LED of a     *)
(* scan agrees with what is decided about it, because every scan on its    *)
(* way shows the LED that its arm and its authorization called for         *)
(* (NfcIInv).                                                              *)
(***************************************************************************)
EXTENDS ConfigMigration, NfcReader, SequenceTheorems, TLAPS

\* A command is under way exactly between its change and its answer, in a process.
UnderWay ==
    IF step = "idle" THEN answer # "pending"
    ELSE /\ up
         /\ answer = "pending"
         /\ undo \in [key : Keys, previous : Texts \cup {None}]

\* What config.json holds at each step of a command.
OnDisk ==
    /\ up /\ step \in {"idle", "replaced"} => file = config
    /\ step \in {"changed", "opened", "written", "synced", "moded"}
        => file = [config EXCEPT ![undo.key] = undo.previous]

\* What the temporary file is worth once its calls have returned.
Prepared ==
    /\ step \in {"written", "synced", "moded"} => tmp = config
    /\ step = "moded" => tmp_mode = mode

IInv == TypeOK /\ UnderWay /\ OnDisk /\ Prepared

----------------------------------------------------------------------------
(* The commands *)

\* An accepted change gives a configuration: only a tag's entry may become None.
LEMMA ChangedConfig ==
    ASSUME NEW c \in Configs, NEW k \in Keys, NEW v \in Texts \cup {None},
           k \in Settings => v # None
    PROVE  [c EXCEPT ![k] = v] \in Configs
  BY DEF Configs, Keys

\* Putting back what an entry held undoes its change.
LEMMA UndoneConfig ==
    ASSUME NEW c \in Configs, NEW k \in Keys, NEW v
    PROVE  [[c EXCEPT ![k] = v] EXCEPT ![k] = c[k]] = c
  BY DEF Configs, Keys

----------------------------------------------------------------------------
(* The inductive invariant *)

\* A service that has not run since config.json was installed.
LEMMA InvInit == Init => IInv
<1> SUFFICES ASSUME Init PROVE IInv
  OBVIOUS
<1>1. TypeOK BY DEF Init, TypeOK, Steps
<1>2. UnderWay BY DEF Init, UnderWay
<1>3. OnDisk BY DEF Init, OnDisk
<1>4. Prepared BY DEF Init, Prepared
<1> QED BY <1>1, <1>2, <1>3, <1>4 DEF IInv

\* A command that is accepted changes the running configuration and notes what to put
\* back.
LEMMA ChangeStep ==
    ASSUME IInv, NEW k \in Keys, NEW v \in Texts \cup {None}, Change(k, v)
    PROVE  IInv'
<1>1. config \in Configs /\ file = config
  BY DEF IInv, TypeOK, OnDisk, Change
<1>2. k \in Settings => v # None
  BY KeysAssumption DEF Change, Accepted
<1>3. config' \in Configs
  BY <1>1, <1>2, ChangedConfig DEF Change
<1>4. undo' = [key |-> k, previous |-> config[k]] /\ config[k] \in Texts \cup {None}
  BY <1>1 DEF Change, Configs
<1>5. undo' \in [key : Keys, previous : Texts \cup {None}]
  BY <1>4
<1>6. file' = [config' EXCEPT ![undo'.key] = undo'.previous]
  BY <1>1, <1>4, UndoneConfig DEF Change, disk
<1>7. TypeOK'
  BY <1>3, <1>5 DEF IInv, TypeOK, Change, Steps, disk
<1>8. UnderWay'
  BY <1>5 DEF Change, UnderWay
<1>9. OnDisk'
  BY <1>6 DEF Change, OnDisk
<1>10. Prepared'
  BY DEF Change, Prepared
<1> QED BY <1>7, <1>8, <1>9, <1>10 DEF IInv

\* The calls of save_config.
LEMMA SaveKeepsInv == ASSUME IInv, SaveStep PROVE IInv'
<1> USE DEF IInv, disk
<1>1. CASE OpenTmp
  BY <1>1 DEF OpenTmp, TypeOK, UnderWay, OnDisk, Prepared, Steps
<1>2. CASE WriteTmp
  BY <1>2 DEF WriteTmp, TypeOK, UnderWay, OnDisk, Prepared, Steps
<1>3. CASE SyncTmp
  BY <1>3 DEF SyncTmp, TypeOK, UnderWay, OnDisk, Prepared, Steps
<1>4. CASE ChmodTmp
  BY <1>4 DEF ChmodTmp, TypeOK, UnderWay, OnDisk, Prepared, Steps
<1>5. CASE Replace
  <2>1. tmp = config /\ config \in Configs /\ tmp_mode = InstalledMode
    BY <1>5 DEF Replace, TypeOK, UnderWay, Prepared
  <2> QED BY <1>5, <2>1 DEF Replace, TypeOK, UnderWay, OnDisk, Prepared, Steps
<1> QED BY <1>1, <1>2, <1>3, <1>4, <1>5 DEF SaveStep

\* Putting the entry back gives the configuration on disk.
LEMMA FailKeepsInv == ASSUME IInv, Fail PROVE IInv'
<1>1. up /\ config' = file /\ file \in Configs
  BY DEF IInv, TypeOK, UnderWay, OnDisk, Fail
<1>2. TypeOK'
  BY <1>1 DEF IInv, TypeOK, Fail, Steps, disk
<1>3. UnderWay' /\ OnDisk' /\ Prepared'
  BY <1>1 DEF UnderWay, OnDisk, Prepared, Fail, disk
<1> QED BY <1>2, <1>3 DEF IInv

\* Every step keeps the inductive invariant.
LEMMA InvStep == IInv /\ [Next]_vars => IInv'
<1> SUFFICES ASSUME IInv, [Next]_vars PROVE IInv'
  OBVIOUS
<1> USE DEF disk, command
<1>1. CASE Refuse \/ Confirm
  BY <1>1 DEF IInv, Refuse, Confirm, TypeOK, UnderWay, OnDisk, Prepared
<1>2. CASE Succeed
  BY <1>2 DEF IInv, Succeed, TypeOK, UnderWay, OnDisk, Prepared, Steps
<1>3. CASE Start
  BY <1>3 DEF IInv, Start, TypeOK, UnderWay, OnDisk, Prepared
<1>4. CASE Crash
  BY <1>4 DEF IInv, Crash, ProcessEnds, TypeOK, UnderWay, OnDisk, Prepared, Steps
<1>5. CASE WriteBack
  BY <1>5 DEF IInv, WriteBack, TypeOK, UnderWay, OnDisk, Prepared
<1>6. CASE PowerLoss
  <2>1. file' \in Configs
    BY <1>6 DEF IInv, TypeOK, PowerLoss
  <2> QED
    BY <1>6, <2>1
    DEF IInv, PowerLoss, ProcessEnds, TypeOK, UnderWay, OnDisk, Prepared, Steps
<1>7. CASE UNCHANGED vars
  BY <1>7 DEF IInv, vars, TypeOK, UnderWay, OnDisk, Prepared
<1> QED
  BY <1>1, <1>2, <1>3, <1>4, <1>5, <1>6, <1>7, ChangeStep, SaveKeepsInv, FailKeepsInv
  DEF Next

\* The inductive invariant holds in every reachable state.
LEMMA Invariance == Spec => []IInv
  BY InvInit, InvStep, PTL DEF Spec

\* config.json, and what a power loss leaves of it, is at all times a whole configuration
\* with the mode it was installed with (main.py:35-69, save_config).
THEOREM TypeCorrect == Spec => []TypeOK
  BY Invariance, PTL DEF IInv

\* Between commands the running configuration is the one on disk, after any mixture of
\* saves, failed saves, crashes and power losses (main.py:35-69 and the callers of
\* _persist, which put the entry back).
THEOREM RunningAlwaysMatchesDisk == Spec => []RunningMatchesDisk
<1>1. IInv => RunningMatchesDisk
  BY DEF IInv, OnDisk, RunningMatchesDisk
<1> QED BY <1>1, Invariance, PTL

----------------------------------------------------------------------------
(* Atomicity *)

\* A fresh installation is a fresh store.
LEMMA AtomicInit == Init => Atomic!Init
  BY DEF Init, Atomic!Init, Requested, Outcome

\* Every step is a step of the abstract store or leaves it alone.
LEMMA AtomicStep == IInv /\ [Next]_vars => [Atomic!Next]_(Atomic!avars)
<1> SUFFICES ASSUME IInv, [Next]_vars PROVE [Atomic!Next]_(Atomic!avars)
  OBVIOUS
<1> USE DEF disk, command, Requested, Outcome
\* What a caller sees between commands, and while one is under way.
<1>1. /\ step = "idle" => Outcome \notin {"pending", "applied"}
      /\ step \in {"changed", "opened", "written", "synced", "moded"}
            => Outcome = "pending" /\ Requested = config
  BY DEF IInv, TypeOK, UnderWay
<1>2. ASSUME NEW k \in Keys, NEW v \in Texts \cup {None}, Change(k, v)
      PROVE  \E c \in Configs : Atomic!Ask(c)
  <2>1. config' \in Configs
    BY <1>2, ChangeStep DEF IInv, TypeOK, Change
  <2>2. Atomic!Ask(config')
    BY <1>1, <1>2 DEF Change, Atomic!Ask, Atomic!Open
  <2> QED BY <2>1, <2>2
<1>3. CASE Refuse
  BY <1>1, <1>3 DEF Refuse, Atomic!Next, Atomic!Refuse, Atomic!Open
<1>4. CASE Confirm
  BY <1>1, <1>4 DEF Confirm, Atomic!Next, Atomic!Confirm, Atomic!Open
<1>5. CASE OpenTmp \/ WriteTmp \/ SyncTmp \/ ChmodTmp
  BY <1>5 DEF OpenTmp, WriteTmp, SyncTmp, ChmodTmp, Atomic!avars
<1>6. CASE Replace
  BY <1>1, <1>6 DEF IInv, Prepared, Replace, Atomic!Next, Atomic!Apply
<1>7. CASE Succeed \/ Fail
  BY <1>1, <1>7 DEF Succeed, Fail, Atomic!Next, Atomic!Answer, Atomic!Open
<1>8. CASE Start
  <2>1. step = "idle"
    BY <1>8 DEF IInv, UnderWay, Start
  <2> QED BY <1>8, <2>1 DEF Start, Atomic!avars
<1>9. CASE Crash
  BY <1>9 DEF Crash, ProcessEnds, Atomic!Next, Atomic!GoDown
<1>10. CASE WriteBack
  BY <1>10 DEF WriteBack, Atomic!Next, Atomic!Settle
<1>11. CASE PowerLoss
  BY <1>11 DEF PowerLoss, ProcessEnds, Atomic!Next, Atomic!LosePower
<1>12. CASE UNCHANGED vars
  BY <1>12 DEF vars, Atomic!avars
<1> QED
  BY <1>2, <1>3, <1>4, <1>5, <1>6, <1>7, <1>8, <1>9, <1>10, <1>11, <1>12
  DEF Next, SaveStep, Atomic!Next

\* A command takes effect in one step or not at all, is answered "ok" only when it has
\* and with an error only when it has not (main.py:35-69 and the callers of _persist).
THEOREM CommandsAlwaysAtomic == Spec => CommandsAreAtomic
  BY Invariance, AtomicInit, AtomicStep, PTL DEF Spec, CommandsAreAtomic, Atomic!Spec

----------------------------------------------------------------------------
(* A migration beside the service *)

\* What the type invariant of ConfigStore becomes with a writer that truncates.
MTypeOK ==
    /\ up \in BOOLEAN
    /\ config \in IF up THEN Configs ELSE {None}
    /\ file \in Configs \cup {Torn}
    /\ durable \subseteq Configs \cup {Torn}
    /\ step \in Steps
    /\ migration \in {"none", "read", "truncated"}
    /\ migration # "none" => loaded \in Configs
    /\ overlapped \in BOOLEAN

\* While the service runs, only a migration's truncation hides config.json from it.
WholeOutside == file = Torn => migration = "truncated" \/ ~up

\* Putting the entry back gives a configuration, whatever is on disk.
Restorable ==
    step # "idle" => [config EXCEPT ![undo.key] = undo.previous] \in Configs

\* What config.json will hold once the migration under way has written.
Settled == IF migration = "truncated" /\ file = Torn THEN loaded ELSE file

\* OnDisk, of what the migration leaves, unless a save has been overlapped.
SettledOnDisk ==
    ~overlapped =>
        /\ up /\ step \in {"idle", "replaced"} => Settled = config
        /\ step \in {"changed", "opened", "written", "synced", "moded"}
            => Settled = [config EXCEPT ![undo.key] = undo.previous]
        /\ migration = "read" => loaded = file

MInv ==
    /\ MTypeOK
    /\ UnderWay
    /\ WholeOutside
    /\ Restorable
    /\ step \in {"written", "synced", "moded"} => tmp = config
    /\ SettledOnDisk

\* An update that has not begun.
LEMMA MigrationInit == MInit => MInv
<1> SUFFICES ASSUME MInit PROVE MInv
  OBVIOUS
<1> USE DEF MInit, Init
<1>1. MTypeOK BY DEF MTypeOK, Steps
<1>2. UnderWay BY DEF UnderWay
<1>3. WholeOutside BY TornAssumption DEF WholeOutside
<1>4. Restorable BY DEF Restorable
<1>5. SettledOnDisk BY DEF SettledOnDisk, Settled
<1> QED BY <1>1, <1>2, <1>3, <1>4, <1>5 DEF MInv

\* The steps of the installer.
LEMMA MigrateKeepsInv ==
    ASSUME MInv, MigrateReads \/ MigrateTruncates \/ MigrateWrites
    PROVE  MInv'
<1> USE DEF MInv, vars, disk, command
<1>1. CASE MigrateReads
  BY <1>1 DEF MigrateReads, MTypeOK, UnderWay, WholeOutside, Restorable, Settled,
     SettledOnDisk
<1>2. CASE MigrateTruncates
  <2>1. MTypeOK'
    BY <1>2 DEF MigrateTruncates, MTypeOK
  <2>2. UnderWay' /\ WholeOutside' /\ Restorable'
    BY <1>2 DEF MigrateTruncates, UnderWay, WholeOutside, Restorable
  \* Unless a save came in between, what was loaded is what was truncated.
  <2>3. Settled' = loaded /\ (~overlapped => loaded = Settled)
    BY <1>2 DEF MigrateTruncates, SettledOnDisk, Settled
  <2>4. SettledOnDisk'
    BY <1>2, <2>3 DEF MigrateTruncates, SettledOnDisk
  <2> QED BY <1>2, <2>1, <2>2, <2>4 DEF MigrateTruncates
<1>3. CASE MigrateWrites
  <2>1. loaded \in Configs
    BY <1>3 DEF MigrateWrites, MTypeOK
  <2>2. MTypeOK'
    BY <1>3, <2>1 DEF MigrateWrites, MTypeOK
  <2>3. UnderWay' /\ WholeOutside' /\ Restorable'
    BY <1>3, <2>1, TornAssumption
    DEF MigrateWrites, UnderWay, WholeOutside, Restorable
  <2>4. Settled' = Settled
    BY <1>3 DEF MigrateWrites, Settled
  <2>5. SettledOnDisk'
    BY <1>3, <2>4 DEF MigrateWrites, SettledOnDisk
  <2> QED BY <1>3, <2>2, <2>3, <2>5 DEF MigrateWrites
<1> QED BY <1>1, <1>2, <1>3

\* A save that comes between the read and the truncation is noted as overlapped; any
\* other puts the running configuration at the path.
LEMMA SaveBesideMigration ==
    ASSUME MInv, Save, NotMigrating
    PROVE  MInv'
<1> USE DEF MInv, disk, migrating
<1>1. /\ tmp = config /\ config \in Configs /\ up
      /\ file' = config /\ step' = "replaced" /\ config' = config /\ undo' = undo
      /\ durable' = durable \cup {config} /\ overlapped' = (migration = "read")
      /\ UNCHANGED <<up, answer, migration, loaded>>
  BY DEF Save, Replace, MTypeOK, UnderWay, NotMigrating
<1>2. MTypeOK'
  BY <1>1 DEF MTypeOK, Steps
<1>3. UnderWay' /\ Restorable'
  BY <1>1 DEF Save, Replace, UnderWay, Restorable
<1>4. config # Torn
  BY <1>1, TornAssumption
<1>5. WholeOutside'
  BY <1>1, <1>4 DEF WholeOutside
<1>6. SettledOnDisk'
  BY <1>1, <1>4 DEF SettledOnDisk, Settled
<1> QED BY <1>1, <1>2, <1>3, <1>5, <1>6

\* A change remembers the entry of the configuration it replaces.
LEMMA ChangeBesideMigration ==
    ASSUME MInv, NEW k \in Keys, NEW v \in Texts \cup {None}, Change(k, v),
           NotMigrating, UNCHANGED overlapped
    PROVE  MInv'
<1> USE DEF MInv, disk, migrating
<1>1. config \in Configs /\ step = "idle" /\ up /\ up' = up
  BY DEF Change, MTypeOK
<1>2. k \in Settings => v # None
  BY KeysAssumption DEF Change, Accepted
<1>3. config' \in Configs
  BY <1>1, <1>2, ChangedConfig DEF Change
<1>4. undo' = [key |-> k, previous |-> config[k]] /\ config[k] \in Texts \cup {None}
  BY <1>1 DEF Change, Configs
<1>5. undo' \in [key : Keys, previous : Texts \cup {None}]
  BY <1>4
<1>6. config = [config' EXCEPT ![undo'.key] = undo'.previous]
  BY <1>1, <1>4, UndoneConfig DEF Change
<1>7. /\ step' = "changed" /\ answer' = "pending"
      /\ UNCHANGED <<file, durable, tmp, migration, loaded, overlapped>>
  BY DEF Change, NotMigrating
<1>8. MTypeOK'
  BY <1>1, <1>3, <1>7 DEF MTypeOK, Steps
<1>9. UnderWay' /\ Restorable'
  BY <1>1, <1>5, <1>6, <1>7 DEF UnderWay, Restorable
<1>10. WholeOutside'
  BY <1>1, <1>7 DEF WholeOutside
<1>11. SettledOnDisk'
  BY <1>1, <1>6, <1>7 DEF SettledOnDisk, Settled
<1> QED BY <1>7, <1>8, <1>9, <1>10, <1>11

\* Putting the entry back gives the configuration that will be on disk.
LEMMA FailBesideMigration ==
    ASSUME MInv, Fail, NotMigrating, UNCHANGED overlapped
    PROVE  MInv'
<1> USE DEF MInv, disk, migrating
<1>1. /\ step \in {"changed", "opened", "written", "synced", "moded"} /\ step' = "idle"
      /\ config' = [config EXCEPT ![undo.key] = undo.previous] /\ answer' = "error"
      /\ UNCHANGED <<up, file, durable, migration, loaded, overlapped>>
  BY DEF Fail, NotMigrating
<1>2. up /\ config' \in Configs
  BY <1>1 DEF UnderWay, Restorable
<1>3. MTypeOK'
  BY <1>1, <1>2 DEF MTypeOK, Steps
<1>4. UnderWay' /\ Restorable' /\ WholeOutside'
  BY <1>1 DEF UnderWay, Restorable, WholeOutside
<1>5. SettledOnDisk'
  BY <1>1 DEF SettledOnDisk, Settled
<1> QED BY <1>1, <1>3, <1>4, <1>5

\* The other steps of the service and the kernel.
LEMMA ServiceBesideMigration ==
    ASSUME MInv, ServiceStep, NotMigrating
    PROVE  MInv'
<1> USE DEF MInv, disk, command, migrating, NotMigrating
<1>1. CASE Save
  BY <1>1, SaveBesideMigration
<1>2. ASSUME NEW k \in Keys, NEW v \in Texts \cup {None}, Change(k, v),
             UNCHANGED overlapped
      PROVE  MInv'
  BY <1>2, ChangeBesideMigration
<1>3. CASE (Refuse \/ Confirm) /\ UNCHANGED overlapped
  BY <1>3 DEF Refuse, Confirm, MTypeOK, UnderWay, WholeOutside, Restorable, Settled,
     SettledOnDisk
<1>4. CASE (OpenTmp \/ WriteTmp \/ SyncTmp \/ ChmodTmp) /\ UNCHANGED overlapped
  <2>1. /\ step \in {"changed", "opened", "written", "synced"}
        /\ step' \in {"opened", "written", "synced", "moded"}
        /\ step' \in {"written", "synced", "moded"} => tmp' = config
        /\ UNCHANGED <<up, config, file, durable, undo, answer, migration, loaded,
                       overlapped>>
    BY <1>4 DEF OpenTmp, WriteTmp, SyncTmp, ChmodTmp
  <2>2. MTypeOK' /\ UnderWay' /\ WholeOutside' /\ Restorable'
    BY <2>1 DEF MTypeOK, UnderWay, WholeOutside, Restorable, Steps
  <2>3. SettledOnDisk'
    BY <2>1 DEF SettledOnDisk, Settled
  <2> QED BY <2>1, <2>2, <2>3
<1>5. CASE Succeed /\ UNCHANGED overlapped
  BY <1>5 DEF Succeed, MTypeOK, UnderWay, WholeOutside, Restorable, Settled,
     SettledOnDisk, Steps
<1>6. CASE Fail /\ UNCHANGED overlapped
  BY <1>6, FailBesideMigration
<1>7. CASE StartWhole /\ UNCHANGED overlapped
  <2>1. /\ file # Torn /\ ~up /\ up' = TRUE /\ config' = file /\ step = "idle"
        /\ UNCHANGED <<file, durable, tmp, step, undo, answer, migration, loaded,
                       overlapped>>
    BY <1>7 DEF StartWhole, Start, UnderWay
  <2>2. MTypeOK' /\ UnderWay' /\ WholeOutside' /\ Restorable'
    BY <2>1 DEF MTypeOK, UnderWay, WholeOutside, Restorable
  <2>3. SettledOnDisk'
    BY <2>1 DEF SettledOnDisk, Settled
  <2> QED BY <2>1, <2>2, <2>3
<1>8. CASE Crash /\ UNCHANGED overlapped
  BY <1>8 DEF Crash, ProcessEnds, MTypeOK, UnderWay, WholeOutside, Restorable,
     Settled, SettledOnDisk, Steps
<1>9. CASE WriteBack /\ UNCHANGED overlapped
  BY <1>9 DEF WriteBack, MTypeOK, UnderWay, WholeOutside, Restorable, Settled,
     SettledOnDisk
<1> QED
  BY <1>1, <1>2, <1>3, <1>4, <1>5, <1>6, <1>7, <1>8, <1>9 DEF ServiceStep

\* The power takes the installer along, and the service that might notice.
LEMMA PowerBesideMigration ==
    ASSUME MInv, AllPowerLoss
    PROVE  MInv'
<1> USE DEF MInv
<1>1. /\ up' = FALSE /\ step' = "idle" /\ answer' = "none" /\ config' = None
      /\ file' \in durable /\ durable' = {file'} /\ migration' = "none"
      /\ UNCHANGED <<loaded, overlapped>>
  BY DEF AllPowerLoss, PowerLoss, ProcessEnds
<1>2. file' \in Configs \cup {Torn}
  BY <1>1 DEF MTypeOK
<1>3. MTypeOK'
  BY <1>1, <1>2 DEF MTypeOK, Steps
<1> QED
  BY <1>1, <1>3 DEF UnderWay, WholeOutside, Restorable, Settled, SettledOnDisk

\* Every step keeps the invariant of the service and the installer.
LEMMA MigrationStep == MInv /\ [MNext]_mvars => MInv'
<1> SUFFICES ASSUME MInv, [MNext]_mvars PROVE MInv'
  OBVIOUS
<1>1. CASE UNCHANGED mvars
  BY <1>1 DEF MInv, mvars, vars, disk, command, migrating, MTypeOK, UnderWay,
     WholeOutside, Restorable, Settled, SettledOnDisk
<1> QED
  BY <1>1, MigrateKeepsInv, ServiceBesideMigration, PowerBesideMigration DEF MNext

\* The invariant of the service and the installer holds in every reachable state.
LEMMA MigrationInvariance == MSpec => []MInv
  BY MigrationInit, MigrationStep, PTL DEF MSpec

\* The one save an update can lose is the one that replaces config.json between
\* migrate_config's json.load and its open(path, "w") (install.sh:391-407): with every
\* other order of the two writers, crash and failure the running configuration is the
\* one on disk again.
THEOREM OnlyOverlapEverLosesEntries == MSpec => []OnlyOverlapLosesEntries
<1>1. MInv => OnlyOverlapLosesEntries
  BY DEF MInv, SettledOnDisk, Settled, OnlyOverlapLosesEntries, RunningMatchesDisk
<1> QED BY <1>1, MigrationInvariance, PTL

\* A step that may leave config.json torn is the migration's truncation.
LEMMA TearStep ==
    ASSUME MInv, MNext, Torn \notin {file} \cup durable,
           Torn \in ({file} \cup durable)'
    PROVE  MigrateTruncates
<1> USE DEF disk, command
<1>1. ASSUME UNCHANGED <<file, durable>> PROVE FALSE
  BY <1>1
<1>2. CASE MigrateReads \/ MigrateWrites
  <2>1. CASE MigrateReads
    BY <1>1, <2>1 DEF MigrateReads, vars
  <2>2. CASE MigrateWrites
    BY <1>1, <2>2 DEF MigrateWrites
  <2> QED BY <1>2, <2>1, <2>2
<1>3. CASE AllPowerLoss
  BY <1>3 DEF AllPowerLoss, PowerLoss
<1>4. CASE Save
  <2>1. tmp \in Configs
    BY <1>4 DEF MInv, MTypeOK, UnderWay, Save, Replace
  <2>2. file' = tmp /\ durable' = durable \cup {tmp}
    BY <1>4 DEF Save, Replace
  <2> QED BY <2>1, <2>2, TornAssumption
<1>5. CASE WriteBack
  BY <1>5 DEF WriteBack
<1>6. CASE \/ \E k \in Keys, v \in Texts \cup {None} : Change(k, v)
           \/ Refuse \/ Confirm
           \/ OpenTmp \/ WriteTmp \/ SyncTmp \/ ChmodTmp
           \/ Succeed \/ Fail
           \/ StartWhole \/ Crash
  BY <1>1, <1>6 DEF Change, Refuse, Confirm, OpenTmp, WriteTmp, SyncTmp, ChmodTmp,
     Succeed, Fail, StartWhole, Start, Crash
<1> QED BY <1>2, <1>3, <1>4, <1>5, <1>6 DEF MNext, ServiceStep

\* The service's own saves never expose a file that cannot be loaded, to a reader or to a
\* power loss, also while the installer truncates and writes the same path
\* (main.py:35-69; install.sh:406).
THEOREM OnlyMigrationEverTears == MSpec => OnlyMigrationTears
<1>1. MInv /\ [MNext]_mvars
        => [/\ Torn \notin {file} \cup durable
            /\ Torn \in ({file} \cup durable)'
            => MigrateTruncates]_mvars
  BY TearStep
<1> QED BY <1>1, MigrationInvariance, PTL DEF MSpec, OnlyMigrationTears

----------------------------------------------------------------------------
(* A tag at the reader: the LED and the decision *)

\* The LED of a scan was green for an arm or for a tag that was authorized.
LedFits(s) == s \in Scans => (s.green <=> s.armed \/ s.known)

NfcIInv ==
    /\ NfcTypeOK
    /\ LedFits(scan)
    /\ \A i \in 1..Len(queue) : LedFits(queue[i])

\* The positions of a queue after an event has been added, or the first one taken.
LEMMA Appended ==
    ASSUME NEW S, NEW q \in Seq(S), NEW e \in S
    PROVE  /\ Append(q, e) \in Seq(S) /\ Len(q) \in Nat
           /\ Len(Append(q, e)) = Len(q) + 1
           /\ Append(q, e)[Len(q) + 1] = e
           /\ \A i \in 1..Len(q) : Append(q, e)[i] = q[i]
           /\ \A i \in 1..(Len(q) + 1) : i \in 1..Len(q) \/ i = Len(q) + 1
  BY AppendProperties

LEMMA Taken ==
    ASSUME NEW S, NEW q \in Seq(S), q # <<>>
    PROVE  /\ Tail(q) \in Seq(S) /\ Len(q) \in Nat \ {0}
           /\ Len(Tail(q)) = Len(q) - 1
           /\ Head(q) \in S /\ Head(q) = q[1] /\ 1 \in 1..Len(q)
           /\ \A i \in 1..Len(Tail(q)) : i + 1 \in 1..Len(q) /\ Tail(q)[i] = q[i + 1]
<1>1. /\ Tail(q) \in Seq(S) /\ Len(q) \in Nat \ {0}
      /\ Len(Tail(q)) = Len(q) - 1
      /\ Head(q) \in S /\ Head(q) = q[1]
  OBVIOUS
<1>2. ASSUME NEW i \in 1..Len(Tail(q))
      PROVE  i + 1 \in 1..Len(q) /\ Tail(q)[i] = q[i + 1]
  BY <1>1
<1> QED BY <1>1, <1>2

LEMMA NfcEvents ==
    /\ NoScan \notin Scans
    /\ \A e \in Scans : e.cmd = "scan" /\ e.uid \in Tags
    /\ \A e \in Commands :
        /\ e.cmd \in {"arm_enroll", "cancel_enroll", "add_tag", "remove_tag"}
        /\ e.cmd \in {"add_tag", "remove_tag"} => e.uid \in Tags
  BY DEF NoScan, Scans, Commands

\* What the dispatch of an event does to the arm and the tags.
LEMMA NfcDispatchType ==
    ASSUME NfcTypeOK, NEW e \in Scans \cup Commands,
           IF e.cmd = "scan" THEN Decide(e) ELSE Obey(e)
    PROVE  /\ authorized' \subseteq Tags /\ armed' \in BOOLEAN
           /\ outcome' \in {"none", "captured", "granted", "denied"}
<1>1. authorized \subseteq Tags /\ armed \in BOOLEAN
  BY DEF NfcTypeOK
<1>2. CASE e.cmd = "scan"
  <2>1. e.uid \in Tags /\ Decide(e)
    BY <1>2, NfcEvents
  <2>2. CASE armed
    BY <1>1, <2>1, <2>2 DEF Decide, Capture
  <2>3. CASE ~armed
    BY <1>1, <2>1, <2>3 DEF Decide
  <2> QED  BY <2>2, <2>3
<1>3. CASE e.cmd # "scan"
  <2>1. /\ e.cmd \in {"arm_enroll", "cancel_enroll", "add_tag", "remove_tag"}
        /\ e.cmd \in {"add_tag", "remove_tag"} => e.uid \in Tags
        /\ Obey(e)
    BY <1>3, NfcEvents
  <2>2. outcome' = "none"
    BY <2>1 DEF Obey, NothingDecided
  <2>3. armed' \in BOOLEAN
    BY <1>1, <2>1 DEF Obey
  <2>4. authorized' \subseteq Tags
    BY <1>1, <2>1 DEF Obey
  <2> QED  BY <2>2, <2>3, <2>4
<1> QED  BY <1>2, <1>3

LEMMA NfcStartsRight ==
    NfcInit => NfcIInv
<1> SUFFICES ASSUME NfcInit
             PROVE  NfcIInv
  OBVIOUS
<1>1. queue \in Seq(Scans \cup Commands) /\ Len(queue) = 0
  BY DEF NfcInit
<1>2. NfcTypeOK
  <2>1. /\ card \in Tags \cup {NoTag} /\ fate = "none" /\ reader = "waiting"
        /\ scan = NoScan /\ linked = FALSE /\ lastUid = NoTag /\ recent = FALSE
        /\ authorized \in SUBSET Tags /\ armed = FALSE /\ outcome = "none"
        /\ restarts = 0
    BY DEF NfcInit
  <2>2. 0 \in 0..MaxRestarts /\ 0 <= MaxQueue
    BY NfcAssumption
  <2> QED  BY <1>1, <2>1, <2>2 DEF NfcTypeOK
<1>3. LedFits(scan)
  BY NfcEvents DEF NfcInit, LedFits
<1> QED  BY <1>1, <1>2, <1>3 DEF NfcIInv

\* A step that leaves the queue alone and chooses no LED keeps the LEDs.
LEMMA LedsStay ==
    ASSUME NfcIInv, UNCHANGED queue, scan' \in {scan, NoScan}
    PROVE  LedFits(scan') /\ \A i \in 1..Len(queue') : LedFits(queue'[i])
  BY NfcEvents DEF NfcIInv, LedFits

LEMMA NfcReadStays ==
    ASSUME NfcIInv, Read
    PROVE  NfcIInv'
<1> DEFINE granted == card \in authorized \/ armed
<1>1. NfcTypeOK
  BY DEF NfcIInv
<1>2. /\ reader' = "signalling" /\ scan' = Scan(card, granted) /\ linked' = TRUE
      /\ fate' = "read" /\ outcome' = "none"
      /\ UNCHANGED <<card, lastUid, recent, queue, authorized, armed, restarts>>
      /\ card # NoTag
  BY DEF Read, ReadWith, NothingDecided, main
<1>3. card \in Tags /\ granted \in BOOLEAN /\ armed \in BOOLEAN
      /\ (card \in authorized) \in BOOLEAN
  BY <1>1, <1>2 DEF NfcTypeOK
<1> HIDE DEF granted
<1>4. scan' \in Scans
  BY <1>2, <1>3 DEF Scan, Scans
<1>5. scan' # NoScan
  BY <1>4, NfcEvents
<1>6. NfcTypeOK'
  BY <1>1, <1>2, <1>4, <1>5 DEF NfcTypeOK
<1>7. scan'.green = granted /\ scan'.armed = armed /\ scan'.known = (card \in authorized)
  BY <1>2 DEF Scan
<1>8. LedFits(scan')
  BY <1>7 DEF LedFits, granted
<1>9. \A i \in 1..Len(queue') : LedFits(queue'[i])
  BY <1>2 DEF NfcIInv, LedFits
<1> QED  BY <1>6, <1>8, <1>9 DEF NfcIInv

\* An event with an LED that fits, or a command, takes its place behind the others.
LEMMA NfcAppended ==
    ASSUME NfcIInv, NEW e \in Scans \cup Commands, LedFits(e),
           queue' = Append(queue, e), Len(queue) < MaxQueue, MaxQueue \in Nat
    PROVE  /\ queue' \in Seq(Scans \cup Commands)
           /\ Len(queue') <= MaxQueue
           /\ \A i \in 1..Len(queue') : LedFits(queue'[i])
<1>1. queue \in Seq(Scans \cup Commands)
      /\ \A i \in 1..Len(queue) : LedFits(queue[i])
  BY DEF NfcIInv, NfcTypeOK
<1>2. /\ queue' \in Seq(Scans \cup Commands) /\ Len(queue) \in Nat
      /\ Len(queue') = Len(queue) + 1
      /\ queue'[Len(queue) + 1] = e
      /\ \A i \in 1..Len(queue) : queue'[i] = queue[i]
      /\ \A i \in 1..(Len(queue) + 1) : i \in 1..Len(queue) \/ i = Len(queue) + 1
  BY <1>1, Appended
<1>3. Len(queue') <= MaxQueue
  BY <1>2
<1>4. \A i \in 1..Len(queue') : LedFits(queue'[i])
  <2> TAKE i \in 1..Len(queue')
  <2>1. queue'[i] = e \/ \E j \in 1..Len(queue) : queue'[i] = queue[j]
    BY <1>2
  <2> QED  BY <1>1, <2>1
<1> QED  BY <1>2, <1>3, <1>4

LEMMA NfcPostStays ==
    ASSUME NfcIInv, Post
    PROVE  NfcIInv'
<1>1. NfcTypeOK /\ LedFits(scan) /\ MaxQueue \in Nat
  BY NfcAssumption DEF NfcIInv
<1>2. /\ reader = "signalling" /\ reader' = "holding" /\ scan' = NoScan
      /\ outcome' = "none"
      /\ UNCHANGED <<card, linked, authorized, armed, restarts>>
  BY DEF Post, PostWithin, NothingDecided, main
<1>3. scan \in Scans /\ scan.uid \in Tags
  BY <1>1, <1>2, NfcEvents DEF NfcTypeOK
<1>4. /\ lastUid' \in Tags \cup {NoTag} /\ recent' \in BOOLEAN
      /\ fate' \in {"none", "read", "posted", "dropped", "misread"}
      /\ queue' = queue \/ (Len(queue) < MaxQueue /\ queue' = Append(queue, scan))
  <2>1. CASE Debounced
    BY <1>1, <2>1 DEF Post, PostWithin, NfcTypeOK
  <2>2. CASE ~Debounced
    <3>1. /\ lastUid' = scan.uid /\ recent' = TRUE
          /\ queue' = IF Len(queue) < MaxQueue THEN Append(queue, scan) ELSE queue
          /\ fate' \in {fate, "dropped", "posted"}
      BY <2>2 DEF Post, PostWithin
    <3> QED  BY <1>1, <1>3, <3>1 DEF NfcTypeOK
  <2> QED  BY <2>1, <2>2
<1>5. /\ queue' \in Seq(Scans \cup Commands) /\ Len(queue') <= MaxQueue
      /\ \A i \in 1..Len(queue') : LedFits(queue'[i])
  <2>1. CASE queue' = queue
    BY <1>1, <2>1 DEF NfcIInv, NfcTypeOK
  <2>2. CASE Len(queue) < MaxQueue /\ queue' = Append(queue, scan)
    BY <1>1, <1>3, <2>2, NfcAppended
  <2> QED  BY <1>4, <2>1, <2>2
<1>6. NfcTypeOK'
  BY <1>1, <1>2, <1>4, <1>5 DEF NfcTypeOK
<1>7. LedFits(scan')
  BY <1>2, NfcEvents DEF LedFits
<1> QED  BY <1>5, <1>6, <1>7 DEF NfcIInv

LEMMA NfcDispatchStays ==
    ASSUME NfcIInv, Dispatch
    PROVE  NfcIInv'
<1>1. NfcTypeOK /\ LedFits(scan)
  BY DEF NfcIInv
<1>2. queue \in Seq(Scans \cup Commands) /\ queue # <<>>
      /\ \A i \in 1..Len(queue) : LedFits(queue[i])
  BY DEF NfcIInv, NfcTypeOK, Dispatch
<1>3. /\ queue' = Tail(queue)
      /\ UNCHANGED <<card, fate, reader, scan, linked, lastUid, recent, restarts>>
  BY DEF Dispatch, thread
<1>4. /\ Tail(queue) \in Seq(Scans \cup Commands) /\ Len(queue) \in Nat \ {0}
      /\ Len(Tail(queue)) = Len(queue) - 1
      /\ Head(queue) \in Scans \cup Commands
      /\ \A i \in 1..Len(Tail(queue)) : \E j \in 1..Len(queue) : Tail(queue)[i] = queue[j]
  <2>1. \A i \in 1..Len(Tail(queue)) : Tail(queue)[i] = queue[i + 1]
                                       /\ i + 1 \in 1..Len(queue)
    BY <1>2, Taken
  <2> QED  BY <1>2, <2>1, Taken
<1>5. /\ authorized' \subseteq Tags /\ armed' \in BOOLEAN
      /\ outcome' \in {"none", "captured", "granted", "denied"}
  BY <1>1, <1>4, NfcDispatchType DEF Dispatch
<1>6. Len(queue') <= MaxQueue
  <2>1. Len(queue) <= MaxQueue /\ MaxQueue \in Nat
    BY <1>1, NfcAssumption DEF NfcTypeOK
  <2> QED  BY <1>3, <1>4, <2>1
<1>7. NfcTypeOK'
  BY <1>1, <1>3, <1>4, <1>5, <1>6 DEF NfcTypeOK
<1>8. \A i \in 1..Len(queue') : LedFits(queue'[i])
  BY <1>2, <1>3, <1>4
<1> QED  BY <1>1, <1>3, <1>7, <1>8 DEF NfcIInv

LEMMA NfcInductive ==
    NfcIInv /\ [NfcNext]_nfcvars => NfcIInv'
<1> SUFFICES ASSUME NfcIInv, [NfcNext]_nfcvars
             PROVE  NfcIInv'
  OBVIOUS
<1>1. NfcTypeOK /\ MaxQueue \in Nat /\ MaxRestarts \in Nat
  BY NfcAssumption DEF NfcIInv
<1>2. CASE Place \/ Lift \/ Glitch
  <2>1. NfcTypeOK' /\ UNCHANGED <<queue, scan>>
    BY <1>1, <1>2 DEF Place, Lift, Glitch, NothingDecided, thread,
       main, NfcTypeOK
  <2> QED  BY <2>1, LedsStay DEF NfcIInv
<1>3. CASE Misread
  <2>1. NfcTypeOK' /\ UNCHANGED <<queue, scan>>
    BY <1>1, <1>3 DEF Misread, NothingDecided, main, NfcTypeOK
  <2> QED  BY <2>1, LedsStay DEF NfcIInv
<1>4. CASE CardLeft
  <2>1. NfcTypeOK' /\ UNCHANGED <<queue, scan>>
    BY <1>1, <1>4 DEF CardLeft, LeaveWith, NothingDecided, main, NfcTypeOK
  <2> QED  BY <2>1, LedsStay DEF NfcIInv
<1>5. CASE DebounceEnds \/ Expire
  <2>1. NfcTypeOK' /\ UNCHANGED <<queue, scan>>
    BY <1>1, <1>5 DEF DebounceEnds, Expire, NothingDecided, thread,
       main, NfcTypeOK
  <2> QED  BY <2>1, LedsStay DEF NfcIInv
<1>6. CASE Request
  <2>1. PICK c \in Commands : queue' = Append(queue, c)
    BY <1>6 DEF Request
  <2>2. LedFits(c)
    BY NfcEvents DEF LedFits
  <2>3. Len(queue) < MaxQueue
    BY <1>6 DEF Request
  <2>4. /\ queue' \in Seq(Scans \cup Commands) /\ Len(queue') <= MaxQueue
        /\ \A i \in 1..Len(queue') : LedFits(queue'[i])
    BY <1>1, <2>1, <2>2, <2>3, NfcAppended
  <2>5. /\ UNCHANGED <<card, fate, reader, scan, linked, lastUid, recent, authorized, armed,
                       restarts>>
        /\ outcome' = "none"
    BY <1>6 DEF Request, NothingDecided, thread, main
  <2>6. NfcTypeOK'
    BY <1>1, <2>4, <2>5 DEF NfcTypeOK
  <2> QED  BY <2>4, <2>5, <2>6 DEF NfcIInv, LedFits
<1>7. CASE Restart
  <2>1. /\ queue' = <<>> /\ scan' = NoScan
        /\ fate' = "none" /\ reader' = "waiting" /\ linked' = FALSE
        /\ lastUid' = NoTag /\ recent' = FALSE /\ armed' = FALSE
        /\ outcome' = "none" /\ UNCHANGED <<card, authorized>>
        /\ restarts' \in 0..MaxRestarts
    BY <1>1, <1>7 DEF Restart, NothingDecided, NfcTypeOK
  <2>2. queue' \in Seq(Scans \cup Commands) /\ Len(queue') = 0
    BY <2>1
  <2>3. NfcTypeOK'
    <3>1. card' \in Tags \cup {NoTag} /\ authorized' \in SUBSET Tags
      BY <1>1, <2>1 DEF NfcTypeOK
    <3>2. Len(queue') <= MaxQueue
      BY <1>1, <2>2
    <3> QED  BY <2>1, <2>2, <3>1, <3>2 DEF NfcTypeOK
  <2>4. LedFits(scan')
    BY <2>1, NfcEvents DEF LedFits
  <2> QED  BY <2>2, <2>3, <2>4 DEF NfcIInv
<1>8. CASE UNCHANGED nfcvars
  BY <1>8 DEF nfcvars, thread, main, NfcIInv, NfcTypeOK, LedFits
<1> QED  BY <1>2, <1>3, <1>4, <1>5, <1>6, <1>7, <1>8, NfcReadStays, NfcPostStays,
            NfcDispatchStays DEF NfcNext

\* Only a dispatch shortens the queue without a restart, and the scan it takes is decided
\* by the arm and the authorization that its LED was chosen by, if they are still the same.
LEMMA LedStep ==
    ASSUME NfcIInv, [NfcNext]_nfcvars,
           Len(queue') < Len(queue), restarts' = restarts,
           Head(queue) \in Scans, Head(queue).armed = armed,
           Head(queue).known = (Head(queue).uid \in authorized)
    PROVE  Head(queue).green <=> outcome' # "denied"
<1>1. NfcTypeOK /\ queue \in Seq(Scans \cup Commands) /\ Len(queue) \in Nat
  BY DEF NfcIInv, NfcTypeOK
<1>2. Dispatch
  <2>1. queue' # queue
    BY <1>1
  <2>2. ~Restart
    <3>1. restarts \in Nat
      BY <1>1 DEF NfcTypeOK
    <3> QED  BY <3>1 DEF Restart
  <2>3. ASSUME NEW e \in Scans \cup Commands, queue' = Append(queue, e)
        PROVE  FALSE
    BY <1>1, <2>3, Appended
  <2>4. ~Request
    BY <2>3 DEF Request
  <2>5. ~Post
    <3>1. SUFFICES ASSUME Post
                   PROVE  FALSE
      OBVIOUS
    <3>2. scan \in Scans
      BY <1>1, <3>1 DEF NfcTypeOK, Post, PostWithin
    <3>3. queue' = queue \/ queue' = Append(queue, scan)
      BY <3>1 DEF Post, PostWithin
    <3> QED  BY <2>1, <2>3, <3>2, <3>3
  <2> QED  BY <2>1, <2>2, <2>4, <2>5 DEF NfcNext, nfcvars, Place, Lift,
              Glitch, Read, ReadWith, Misread, CardLeft, LeaveWith,
              DebounceEnds, Expire
<1>3. Head(queue) = queue[1] /\ 1 \in 1..Len(queue)
  BY <1>1, <1>2, Taken DEF Dispatch
<1>4. Head(queue).green <=> armed \/ Head(queue).uid \in authorized
  BY <1>3 DEF NfcIInv, LedFits
<1>5. Decide(Head(queue))
  BY <1>2, NfcEvents DEF Dispatch
<1>6. outcome' # "denied" <=> armed \/ Head(queue).uid \in authorized
  BY <1>5 DEF Decide
<1> QED  BY <1>4, <1>6

\* The variables of the reader thread, the card and the main thread keep their types, and
\* the event queue its maxsize (nfc_reader.py, _run and _post_uid_event; main.py:498).
THEOREM NfcTypeCorrect ==
    NfcSpec => []NfcTypeOK
<1>1. NfcIInv => NfcTypeOK
  BY DEF NfcIInv
<1> QED  BY NfcStartsRight, NfcInductive, <1>1, PTL DEF NfcSpec

\* The LED does not lie: unless the arm or the tag's authorization changed after it was
\* chosen, a scan that showed green is granted or captured, one that showed blue denied
\* (nfc_reader.py, _signal_read; main.py, _handle_nfc).
THEOREM LedAlwaysMatches ==
    NfcSpec => LedMatchesOutcome
<1>1. NfcIInv /\ [NfcNext]_nfcvars
        => [/\ Len(queue') < Len(queue) /\ restarts' = restarts
            /\ Head(queue) \in Scans
            /\ Head(queue).armed = armed
            /\ Head(queue).known = (Head(queue).uid \in authorized)
            => (Head(queue).green <=> outcome' # "denied")]_nfcvars
  BY LedStep
<1> QED  BY NfcStartsRight, NfcInductive, <1>1, PTL DEF NfcSpec, LedMatchesOutcome

=============================================================================
