---------------------------- MODULE UpdaterProofs ----------------------------
(***************************************************************************)
(* The updater for every number of commits and whatever each of them does  *)
(* to the Pi: the installed files are those of the checkout, and a release *)
(* that does not come up does not stay.                                    *)
(*                                                                         *)
(* Both properties only speak of a unit that is off.  What carries them    *)
(* through a run is (1) that files and HEAD agree at every point of the    *)
(* script except between the merge and the installer and while a rollback  *)
(* is still to be made, (2) that the release a rollback would go back to   *)
(* is one that came up, and (3) what a restart says of the files it was    *)
(* made with.  The third holds whatever went wrong in earlier updates: the *)
(* update that ends well makes them good.                                  *)
(***************************************************************************)
EXTENDS Updater, TLAPS

Troubles == {"interrupted", "check interrupted", "local edits", "reset failed",
             "reinstall failed"}

\* The points of update.sh between a change of HEAD or of the files and the other one.
Unsettled == {"install", "undo_install", "undo_restart"}

Settled ==
    trouble \subseteq {"check interrupted", "reset failed"} /\ apply \notin Unsettled
        => files = head

ComesUp(f) == f \in Commits /\ sound[f] \in {"good", "late"}

\* Before the merge and after a rollback the installed release is in order; in between
\* the one to go back to is.
WayBack ==
    trouble \subseteq {"check interrupted"} =>
        /\ apply \in {"off", "fetch", "merge", "resample", "recovered", "lost"} => Managed
        /\ apply \in {"merge", "install", "undo_install", "sample", "healthy",
                      "undo_restart"} => ComesUp(before)

\* A release that was installed and started runs or has gone down.
Started ==
    (apply \in {"sample", "healthy"} /\ edited = FALSE) =>
        /\ files = head
        /\ \/ service = files /\ ComesUp(files)
           \/ service = Down /\ sound[files] # "good"
        /\ apply = "healthy" => Managed

IInv == TypeOK /\ Settled /\ WayBack /\ Started

----------------------------------------------------------------------------
(* The installer and systemd *)

\* What runs after a restart is a commit, a mixture or nothing.
LEMMA RunsType ==
    ASSUME NEW f \in Commits \cup {Mixed}
    PROVE  Runs(f) \subseteq Commits \cup {Mixed, Down}
  BY DEF Runs

\* A release that comes up runs after a restart, one that does not leaves nothing running.
LEMMA RunsIs ==
    ASSUME NEW f \in Commits
    PROVE  Runs(f) = IF ComesUp(f) THEN {f} ELSE {Down}
<1>1. f # Mixed
  BY FilesAssumption, MaxCommitAssumption DEF Commits
<1> QED BY <1>1 DEF Runs, ComesUp

\* No commit is mistaken for a service that is down.
LEMMA NotDown == Down \notin Commits /\ Mixed \notin Commits /\ Mixed # Down
  BY FilesAssumption, MaxCommitAssumption DEF Commits

\* The installer leaves files of one commit or a mixture; a complete installation from an
\* unedited checkout leaves those of HEAD.
LEMMA InstallIs ==
    ASSUME files \in Commits \cup {Mixed}, head' \in Commits, edited' \in BOOLEAN,
           Install \/ InstallFails
    PROVE  /\ files' \in Commits \cup {Mixed}
           /\ Install /\ edited' = FALSE => files' = head'
<1>1. Tree' \in {Mixed, head'} /\ (edited' = FALSE => Tree' = head')
  BY DEF Tree
<1> QED BY <1>1 DEF Install, InstallFails

\* Undoing an update keeps types; the files are those of HEAD, and HEAD is where the update
\* began, or trouble has a trace of it.
LEMMA ReinstallIs ==
    ASSUME TypeOK, Reinstall
    PROVE  /\ head' \in Commits /\ edited' \in BOOLEAN
           /\ files' \in Commits \cup {Mixed}
           /\ trouble' \subseteq Troubles /\ trouble \subseteq trouble'
           /\ trouble' \subseteq {"check interrupted", "reset failed"} => files' = head'
           /\ trouble' \subseteq {"check interrupted"} => head' = before
<1>1. PICK reset \in {{}, {"reset failed"}}, install \in {{}, {"reinstall failed"}} :
          /\ IF reset = {} THEN Reset ELSE ResetFails
          /\ IF install = {} THEN Install ELSE InstallFails
          /\ trouble' = trouble \cup reset \cup install \cup LocalEdits'
  BY DEF Reinstall
<1>2. /\ head \in Commits /\ before \in Commits /\ edited \in BOOLEAN
      /\ files \in Commits \cup {Mixed} /\ trouble \subseteq Troubles
  BY DEF TypeOK, Troubles
<1>3. head' \in Commits /\ edited' \in BOOLEAN /\ (reset = {} => head' = before)
  BY <1>1, <1>2 DEF Reset, ResetFails
<1>4. Install \/ InstallFails
  BY <1>1
<1>5. files' \in Commits \cup {Mixed} /\ (Install /\ edited' = FALSE => files' = head')
  BY <1>2, <1>3, <1>4, InstallIs
<1>6. /\ LocalEdits' \subseteq Troubles
      /\ edited' = FALSE \/ "local edits" \in LocalEdits'
  BY <1>3 DEF LocalEdits, Troubles
<1>7. trouble' \subseteq Troubles /\ trouble \subseteq trouble'
  BY <1>1, <1>2, <1>6 DEF Troubles
<1>8. ASSUME trouble' \subseteq {"check interrupted", "reset failed"} PROVE files' = head'
  <2>1. "local edits" \notin trouble' /\ "reinstall failed" \notin trouble'
    BY <1>8
  <2>2. edited' = FALSE /\ install = {}
    BY <1>1, <1>6, <2>1
  <2> QED BY <1>1, <1>5, <2>2
<1>9. ASSUME trouble' \subseteq {"check interrupted"} PROVE head' = before
  <2>1. "reset failed" \notin trouble'
    BY <1>9
  <2>2. reset = {}
    BY <1>1, <2>1
  <2> QED BY <1>3, <2>2
<1> QED BY <1>3, <1>5, <1>7, <1>8, <1>9

\* Restarting the service gives it a typed value.
LEMMA RestartType ==
    ASSUME files' \in Commits \cup {Mixed}, Restart
    PROVE  service' \in Commits \cup {Mixed, Down}
  BY RunsType DEF Restart

\* A rollback that met no trouble leaves the lock with the release it went back to.
LEMMA UndoneIsManaged ==
    ASSUME TypeOK, WayBack, apply \in {"undo_install", "undo_restart"},
           Reinstall, Restart, sound' = sound,
           trouble' \subseteq {"check interrupted"}
    PROVE  Managed'
<1>1. /\ files' = before /\ before \in Commits
      /\ trouble \subseteq {"check interrupted"}
  BY ReinstallIs DEF TypeOK
<1>2. ComesUp(before)
  BY <1>1 DEF WayBack
<1>3. service' = before
  BY <1>1, <1>2, RunsIs DEF Restart
<1> QED BY <1>1, <1>2, <1>3 DEF Managed, ComesUp

----------------------------------------------------------------------------
(* The steps *)

\* The first commit is installed and runs.
LEMMA InvInit == Init => IInv
<1> SUFFICES ASSUME Init PROVE IInv
  OBVIOUS
<1>1. 1 \in Commits
  BY MaxCommitAssumption DEF Commits
<1>2. TypeOK
  BY <1>1 DEF Init, TypeOK, States
<1>3. Managed
  BY <1>1 DEF Init, Managed
<1> QED BY <1>2, <1>3 DEF IInv, Settled, WayBack, Started, Init

\* The script up to the merge.
LEMMA MergeKeepsInv ==
    ASSUME IInv,
           \/ ApplyStarts \/ ApplyFetchFails \/ ApplyUpToDate \/ ApplyFetches
           \/ ApplyMergeFails \/ ApplyMerges
    PROVE  IInv'
<1> USE DEF git, units, Unsettled, Status, States
<1>1. TypeOK /\ Settled /\ WayBack /\ Started
  BY DEF IInv
<1>2. CASE ApplyStarts
  BY <1>1, <1>2 DEF IInv, TypeOK, Settled, WayBack, Started, Managed, ApplyStarts
<1>3. CASE ApplyFetchFails
  BY <1>1, <1>3 DEF IInv, TypeOK, Settled, WayBack, Started, Managed, ApplyFetchFails
<1>4. CASE ApplyUpToDate
  BY <1>1, <1>4 DEF IInv, TypeOK, Settled, WayBack, Started, Managed, ApplyUpToDate
<1>5. CASE ApplyFetches
  <2>1. trouble \subseteq {"check interrupted"} => Managed /\ files = head
    BY <1>1, <1>5 DEF ApplyFetches, Settled, WayBack
  <2>2. TypeOK'
    BY <1>1, <1>5 DEF TypeOK, ApplyFetches
  <2>3. Settled' /\ Started'
    BY <1>1, <1>5 DEF Settled, Started, ApplyFetches
  <2>4. WayBack'
    BY <1>1, <1>5, <2>1 DEF WayBack, ApplyFetches, Managed, ComesUp
  <2> QED BY <2>2, <2>3, <2>4 DEF IInv
<1>6. CASE ApplyMergeFails
  BY <1>1, <1>6 DEF IInv, TypeOK, Settled, WayBack, Started, Managed, ApplyMergeFails
<1>7. CASE ApplyMerges
  BY <1>1, <1>7 DEF IInv, TypeOK, Settled, WayBack, Started, ComesUp, ApplyMerges
<1> QED BY <1>2, <1>3, <1>4, <1>5, <1>6, <1>7

\* The installation and the restart.
LEMMA InstallKeepsInv ==
    ASSUME IInv, ApplyInstalls \/ ApplyInstallFails
    PROVE  IInv'
<1> USE DEF git, Status, States
<1>1. /\ TypeOK /\ WayBack /\ head' = head /\ edited' = edited
      /\ head \in Commits /\ edited \in BOOLEAN /\ files \in Commits \cup {Mixed}
  BY DEF IInv, TypeOK, ApplyInstalls, ApplyInstallFails
<1>2. CASE ApplyInstalls
  <2>1. /\ files' \in Commits \cup {Mixed}
        /\ edited = FALSE => files' = head'
    BY <1>1, <1>2, InstallIs DEF ApplyInstalls
  <2>2. service' \in Commits \cup {Mixed, Down}
    BY <1>2, <2>1, RestartType DEF ApplyInstalls
  <2>3. /\ LocalEdits \subseteq Troubles
        /\ edited = FALSE \/ "local edits" \in LocalEdits
    BY <1>1 DEF LocalEdits, Troubles
  <2>4. TypeOK'
    BY <1>1, <1>2, <2>1, <2>2, <2>3 DEF TypeOK, ApplyInstalls, Troubles
  <2>5. Settled'
    <3>1. "local edits" \in trouble' \/ files' = head'
      BY <1>2, <2>1, <2>3 DEF ApplyInstalls
    <3> QED BY <3>1 DEF Settled
  <2>6. WayBack'
    BY <1>1, <1>2 DEF WayBack, ComesUp, ApplyInstalls
  <2>7. Started'
    <3>1. SUFFICES ASSUME edited' = FALSE
                   PROVE  /\ files' = head'
                          /\ \/ service' = files' /\ ComesUp(files)'
                             \/ service' = Down /\ sound'[files'] # "good"
      BY <1>2 DEF Started, ApplyInstalls
    <3>2. files' = head' /\ files' \in Commits
      BY <1>1, <2>1, <3>1
    <3>3. service' \in Runs(files') /\ sound' = sound /\ sound \in [Commits -> Kinds]
      BY <1>1, <1>2 DEF ApplyInstalls, Restart, TypeOK
    <3> QED BY <3>2, <3>3, RunsIs DEF ComesUp
  <2> QED BY <2>4, <2>5, <2>6, <2>7 DEF IInv
<1>3. CASE ApplyInstallFails
  <2>1. files' \in Commits \cup {Mixed}
    BY <1>1, <1>3, InstallIs DEF ApplyInstallFails
  <2>2. TypeOK'
    BY <1>1, <1>3, <2>1 DEF TypeOK, ApplyInstallFails
  <2>3. Settled' /\ Started'
    BY <1>3 DEF Settled, Unsettled, Started, ApplyInstallFails
  <2>4. WayBack'
    BY <1>1, <1>3 DEF WayBack, ComesUp, ApplyInstallFails
  <2> QED BY <2>2, <2>3, <2>4 DEF IInv
<1> QED BY <1>2, <1>3

\* The health check that ends well.
LEMMA VerdictKeepsInv ==
    ASSUME IInv, ApplySampleActive \/ ApplySampleDown \/ ApplySaysOk
    PROVE  IInv'
<1> USE DEF git, Status, States
<1>1. TypeOK /\ Settled /\ WayBack /\ Started /\ edited \in BOOLEAN
  BY DEF IInv, TypeOK
<1>2. CASE ApplySampleActive
  <2>1. TypeOK' /\ Settled'
    BY <1>1, <1>2 DEF TypeOK, Settled, Unsettled, ApplySampleActive
  <2>2. WayBack'
    BY <1>1, <1>2 DEF WayBack, ComesUp, ApplySampleActive
  <2>3. edited = FALSE => files = head /\ service = files /\ ComesUp(files)
    BY <1>1, <1>2 DEF Started, ApplySampleActive
  <2>4. Started'
    BY <1>2, <2>3 DEF Started, Managed, ComesUp, ApplySampleActive
  <2> QED BY <2>1, <2>2, <2>4 DEF IInv
<1>3. CASE ApplySampleDown
  <2>1. TypeOK' /\ Settled' /\ Started'
    BY <1>1, <1>3 DEF TypeOK, Settled, Unsettled, Started, ApplySampleDown
  <2>2. WayBack'
    BY <1>1, <1>3 DEF WayBack, ComesUp, ApplySampleDown
  <2> QED BY <2>1, <2>2 DEF IInv
<1>4. CASE ApplySaysOk
  <2>1. /\ LocalEdits \subseteq Troubles
        /\ edited = FALSE \/ "local edits" \in LocalEdits
    BY <1>1 DEF LocalEdits, Troubles
  <2>2. TypeOK'
    BY <1>1, <1>4, <2>1 DEF TypeOK, ApplySaysOk, Troubles
  <2>3. "local edits" \in trouble' \/ (files = head /\ Managed)
    BY <1>1, <1>4, <2>1 DEF Started, ApplySaysOk
  <2>4. Settled'
    BY <1>4, <2>3 DEF Settled, ApplySaysOk
  <2>5. WayBack'
    BY <1>4, <2>3 DEF WayBack, Managed, ApplySaysOk
  <2>6. Started'
    BY <1>4 DEF Started, ApplySaysOk
  <2> QED BY <2>2, <2>4, <2>5, <2>6 DEF IInv
<1> QED BY <1>2, <1>3, <1>4

\* The two rollbacks.
LEMMA RollbackKeepsInv ==
    ASSUME IInv,
           ApplyUndoesInstall \/ ApplyUndoesRestart \/ ApplyResamples \/ ApplySaysUndone
    PROVE  IInv'
<1> USE DEF git, Status, States
<1>1. TypeOK /\ Settled /\ WayBack /\ Started
  BY DEF IInv
<1>2. CASE ApplyUndoesInstall \/ ApplyUndoesRestart
  <2>1. /\ apply \in {"undo_install", "undo_restart"} /\ apply' \in {"recovered", "resample"}
        /\ Reinstall /\ Restart
        /\ UNCHANGED <<sound, origin, fetched, check, before, status>>
    BY <1>2 DEF ApplyUndoesInstall, ApplyUndoesRestart
  <2>2. /\ head' \in Commits /\ edited' \in BOOLEAN
        /\ files' \in Commits \cup {Mixed}
        /\ trouble' \subseteq Troubles
        /\ trouble' \subseteq {"check interrupted", "reset failed"} => files' = head'
    BY <1>1, <2>1, ReinstallIs
  <2>3. service' \in Commits \cup {Mixed, Down}
    BY <2>1, <2>2, RestartType
  <2>4. TypeOK'
    BY <1>1, <2>1, <2>2, <2>3 DEF TypeOK, Troubles
  <2>5. Settled' /\ Started'
    BY <2>1, <2>2 DEF Settled, Started
  <2>6. trouble' \subseteq {"check interrupted"} => Managed'
    BY <1>1, <2>1, UndoneIsManaged
  <2>7. WayBack'
    BY <2>1, <2>6 DEF WayBack
  <2> QED BY <2>4, <2>5, <2>7 DEF IInv
<1>3. CASE ApplyResamples
  <2>1. /\ apply = "resample" /\ apply' \in {"recovered", "lost"}
        /\ UNCHANGED <<sound, git, files, service, check, before, status, trouble>>
    BY <1>3 DEF ApplyResamples
  <2>2. TypeOK'
    BY <1>1, <2>1 DEF TypeOK
  <2>3. Settled' /\ Started'
    BY <1>1, <2>1 DEF Settled, Unsettled, Started
  <2>4. WayBack'
    BY <1>1, <2>1 DEF WayBack, Managed
  <2> QED BY <2>2, <2>3, <2>4 DEF IInv
<1>4. CASE ApplySaysUndone
  <2>1. /\ apply \in {"recovered", "lost"} /\ apply' = "off" /\ status' \in States
        /\ UNCHANGED <<sound, git, files, service, check, before, trouble>>
    BY <1>4 DEF ApplySaysUndone
  <2>2. TypeOK'
    BY <1>1, <2>1 DEF TypeOK
  <2>3. Settled' /\ Started'
    BY <1>1, <2>1 DEF Settled, Unsettled, Started
  <2>4. WayBack'
    BY <1>1, <2>1 DEF WayBack, Managed
  <2> QED BY <2>2, <2>3, <2>4 DEF IInv
<1> QED BY <1>2, <1>3, <1>4

\* The door service, which dies and is started again with the files that are there.
LEMMA ServiceKeepsInv ==
    ASSUME IInv, ServiceDies \/ ServiceStarts
    PROVE  IInv'
<1> USE DEF git, units
<1>1. /\ TypeOK /\ Settled /\ WayBack /\ Started
      /\ files \in Commits \cup {Mixed}
      /\ UNCHANGED <<sound, git, files, units, status, trouble>>
  BY DEF IInv, TypeOK, ServiceDies, ServiceStarts
<1>2. service' \in Commits \cup {Mixed, Down}
  BY <1>1, RunsType DEF ServiceDies, ServiceStarts
<1>3. Managed => Managed'
  <2> SUFFICES ASSUME Managed PROVE Managed'
    OBVIOUS
  <2>1. CASE ServiceDies
    BY <1>1, <2>1, NotDown DEF Managed, ServiceDies
  <2>2. CASE ServiceStarts
    BY <1>1, <2>2, RunsIs DEF Managed, ServiceStarts, ComesUp
  <2> QED BY <2>1, <2>2
<1>4. TypeOK' /\ Settled'
  BY <1>1, <1>2 DEF TypeOK, Settled
<1>5. WayBack'
  BY <1>1, <1>3 DEF WayBack, ComesUp
<1>6. Started'
  <2> SUFFICES ASSUME apply \in {"sample", "healthy"}, edited = FALSE
               PROVE  /\ files = head
                      /\ \/ service' = files /\ ComesUp(files)
                         \/ service' = Down /\ sound[files] # "good"
                      /\ apply = "healthy" => Managed'
    BY <1>1 DEF Started, ComesUp
  <2>1. /\ files = head /\ files \in Commits
        /\ \/ service = files /\ ComesUp(files)
           \/ service = Down /\ sound[files] # "good"
        /\ apply = "healthy" => Managed'
    BY <1>1, <1>3 DEF Started, TypeOK
  <2>2. CASE ServiceDies
    BY <2>1, <2>2, NotDown DEF ServiceDies
  <2>3. CASE ServiceStarts
    <3>1. service = Down /\ service' \in Runs(files)
      BY <2>3 DEF ServiceStarts
    <3> QED BY <2>1, <3>1, RunsIs, NotDown DEF ComesUp
  <2> QED BY <2>1, <2>2, <2>3
<1> QED BY <1>4, <1>5, <1>6 DEF IInv

\* Every step keeps the inductive invariant.
LEMMA InvStep == IInv /\ [Next]_vars => IInv'
<1> SUFFICES ASSUME IInv, [Next]_vars PROVE IInv'
  OBVIOUS
<1> USE DEF git, units, Status, States
<1>1. TypeOK /\ Settled /\ WayBack /\ Started
  BY DEF IInv
<1>2. CASE ApplyStarts \/ Apply
  BY <1>2, MergeKeepsInv, InstallKeepsInv, VerdictKeepsInv, RollbackKeepsInv DEF Apply
<1>3. CASE CheckStarts \/ CheckEnds \/ SanityFails
  <2>1. /\ UNCHANGED <<sound, head, edited, files, service, apply, before, trouble>>
        /\ fetched' \in Commits /\ origin' = origin
        /\ check' \in {"off", "fetch"} /\ status' \in States
    BY <1>1, <1>3 DEF TypeOK, CheckStarts, CheckEnds, SanityFails
  <2>2. TypeOK' /\ Settled'
    BY <1>1, <2>1 DEF TypeOK, Settled
  <2>3. WayBack'
    BY <1>1, <2>1 DEF WayBack, Managed, ComesUp
  <2>4. Started'
    BY <1>1, <2>1 DEF Started, Managed, ComesUp
  <2> QED BY <2>2, <2>3, <2>4 DEF IInv
<1>4. CASE Push
  <2>1. origin \in Commits /\ origin < MaxCommit /\ origin' = origin + 1
    BY <1>1, <1>4 DEF TypeOK, Push
  <2>2. origin' \in Commits
    BY <2>1, MaxCommitAssumption DEF Commits
  <2>3. TypeOK'
    BY <1>1, <1>4, <2>2 DEF TypeOK, Push
  <2> QED
    BY <1>1, <1>4, <2>3 DEF IInv, Settled, WayBack, Managed, ComesUp, Started, Push
<1>5. CASE Edit
  BY <1>1, <1>5 DEF IInv, TypeOK, Settled, WayBack, Managed, Started, Edit
<1>6. CASE ServiceDies \/ ServiceStarts
  BY <1>6, ServiceKeepsInv
<1>7. CASE ApplyInterrupted
  <2>1. head' \in Commits /\ edited' \in BOOLEAN
    BY <1>1, <1>7 DEF TypeOK, ApplyInterrupted
  <2>2. files' \in Commits \cup {Mixed}
    BY <1>1, <1>7, <2>1 DEF TypeOK, ApplyInterrupted, Tree
  <2>3. service' \in Commits \cup {Mixed, Down}
    BY <1>1, <1>7, <2>2, RunsType DEF TypeOK, ApplyInterrupted
  <2>4. "interrupted" \in trouble' /\ trouble' \subseteq Troubles
    BY <1>1, <1>7 DEF TypeOK, Troubles, ApplyInterrupted
  <2>5. TypeOK'
    BY <1>1, <1>7, <2>1, <2>2, <2>3, <2>4 DEF TypeOK, Troubles, ApplyInterrupted
  <2>6. Settled' /\ WayBack' /\ Started'
    BY <1>7, <2>4 DEF Settled, WayBack, Started, ApplyInterrupted
  <2> QED BY <2>5, <2>6 DEF IInv
<1>8. CASE CheckInterrupted
  <2>1. trouble' = trouble \cup {"check interrupted"}
    BY <1>8 DEF CheckInterrupted
  <2>2. TypeOK'
    BY <1>1, <1>8 DEF TypeOK, CheckInterrupted
  <2>3. Settled'
    BY <1>1, <1>8, <2>1 DEF Settled, CheckInterrupted
  <2>4. WayBack'
    BY <1>1, <1>8, <2>1 DEF WayBack, Managed, ComesUp, CheckInterrupted
  <2>5. Started'
    BY <1>1, <1>8 DEF Started, Managed, ComesUp, CheckInterrupted
  <2> QED BY <2>2, <2>3, <2>4, <2>5 DEF IInv
<1>9. CASE UNCHANGED vars
  <2>1. TypeOK' /\ Settled'
    BY <1>1, <1>9 DEF TypeOK, Settled, vars
  <2>2. WayBack'
    BY <1>1, <1>9 DEF WayBack, Managed, ComesUp, vars
  <2>3. Started'
    BY <1>1, <1>9 DEF Started, Managed, ComesUp, vars
  <2> QED BY <2>1, <2>2, <2>3 DEF IInv
<1> QED BY <1>2, <1>3, <1>4, <1>5, <1>6, <1>7, <1>8, <1>9 DEF Next

\* The inductive invariant holds in every reachable state.
LEMMA Invariance == Spec => []IInv
  BY InvInit, InvStep, PTL DEF Spec

----------------------------------------------------------------------------
(* The theorems *)

\* The variables of the updater keep their types.
THEOREM TypeCorrect == Spec => []TypeOK
  BY Invariance, PTL DEF IInv

\* Between updates the installed files are those of the checkout's HEAD, unless an update
\* was interrupted, a rollback's own installation failed or local changes were installed
\* (update.sh, apply: the merge, the installer and the two rollbacks).
THEOREM FilesAlwaysFollowCheckout == Spec => []FilesFollowCheckout
<1>1. IInv => FilesFollowCheckout
  BY DEF IInv, Settled, FilesFollowCheckout, Unsettled
<1> QED BY <1>1, Invariance, PTL

\* Between updates the door service runs the installed release, and that is one that came
\* up, unless an update was interrupted, local changes were installed or a rollback failed
\* itself (update.sh, apply: the restart, the health check and the two rollbacks).
THEOREM BadReleaseIsAlwaysUndone == Spec => []BadReleaseIsUndone
<1>1. IInv => BadReleaseIsUndone
  BY DEF IInv, WayBack, BadReleaseIsUndone
<1> QED BY <1>1, Invariance, PTL

=============================================================================
