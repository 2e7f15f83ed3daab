------------------------------ MODULE Updater ------------------------------
(***************************************************************************)
(* Updating the installation from the web admin: update.sh, run by systemd *)
(* in two units that may be active at the same time ("check" and "apply"), *)
(* the git checkout, the installed files, the door service it restarts and *)
(* the status file the Updates page polls.                                 *)
(*                                                                         *)
(* Commits are numbered in the order of the branch.  What a release does   *)
(* to the Pi is fixed by `sound`; installing can fail for any release (pip *)
(* needs the network, a disk fills up), and so can every git command.      *)
(* write_status is one step, and a step of its own where it reports what   *)
(* was seen of the service.                                                *)
(***************************************************************************)
EXTENDS Integers

CONSTANTS
    MaxCommit,      \* bound: commits on the branch
    Mixed,          \* files of no one commit
    Down            \* the door service does not run

ASSUME MaxCommitAssumption == MaxCommit \in Nat \ {0}
ASSUME FilesAssumption == Mixed \notin Nat /\ Down \notin Nat /\ Mixed # Down

Commits == 1..MaxCommit

\* "good"; "broken": the service dies at once; "late": it dies after the sample, or
\* between two samples of Restart=on-failure; "uninstallable": install.sh fails.
Kinds == {"good", "broken", "late", "uninstallable"}

VARIABLES
    sound,          \* the kind of each commit
    origin,         \* the newest commit on the remote branch
    fetched,        \* origin/BRANCH in the checkout
    head,           \* HEAD of the checkout
    edited,         \* the checkout has local changes
    files,          \* what is installed in /opt/door_access
    service,        \* what door_access runs
    apply,          \* how far door_update.service is
    check,          \* how far door_update_check.service is
    before,         \* BEFORE of the apply under way
    status,         \* the state in update-status.json
    trouble         \* history: what went wrong since the last update that ended well

git   == <<origin, fetched, head, edited>>
units == <<apply, check, before>>
vars  == <<sound, git, files, service, units, status, trouble>>

\* What systemd has running soon after it starts the files f.
Runs(f) == IF f \in Commits /\ sound[f] \in {"good", "late"} THEN {f}
           ELSE IF f = Mixed THEN {Mixed, Down} ELSE {Down}

States == {"unknown", "idle", "running", "ok", "error", "rolled_back"}
\* write_status; the phase, the message and the git facts it adds for the page are left
\* out.
Status(state) == status' = state

----------------------------------------------------------------------------
(* The installer, as the apply run calls it *)

\* What lies in the working tree.
Tree == IF edited THEN Mixed ELSE head
LocalEdits == IF edited THEN {"local edits"} ELSE {}

\* install.sh from the checkout as it is, complete ...
Install == (edited' \/ sound[head'] # "uninstallable") /\ files' = Tree'
\* ... or failing somewhere: nothing, some or all of the files are in place.
InstallFails == files' \in {files, Mixed, Tree'}

\* git reset --hard BEFORE drops local changes, or fails on its way.
Reset == head' = before /\ edited' = FALSE
ResetFails == head' = head /\ edited' \in {edited, TRUE}

ReinstallSkipped == Reset /\ UNCHANGED <<files, trouble>>
\* The reset and the installer again.  Nobody looks at the result of either.
Reinstall ==
    \E reset \in {{}, {"reset failed"}}, install \in {{}, {"reinstall failed"}} :
        /\ IF reset = {} THEN Reset ELSE ResetFails
        /\ IF install = {} THEN Install ELSE InstallFails
        /\ trouble' = trouble \cup reset \cup install \cup LocalEdits'

\* systemctl restart door_access.
Restart == service' \in Runs(files')

----------------------------------------------------------------------------
(* update.sh apply *)

\* systemctl start: of a unit that is already active it does nothing.
ApplyStarts ==
    /\ apply = "off"
    /\ apply' = "fetch"
    /\ UNCHANGED git
    /\ Status("running")
    /\ UNCHANGED <<sound, files, service, check, before, trouble>>

\* Either script ends before it says "running": no checkout, or another remote.
SanityFails ==
    /\ apply = "off" \/ check = "off"
    /\ UNCHANGED git
    /\ Status("error")
    /\ UNCHANGED <<sound, files, service, units, trouble>>

ApplyFetchFailsQuietly ==
    /\ apply = "fetch"
    /\ apply' = "off"
    /\ UNCHANGED <<sound, git, files, service, check, before, status, trouble>>
\* fail(): write the error and exit.
ApplyFetchFails ==
    /\ apply = "fetch"
    /\ apply' = "off"
    /\ UNCHANGED git
    /\ Status("error")
    /\ UNCHANGED <<sound, files, service, check, before, trouble>>

ApplyUpToDate ==
    /\ apply = "fetch"
    /\ head = origin
    /\ apply' = "off"
    /\ fetched' = origin
    /\ UNCHANGED <<origin, head, edited>>
    /\ Status("ok")
    /\ UNCHANGED <<sound, files, service, check, before, trouble>>

ApplyFetches ==
    /\ apply = "fetch"
    /\ head # origin
    /\ apply' = "merge"
    /\ fetched' = origin
    /\ before' = head
    /\ UNCHANGED <<origin, head, edited>>
    /\ Status("running")
    /\ UNCHANGED <<sound, files, service, check, trouble>>

\* --ff-only refuses local changes that overlap the new commits and a history that has
\* diverged.  Git may also fail on its way and leave changes behind.
ApplyMergeFails ==
    /\ apply = "merge"
    /\ apply' = "off"
    /\ edited' \in {edited, TRUE}
    /\ UNCHANGED <<origin, fetched, head>>
    /\ Status("error")
    /\ UNCHANGED <<sound, files, service, check, before, trouble>>

\* To origin/BRANCH as it is now: a check may have fetched since.  Local changes
\* elsewhere in the tree stay.
ApplyMerges ==
    /\ apply = "merge"
    /\ apply' = "install"
    /\ head' = fetched
    /\ UNCHANGED <<origin, fetched, edited>>
    /\ Status("running")
    /\ UNCHANGED <<sound, files, service, check, before, trouble>>

\* The installer succeeds: restart, and wait HEALTH_WAIT seconds.
ApplyInstalls ==
    /\ apply = "install"
    /\ UNCHANGED git
    /\ Install
    /\ Restart
    /\ apply' = "sample"
    /\ trouble' = trouble \cup LocalEdits
    /\ Status("running")
    /\ UNCHANGED <<sound, check, before>>

ApplyInstallFails ==
    /\ apply = "install"
    /\ UNCHANGED git
    /\ InstallFails
    /\ apply' = "undo_install"
    /\ Status("running")
    /\ UNCHANGED <<sound, service, check, before, trouble>>

\* Back to BEFORE, and a restart that nobody checks.
ApplyUndoesInstall ==
    /\ apply = "undo_install"
    /\ Reinstall
    /\ Restart
    /\ apply' = "recovered"
    /\ UNCHANGED <<sound, origin, fetched, check, before, status>>

\* systemctl is-active: the one sample that decides.
ApplySampleActive ==
    /\ apply = "sample"
    /\ service # Down
    /\ apply' = "healthy"
    /\ UNCHANGED <<sound, git, files, service, check, before, status, trouble>>

ApplySampleDown ==
    /\ apply = "sample"
    /\ service = Down
    /\ apply' = "undo_restart"
    /\ UNCHANGED git
    /\ Status("running")
    /\ UNCHANGED <<sound, files, service, check, before, trouble>>

\* Whatever has become of the service since the sample.
ApplySaysOk ==
    /\ apply = "healthy"
    /\ apply' = "off"
    /\ UNCHANGED git
    /\ Status("ok")
    /\ trouble' = LocalEdits
    /\ UNCHANGED <<sound, files, service, check, before>>

UndoneNotRestarted ==
    /\ apply = "undo_restart"
    /\ Reinstall
    /\ apply' = "resample"
    /\ UNCHANGED <<sound, origin, fetched, service, check, before, status>>
ApplyUndoesRestart ==
    /\ apply = "undo_restart"
    /\ Reinstall
    /\ Restart
    /\ apply' = "resample"
    /\ UNCHANGED <<sound, origin, fetched, check, before, status>>

\* Sampled again after another HEALTH_WAIT.
ApplyResamples ==
    /\ apply = "resample"
    /\ apply' = IF service = Down THEN "lost" ELSE "recovered"
    /\ UNCHANGED <<sound, git, files, service, check, before, status, trouble>>

ApplySaysUndone ==
    /\ apply \in {"lost", "recovered"}
    /\ apply' = "off"
    /\ UNCHANGED git
    /\ Status(IF apply = "lost" THEN "error" ELSE "rolled_back")
    /\ UNCHANGED <<sound, files, service, check, before, trouble>>

Apply ==
    \/ ApplyFetchFails \/ ApplyUpToDate \/ ApplyFetches
    \/ ApplyMergeFails \/ ApplyMerges
    \/ ApplyInstalls \/ ApplyInstallFails \/ ApplyUndoesInstall
    \/ ApplySampleActive \/ ApplySampleDown \/ ApplySaysOk
    \/ ApplyUndoesRestart \/ ApplyResamples \/ ApplySaysUndone

----------------------------------------------------------------------------
(* update.sh check *)

CheckStarts ==
    /\ check = "off"
    /\ check' = "fetch"
    /\ UNCHANGED git
    /\ Status("running")
    /\ UNCHANGED <<sound, files, service, apply, before, trouble>>

CheckEnds ==
    /\ check = "fetch"
    /\ check' = "off"
    /\ \/ fetched' = origin /\ UNCHANGED head /\ Status("idle")
       \/ UNCHANGED <<fetched, head>> /\ Status("error")
    /\ UNCHANGED <<sound, origin, edited, files, service, apply, before, trouble>>

----------------------------------------------------------------------------
(* The world *)

Undoing == apply \in {"undo_install", "undo_restart"}
Installing == apply = "install" \/ Undoing

\* A release is pushed.
Push ==
    /\ origin < MaxCommit
    /\ origin' = origin + 1
    /\ UNCHANGED <<sound, fetched, head, edited, files, service, units, status, trouble>>

\* Somebody edits the checkout, or reverts the edit, between updates.
Edit ==
    /\ apply = "off"
    /\ edited' = ~edited
    /\ UNCHANGED <<sound, origin, fetched, head, files, service, units, status, trouble>>

\* The running release dies.
ServiceDies ==
    /\ service = Mixed \/ (service \in Commits /\ sound[service] = "late")
    /\ service' = Down
    /\ UNCHANGED <<sound, git, files, units, status, trouble>>

\* Restart=on-failure, with the files that are there now; between updates a reboot too.
ServiceStarts ==
    /\ service = Down \/ apply = "off"
    /\ service' \in Runs(files)
    /\ UNCHANGED <<sound, git, files, units, status, trouble>>

\* A reboot, or systemd after TimeoutStartSec, stops the script where it is, in the
\* middle of git or of the installer too.
ApplyInterrupted ==
    /\ apply # "off"
    /\ apply' = "off"
    /\ check' \in {check, "off"}
    /\ head' \in {head} \cup (IF Undoing THEN {before} ELSE {})
    /\ edited' \in {edited} \cup (IF Undoing \/ apply = "merge" THEN BOOLEAN ELSE {})
    /\ files' \in {files} \cup (IF Installing THEN {Mixed, Tree'} ELSE {})
    /\ service' \in {service} \cup Runs(files')
    /\ trouble' = trouble \cup {"interrupted"}
    /\ UNCHANGED <<sound, origin, fetched, before, status>>

CheckInterrupted ==
    /\ check # "off"
    /\ check' = "off"
    /\ trouble' = trouble \cup {"check interrupted"}
    /\ UNCHANGED <<sound, git, files, service, apply, before, status>>

----------------------------------------------------------------------------
Init ==
    /\ sound \in [Commits -> Kinds]
    /\ sound[1] = "good"
    /\ origin = 1
    /\ fetched = 1
    /\ head = 1
    /\ edited = FALSE
    /\ files = 1
    /\ service = 1
    /\ apply = "off"
    /\ check = "off"
    /\ before = 1
    /\ status = "unknown"
    /\ trouble = {}

Next ==
    \/ ApplyStarts \/ Apply
    \/ CheckStarts \/ CheckEnds
    \/ SanityFails
    \/ Push \/ Edit \/ ServiceDies \/ ServiceStarts
    \/ ApplyInterrupted \/ CheckInterrupted

Spec == Init /\ [][Next]_vars

\* Both scripts run on; nobody has to push, click or edit, and nothing has to go wrong.
FairSpec == Spec /\ WF_vars(Apply) /\ WF_vars(CheckEnds)

----------------------------------------------------------------------------
(* Properties *)

\* Every variable keeps its type.
TypeOK ==
    /\ sound \in [Commits -> Kinds]
    /\ origin \in Commits /\ fetched \in Commits /\ head \in Commits /\ before \in Commits
    /\ edited \in BOOLEAN
    /\ files \in Commits \cup {Mixed}
    /\ service \in Commits \cup {Mixed, Down}
    /\ apply \in {"off", "fetch", "merge", "install", "undo_install", "sample", "healthy",
                  "undo_restart", "resample", "recovered", "lost"}
    /\ check \in {"off", "fetch"}
    /\ status \in States
    /\ trouble \subseteq {"interrupted", "check interrupted", "local edits",
                          "reset failed", "reinstall failed"}

\* Between updates the installed files are those of the checkout's HEAD, which is what
\* the Updates page calls installed, unless an update was interrupted, a rollback's own
\* installation failed or local changes were installed with a release: no order of
\* merge, installation, rollback, a reset that fails, a check in the middle and new
\* pushes makes them differ.
FilesFollowCheckout ==
    apply = "off" /\ trouble \subseteq {"check interrupted", "reset failed"}
        => files = head

\* What is installed came up, and is what runs, unless it is one that dies later.
Managed ==
    /\ files \in Commits /\ sound[files] \in {"good", "late"}
    /\ service = files \/ (service = Down /\ sound[files] = "late")

\* A bad release cannot leave the lock unmanaged: between updates the door service runs
\* the installed release, and that is one that came up, whatever was pushed, failed to
\* install or did not start before.  Only an update that was interrupted, local changes
\* and a rollback that itself failed leave another one.
BadReleaseIsUndone ==
    apply = "off" /\ trouble \subseteq {"check interrupted"} => Managed

\* A status the page waits on is followed by one it does not wait on, through any
\* failure and with both units writing the file, unless one of them was interrupted.
PageStopsWaiting ==
    (status = "running")
        ~> (status # "running" \/ trouble \cap {"interrupted", "check interrupted"} # {})

=============================================================================
