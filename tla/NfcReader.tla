----------------------------- MODULE NfcReader -----------------------------
(***************************************************************************)
(* A tag at the door: the NFC reader thread (nfc_reader.py) from the card  *)
(* that is held to the reader, over the LED, to the event, and the main    *)
(* thread's decision about it (_handle_nfc).  The LED is chosen when the   *)
(* card is read and the outcome when the event is dispatched; between them *)
(* are whatever events were queued before.                                 *)
(***************************************************************************)
EXTENDS Integers, Sequences

CONSTANTS
    Tags,           \* the UIDs
    NoTag,
    MaxQueue,       \* maxsize of the event queue
    MaxRestarts     \* bound: restarts of the service

ASSUME NfcAssumption ==
    /\ NoTag \notin Tags
    /\ MaxQueue \in Nat \ {0}
    /\ MaxRestarts \in Nat

VARIABLES
    card,           \* the tag on the reader, or NoTag
    fate,           \* history: "none", "read", and then "posted", "dropped", "misread"
    reader,         \* the thread: "waiting", "signalling" (the LED is on), "holding"
    scan,           \* what it read, with the LED and what decided it
    linked,         \* the connection to the card it read still works
    lastUid,        \* _last_uid
    recent,         \* less than uid_debounce_seconds since _last_uid_time
    queue,          \* the event queue
    authorized,     \* the keys of config["authorized_uids"]
    armed,          \* enroll_event
    outcome,        \* history: what the step just taken made of a scan
    restarts        \* history: restarts so far

thread == <<reader, scan, linked, lastUid, recent>>
main   == <<authorized, armed>>
nfcvars   == <<card, fate, thread, queue, main, outcome, restarts>>

Scan(uid, green) ==
    [cmd |-> "scan", uid |-> uid, green |-> green,
     armed |-> armed, known |-> uid \in authorized]
Scans == [cmd : {"scan"}, uid : Tags, green : BOOLEAN, armed : BOOLEAN, known : BOOLEAN]
Commands == [cmd : {"arm_enroll", "cancel_enroll"}]
            \cup [cmd : {"add_tag", "remove_tag"}, uid : Tags]
NoScan == [cmd |-> "none"]

NothingDecided == outcome' = "none"

----------------------------------------------------------------------------
(* The card: held to the reader, taken away, out of reach for a moment *)

Place ==
    /\ card = NoTag
    /\ card' \in Tags
    /\ fate' = "none"
    /\ NothingDecided
    /\ UNCHANGED <<thread, queue, main, restarts>>

\* A card that comes back needs a new connection.
Lift ==
    /\ card # NoTag
    /\ card' = NoTag
    /\ linked' = FALSE
    /\ NothingDecided
    /\ UNCHANGED <<fate, reader, scan, lastUid, recent, queue, main, restarts>>

Glitch ==
    /\ card # NoTag
    /\ linked
    /\ linked' = FALSE
    /\ NothingDecided
    /\ UNCHANGED <<card, fate, reader, scan, lastUid, recent, queue, main, restarts>>

----------------------------------------------------------------------------
(* The reader thread.  A request that times out, a connection that is refused and a read
   that raises go back to waiting: they change nothing. *)

\* waitforcard, connect, GET_UID, and the LED of _signal_read.
ReadWith(granted) ==
    /\ reader = "waiting"
    /\ card # NoTag
    /\ reader' = "signalling"
    /\ scan' = Scan(card, granted)
    /\ linked' = TRUE
    /\ fate' = "read"
    /\ NothingDecided
    /\ UNCHANGED <<card, lastUid, recent, queue, main, restarts>>

ReadIgnoringArm == ReadWith(card \in authorized)
Read == ReadWith(card \in authorized \/ armed)

\* GET_UID answers another status: no LED and no event, and the thread polls the card
\* until it is gone without looking at what it then reads.
Misread ==
    /\ reader = "waiting"
    /\ card # NoTag
    /\ reader' = "holding"
    /\ linked' = TRUE
    /\ fate' = "misread"
    /\ NothingDecided
    /\ UNCHANGED <<card, scan, lastUid, recent, queue, main, restarts>>

Debounced == scan.uid = lastUid /\ recent

\* _post_uid_event, when _is_debounced lets it.  It is the fate of the card that was
\* read, which may no longer be the one that is there.
PostWithin(limit) ==
    /\ reader = "signalling"
    /\ reader' = "holding"
    /\ scan' = NoScan
    /\ IF Debounced THEN UNCHANGED <<lastUid, recent, queue, fate>>
       ELSE /\ lastUid' = scan.uid
            /\ recent' = TRUE
            /\ queue' = IF Len(queue) < limit THEN Append(queue, scan) ELSE queue
            /\ fate' = IF fate # "read" THEN fate
                       ELSE IF queue' = queue THEN "dropped" ELSE "posted"
    /\ NothingDecided
    /\ UNCHANGED <<card, linked, main, restarts>>
PostUnbounded == PostWithin(Len(queue) + 1)
Post == PostWithin(MaxQueue)

\* The poll of the card raises: it has left, and _last_uid is forgotten.
LeaveWith(last) ==
    /\ reader = "holding"
    /\ ~linked
    /\ reader' = "waiting"
    /\ lastUid' = last
    /\ NothingDecided
    /\ UNCHANGED <<card, fate, scan, linked, recent, queue, main, restarts>>
LeaveRemembering == LeaveWith(lastUid)
CardLeft == LeaveWith(NoTag)

DebounceEnds ==
    /\ recent
    /\ recent' = FALSE
    /\ NothingDecided
    /\ UNCHANGED <<card, fate, reader, scan, linked, lastUid, queue, main, restarts>>

----------------------------------------------------------------------------
(* The main thread *)

\* A command of the web admin is queued.
Request ==
    /\ Len(queue) < MaxQueue
    /\ \E c \in Commands : queue' = Append(queue, c)
    /\ NothingDecided
    /\ UNCHANGED <<card, fate, thread, main, restarts>>

\* _capture_tag adds the tag unless it is known or the config cannot be written.
Capture(uid) ==
    /\ armed' = FALSE
    /\ authorized' \in {authorized, authorized \cup {uid}}

\* _handle_nfc.
Decide(e) ==
    /\ IF armed THEN Capture(e.uid) ELSE UNCHANGED <<armed, authorized>>
    /\ outcome' = IF armed THEN "captured"
                  ELSE IF e.uid \in authorized THEN "granted" ELSE "denied"

\* _run_web_command.
Obey(e) ==
    /\ armed' = CASE e.cmd = "arm_enroll"    -> TRUE
                  [] e.cmd = "cancel_enroll" -> FALSE
                  [] OTHER                   -> armed
    /\ authorized' \in CASE e.cmd = "add_tag"    -> {authorized, authorized \cup {e.uid}}
                         [] e.cmd = "remove_tag" -> {authorized, authorized \ {e.uid}}
                         [] OTHER                -> {authorized}
    /\ NothingDecided

Dispatch ==
    /\ queue # <<>>
    /\ queue' = Tail(queue)
    /\ IF Head(queue).cmd = "scan" THEN Decide(Head(queue)) ELSE Obey(Head(queue))
    /\ UNCHANGED <<card, fate, thread, restarts>>

\* The loop finds the arm's deadline past.
Expire ==
    /\ armed
    /\ armed' = FALSE
    /\ NothingDecided
    /\ UNCHANGED <<card, fate, thread, queue, authorized, restarts>>

\* The service stops, whatever the thread was at, and starts again.  A card that is still
\* there is read once more.
Restart ==
    /\ restarts < MaxRestarts
    /\ restarts' = restarts + 1
    /\ fate' = "none"
    /\ reader' = "waiting"
    /\ scan' = NoScan
    /\ linked' = FALSE
    /\ lastUid' = NoTag
    /\ recent' = FALSE
    /\ queue' = <<>>
    /\ armed' = FALSE
    /\ NothingDecided
    /\ UNCHANGED <<card, authorized>>

----------------------------------------------------------------------------
NfcInit ==
    /\ card \in Tags \cup {NoTag}
    /\ fate = "none"
    /\ reader = "waiting"
    /\ scan = NoScan
    /\ linked = FALSE
    /\ lastUid = NoTag
    /\ recent = FALSE
    /\ queue = <<>>
    /\ authorized \in SUBSET Tags
    /\ armed = FALSE
    /\ outcome = "none"
    /\ restarts = 0

NfcNext ==
    \/ Place \/ Lift \/ Glitch
    \/ Read \/ Misread \/ Post \/ CardLeft \/ DebounceEnds
    \/ Request \/ Dispatch \/ Expire \/ Restart

NfcSpec == NfcInit /\ [][NfcNext]_nfcvars

\* The thread runs, a card that stays is at last read, the main thread works its queue.
NfcFairSpec == NfcSpec /\ WF_nfcvars(Read \/ Misread) /\ WF_nfcvars(Post) /\ WF_nfcvars(CardLeft)
                 /\ WF_nfcvars(Dispatch)

----------------------------------------------------------------------------
(* Properties *)

\* Every variable keeps its type, the queue its limit.
NfcTypeOK ==
    /\ card \in Tags \cup {NoTag}
    /\ fate \in {"none", "read", "posted", "dropped", "misread"}
    /\ reader \in {"waiting", "signalling", "holding"}
    /\ scan \in Scans \cup {NoScan}
    /\ reader = "signalling" <=> scan # NoScan
    /\ linked \in BOOLEAN
    /\ lastUid \in Tags \cup {NoTag}
    /\ recent \in BOOLEAN
    /\ queue \in Seq(Scans \cup Commands)
    /\ Len(queue) <= MaxQueue
    /\ authorized \subseteq Tags
    /\ armed \in BOOLEAN
    /\ outcome \in {"none", "captured", "granted", "denied"}
    /\ restarts \in 0..MaxRestarts

\* The LED tells the person at the door what will happen: a scan that showed green opens
\* the door or is captured, one that showed blue does neither, unless a command, an
\* expiry or an earlier scan in the queue changed the arm or the tag's authorization
\* after the LED was chosen.
LedMatchesOutcome ==
    [][/\ Len(queue') < Len(queue) /\ restarts' = restarts
       /\ Head(queue) \in Scans
       /\ Head(queue).armed = armed
       /\ Head(queue).known = (Head(queue).uid \in authorized)
       => (Head(queue).green <=> outcome' # "denied")]_nfcvars

\* A card that is held to the reader gets its event, also when it was read a moment ago:
\* it is only lost when the event queue is full or the reader answered an error, which
\* is not tried again before the card is lifted.
HeldCardIsHandled ==
    card # NoTag ~> (card = NoTag \/ fate \in {"posted", "dropped", "misread"})

=============================================================================
