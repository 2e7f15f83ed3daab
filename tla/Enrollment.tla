----------------------------- MODULE Enrollment -----------------------------
(***************************************************************************)
(* Adding a tag at the door reader.  The Tags page (static/nfc.js) arms    *)
(* the reader through the web admin and the control socket, then polls;    *)
(* the main thread (main.py) captures the next scan instead of opening the *)
(* door, or lets the arm expire, and hands the outcome to the first poll.  *)
(*                                                                         *)
(* A request of the page travels browser - web admin - control socket -    *)
(* event queue - main thread and back.  It is carried out when the main    *)
(* thread gets to it, whether or not anybody still waits for the answer.   *)
(***************************************************************************)
EXTENDS Integers, Sequences, FiniteSets, SequencesExt

CONSTANTS
    Tags,
    Window,         \* ENROLL_WINDOW_SECONDS
    QueueSize,      \* maxsize of the event queue
    Calls,          \* fetches the page can have under way at once
    NoCall,         \* nobody waits for the reply any more
    None,
    Failed,         \* the answer {"ok": false, ...}
    MaxArms         \* bound: clicks on "Scan at the door reader"

ASSUME WindowAssumption == Window \in Nat \ {0}
ASSUME QueueSizeAssumption == QueueSize \in Nat \ {0}
ASSUME CallsAssumption == NoCall \notin Calls /\ None \notin Calls \cup Tags
ASSUME FailedAssumption == Failed # None
ASSUME MaxArmsAssumption == MaxArms \in Nat

VARIABLES
    main,           \* the event loop: "check" the deadline, "get"; or "down"
    armed,          \* runtime["enroll_event"]
    left,           \* seconds to runtime["enroll_deadline"]
    result,         \* runtime["enroll_result"]
    enrolled,       \* config["authorized_uids"], in memory and on disk
    queue,
    request,        \* what each fetch asks: "none", "arm", "poll", "cancel"
    answer,         \* what came back to the web admin for it
    page,           \* "idle", "arming", "polling" (timer is set)
    leaked,         \* an interval is set that timer no longer names
    arms,           \* clicks so far
    session,        \* history: how often the reader was armed
    captures,       \* history: scans captured since then
    owed,           \* history: the outcome the operator has not seen
    lost,           \* history: the answer that carried it did not arrive
    drops           \* history: the number of calls dropped, modulo 2

reader  == <<armed, left, result, enrolled>>
calls   == <<request, answer>>
browser == <<page, leaked, arms>>
outcome == <<session, captures, owed, lost>>
history == <<outcome, drops>>
vars == <<main, reader, queue, calls, browser, history>>

\* Outcomes carry the number of the arm they belong to, which the code does not.
Outcomes == [status : {"added", "already", "error", "timeout"},
             uid : Tags \cup {None}, arm : 1..MaxArms]
Answers == [armed : BOOLEAN, capture : Outcomes \cup {None}]
ASSUME AnswersAssumption == None \notin Answers /\ Failed \notin Answers
Events == [what : {"scan"}, arg : Tags]
          \cup [what : {"arm", "poll", "cancel"}, arg : Calls \cup {NoCall}]

RoomUnchecked == TRUE
Room == Len(queue) < QueueSize

\* The reply to the main thread's caller, if there still is one.
Reply(c, a) == answer' = IF c = NoCall THEN answer ELSE [answer EXCEPT ![c] = a]

\* Nobody waits for the reply to call c; the event stays queued.
Forget(c) ==
    [i \in 1..Len(queue) |->
        IF queue[i].what # "scan" /\ queue[i].arg = c
        THEN [queue[i] EXCEPT !.arg = NoCall] ELSE queue[i]]

Pending(c) == request[c] # "none" /\ answer[c] = None
Carries(c, o) ==
    request[c] # "none" /\ answer[c] \notin {None, Failed} /\ answer[c].capture = o

----------------------------------------------------------------------------
(* The page *)

Fetch(c, what) ==
    /\ request[c] = "none"
    /\ request' = [request EXCEPT ![c] = what]
    \* ControlSocket: "system busy"; ControlClient: "door service is not running"
    /\ IF Room /\ main # "down"
       THEN queue' = Append(queue, [what |-> what, arg |-> c]) /\ UNCHANGED answer
       ELSE answer' = [answer EXCEPT ![c] = Failed] /\ UNCHANGED queue
    /\ UNCHANGED <<main, reader, history>>

ClickScan(c) ==
    /\ page = "idle"
    /\ arms < MaxArms
    /\ arms' = arms + 1
    /\ page' = "arming"
    /\ UNCHANGED leaked
    /\ Fetch(c, "arm")

Poll(c) ==
    /\ page = "polling" \/ leaked
    /\ Fetch(c, "poll")
    /\ UNCHANGED browser

ClickCancel(c) ==
    /\ page = "polling"
    /\ \A d \in Calls : request[d] # "cancel"
    /\ Fetch(c, "cancel")
    /\ UNCHANGED browser

\* The handlers of the fetches' promises, also when the timer is no longer set.
\* idle() clears the interval timer names; setInterval forgets the one it named before.
ArmAnswered(c) ==
    /\ request[c] = "arm"
    /\ IF answer[c] = Failed
       THEN page' = "idle" /\ UNCHANGED leaked
       ELSE page' = "polling" /\ leaked' = (leaked \/ page = "polling")
    /\ UNCHANGED owed

CancelAnswered(c) ==
    /\ request[c] = "cancel"
    /\ page' = "idle"
    /\ UNCHANGED <<leaked, owed>>

CapturedIn(a) == IF a = Failed THEN None ELSE a.capture
ArmedIn(a) == a # Failed /\ a.armed

PollWaitingForCapture(c) ==
    /\ request[c] = "poll"
    /\ page' = IF CapturedIn(answer[c]) # None THEN "idle" ELSE page
    /\ owed' = IF owed = CapturedIn(answer[c]) THEN None ELSE owed
    /\ UNCHANGED leaked
\* A poll the door service did not answer reads as a disarmed reader.  An added tag
\* reloads the page, and with it go all intervals.
PollAnswered(c) ==
    LET capture == CapturedIn(answer[c])
    IN  /\ request[c] = "poll"
        /\ page' = IF capture # None \/ ~ArmedIn(answer[c]) THEN "idle" ELSE page
        /\ leaked' = (leaked /\ (capture = None \/ capture.status # "added"))
        /\ owed' = IF owed = capture THEN None ELSE owed

Delivered(c) ==
    /\ request[c] # "none"
    /\ answer[c] # None
    /\ ArmAnswered(c) \/ CancelAnswered(c) \/ PollAnswered(c)
    /\ request' = [request EXCEPT ![c] = "none"]
    /\ answer' = [answer EXCEPT ![c] = None]
    /\ UNCHANGED <<main, reader, queue, arms, session, captures, lost, drops>>

\* The fetch fails on its way there or back: .catch().
Dropped(c) ==
    /\ request[c] # "none"
    /\ request' = [request EXCEPT ![c] = "none"]
    /\ answer' = [answer EXCEPT ![c] = None]
    /\ queue' = Forget(c)
    /\ page' = IF request[c] = "poll" THEN page ELSE "idle"
    /\ lost' = (lost \/ (owed # None /\ Carries(c, owed)))
    /\ drops' = 1 - drops
    /\ UNCHANGED <<main, reader, leaked, arms, session, captures, owed>>

\* The control socket stops waiting for the main thread, or the web admin for the
\* control socket, be the reply on its way or not (REPLY_TIMEOUT).
TimesOut(c) ==
    /\ request[c] # "none"
    /\ answer[c] # Failed
    /\ answer' = [answer EXCEPT ![c] = Failed]
    /\ queue' = Forget(c)
    /\ lost' = (lost \/ (owed # None /\ Carries(c, owed)))
    /\ UNCHANGED <<main, reader, request, browser, session, captures, owed, drops>>

----------------------------------------------------------------------------
(* The reader thread *)

Scan(t) ==
    /\ main # "down"
    /\ Room
    /\ queue' = Append(queue, [what |-> "scan", arg |-> t])
    /\ UNCHANGED <<main, reader, calls, browser, history>>

----------------------------------------------------------------------------
(* The main thread *)

Tick ==
    /\ left > 0
    /\ left' = left - 1
    /\ UNCHANGED <<main, armed, result, enrolled, queue, calls, browser, history>>

\* An outcome for the operator, in runtime["enroll_result"] until a poll takes it.
Record(status, t) ==
    /\ result' = [status |-> status, uid |-> t, arm |-> session]
    /\ owed' = result'
    /\ lost' = FALSE

Disarm ==
    /\ armed' = FALSE
    /\ left' = 0

CheckNothing ==
    /\ main = "check"
    /\ main' = "get"
    /\ UNCHANGED <<reader, queue, calls, browser, history>>
\* The top of the loop: expire an arm whose deadline has passed.
Check ==
    /\ main = "check"
    /\ main' = "get"
    /\ IF armed /\ left = 0
       THEN Disarm /\ Record("timeout", None)
       ELSE UNCHANGED <<armed, left, result, owed, lost>>
    /\ UNCHANGED <<enrolled, queue, calls, browser, session, captures, drops>>

\* get(timeout=1.0) returns an event, or nothing.
GetNothing ==
    /\ main = "get"
    /\ queue = <<>>
    /\ main' = "check"
    /\ UNCHANGED <<reader, queue, calls, browser, history>>

Get(what) ==
    /\ main = "get"
    /\ queue # <<>>
    /\ Head(queue).what = what
    /\ main' = "check"
    /\ queue' = Tail(queue)
    /\ UNCHANGED <<request, browser, drops>>

Arg == Head(queue).arg

DispatchArm ==
    /\ Get("arm")
    /\ armed' = TRUE
    /\ left' = Window
    /\ result' = None
    /\ session' = session + 1
    /\ captures' = 0
    /\ owed' = None
    /\ lost' = FALSE
    /\ Reply(Arg, [armed |-> TRUE, capture |-> None])
    /\ UNCHANGED enrolled

DispatchCancel ==
    /\ Get("cancel")
    /\ Disarm
    /\ result' = None
    /\ owed' = None
    /\ lost' = FALSE
    /\ Reply(Arg, [armed |-> FALSE, capture |-> None])
    /\ UNCHANGED <<enrolled, session, captures>>

PollAnsweringWhileArmed ==
    /\ Get("poll")
    /\ Reply(Arg, [armed |-> armed, capture |-> IF armed THEN result ELSE None])
    /\ result' = None
    /\ lost' = (lost \/ (Arg = NoCall /\ owed # None /\ result = owed))
    /\ UNCHANGED <<armed, left, enrolled, session, captures, owed>>
\* enroll_status hands the result over and forgets it.
DispatchPoll ==
    /\ Get("poll")
    /\ Reply(Arg, [armed |-> armed, capture |-> result])
    /\ result' = None
    /\ lost' = (lost \/ (Arg = NoCall /\ owed # None /\ result = owed))
    /\ UNCHANGED <<armed, left, enrolled, session, captures, owed>>

CaptureStayingArmed(t) ==
    /\ captures' = captures + 1
    /\ Record("added", t)
    /\ enrolled' = enrolled \cup {t}
    /\ UNCHANGED <<armed, left>>
\* _capture_tag: disarm, then add the tag unless it is enrolled or the save fails.
Capture(t) ==
    /\ captures' = captures + 1
    /\ Disarm
    /\ \/ t \in enrolled /\ Record("already", t) /\ UNCHANGED enrolled
       \/ t \notin enrolled /\ Record("added", t) /\ enrolled' = enrolled \cup {t}
       \/ t \notin enrolled /\ Record("error", t) /\ UNCHANGED enrolled

\* _handle_nfc, armed or not; a scan that is not captured opens the door or is denied.
DispatchScan ==
    /\ Get("scan")
    /\ IF armed THEN Capture(Arg) ELSE UNCHANGED <<reader, captures, owed, lost>>
    /\ UNCHANGED <<answer, session>>

Dispatch == DispatchArm \/ DispatchCancel \/ DispatchPoll \/ DispatchScan

\* The service stops or dies: nothing of an arm survives, and every caller is told so.
ServiceEnds ==
    /\ main # "down"
    /\ main' = "down"
    /\ Disarm
    /\ result' = None
    /\ queue' = <<>>
    /\ answer' = [c \in Calls |-> IF Pending(c) THEN Failed ELSE answer[c]]
    /\ captures' = 0
    /\ owed' = None
    /\ lost' = FALSE
    /\ UNCHANGED <<enrolled, request, browser, session, drops>>

ServiceStarts ==
    /\ main = "down"
    /\ main' = "check"
    /\ UNCHANGED <<reader, queue, calls, browser, history>>

----------------------------------------------------------------------------
Init ==
    /\ main = "down"
    /\ armed = FALSE
    /\ left = 0
    /\ result = None
    /\ enrolled \in SUBSET Tags
    /\ queue = <<>>
    /\ request = [c \in Calls |-> "none"]
    /\ answer = [c \in Calls |-> None]
    /\ page = "idle"
    /\ leaked = FALSE
    /\ arms = 0
    /\ session = 0
    /\ captures = 0
    /\ owed = None
    /\ lost = FALSE
    /\ drops = 0

Main == Check \/ GetNothing \/ Dispatch

Next ==
    \/ \E c \in Calls : ClickScan(c) \/ Poll(c) \/ ClickCancel(c)
    \/ \E c \in Calls : Delivered(c) \/ Dropped(c) \/ TimesOut(c)
    \/ \E t \in Tags : Scan(t)
    \/ Tick
    \/ Main
    \/ ServiceEnds \/ ServiceStarts

Spec == Init /\ [][Next]_vars

\* The main loop runs, time passes, the page's interval fires and answers arrive.
\* Nothing makes anybody scan or click, and nothing keeps calls from being dropped.
FairSpec ==
    /\ Spec
    /\ WF_vars(Main)
    /\ WF_vars(Tick)
    /\ WF_vars(\E c \in Calls : Poll(c))
    /\ \A c \in Calls : WF_vars(Delivered(c))

----------------------------------------------------------------------------
(* Properties *)

\* Every variable keeps its type, and the queue its bound.
TypeOK ==
    /\ main \in {"check", "get", "down"}
    /\ armed \in BOOLEAN
    /\ left \in 0..Window
    /\ result \in Outcomes \cup {None}
    /\ enrolled \subseteq Tags
    /\ queue \in Seq(Events)
    /\ Len(queue) <= QueueSize
    /\ request \in [Calls -> {"none", "arm", "poll", "cancel"}]
    /\ \A c \in Calls : answer[c] \in {None, Failed} \/ answer[c] \in Answers
    /\ page \in {"idle", "arming", "polling"}
    /\ leaked \in BOOLEAN
    /\ arms \in 0..MaxArms
    /\ session \in 0..arms
    /\ captures \in Nat
    /\ owed \in Outcomes \cup {None}
    /\ lost \in BOOLEAN
    /\ drops \in {0, 1}

\* An arm captures one scan at most (README.md:330, "The arm is one-shot"), however
\* many scans are queued behind each other and whatever became of the first.
OneShot == captures <= 1 /\ (captures = 1 => ~armed)

\* An outcome the operator has not seen is where a poll will find it or on its way,
\* unless the answer that carried it was dropped or nobody waited for it any more.
OutcomeIsKept ==
    owed # None /\ ~lost => result = owed \/ \E c \in Calls : Carries(c, owed)

\* An armed reader does not stay armed (README.md:330, "expires after 60 seconds, so a
\* forgotten arm can't sit there"), also when the page that armed it is gone.
ArmExpires == armed ~> ~armed

\* Once fetches cease to be dropped, a page that waits for a scan stops waiting,
\* whatever becomes of the reader, the service, the scan and calls that time out.
PageSettles ==
    <>[][drops' = drops]_vars
        => ((page # "idle") ~> (page = "idle"))

=============================================================================
