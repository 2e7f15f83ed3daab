----------------------------- MODULE CommandLog -----------------------------
(***************************************************************************)
(* What the control socket promises the operators: a command takes effect  *)
(* once or not at all, the commands one after the other in the order in    *)
(* which they were given, and an answer that says whether a command took   *)
(* effect is so.  The other answers leave it open: that command may take   *)
(* effect later.  A command that was taken in is lost in two ways only:    *)
(* the service has no room for it, or the service ends.  A caller or a     *)
(* server that gives up waiting loses none.                                *)
(***************************************************************************)
EXTENDS Integers, Sequences

CONSTANT Calls      \* numbered in the order in which they are made

VARIABLES
    log,            \* the commands that took effect, oldest first
    pending,        \* the commands that may take effect
    answer,         \* of each call: "none" (not made), "waiting", "done", "refused",
                    \* "unknown"
    phase,          \* of the service: "up", "stopping", "down"
    room            \* the service can queue one more command

lvars == <<log, pending, answer, phase, room>>

Waiting == {i \in Calls : answer[i] = "waiting"}
TookEffect(i) == \E n \in 1..Len(log) : log[n] = i

Answer(i, a) == answer' = [answer EXCEPT ![i] = a]

----------------------------------------------------------------------------
Init ==
    /\ log = <<>>
    /\ pending = {}
    /\ answer = [i \in Calls |-> "none"]
    /\ phase = "down"
    /\ room = TRUE

Newest(i) ==
    /\ answer[i] = "none"
    /\ \A j \in Calls : answer[j] # "none" => j < i

Ask(i) ==
    /\ phase = "up"
    /\ Newest(i)
    /\ Answer(i, "waiting")
    /\ pending' = pending \cup {i}
    /\ UNCHANGED <<log, phase, room>>

\* A command that reaches nobody.
Refuse(i) ==
    /\ Newest(i)
    /\ Answer(i, "refused")
    /\ UNCHANGED <<log, pending, phase, room>>

\* Commands and the other events of the house come to the queue and leave it.
Crowd ==
    /\ room' \in BOOLEAN
    /\ UNCHANGED <<log, pending, answer, phase>>

\* The oldest command takes effect, whether or not its caller is still waiting.
TakeEffect(i) ==
    /\ phase = "up"
    /\ i \in pending
    /\ \A j \in pending : i <= j
    /\ log' = Append(log, i)
    /\ pending' = pending \ {i}
    /\ room' \in BOOLEAN
    /\ UNCHANGED <<answer, phase>>

\* The one loss while the service is up: its queue is full.
TurnAway(i) ==
    /\ ~room
    /\ i \in pending
    /\ pending' = pending \ {i}
    /\ UNCHANGED <<log, answer, phase, room>>

Reply(i) ==
    /\ i \in Waiting
    /\ \/ Answer(i, "done") /\ TookEffect(i)
       \/ Answer(i, "refused") /\ i \notin pending /\ ~TookEffect(i)
       \/ Answer(i, "unknown")
    /\ UNCHANGED <<log, pending, phase, room>>

\* The service stops taking commands, then ends, or ends at once.  What is lost with it
\* leaves its callers in the dark.
GoDown ==
    /\ \/ phase = "up" /\ phase' = "stopping" /\ pending' \subseteq pending
       \/ phase # "down" /\ phase' = "down" /\ pending' = {}
    /\ \E S \in SUBSET Waiting :
        answer' = [i \in Calls |-> IF i \in S THEN "unknown" ELSE answer[i]]
    /\ room' \in BOOLEAN
    /\ UNCHANGED log

ComeUp ==
    /\ phase = "down"
    /\ phase' = "up"
    /\ UNCHANGED <<log, pending, answer, room>>

Next ==
    \/ \E i \in Calls : Ask(i) \/ Refuse(i) \/ TakeEffect(i) \/ TurnAway(i) \/ Reply(i)
    \/ Crowd \/ GoDown \/ ComeUp

Spec == Init /\ [][Next]_lvars

=============================================================================
