--------------------------- MODULE ControlSocket ---------------------------
(***************************************************************************)
(* The control socket (control_socket.py): web admin threads call, the     *)
(* socket's thread serves one connection after the other by putting the    *)
(* request on the event queue and waiting for its reply, the main thread   *)
(* carries requests out.  Each of the three gives up on the next after a   *)
(* timeout without withdrawing anything: the connection of a caller that   *)
(* is gone is still served, the request of a server that has moved on is   *)
(* still carried out.                                                      *)
(***************************************************************************)
EXTENDS Integers, Sequences, FiniteSets, SequencesExt

CONSTANTS
    MaxCalls,       \* bound: calls made
    QueueSize,      \* maxsize of the event queue
    Backlog         \* listen(8): connections waiting to be accepted

ASSUME MaxCallsAssumption == MaxCalls \in Nat
ASSUME SizesAssumption == QueueSize \in Nat \ {0} /\ Backlog \in Nat \ {0}

Calls == 1..MaxCalls
NoCall == 0         \* no connection; on the queue, an event of another kind

VARIABLES
    service,        \* "up", "stopping" (shutdown_event is set), "down"
    made,           \* number of calls made
    outcome,        \* of each call: "none", "waiting", and what it returned
    sent,           \* what the server has written to each connection
    backlog,        \* connections to accept, oldest first
    serving,        \* the connection _serve has, or NoCall
    stage,          \* of _serve: "idle", "reading", "waiting" in reply.get
    queue,          \* the event queue
    replied,        \* calls whose reply queue holds a reply
    executed,       \* history: requests carried out, oldest first
    before          \* history: the calls over when each call was made

callers == <<made, outcome, before>>
server  == <<backlog, serving, stage>>
vars == <<service, callers, sent, server, queue, replied, executed>>

\* What the server answers: the command's own response, or its own error.
Responses == {"response", "system busy", "timed out"}
\* What call() returns besides: nobody listens, the backlog is full, its own timeout,
\* a connection closed without a response.
Outcomes == {"none", "waiting", "not running", "could not talk", "did not respond",
             "no response"} \cup Responses

RoomUnchecked == TRUE
Room == Len(queue) < QueueSize

Returned(i) == outcome[i] \notin {"none", "waiting"}

----------------------------------------------------------------------------
(* ControlClient.call, on a thread of the web admin *)

Make ==
    /\ made < MaxCalls
    /\ made' = made + 1
    /\ before' = [before EXCEPT ![made + 1] = {i \in Calls : Returned(i)}]

\* Connected, and the request sent.
Connect ==
    /\ Make
    /\ service = "up"
    /\ Len(backlog) < Backlog
    /\ outcome' = [outcome EXCEPT ![made + 1] = "waiting"]
    /\ backlog' = Append(backlog, made + 1)
    /\ UNCHANGED <<service, sent, serving, stage, queue, replied, executed>>

\* connect() fails at once: no socket, or EAGAIN from a full backlog.
ConnectFails ==
    /\ Make
    /\ \/ /\ service # "up"
          /\ outcome' = [outcome EXCEPT ![made + 1] = "not running"]
       \/ /\ service = "up" /\ Len(backlog) >= Backlog
          /\ outcome' = [outcome EXCEPT ![made + 1] = "could not talk"]
    /\ UNCHANGED <<service, sent, server, queue, replied, executed>>

Receive(i) ==
    /\ outcome[i] = "waiting"
    /\ sent[i] # "nothing"
    /\ outcome' = [outcome EXCEPT ![i] = sent[i]]
    /\ UNCHANGED <<service, made, before, sent, server, queue, replied, executed>>

\* socket.timeout: the connection is closed at this end, which the server does not see.
CallTimesOut(i) ==
    /\ outcome[i] = "waiting"
    /\ outcome' = [outcome EXCEPT ![i] = "did not respond"]
    /\ UNCHANGED <<service, made, before, sent, server, queue, replied, executed>>

----------------------------------------------------------------------------
(* ControlSocket._run and _serve, on the socket's thread *)

AcceptAny ==
    /\ service = "up"
    /\ stage = "idle"
    /\ \E n \in 1..Len(backlog) :
        /\ serving' = backlog[n]
        /\ backlog' = RemoveAt(backlog, n)
    /\ stage' = "reading"
    /\ UNCHANGED <<service, callers, sent, queue, replied, executed>>
Accept ==
    /\ service = "up"
    /\ stage = "idle"
    /\ backlog # <<>>
    /\ serving' = Head(backlog)
    /\ backlog' = Tail(backlog)
    /\ stage' = "reading"
    /\ UNCHANGED <<service, callers, sent, queue, replied, executed>>

\* The request is read, whether or not its caller is still there, and put on the queue.
Enqueue ==
    /\ stage = "reading"
    /\ Room
    /\ queue' = Append(queue, serving)
    /\ stage' = "waiting"
    /\ UNCHANGED <<service, callers, sent, backlog, serving, replied, executed>>

\* _send and conn.close(); a caller that is gone makes no difference.
Finish(response) ==
    /\ sent' = [sent EXCEPT ![serving] = response]
    /\ serving' = NoCall
    /\ stage' = "idle"
    /\ UNCHANGED <<service, callers, backlog, executed>>

Busy ==
    /\ stage = "reading"
    /\ ~Room
    /\ Finish("system busy")
    /\ UNCHANGED <<queue, replied>>

PassReply ==
    /\ stage = "waiting"
    /\ serving \in replied
    /\ Finish("response")
    /\ replied' = replied \ {serving}
    /\ UNCHANGED queue

\* The server takes back what it gives up on.
ReplyTimesOutWithdrawing ==
    /\ stage = "waiting"
    /\ serving \notin replied
    /\ Finish("timed out")
    /\ queue' = SelectSeq(queue, LAMBDA i : i # serving)
    /\ UNCHANGED replied
ReplyNeverTimesOut == FALSE /\ UNCHANGED vars
ReplyTimesOutBusy ==
    /\ stage = "waiting"
    /\ serving \notin replied
    /\ Finish("system busy")
    /\ UNCHANGED <<queue, replied>>
\* reply.get(timeout=REPLY_TIMEOUT) raises Empty: the request stays on the queue.
ReplyTimesOut ==
    /\ stage = "waiting"
    /\ serving \notin replied
    /\ Finish("timed out")
    /\ UNCHANGED <<queue, replied>>

----------------------------------------------------------------------------
(* The event queue and the main thread *)

\* Any other source of events: the reader, the button, the sensors, a timer.
Post ==
    /\ service # "down"
    /\ Room
    /\ queue' = Append(queue, NoCall)
    /\ UNCHANGED <<service, callers, sent, server, replied, executed>>

\* run_event_loop takes a request: _handle_web_command carries it out and replies.
Execute ==
    /\ service = "up"
    /\ queue # <<>>
    /\ Head(queue) # NoCall
    /\ queue' = Tail(queue)
    /\ executed' = Append(executed, Head(queue))
    /\ replied' = replied \cup {Head(queue)}
    /\ UNCHANGED <<service, callers, sent, server>>

DispatchOther ==
    /\ service = "up"
    /\ queue # <<>>
    /\ Head(queue) = NoCall
    /\ queue' = Tail(queue)
    /\ UNCHANGED <<service, callers, sent, server, replied, executed>>

----------------------------------------------------------------------------
(* The process *)

\* Each caller whose connection the process closes gets what was sent, or nothing.
Closed(connections) ==
    outcome' = [i \in Calls |->
        IF outcome[i] = "waiting" /\ i \in connections /\ sent[i] = "nothing"
        THEN "no response" ELSE outcome[i]]

\* SIGTERM: the main loop takes no more events, control.stop() closes the socket.
\* What the server thread is doing goes on.
Stop ==
    /\ service = "up"
    /\ service' = "stopping"
    /\ backlog' = <<>>
    /\ Closed(Range(backlog))
    /\ UNCHANGED <<made, before, sent, serving, stage, queue, replied, executed>>

\* The process ends, after stop() has joined the thread for 3 s at most, or at any time
\* by a crash.
End ==
    /\ service # "down"
    /\ service' = "down"
    /\ backlog' = <<>>
    /\ serving' = NoCall
    /\ stage' = "idle"
    /\ queue' = <<>>
    /\ replied' = {}
    /\ Closed(Calls)
    /\ UNCHANGED <<made, before, sent, executed>>

Start ==
    /\ service = "down"
    /\ service' = "up"
    /\ UNCHANGED <<callers, sent, server, queue, replied, executed>>

----------------------------------------------------------------------------
Init ==
    /\ service = "down"
    /\ made = 0
    /\ outcome = [i \in Calls |-> "none"]
    /\ sent = [i \in Calls |-> "nothing"]
    /\ backlog = <<>>
    /\ serving = NoCall
    /\ stage = "idle"
    /\ queue = <<>>
    /\ replied = {}
    /\ executed = <<>>
    /\ before = [i \in Calls |-> {}]

Server == Accept \/ Enqueue \/ Busy \/ PassReply \/ ReplyTimesOut
MainLoop == Execute \/ DispatchOther

Next ==
    \/ Connect \/ ConnectFails
    \/ \E i \in Calls : Receive(i) \/ CallTimesOut(i)
    \/ Server
    \/ Post
    \/ MainLoop
    \/ Stop \/ End \/ Start

Spec == Init /\ [][Next]_vars

\* The socket's thread runs on, its wait ends by a reply or its timeout.  The main
\* thread owes nothing: it may hang in a handler.
FairSpec == Spec /\ WF_vars(Server)

----------------------------------------------------------------------------
(* Properties *)

InHand(i) == serving = i \/ i \in Range(backlog) \/ i \in Range(queue)

\* Every variable keeps its type; the queue and the backlog their bounds.
TypeOK ==
    /\ service \in {"up", "stopping", "down"}
    /\ made \in 0..MaxCalls
    /\ outcome \in [Calls -> Outcomes]
    /\ sent \in [Calls -> Responses \cup {"nothing"}]
    /\ backlog \in Seq(Calls) /\ Len(backlog) <= Backlog
    /\ serving \in Calls \cup {NoCall}
    /\ stage \in {"idle", "reading", "waiting"}
    /\ queue \in Seq(Calls \cup {NoCall}) /\ Len(queue) <= QueueSize
    /\ replied \subseteq Calls
    /\ executed \in Seq(Calls)
    /\ before \in [Calls -> SUBSET Calls]

\* What a caller is told is so: a command's own response only comes from a command
\* carried out, and "system busy", "not running" and a refused connection only from
\* one that never will be.  The other errors leave it open.
AnswersAreTrue ==
    \A i \in Calls :
        /\ outcome[i] = "response" => i \in Range(executed)
        /\ outcome[i] \in {"system busy", "not running", "could not talk"}
            => i \notin Range(executed) /\ ~InHand(i)

\* Commands are carried out in the order the operators gave them: one that was made
\* after another had returned, by whatever answer or timeout, never takes effect
\* before it.  A lock given up on cannot come after the unlock that followed it.
RealTimeOrder ==
    \A j \in Calls : \A i \in before[j] :
        j \in Range(executed)
            => /\ ~InHand(i)
               /\ \A m, n \in 1..Len(executed) :
                    executed[m] = i /\ executed[n] = j => m < n

\* What CommandLog calls pending, and what it calls an answer.
Pending == {i \in Calls : InHand(i) /\ i \notin Range(executed)}
Said == [o \in Outcomes |->
    CASE o \in {"none", "waiting"} -> o
      [] o = "response" -> "done"
      [] o \in {"system busy", "not running", "could not talk"} -> "refused"
      [] OTHER -> "unknown"]
Answers == [i \in Calls |-> Said[outcome[i]]]

Log == INSTANCE CommandLog WITH
    log <- executed, pending <- Pending, answer <- Answers, phase <- service, room <- Room

\* Towards the operators the socket is a log of commands: see CommandLog.  Once it has
\* the connection, only a full queue or the end of the service keeps it from carrying
\* the command out; giving up on the reply, on either side, does not.
CommandsAreLogged == Log!Spec

\* A main thread that hangs in a handler does not hang the socket: a connection is
\* taken from the backlog sooner or later.
ServedDespiteStall ==
    \A i \in Calls : (i \in Range(backlog)) ~> (i \notin Range(backlog))

=============================================================================
