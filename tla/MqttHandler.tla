---------------------------- MODULE MqttHandler ----------------------------
(***************************************************************************)
(* What Home Assistant is shown: MQTTHandler (mqtt_handler.py), the main   *)
(* thread's calls to it, the paho client it configures and the broker.     *)
(* Nothing is published while _connected is not set, and on_connect        *)
(* publishes availability and the discovery configs but no state: the      *)
(* retained state topics are only as good as the last publish that was     *)
(* handed to paho.                                                         *)
(***************************************************************************)
EXTENDS Integers, Sequences, SequencesExt

CONSTANT MaxOut     \* bound: messages paho holds when another may be added

ASSUME MaxOutAssumption == MaxOut \in Nat \ {0}

\* The topics with a state, and what they say.  "discovery" stands for the batch of
\* retained configs of _publish_discovery and _clear_retired.
StateTopics == {"lock", "door"}
States == [lock : {"LOCKED", "UNLOCKED"}, door : {"CLOSED", "OPEN"}]
Message(topic, value) == [topic |-> topic, value |-> value]
Messages ==
    {Message("availability", v) : v \in {"online", "offline"}}
    \cup {Message("discovery", "configs")}
    \cup {Message("lock", v) : v \in {"LOCKED", "UNLOCKED"}}
    \cup {Message("door", v) : v \in {"CLOSED", "OPEN"}}
Topics == {m.topic : m \in Messages}

VARIABLES
    main,           \* "down", "loop", "leaving" (between the parts of disconnect())
    actual,         \* the lock's state; the door state dispatched last
    reporting,      \* the door's initial report is still on the event queue
    connected,      \* _connected
    client,         \* paho: "off", "connecting", "greeting" (in on_connect), "up",
                    \* "broken" and not noticed yet
    out,            \* what paho has not seen acknowledged, in the order it sends it
    held,           \* what it will send again when on_connect has returned
    served,         \* the broker has a session of the client, and its will
    retained,       \* the broker's retained message of each topic
    stale,          \* history: topics whose last change paho did not get, or too early
    late            \* history: the last on_connect published during disconnect()

paho    == <<connected, client, out, held>>
broker  == <<served, retained>>
history == <<stale, late>>
vars == <<main, actual, reporting, paho, broker, history>>

----------------------------------------------------------------------------
(* The main thread *)

\* _safe_publish.
Publish(topic, value) ==
    out' = IF connected THEN Append(out, Message(topic, value)) ELSE out

\* A handler makes t's state s and publishes it.  While on_connect runs, paho sends at
\* once, before what it still has to send again.
Change(t, s) ==
    /\ main = "loop"
    /\ Len(out \o held) < MaxOut
    /\ actual' = [actual EXCEPT ![t] = s]
    /\ Publish(t, s)
    /\ stale' = IF connected /\ \A m \in Range(held) : m.topic # t
                THEN stale \ {t} ELSE stale \cup {t}
    /\ UNCHANGED <<main, connected, client, held, broker, late>>

DispatchLockSilently ==
    /\ main = "loop"
    /\ actual' = [actual EXCEPT !.lock = "LOCKED"]
    /\ UNCHANGED <<main, reporting, paho, broker, history>>

DispatchUnlock == Change("lock", "UNLOCKED") /\ UNCHANGED reporting
DispatchLock == Change("lock", "LOCKED") /\ UNCHANGED reporting

\* unlock() raises after it has driven the relay: nothing is published.
DispatchUnlockFails ==
    /\ main = "loop"
    /\ actual' = [actual EXCEPT !.lock = "UNLOCKED"]
    /\ stale' = stale \cup {"lock"}
    /\ UNCHANGED <<main, reporting, paho, broker, late>>

\* The DOOR_STATE that start() posted, and those of the edges after it.
DispatchInitialReport ==
    /\ reporting
    /\ reporting' = FALSE
    /\ Change("door", actual.door)
DispatchDoorState ==
    /\ ~reporting
    /\ \E s \in {"CLOSED", "OPEN"} : Change("door", s)
    /\ UNCHANGED reporting

\* main() up to the loop: the lock comes up locked and says nothing, the sensor posts
\* its state, connect() fails or sends CONNECT, loop_start() takes over.
Start ==
    /\ main = "down"
    /\ main' = "loop"
    /\ \E s \in {"CLOSED", "OPEN"} : actual' = [lock |-> "LOCKED", door |-> s]
    /\ reporting' = TRUE
    /\ client' \in {"off", "connecting"}
    /\ stale' = StateTopics
    /\ UNCHANGED <<connected, out, held, broker, late>>

LeaveSayingNothing ==
    /\ main = "loop"
    /\ main' = "leaving"
    /\ UNCHANGED <<actual, reporting, paho, broker, history>>

\* disconnect(), first the publish that looks at _connected ...
LeaveSayingOffline ==
    /\ main = "loop"
    /\ main' = "leaving"
    /\ Publish("availability", "offline")
    /\ UNCHANGED <<actual, reporting, connected, client, held, broker, history>>

ProcessEnds ==
    /\ main' = "down"
    /\ client' = "off"
    /\ connected' = FALSE
    /\ out' = <<>>
    /\ held' = <<>>
    /\ reporting' = FALSE
    /\ UNCHANGED <<actual, retained, history>>

\* ... then loop_stop(), which waits for a callback that runs and lets paho send what it
\* can, and DISCONNECT, which cancels the will.
Leave ==
    /\ main = "leaving"
    /\ client # "greeting"
    /\ client = "up" => out = <<>>
    /\ served' = (served /\ client # "up")
    /\ ProcessEnds

\* The process dies, also in the middle of disconnect().
Crash ==
    /\ main # "down"
    /\ UNCHANGED served
    /\ ProcessEnds

----------------------------------------------------------------------------
(* paho's thread and the network *)

\* reconnect_delay_set: the thread tries again.
Reconnect ==
    /\ main # "down"
    /\ client = "off"
    /\ client' = "connecting"
    /\ UNCHANGED <<main, actual, reporting, connected, out, held, broker, history>>

\* A CONNACK with rc 0 and the first line of on_connect.  A broker that still has the
\* old session of this client_id ends it, and its will is published first.
OnConnect ==
    /\ client = "connecting"
    /\ Len(out) + 2 <= MaxOut
    /\ client' = "greeting"
    /\ connected' = TRUE
    /\ held' = out
    /\ out' = <<>>
    /\ served' = TRUE
    /\ retained' = IF served THEN [retained EXCEPT !["availability"] = "offline"]
                   ELSE retained
    /\ UNCHANGED <<main, actual, reporting, history>>

\* The rest of on_connect, then what paho held.
GreetWith(greeting) ==
    /\ client = "greeting"
    /\ client' = "up"
    /\ out' = out \o greeting \o held
    /\ held' = <<>>
    /\ late' = (main = "leaving")
    /\ UNCHANGED <<main, actual, reporting, connected, broker, stale>>
Greeting == <<Message("availability", "online"), Message("discovery", "configs")>>
GreetUnlessKnown ==
    GreetWith(IF retained["discovery"] = "configs" THEN <<>> ELSE Greeting)
Greet == GreetWith(Greeting)

\* The connection is lost, or the broker refuses it (rc # 0).
LinkBreaks ==
    /\ client \in {"connecting", "up"}
    /\ client' = "broken"
    /\ UNCHANGED <<main, actual, reporting, connected, out, held, broker, history>>

OnDisconnectUnnoticed ==
    /\ client = "broken"
    /\ client' = "off"
    /\ UNCHANGED <<main, actual, reporting, connected, out, held, broker, history>>
OnDisconnect ==
    /\ client = "broken"
    /\ client' = "off"
    /\ connected' = FALSE
    /\ UNCHANGED <<main, actual, reporting, out, held, broker, history>>

Deliver ==
    /\ client = "up"
    /\ out # <<>>
    /\ retained' = [retained EXCEPT ![Head(out).topic] = Head(out).value]
    /\ out' = Tail(out)
    /\ UNCHANGED <<main, actual, reporting, connected, client, held, served, history>>

\* The connection is lost after the message and before its PUBACK: it is sent again.
DeliverUnacknowledged ==
    /\ client = "up"
    /\ out # <<>>
    /\ retained' = [retained EXCEPT ![Head(out).topic] = Head(out).value]
    /\ client' = "broken"
    /\ UNCHANGED <<main, actual, reporting, connected, out, held, served, history>>

\* The broker finds the connection gone and publishes the will.
BrokerGivesUp ==
    /\ served
    /\ client \notin {"greeting", "up"}
    /\ served' = FALSE
    /\ retained' = [retained EXCEPT !["availability"] = "offline"]
    /\ UNCHANGED <<main, actual, reporting, paho, history>>

----------------------------------------------------------------------------
Init ==
    /\ main = "down"
    /\ actual \in States
    /\ reporting = FALSE
    /\ connected = FALSE
    /\ client = "off"
    /\ out = <<>>
    /\ held = <<>>
    /\ served = FALSE
    /\ retained = [t \in Topics |-> "none"]
    /\ stale = StateTopics
    /\ late = FALSE

Next ==
    \/ DispatchUnlock \/ DispatchLock \/ DispatchUnlockFails
    \/ DispatchInitialReport \/ DispatchDoorState
    \/ Start \/ LeaveSayingOffline \/ Leave \/ Crash
    \/ Reconnect \/ OnConnect \/ Greet \/ LinkBreaks \/ OnDisconnect
    \/ Deliver \/ DeliverUnacknowledged \/ BrokerGivesUp

Spec == Init /\ [][Next]_vars

\* A connection that is up carries messages, and a shutdown runs to its end.  The network,
\* the broker and the door owe nothing.
FairSpec == Spec /\ WF_vars(Deliver) /\ WF_vars(Leave)

----------------------------------------------------------------------------
(* Properties *)

\* Every variable keeps its type; _connected is what paho last said.
TypeOK ==
    /\ main \in {"down", "loop", "leaving"}
    /\ actual \in States
    /\ reporting \in BOOLEAN
    /\ connected \in BOOLEAN
    /\ client \in {"greeting", "up"} => connected
    /\ client \in {"off", "connecting"} => ~connected
    /\ client \in {"off", "connecting", "greeting", "up", "broken"}
    /\ out \in Seq(Messages)
    /\ held \in Seq(Messages)
    /\ Len(out \o held) <= MaxOut + Len(Greeting) + 1
    /\ served \in BOOLEAN
    /\ retained \in [Topics -> {m.value : m \in Messages} \cup {"none"}]
    /\ stale \subseteq StateTopics
    /\ late \in BOOLEAN

\* A state topic shows the state it stands for once paho has delivered what it was
\* given, unless the last change came while _connected was not set, in a handler that
\* failed, or while on_connect ran and an older change was still to be sent again: no
\* lost connection, resent message, restart or will makes it wrong otherwise.
TopicsFollowState ==
    \A t \in StateTopics :
        /\ main # "down"
        /\ t \notin stale
        /\ \A m \in Range(out \o held) : m.topic # t
        => retained[t] = actual[t]

\* A service that is gone is shown as offline, whether it stopped, died or lost the
\* network, in whatever order the will, the last publish and a reconnection come,
\* except when on_connect publishes while disconnect() is under way: its "online" may
\* then come after the "offline", or without one, and stay until the next start.
GoneIsOffline ==
    ~served /\ ~late => retained["availability"] # "online"

\* A connection that lasts shows the service online and its entities known, also after
\* the broker published the will of the connection before it.
UpIsOnline ==
    <>[](client = "up")
        => <>[](/\ retained["availability"] = "online"
                /\ retained["discovery"] = "configs")

=============================================================================
