-------------------------- MODULE MqttHandlerProofs --------------------------
(***************************************************************************)
(* What Home Assistant is shown, however many messages paho holds.         *)
(*                                                                         *)
(* Both properties speak of the broker's retained messages once nothing is *)
(* on its way to them.  The invariants speak of what they will be: of the  *)
(* last message about a topic among those paho still has to send, and of   *)
(* the retained one when there is none (Settles).  Sending a message,      *)
(* sending it twice, losing the connection and the greeting of the next    *)
(* one do not change that.                                                 *)
(***************************************************************************)
EXTENDS MqttHandler, SequenceTheorems, TLAPS

\* No message of q is about topic t.
Silent(q, t) == \A i \in 1..Len(q) : q[i].topic # t

\* The last message of q about topic t says v.
Says(q, t, v) ==
    \E i \in 1..Len(q) :
        /\ q[i].topic = t
        /\ q[i].value = v
        /\ \A j \in 1..Len(q) : j > i => q[j].topic # t

\* A topic at which r is retained will settle at v once q has been sent.
Settles(q, t, r, v) == Says(q, t, v) \/ (Silent(q, t) /\ r = v)

\* What paho still has to send, in the order in which it will.
Pending == out \o held

\* The process, paho and the broker's session of it agree.
Sessions ==
    /\ main = "down" => client = "off"
    /\ client # "greeting" => held = <<>>
    /\ client \in {"greeting", "up"} => served

\* Each part of the bound on what paho holds.
OutBound ==
    LET Goodbye == IF main = "leaving" THEN 1 ELSE 0 IN
    /\ client = "greeting" => Len(Pending) <= MaxOut + Goodbye
    /\ Len(Pending) <= MaxOut + 2 + Goodbye

\* A topic that is not stale will settle at the state it stands for.
StatesSettle ==
    main # "down" =>
        \A t \in StateTopics \ stale : Settles(Pending, t, retained[t], actual[t])

\* A shutdown over a connection that was there before it will settle at "offline", and
\* a broker without a session shows no "online".
OfflineSettles ==
    /\ main = "leaving" /\ client = "up" /\ ~late
        => Settles(out, "availability", retained["availability"], "offline")
    /\ GoneIsOffline

IInv == TypeOK /\ Sessions /\ OutBound /\ StatesSettle /\ OfflineSettles

----------------------------------------------------------------------------
(* Messages and sequences of them *)

LEMMA MessageType ==
    /\ \A v \in {"online", "offline"} : Message("availability", v) \in Messages
    /\ Message("discovery", "configs") \in Messages
    /\ \A t \in StateTopics, s \in States : Message(t, s[t]) \in Messages
    /\ \A t, v : Message(t, v).topic = t /\ Message(t, v).value = v
  BY DEF Messages, Message, StateTopics, States

\* The topics, one by one.
LEMMA TopicsAre == Topics = {"availability", "discovery", "lock", "door"}
<1>1. ASSUME NEW m \in Messages
      PROVE  m.topic \in {"availability", "discovery", "lock", "door"}
  BY DEF Messages, Message
<1>2. ASSUME NEW t \in {"availability", "discovery", "lock", "door"}
      PROVE  \E m \in Messages : m.topic = t
  <2> DEFINE M == {Message("availability", "online"), Message("discovery", "configs"),
                   Message("lock", "LOCKED"), Message("door", "OPEN")}
  <2>1. M \subseteq Messages
    BY DEF Messages
  <2>2. \E m \in M : m.topic = t
    BY DEF Message
  <2> QED BY <2>1, <2>2
<1> QED BY <1>1, <1>2 DEF Topics

\* A message inserted where nothing about its topic follows decides its topic, ...
LEMMA SettlesInserted ==
    ASSUME NEW a \in Seq(Messages), NEW b \in Seq(Messages), NEW m \in Messages, NEW r,
           Silent(b, m.topic)
    PROVE  Settles(Append(a, m) \o b, m.topic, r, m.value)
<1> DEFINE q == Append(a, m) \o b
<1>1. /\ Len(q) = Len(a) + 1 + Len(b)
      /\ q[Len(a) + 1] = m
      /\ \A j \in 1..Len(b) : q[Len(a) + 1 + j] = b[j]
      /\ Len(a) \in Nat /\ Len(b) \in Nat
  BY ConcatProperties, AppendProperties
<1> HIDE DEF q
<1>2. ASSUME NEW j \in 1..Len(q), j > Len(a) + 1 PROVE q[j].topic # m.topic
  <2>1. j - (Len(a) + 1) \in 1..Len(b) /\ j = Len(a) + 1 + (j - (Len(a) + 1))
    BY <1>1, <1>2
  <2>2. q[j] = b[j - (Len(a) + 1)]
    BY <1>1, <2>1
  <2> QED BY <2>1, <2>2 DEF Silent
<1>3. Len(a) + 1 \in 1..Len(q)
  BY <1>1
<1>4. Says(q, m.topic, m.value)
  BY <1>1, <1>2, <1>3 DEF Says
<1> QED BY <1>4 DEF Settles, q

\* ... and messages about other topics inserted anywhere change nothing.
LEMMA SettlesAround ==
    ASSUME NEW a \in Seq(Messages), NEW b \in Seq(Messages), NEW c \in Seq(Messages),
           NEW t, NEW r, NEW v, Silent(c, t), Settles(a \o b, t, r, v)
    PROVE  Settles((a \o c) \o b, t, r, v)
<1> DEFINE p == a \o b
           q == (a \o c) \o b
<1>1. /\ Len(a) \in Nat /\ Len(b) \in Nat /\ Len(c) \in Nat
      /\ Len(p) = Len(a) + Len(b)
      /\ Len(q) = Len(a) + Len(c) + Len(b)
      /\ \A i \in 1..Len(a) : p[i] = a[i] /\ q[i] = a[i]
      /\ \A i \in 1..Len(b) : p[Len(a) + i] = b[i] /\ q[Len(a) + Len(c) + i] = b[i]
      /\ \A i \in 1..Len(c) : q[Len(a) + i] = c[i]
  BY ConcatProperties
<1> HIDE DEF p, q
\* Each position of q is one of p or one of c.
<1>2. ASSUME NEW j \in 1..Len(q), q[j].topic = t
      PROVE  \E i \in 1..Len(p) :
                 /\ p[i] = q[j]
                 /\ (i <= Len(a) /\ j = i) \/ (i > Len(a) /\ j = i + Len(c))
  <2> j \in Nat /\ 1 <= j /\ j <= Len(a) + Len(c) + Len(b)
    BY <1>1
  <2>1. CASE j <= Len(a)
    <3>1. j \in 1..Len(a) /\ j \in 1..Len(p)
      BY <1>1, <2>1
    <3> QED BY <1>1, <2>1, <3>1
  <2>2. CASE j > Len(a) /\ j <= Len(a) + Len(c)
    <3>1. j - Len(a) \in 1..Len(c) /\ j = Len(a) + (j - Len(a))
      BY <1>1, <2>2
    <3>2. q[j] = c[j - Len(a)]
      BY <1>1, <3>1
    <3> QED BY <1>2, <3>1, <3>2 DEF Silent
  <2>3. CASE j > Len(a) + Len(c)
    <3>1. PICK i \in 1..Len(b) : j = Len(a) + Len(c) + i
      <4>1. j - Len(a) - Len(c) \in 1..Len(b)
            /\ j = Len(a) + Len(c) + (j - Len(a) - Len(c))
        BY <1>1, <2>3
      <4> QED BY <4>1
    <3>2. /\ Len(a) + i \in 1..Len(p) /\ Len(a) + i > Len(a)
          /\ j = (Len(a) + i) + Len(c)
      BY <1>1, <3>1
    <3>3. p[Len(a) + i] = q[j]
      BY <1>1, <3>1
    <3> QED BY <3>2, <3>3
  <2> QED BY <1>1, <2>1, <2>2, <2>3
<1>3. CASE Silent(p, t) /\ r = v
  <2>1. ASSUME NEW j \in 1..Len(q), q[j].topic = t PROVE FALSE
    <3>1. PICK i \in 1..Len(p) : p[i] = q[j]
      BY <1>2, <2>1
    <3> QED BY <1>3, <2>1, <3>1 DEF Silent
  <2>2. Silent(q, t)
    BY <2>1 DEF Silent
  <2> QED BY <1>3, <2>2 DEF Settles, q
<1>4. CASE Says(p, t, v)
  <2>1. PICK k \in 1..Len(p) : /\ p[k].topic = t
                               /\ p[k].value = v
                               /\ \A j \in 1..Len(p) : j > k => p[j].topic # t
    BY <1>4 DEF Says
  <2>2. CASE k <= Len(a)
    <3>1. k \in 1..Len(q) /\ q[k] = p[k]
      BY <1>1, <2>2
    <3>2. ASSUME NEW j \in 1..Len(q), j > k, q[j].topic = t PROVE FALSE
      <4>1. PICK i \in 1..Len(p) :
                /\ p[i] = q[j]
                /\ (i <= Len(a) /\ j = i) \/ (i > Len(a) /\ j = i + Len(c))
        BY <1>2, <3>2
      <4>2. i > k
        BY <1>1, <2>2, <3>2, <4>1
      <4> QED BY <2>1, <3>2, <4>1, <4>2
    <3>3. Says(q, t, v)
      BY <2>1, <3>1, <3>2 DEF Says
    <3> QED BY <3>3 DEF Settles, q
  <2>3. CASE k > Len(a)
    <3>1. k - Len(a) \in 1..Len(b) /\ k = Len(a) + (k - Len(a))
      BY <1>1, <2>3
    <3>2. /\ k + Len(c) \in 1..Len(q)
          /\ k + Len(c) = Len(a) + Len(c) + (k - Len(a))
      BY <1>1, <3>1
    <3>3. q[k + Len(c)] = p[k]
      BY <1>1, <3>1, <3>2
    <3>4. ASSUME NEW j \in 1..Len(q), j > k + Len(c), q[j].topic = t PROVE FALSE
      <4>1. PICK i \in 1..Len(p) :
                /\ p[i] = q[j]
                /\ (i <= Len(a) /\ j = i) \/ (i > Len(a) /\ j = i + Len(c))
        BY <1>2, <3>4
      <4>2. i > k
        BY <1>1, <2>3, <3>4, <4>1
      <4> QED BY <2>1, <3>4, <4>1, <4>2
    <3>5. Says(q, t, v)
      BY <2>1, <3>2, <3>3, <3>4 DEF Says
    <3> QED BY <3>5 DEF Settles, q
  <2> QED BY <1>1, <2>2, <2>3
<1> QED BY <1>3, <1>4 DEF Settles, p

\* The broker has the first message: the rest settles at the same.
LEMMA SettlesTail ==
    ASSUME NEW q \in Seq(Messages), q # <<>>, NEW t, NEW r, NEW v, Settles(q, t, r, v)
    PROVE  Settles(Tail(q), t, IF Head(q).topic = t THEN Head(q).value ELSE r, v)
<1> DEFINE s == Tail(q)
<1>1. /\ Len(q) \in Nat \ {0} /\ Len(s) = Len(q) - 1
      /\ Head(q) = q[1]
      /\ \A i \in 1..Len(s) : i + 1 \in 1..Len(q) /\ s[i] = q[i + 1]
      /\ \A i \in 2..Len(q) : i - 1 \in 1..Len(s) /\ s[i - 1] = q[i]
  OBVIOUS
<1> HIDE DEF s
<1>2. CASE Silent(q, t) /\ r = v
  BY <1>1, <1>2 DEF Silent, Settles, s
<1>3. CASE Says(q, t, v)
  <2>1. PICK k \in 1..Len(q) : /\ q[k].topic = t
                               /\ q[k].value = v
                               /\ \A j \in 1..Len(q) : j > k => q[j].topic # t
    BY <1>3 DEF Says
  <2>2. CASE k = 1
    <3>1. Silent(s, t)
      BY <1>1, <2>1, <2>2 DEF Silent
    <3> QED BY <1>1, <2>1, <2>2, <3>1 DEF Settles, s
  <2>3. CASE k # 1
    <3>1. k - 1 \in 1..Len(s) /\ s[k - 1] = q[k]
      BY <1>1, <2>3
    <3>2. ASSUME NEW j \in 1..Len(s), j > k - 1 PROVE s[j].topic # t
      BY <1>1, <2>1, <3>2
    <3>3. Says(s, t, v)
      BY <2>1, <3>1, <3>2 DEF Says
    <3> QED BY <3>3 DEF Settles, s
  <2> QED BY <2>2, <2>3
<1> QED BY <1>2, <1>3 DEF Settles

\* The broker has the first message and paho does not know it: it is sent again.
LEMMA SettlesResent ==
    ASSUME NEW q \in Seq(Messages), q # <<>>, NEW t, NEW r, NEW v, Settles(q, t, r, v)
    PROVE  Settles(q, t, IF Head(q).topic = t THEN Head(q).value ELSE r, v)
<1>1. Head(q) = q[1] /\ 1 \in 1..Len(q)
  OBVIOUS
<1> QED BY <1>1 DEF Settles, Silent

----------------------------------------------------------------------------
(* The variables *)

\* What on_connect publishes says nothing about a state.
LEMMA GreetingIs ==
    /\ Greeting \in Seq(Messages)
    /\ Len(Greeting) = 2
    /\ \A t \in StateTopics : Silent(Greeting, t)
  BY MessageType DEF Greeting, Silent, StateTopics

\* What TypeOK says of the sequences and of where a topic is among them.
LEMMA PendingIs ==
    ASSUME TypeOK
    PROVE  /\ Len(out) \in Nat /\ Len(held) \in Nat
           /\ Len(Pending) = Len(out) + Len(held)
           /\ held = <<>> => Pending = out
  BY DEF TypeOK, Pending

\* A handler's change of a state, and what it hands to paho.
LEMMA ChangeIs ==
    ASSUME TypeOK, NEW t \in StateTopics, NEW s, Change(t, s),
           \E u \in States : u[t] = s
    PROVE  /\ actual' \in States
           /\ actual'[t] = s
           /\ \A o \in StateTopics \ {t} : actual'[o] = actual[o]
           /\ Message(t, s) \in Messages
           /\ out' = IF connected THEN Append(out, Message(t, s)) ELSE out
           /\ out' \in Seq(Messages)
           /\ Len(out') <= Len(out) + 1
           /\ stale' \subseteq StateTopics
<1>1. /\ actual' \in States
      /\ actual'[t] = s
      /\ \A o \in StateTopics \ {t} : actual'[o] = actual[o]
  BY DEF TypeOK, Change, States, StateTopics
<1>2. Message(t, s) \in Messages
  BY MessageType
<1>3. /\ out' = IF connected THEN Append(out, Message(t, s)) ELSE out
      /\ out' \in Seq(Messages)
      /\ Len(out') <= Len(out) + 1
  BY <1>2 DEF TypeOK, Change, Publish
<1>4. stale' \subseteq StateTopics
  BY DEF TypeOK, Change
<1> QED BY <1>1, <1>2, <1>3, <1>4

\* The handlers that publish a state.
Changes == DispatchUnlock \/ DispatchLock \/ DispatchInitialReport \/ DispatchDoorState

LEMMA ChangesAre ==
    ASSUME TypeOK, Changes
    PROVE  \E t \in StateTopics, s \in {"LOCKED", "UNLOCKED", "CLOSED", "OPEN"} :
               Change(t, s) /\ \E u \in States : u[t] = s
<1> DEFINE U(l, d) == [lock |-> l, door |-> d]
<1>1. \A l \in {"LOCKED", "UNLOCKED"}, d \in {"CLOSED", "OPEN"} :
          U(l, d) \in States /\ U(l, d)["lock"] = l /\ U(l, d)["door"] = d
  BY DEF States
<1>2. actual["door"] \in {"CLOSED", "OPEN"}
  BY DEF TypeOK, States
<1> HIDE DEF U
<1>3. CASE DispatchUnlock
  BY <1>1, <1>3 DEF DispatchUnlock, StateTopics
<1>4. CASE DispatchLock
  BY <1>1, <1>4 DEF DispatchLock, StateTopics
<1>5. CASE DispatchInitialReport
  BY <1>1, <1>2, <1>5 DEF DispatchInitialReport, StateTopics
<1>6. CASE DispatchDoorState
  BY <1>1, <1>6 DEF DispatchDoorState, StateTopics
<1> QED BY <1>3, <1>4, <1>5, <1>6 DEF Changes

\* Nothing is connected, sent or retained before the first start.
LEMMA InvInit == Init => IInv
<1> SUFFICES ASSUME Init PROVE IInv
  OBVIOUS
<1>1. TypeOK
  <2>1. out \in Seq(Messages) /\ held \in Seq(Messages) /\ Len(out \o held) = 0
    BY DEF Init
  <2>2. Len(out \o held) <= MaxOut + Len(Greeting) + 1
    BY <2>1, MaxOutAssumption, GreetingIs
  <2>3. retained \in [Topics -> {m.value : m \in Messages} \cup {"none"}]
    BY DEF Init
  <2> QED BY <2>1, <2>2, <2>3 DEF Init, TypeOK
<1>2. Sessions /\ OutBound /\ StatesSettle
  BY MaxOutAssumption DEF Init, Sessions, OutBound, StatesSettle, Pending
<1>3. OfflineSettles
  BY TopicsAre DEF Init, OfflineSettles, GoneIsOffline
<1> QED BY <1>1, <1>2, <1>3 DEF IInv

\* Every action keeps the session of the broker with the client that has one.
LEMMA SessionsStep == IInv /\ [Next]_vars => Sessions'
<1> SUFFICES ASSUME IInv, [Next]_vars PROVE Sessions'
  OBVIOUS
<1> USE DEF IInv, Sessions, paho, broker, history
<1>1. CASE Changes
  BY <1>1 DEF Changes, DispatchUnlock, DispatchLock, DispatchInitialReport,
              DispatchDoorState, Change
<1>2. CASE DispatchUnlockFails \/ LeaveSayingOffline \/ Start
  BY <1>2 DEF DispatchUnlockFails, LeaveSayingOffline, Start
<1>3. CASE Leave \/ Crash
  BY <1>3 DEF Leave, Crash, ProcessEnds
<1>4. CASE Reconnect \/ OnConnect \/ Greet
  BY <1>4 DEF Reconnect, OnConnect, Greet, GreetWith
<1>5. CASE LinkBreaks \/ OnDisconnect
  BY <1>5 DEF LinkBreaks, OnDisconnect
<1>6. CASE Deliver \/ DeliverUnacknowledged \/ BrokerGivesUp
  BY <1>6 DEF Deliver, DeliverUnacknowledged, BrokerGivesUp
<1>7. CASE UNCHANGED vars
  BY <1>7 DEF vars
<1> QED BY <1>1, <1>2, <1>3, <1>4, <1>5, <1>6, <1>7 DEF Next, Changes

\* The bound on what paho holds, from the guards: a handler adds one message below it,
\* the greeting two and disconnect() one more.
LEMMA OutBoundStep ==
    ASSUME IInv, [Next]_vars, out' \in Seq(Messages), held' \in Seq(Messages)
    PROVE  OutBound'
<1> USE DEF paho, broker, history
<1>1. TypeOK /\ Sessions /\ OutBound /\ MaxOut \in Nat
  BY MaxOutAssumption DEF IInv
<1>2. /\ Len(out) \in Nat /\ Len(held) \in Nat
      /\ Len(Pending) = Len(out) + Len(held)
  BY <1>1, PendingIs
<1>3. /\ Len(out') \in Nat /\ Len(held') \in Nat
      /\ Len(Pending') = Len(out') + Len(held')
  BY DEF Pending
<1>4. CASE Changes
  <2> PICK t \in StateTopics : \E s : Change(t, s) /\ \E u \in States : u[t] = s
    BY <1>1, <1>4, ChangesAre
  <2>1. PICK s : Change(t, s) /\ \E u \in States : u[t] = s
    OBVIOUS
  <2>2. Len(out') <= Len(out) + 1 /\ held' = held /\ Len(Pending) < MaxOut
    BY <1>1, <2>1, ChangeIs DEF Change, Pending
  <2> QED BY <1>1, <1>2, <1>3, <2>2 DEF OutBound
<1>5. CASE LeaveSayingOffline
  <2>1. Len(out') <= Len(out) + 1 /\ held' = held
    BY <1>1, <1>5, <1>2 DEF LeaveSayingOffline, Publish, TypeOK
  <2> QED BY <1>1, <1>2, <1>3, <1>5, <2>1 DEF OutBound, LeaveSayingOffline
<1>6. CASE Leave \/ Crash
  <2>1. Len(out') = 0 /\ Len(held') = 0
    BY <1>6 DEF Leave, Crash, ProcessEnds
  <2> QED BY <1>1, <1>3, <2>1 DEF OutBound
<1>7. CASE Start
  BY <1>1, <1>2, <1>3, <1>7 DEF Start, OutBound
<1>8. CASE OnConnect
  <2>1. Len(out') = 0 /\ Len(held') = Len(out) /\ Len(out) + 2 <= MaxOut
    BY <1>8 DEF OnConnect
  <2> QED BY <1>1, <1>2, <1>3, <2>1 DEF OutBound
<1>9. CASE Greet
  <2>1. Len(out') = Len(out) + 2 + Len(held) /\ Len(held') = 0
    <3>1. out' = (out \o Greeting) \o held /\ held' = <<>>
      BY <1>9 DEF Greet, GreetWith
    <3>2. out \in Seq(Messages) /\ held \in Seq(Messages)
      BY <1>1 DEF TypeOK
    <3>3. out \o Greeting \in Seq(Messages) /\ Len(out \o Greeting) = Len(out) + 2
      <4>1. Greeting \in Seq(Messages) /\ Len(Greeting) = 2
        BY GreetingIs
      <4>2. Len(out \o Greeting) = Len(out) + Len(Greeting)
        BY <3>2, <4>1, ConcatProperties
      <4> QED BY <3>2, <4>1, <4>2, ConcatProperties
    <3>4. Len((out \o Greeting) \o held) = Len(out \o Greeting) + Len(held)
      BY <3>2, <3>3, ConcatProperties
    <3> QED BY <3>1, <3>3, <3>4
  <2> QED BY <1>1, <1>2, <1>3, <1>9, <2>1 DEF OutBound, Greet, GreetWith
<1>10. CASE Deliver
  <2>1. Len(out') = Len(out) - 1 /\ held' = held
    BY <1>1, <1>10 DEF Deliver, TypeOK
  <2> QED BY <1>1, <1>2, <1>3, <1>10, <2>1 DEF OutBound, Deliver
<1>11. CASE \/ DispatchUnlockFails \/ Reconnect \/ LinkBreaks \/ OnDisconnect
            \/ DeliverUnacknowledged \/ BrokerGivesUp \/ UNCHANGED vars
  <2>1. out' = out /\ held' = held /\ main' = main /\ (client' = "greeting" => client = "greeting")
    BY <1>11 DEF DispatchUnlockFails, Reconnect, LinkBreaks, OnDisconnect,
                 DeliverUnacknowledged, BrokerGivesUp, vars
  <2> QED BY <1>1, <1>2, <1>3, <2>1 DEF OutBound
<1> QED
  BY <1>4, <1>5, <1>6, <1>7, <1>8, <1>9, <1>10, <1>11 DEF Next, Changes

\* Every action keeps the types; the bound is OutBound's.
LEMMA SequencesStep ==
    ASSUME IInv, [Next]_vars
    PROVE  out' \in Seq(Messages) /\ held' \in Seq(Messages)
<1> USE DEF paho, broker, history
<1>1. TypeOK /\ out \in Seq(Messages) /\ held \in Seq(Messages)
  BY DEF IInv, TypeOK
<1>2. CASE Changes
  <2> PICK t \in StateTopics : \E s : Change(t, s) /\ \E u \in States : u[t] = s
    BY <1>1, <1>2, ChangesAre
  <2>1. PICK s : Change(t, s) /\ \E u \in States : u[t] = s
    OBVIOUS
  <2> QED BY <1>1, <2>1, ChangeIs DEF Change
<1>3. CASE LeaveSayingOffline
  BY <1>1, <1>3, MessageType DEF LeaveSayingOffline, Publish
<1>4. CASE Leave \/ Crash
  <2>1. out' = <<>> /\ held' = <<>>
    BY <1>4 DEF Leave, Crash, ProcessEnds
  <2> QED BY <2>1
<1>5. CASE OnConnect
  BY <1>1, <1>5 DEF OnConnect
<1>6. CASE Greet
  BY <1>1, <1>6, GreetingIs DEF Greet, GreetWith
<1>7. CASE Deliver
  BY <1>1, <1>7 DEF Deliver
<1>8. CASE \/ DispatchUnlockFails \/ Start \/ Reconnect \/ LinkBreaks \/ OnDisconnect
           \/ DeliverUnacknowledged \/ BrokerGivesUp \/ UNCHANGED vars
  BY <1>1, <1>8 DEF DispatchUnlockFails, Start, Reconnect, LinkBreaks, OnDisconnect,
                    DeliverUnacknowledged, BrokerGivesUp, vars
<1> QED BY <1>2, <1>3, <1>4, <1>5, <1>6, <1>7, <1>8 DEF Next, Changes

\* A function that is updated with one of its values.
LEMMA UpdateType ==
    ASSUME NEW S, NEW V, NEW f \in [S -> V], NEW k, NEW w \in V
    PROVE  [f EXCEPT ![k] = w] \in [S -> V]
  OBVIOUS

\* The retained messages are values of messages, whatever the broker does with them.
LEMMA RetainedStep ==
    ASSUME IInv, [Next]_vars
    PROVE  retained' \in [Topics -> {m.value : m \in Messages} \cup {"none"}]
<1> USE DEF paho, broker, history
<1> DEFINE Values == {m.value : m \in Messages} \cup {"none"}
<1>1. /\ TypeOK /\ out \in Seq(Messages) /\ held \in Seq(Messages)
      /\ retained \in [Topics -> Values]
  BY DEF IInv, TypeOK
<1>2. "offline" \in Values
  <2>1. Message("availability", "offline") \in Messages
    BY MessageType
  <2>2. Message("availability", "offline").value = "offline"
    BY MessageType
  <2> QED BY <2>1, <2>2
<1>3. CASE Deliver \/ DeliverUnacknowledged
  <2>1. Head(out) \in Messages
    BY <1>1, <1>3 DEF Deliver, DeliverUnacknowledged
  <2>2. Head(out).value \in Values
    BY <2>1
  <2>3. retained' = [retained EXCEPT ![Head(out).topic] = Head(out).value]
    BY <1>3 DEF Deliver, DeliverUnacknowledged
  <2> QED BY <1>1, <2>2, <2>3, UpdateType
<1>4. CASE OnConnect \/ BrokerGivesUp
  <2>1. [retained EXCEPT !["availability"] = "offline"] \in [Topics -> Values]
    BY <1>1, <1>2, UpdateType
  <2>2. retained' \in {retained, [retained EXCEPT !["availability"] = "offline"]}
    BY <1>4 DEF OnConnect, BrokerGivesUp
  <2> QED BY <1>1, <2>1, <2>2
<1>5. CASE \/ Changes \/ DispatchUnlockFails \/ Start \/ LeaveSayingOffline \/ Leave
           \/ Crash \/ Reconnect \/ Greet \/ LinkBreaks \/ OnDisconnect
           \/ UNCHANGED vars
  <2>1. retained' = retained
    BY <1>5
    DEF Changes, DispatchUnlock, DispatchLock, DispatchInitialReport, DispatchDoorState,
        Change, DispatchUnlockFails, Start, LeaveSayingOffline, Leave, Crash,
        ProcessEnds, Reconnect, Greet, GreetWith, LinkBreaks, OnDisconnect, vars
  <2> QED BY <1>1, <2>1
<1> QED BY <1>3, <1>4, <1>5 DEF Next, Changes

LEMMA TypeStep == IInv /\ [Next]_vars => TypeOK'
<1> SUFFICES ASSUME IInv, [Next]_vars PROVE TypeOK'
  OBVIOUS
<1> USE DEF paho, broker, history
<1>1. TypeOK /\ Sessions
  BY DEF IInv
<1>2. /\ out' \in Seq(Messages) /\ held' \in Seq(Messages)
      /\ retained' \in [Topics -> {m.value : m \in Messages} \cup {"none"}]
  BY SequencesStep, RetainedStep
<1>3. Len(out' \o held') <= MaxOut + Len(Greeting) + 1
  <2>1. OutBound'
    BY <1>2, OutBoundStep
  <2>2. Len(Pending') \in Nat
    BY <1>2 DEF Pending
  <2> QED BY <2>1, <2>2, GreetingIs, MaxOutAssumption DEF OutBound, Pending
<1>4. CASE Changes
  <2> PICK t \in StateTopics : \E s : Change(t, s) /\ \E u \in States : u[t] = s
    BY <1>1, <1>4, ChangesAre
  <2>1. PICK s : Change(t, s) /\ \E u \in States : u[t] = s
    OBVIOUS
  <2>2. actual' \in States /\ stale' \subseteq StateTopics
    BY <1>1, <2>1, ChangeIs
  <2>3. reporting' \in BOOLEAN
    BY <1>1, <1>4 DEF TypeOK, Changes, DispatchUnlock, DispatchLock,
                      DispatchInitialReport, DispatchDoorState
  <2> QED BY <1>1, <1>2, <1>3, <2>1, <2>2, <2>3 DEF TypeOK, Change
<1>5. CASE DispatchUnlockFails \/ LeaveSayingOffline
  <2>1. actual' \in States
    BY <1>1, <1>5 DEF TypeOK, DispatchUnlockFails, LeaveSayingOffline, States
  <2>2. stale' \subseteq StateTopics
    BY <1>1, <1>5 DEF TypeOK, DispatchUnlockFails, LeaveSayingOffline, StateTopics
  <2> QED BY <1>1, <1>2, <1>3, <1>5, <2>1, <2>2
          DEF TypeOK, DispatchUnlockFails, LeaveSayingOffline
<1>6. CASE Start
  <2>1. actual' \in States
    BY <1>6 DEF Start, States
  <2>2. client = "off" /\ ~connected /\ connected' = connected
    BY <1>1, <1>6 DEF TypeOK, Sessions, Start
  <2>3. client' \in {"off", "connecting"}
    BY <1>6 DEF Start
  <2> QED BY <1>1, <1>2, <1>3, <1>6, <2>1, <2>2, <2>3 DEF TypeOK, Start
<1>7. CASE Leave \/ Crash
  <2>1. ProcessEnds /\ actual' = actual
    BY <1>7 DEF Leave, Crash, ProcessEnds
  <2>2. served' \in BOOLEAN
    <3>1. (served /\ client # "up") \in BOOLEAN
      OBVIOUS
    <3> QED BY <1>1, <1>7, <3>1, Zenon DEF TypeOK, Leave, Crash
  <2> QED BY <1>1, <1>2, <1>3, <2>1, <2>2 DEF TypeOK, ProcessEnds
<1>8. CASE Greet
  <2>1. late' \in BOOLEAN
    <3>1. (main = "leaving") \in BOOLEAN
      OBVIOUS
    <3> QED BY <1>8, <3>1, Zenon DEF Greet, GreetWith
  <2> QED BY <1>1, <1>2, <1>3, <1>8, <2>1 DEF TypeOK, Greet, GreetWith
<1>9. CASE \/ Reconnect \/ OnConnect \/ LinkBreaks \/ OnDisconnect \/ Deliver
           \/ DeliverUnacknowledged \/ BrokerGivesUp \/ UNCHANGED vars
  <2>1. UNCHANGED <<main, actual, reporting, stale, late>>
    BY <1>9 DEF Reconnect, OnConnect, LinkBreaks, OnDisconnect, Deliver,
                DeliverUnacknowledged, BrokerGivesUp, vars
  <2>2. /\ client' \in {"off", "connecting", "greeting", "up", "broken"}
        /\ client' \in {"greeting", "up"} => connected'
        /\ client' \in {"off", "connecting"} => ~connected'
    BY <1>1, <1>9 DEF TypeOK, Reconnect, OnConnect, LinkBreaks, OnDisconnect, Deliver,
                      DeliverUnacknowledged, BrokerGivesUp, vars
  <2>3. connected' \in BOOLEAN /\ served' \in BOOLEAN
    BY <1>1, <1>9 DEF TypeOK, Reconnect, OnConnect, LinkBreaks, OnDisconnect, Deliver,
                      DeliverUnacknowledged, BrokerGivesUp, vars
  <2> QED BY <1>1, <1>2, <1>3, <2>1, <2>2, <2>3 DEF TypeOK
<1> QED
  BY <1>4, <1>5, <1>6, <1>7, <1>8, <1>9 DEF Next, Changes

----------------------------------------------------------------------------
(* What the topics settle at *)

\* Range and positions speak of the same messages.
LEMMA SilentIs ==
    ASSUME NEW q \in Seq(Messages), NEW t, \A m \in Range(q) : m.topic # t
    PROVE  Silent(q, t)
  BY DEF Range, Silent

\* A change paho gets in time settles at the new state; the other topics do not notice.
LEMMA ChangeSettles ==
    ASSUME IInv, NEW t \in StateTopics, NEW s, Change(t, s), \E u \in States : u[t] = s,
           NEW o \in StateTopics, o \notin stale'
    PROVE  Settles(Pending', o, retained'[o], actual'[o])
<1> DEFINE m == Message(t, s)
<1>1. /\ out \in Seq(Messages) /\ held \in Seq(Messages)
      /\ held' = held /\ retained' = retained /\ main # "down"
      /\ Pending' = out' \o held
  BY DEF IInv, TypeOK, Change, broker, Pending
<1>2. /\ m \in Messages /\ m.topic = t /\ m.value = s
      /\ out' = IF connected THEN Append(out, m) ELSE out
      /\ actual'[t] = s
      /\ \A other \in StateTopics \ {t} : actual'[other] = actual[other]
  BY ChangeIs, MessageType DEF IInv
<1> HIDE DEF m
<1>3. CASE o = t
  <2>1. connected /\ \A n \in Range(held) : n.topic # t
    BY <1>3 DEF Change
  <2>2. Silent(held, m.topic)
    BY <1>1, <1>2, <2>1, SilentIs
  <2>3. Settles(Append(out, m) \o held, m.topic, retained[t], m.value)
    BY <1>1, <1>2, <2>2, SettlesInserted
  <2> QED BY <1>1, <1>2, <1>3, <2>1, <2>3
<1>4. CASE o # t
  <2>1. o \notin stale
    BY <1>4 DEF Change
  <2>2. Settles(out \o held, o, retained[o], actual[o])
    BY <1>1, <2>1 DEF IInv, StatesSettle, Pending
  <2>3. Silent(<<m>>, o)
    BY <1>2, <1>4 DEF Silent
  <2>4. <<m>> \in Seq(Messages) /\ Append(out, m) = out \o <<m>>
    BY <1>1, <1>2
  <2>5. Settles((out \o <<m>>) \o held, o, retained[o], actual[o])
    BY <1>1, <2>2, <2>3, <2>4, SettlesAround
  <2> QED BY <1>1, <1>2, <1>4, <2>2, <2>4, <2>5
<1> QED BY <1>3, <1>4

\* Every action keeps what the state topics will settle at.
LEMMA StatesSettleStep == IInv /\ [Next]_vars => StatesSettle'
<1> SUFFICES ASSUME IInv, [Next]_vars, main' # "down",
                    NEW t \in StateTopics, t \notin stale'
             PROVE  Settles(Pending', t, retained'[t], actual'[t])
  BY DEF StatesSettle
<1> USE DEF paho, broker, history
<1>1. /\ TypeOK /\ Sessions /\ StatesSettle
      /\ out \in Seq(Messages) /\ held \in Seq(Messages)
      /\ retained \in [Topics -> {m.value : m \in Messages} \cup {"none"}]
      /\ t \in Topics /\ t # "availability"
  BY TopicsAre DEF IInv, TypeOK, StateTopics
<1>2. CASE Changes
  <2> PICK o \in StateTopics : \E s : Change(o, s) /\ \E u \in States : u[o] = s
    BY <1>1, <1>2, ChangesAre
  <2>1. PICK s : Change(o, s) /\ \E u \in States : u[o] = s
    OBVIOUS
  <2> QED BY <2>1, ChangeSettles
<1>3. CASE DispatchUnlockFails
  <2>1. t = "door" /\ t \notin stale /\ main # "down"
    BY <1>3 DEF DispatchUnlockFails, StateTopics
  <2>2. actual'[t] = actual[t]
    BY <1>1, <1>3, <2>1 DEF DispatchUnlockFails, TypeOK, States
  <2> QED BY <1>1, <1>3, <2>1, <2>2 DEF DispatchUnlockFails, StatesSettle, Pending
<1>4. CASE Start
  BY <1>4 DEF Start
<1>5. CASE Leave \/ Crash
  BY <1>5 DEF Leave, Crash, ProcessEnds
<1>6. CASE LeaveSayingOffline
  <2> DEFINE m == Message("availability", "offline")
  <2>1. /\ main # "down" /\ t \notin stale
        /\ held' = held /\ retained' = retained /\ actual' = actual
        /\ out' = IF connected THEN Append(out, m) ELSE out
    BY <1>6 DEF LeaveSayingOffline, Publish
  <2>2. m \in Messages /\ m.topic # t
    BY <1>1, MessageType
  <2> HIDE DEF m
  <2>3. Settles(out \o held, t, retained[t], actual[t])
    BY <1>1, <2>1 DEF StatesSettle, Pending
  <2>4. Silent(<<m>>, t)
    BY <2>2 DEF Silent
  <2>5. <<m>> \in Seq(Messages) /\ Append(out, m) = out \o <<m>>
    BY <1>1, <2>2
  <2>6. Settles((out \o <<m>>) \o held, t, retained[t], actual[t])
    BY <1>1, <2>3, <2>4, <2>5, SettlesAround
  <2> QED BY <2>1, <2>3, <2>5, <2>6 DEF Pending
<1>7. CASE OnConnect
  <2>1. main # "down" /\ held = <<>>
    BY <1>1, <1>7 DEF OnConnect, Sessions
  <2>2. Pending' = Pending
    <3>1. Pending' = <<>> \o out
      BY <1>7 DEF OnConnect, Pending
    <3>2. Pending = out \o <<>>
      BY <2>1 DEF Pending
    <3> QED BY <1>1, <3>1, <3>2
  <2>3. retained'[t] = retained[t]
    BY <1>1, <1>7 DEF OnConnect
  <2> QED BY <1>1, <1>7, <2>1, <2>2, <2>3 DEF OnConnect, StatesSettle
<1>8. CASE Greet
  <2>1. /\ main # "down" /\ t \notin stale
        /\ out' = (out \o Greeting) \o held
        /\ held' = <<>> /\ retained' = retained /\ actual' = actual
    BY <1>8 DEF Greet, GreetWith
  <2>2. Settles(out \o held, t, retained[t], actual[t])
    BY <1>1, <2>1 DEF StatesSettle, Pending
  <2>3. Greeting \in Seq(Messages) /\ Silent(Greeting, t)
    BY GreetingIs
  <2>4. Settles((out \o Greeting) \o held, t, retained[t], actual[t])
    BY <1>1, <2>2, <2>3, SettlesAround
  <2>5. Pending' = (out \o Greeting) \o held
    <3>1. (out \o Greeting) \o held \in Seq(Messages)
      BY <1>1, <2>3
    <3> QED BY <2>1, <3>1 DEF Pending
  <2> QED BY <2>1, <2>4, <2>5
<1>9. CASE Deliver \/ DeliverUnacknowledged
  <2>1. /\ client = "up" /\ out # <<>> /\ held = <<>> /\ main # "down"
        /\ t \notin stale /\ held' = held /\ actual' = actual
        /\ out' = Tail(out) \/ out' = out
        /\ retained' = [retained EXCEPT ![Head(out).topic] = Head(out).value]
    BY <1>1, <1>9 DEF Deliver, DeliverUnacknowledged, Sessions
  <2>2. Settles(out, t, retained[t], actual[t])
    BY <1>1, <2>1, PendingIs DEF StatesSettle
  <2>3. retained'[t] = IF Head(out).topic = t THEN Head(out).value ELSE retained[t]
    BY <1>1, <2>1
  <2>4. Settles(Tail(out), t, retained'[t], actual[t])
    BY <1>1, <2>1, <2>2, <2>3, SettlesTail
  <2>5. Settles(out, t, retained'[t], actual[t])
    BY <1>1, <2>1, <2>2, <2>3, SettlesResent
  <2>6. Pending' = out'
    BY <1>1, <2>1 DEF Pending
  <2> QED BY <2>1, <2>4, <2>5, <2>6
<1>10. CASE BrokerGivesUp
  <2>1. retained'[t] = retained[t]
    BY <1>1, <1>10 DEF BrokerGivesUp
  <2> QED BY <1>1, <1>10, <2>1 DEF BrokerGivesUp, StatesSettle, Pending
<1>11. CASE Reconnect \/ LinkBreaks \/ OnDisconnect \/ UNCHANGED vars
  BY <1>1, <1>11 DEF Reconnect, LinkBreaks, OnDisconnect, vars, StatesSettle, Pending
<1> QED
  BY <1>2, <1>3, <1>4, <1>5, <1>6, <1>7, <1>8, <1>9, <1>10, <1>11 DEF Next, Changes

\* Every action keeps what a shutdown and a broker without a session show.
LEMMA OfflineSettlesStep == IInv /\ [Next]_vars => OfflineSettles'
<1> SUFFICES ASSUME IInv, [Next]_vars PROVE OfflineSettles'
  OBVIOUS
<1> USE DEF paho, broker, history
<1>1. /\ TypeOK /\ Sessions /\ OfflineSettles
      /\ out \in Seq(Messages) /\ held \in Seq(Messages)
      /\ retained \in [Topics -> {m.value : m \in Messages} \cup {"none"}]
      /\ "availability" \in Topics
  BY TopicsAre DEF IInv, TypeOK
<1>2. CASE Changes \/ DispatchUnlockFails \/ Start
  <2>1. main' = "loop" /\ served' = served /\ retained' = retained /\ late' = late
    BY <1>2 DEF Changes, DispatchUnlock, DispatchLock, DispatchInitialReport,
                DispatchDoorState, Change, DispatchUnlockFails, Start
  <2> QED BY <1>1, <2>1 DEF OfflineSettles, GoneIsOffline
<1>3. CASE LeaveSayingOffline
  <2> DEFINE m == Message("availability", "offline")
  <2>1. /\ out' = IF connected THEN Append(out, m) ELSE out
        /\ UNCHANGED <<client, served, retained, late>>
    BY <1>3 DEF LeaveSayingOffline, Publish
  <2>2. m \in Messages /\ m.topic = "availability" /\ m.value = "offline"
    BY MessageType
  <2> HIDE DEF m
  <2>3. <<>> \in Seq(Messages) /\ Silent(<<>>, m.topic)
    BY DEF Silent
  <2>4. Settles(Append(out, m) \o <<>>, m.topic, retained["availability"], m.value)
    BY <1>1, <2>2, <2>3, SettlesInserted
  <2>5. Append(out, m) \o <<>> = Append(out, m)
    BY <1>1, <2>2
  <2>6. client = "up" => connected
    BY <1>1 DEF TypeOK
  <2> QED BY <1>1, <2>1, <2>2, <2>4, <2>5, <2>6 DEF OfflineSettles, GoneIsOffline
<1>4. CASE Leave
  <2>1. /\ main = "leaving" /\ main' = "down"
        /\ client = "up" => out = <<>>
        /\ served' = (served /\ client # "up")
        /\ retained' = retained /\ late' = late
    BY <1>4 DEF Leave, ProcessEnds
  <2>2. CASE client = "up" /\ ~late
    <3>1. Settles(<<>>, "availability", retained["availability"], "offline")
      BY <1>1, <2>1, <2>2 DEF OfflineSettles
    <3>2. retained["availability"] = "offline"
      BY <3>1 DEF Settles, Says
    <3> QED BY <2>1, <3>2 DEF OfflineSettles, GoneIsOffline
  <2>3. CASE client # "up" \/ late
    BY <1>1, <2>1, <2>3 DEF OfflineSettles, GoneIsOffline
  <2> QED BY <2>2, <2>3
<1>5. CASE Crash
  <2>1. main' = "down" /\ served' = served /\ retained' = retained /\ late' = late
    BY <1>5 DEF Crash, ProcessEnds
  <2> QED BY <1>1, <2>1 DEF OfflineSettles, GoneIsOffline
<1>6. CASE OnConnect
  <2>1. client' = "greeting" /\ served'
    BY <1>6 DEF OnConnect
  <2> QED BY <2>1 DEF OfflineSettles, GoneIsOffline
<1>7. CASE Greet
  <2>1. late' = (main = "leaving") /\ main' = main /\ served'
    BY <1>1, <1>7 DEF Greet, GreetWith, Sessions
  <2> QED BY <2>1 DEF OfflineSettles, GoneIsOffline
<1>8. CASE Deliver
  <2>1. /\ client = "up" /\ out # <<>> /\ served /\ served' = served
        /\ main' = main /\ client' = client /\ late' = late /\ out' = Tail(out)
        /\ retained' = [retained EXCEPT ![Head(out).topic] = Head(out).value]
    BY <1>1, <1>8 DEF Deliver, Sessions
  <2>2. retained'["availability"] =
            IF Head(out).topic = "availability" THEN Head(out).value
            ELSE retained["availability"]
    BY <1>1, <2>1
  <2>3. ASSUME main = "leaving", ~late
        PROVE  Settles(Tail(out), "availability", retained'["availability"], "offline")
    <3>1. Settles(out, "availability", retained["availability"], "offline")
      BY <1>1, <2>1, <2>3 DEF OfflineSettles
    <3> QED BY <1>1, <2>1, <2>2, <3>1, SettlesTail
  <2> QED BY <2>1, <2>3 DEF OfflineSettles, GoneIsOffline
<1>9. CASE DeliverUnacknowledged
  <2>1. client' = "broken" /\ served'
    BY <1>1, <1>9 DEF DeliverUnacknowledged, Sessions
  <2> QED BY <2>1 DEF OfflineSettles, GoneIsOffline
<1>10. CASE BrokerGivesUp
  <2>1. client' # "up" /\ retained'["availability"] = "offline"
    BY <1>1, <1>10 DEF BrokerGivesUp
  <2> QED BY <2>1 DEF OfflineSettles, GoneIsOffline
<1>11. CASE Reconnect \/ LinkBreaks \/ OnDisconnect
  <2>1. client' # "up" /\ served' = served /\ retained' = retained /\ late' = late
    BY <1>11 DEF Reconnect, LinkBreaks, OnDisconnect
  <2> QED BY <1>1, <2>1 DEF OfflineSettles, GoneIsOffline
<1>12. CASE UNCHANGED vars
  BY <1>1, <1>12 DEF vars, OfflineSettles, GoneIsOffline
<1> QED
  BY <1>2, <1>3, <1>4, <1>5, <1>6, <1>7, <1>8, <1>9, <1>10, <1>11, <1>12
  DEF Next, Changes

----------------------------------------------------------------------------
(* The theorems *)

LEMMA InvStep == IInv /\ [Next]_vars => IInv'
  BY TypeStep, SessionsStep, SequencesStep, OutBoundStep, StatesSettleStep,
     OfflineSettlesStep
  DEF IInv

\* The inductive invariant holds in every reachable state.
LEMMA Invariance == Spec => []IInv
  BY InvInit, InvStep, PTL DEF Spec

\* The handler, paho and the broker keep their types, _connected is what paho last said,
\* and paho holds no more than the guards and the greeting allow (mqtt_handler.py,
\* _on_connect, _on_disconnect and _safe_publish).
THEOREM TypeCorrect == Spec => []TypeOK
  BY Invariance, PTL DEF IInv

\* A state topic shows the state it stands for once what paho was given is delivered,
\* unless the last change never reached it in time (mqtt_handler.py, publish_lock_state,
\* publish_door_state and _on_connect).
THEOREM TopicsAlwaysFollowState == Spec => []TopicsFollowState
<1>1. IInv => TopicsFollowState
  <2> SUFFICES ASSUME IInv, NEW t \in StateTopics, main # "down", t \notin stale,
                      \A m \in Range(out \o held) : m.topic # t
               PROVE  retained[t] = actual[t]
    BY DEF TopicsFollowState
  <2>1. out \o held \in Seq(Messages)
    BY DEF IInv, TypeOK
  <2>2. Silent(Pending, t)
    BY <2>1, SilentIs DEF Pending
  <2>3. Settles(Pending, t, retained[t], actual[t])
    BY DEF IInv, StatesSettle
  <2> QED BY <2>2, <2>3 DEF Settles, Says, Silent
<1> QED BY <1>1, Invariance, PTL

\* A broker without a session of the service never shows it online, unless on_connect
\* published during disconnect() (mqtt_handler.py, disconnect, _on_connect and the will
\* of __init__).
THEOREM GoneIsAlwaysOffline == Spec => []GoneIsOffline
  BY Invariance, PTL DEF IInv, OfflineSettles

=============================================================================
