--------------------------- MODULE DoorSensorProofs ---------------------------
(***************************************************************************)
(* One door for every queue size and alert threshold: what the sensor      *)
(* knows follows the pin, what is reported follows what it knows, and the  *)
(* alert is posted once.                                                   *)
(*                                                                         *)
(* The inductive invariant follows a reading on its way through the        *)
(* callback.  FreshReading: what has been sampled, interpreted or stored   *)
(* is what the pin says, stage by stage, as long as no further edge waits. *)
(* FreshReport: what the callback is about to post is the state, unless a  *)
(* polarity change overtook it.                                            *)
(***************************************************************************)
EXTENDS DoorSensor, TLAPS, WellFoundedInduction

\* Before start() there is neither a callback nor an edge; after setup() a state is known.
Started ==
    /\ main \in {"down", "set_up"} => callback = "idle" /\ ~edge
    /\ main # "down" => state \in Doors

\* The reading under way is that of the pin's level, unless another edge waits.
FreshReading ==
    ~edge =>
        /\ callback = "sampled" => sample = level
        /\ callback = "interpreted" /\ "raced" \notin excuses
            => reading = Interpret(level, active_low)
        /\ callback \in {"idle", "stored"} /\ main # "down"
           /\ excuses \cap {"missed", "raced"} = {}
            => state = Interpret(level, active_low)

\* What the callback is about to post is the state.
FreshReport == callback = "stored" /\ "overtaken" \notin excuses => reading = state

IInv ==
    /\ TypeOK
    /\ Started
    /\ FreshReading
    /\ FreshReport
    /\ ReportFollowsState
    /\ AlertDiscipline

----------------------------------------------------------------------------
(* The queue *)

\* A set of positions that is not empty has a last one.
LEMMA MaxOfPositions ==
    ASSUME NEW n \in Nat, NEW I \in SUBSET (1..n), I # {}
    PROVE  Max(I) \in I /\ \A i \in I : i <= Max(I)
<1> DEFINE D == {n - i : i \in I}
<1>1. D \subseteq Nat
  OBVIOUS
<1>2. D # {}
  <2>1. PICK i \in I : TRUE
    OBVIOUS
  <2>2. n - i \in D
    OBVIOUS
  <2> QED BY <2>2
<1>3. PICK d \in D : \A e \in D : ~(<<e, d>> \in OpToRel(<, Nat))
  <2> HIDE DEF D
  <2> QED BY <1>1, <1>2, NatLessThanWellFounded, WFMin, Zenon
<1>4. PICK m \in I : d = n - m
  OBVIOUS
<1>5. ASSUME NEW i \in I PROVE i <= m
  <2>1. n - i \in D /\ n - i \in Nat /\ d \in Nat
    BY <1>1
  <2>2. ~(n - i < d)
    BY <1>3, <2>1 DEF OpToRel
  <2> QED BY <1>4, <2>2
<1>6. \E x \in I : \A y \in I : x >= y
  BY <1>5
<1> HIDE DEF D
<1> QED BY <1>6 DEF Max

\* The position of the report queued last, 0 when there is none.
LastDoor(q) == SelectLastInSeq(q, LAMBDA e : e \in Doors)

\* What LastDoor finds.
LEMMA LastDoorIs ==
    ASSUME NEW q \in Seq(Events)
    PROVE  \/ LastDoor(q) = 0 /\ \A i \in 1..Len(q) : q[i] \notin Doors
           \/ /\ LastDoor(q) \in 1..Len(q)
              /\ q[LastDoor(q)] \in Doors
              /\ \A i \in 1..Len(q) : q[i] \in Doors => i <= LastDoor(q)
<1> DEFINE I == {i \in 1..Len(q) : q[i] \in Doors}
<1>1. LastDoor(q) = IF I # {} THEN Max(I) ELSE 0
  BY DEF LastDoor, SelectLastInSeq
<1>2. CASE I = {}
  BY <1>1, <1>2
<1>3. CASE I # {}
  <2>1. Len(q) \in Nat /\ I \in SUBSET (1..Len(q))
    OBVIOUS
  <2>2. Max(I) \in I /\ \A i \in I : i <= Max(I)
    <3> HIDE DEF I
    <3> QED BY <1>3, <2>1, MaxOfPositions
  <2> QED BY <1>1, <1>3, <2>2
<1> QED BY <1>2, <1>3

\* What will have been reported last once queue q is worked off after a report r.
Final(q, r) == IF LastDoor(q) # 0 THEN q[LastDoor(q)] ELSE r

\* LastReport in terms of the queue.
LEMMA LastReportIs ==
    LastReport = IF callback = "stored" THEN reading ELSE Final(queue, reported)
  BY DEF LastReport, LastDoor, Final

\* A position that is the last one with a report is the one LastDoor finds.
LEMMA LastDoorAt ==
    ASSUME NEW q \in Seq(Events), NEW k \in 1..Len(q), q[k] \in Doors,
           \A i \in 1..Len(q) : q[i] \in Doors => i <= k
    PROVE  LastDoor(q) = k
  BY LastDoorIs

\* A report appended is the last one; another event changes nothing.
LEMMA FinalAppend ==
    ASSUME NEW q \in Seq(Events), NEW e \in Events, NEW r
    PROVE  Final(Append(q, e), r) = IF e \in Doors THEN e ELSE Final(q, r)
<1> DEFINE a == Append(q, e)
<1>1. /\ a \in Seq(Events) /\ Len(a) = Len(q) + 1
      /\ a[Len(q) + 1] = e
      /\ \A i \in 1..Len(q) : a[i] = q[i]
  OBVIOUS
<1>2. CASE e \in Doors
  <2>1. LastDoor(a) = Len(q) + 1
    <3>1. Len(q) + 1 \in 1..Len(a) /\ \A i \in 1..Len(a) : i <= Len(q) + 1
      BY <1>1
    <3> HIDE DEF a
    <3> QED BY <1>1, <1>2, <3>1, LastDoorAt
  <2> HIDE DEF a
  <2>2. Final(a, r) = e
    BY <1>1, <2>1 DEF Final
  <2> QED BY <1>2, <2>2 DEF a
<1>3. CASE e \notin Doors
  <2> HIDE DEF a
  <2>1. CASE LastDoor(q) = 0
    <3>1. \A i \in 1..Len(q) : q[i] \notin Doors
      BY <2>1, LastDoorIs
    <3>2. \A i \in 1..Len(a) : a[i] \notin Doors
      BY <1>1, <1>3, <3>1
    <3>3. LastDoor(a) = 0
      BY <1>1, <3>2, LastDoorIs
    <3> QED BY <1>3, <2>1, <3>3 DEF Final, a
  <2>2. CASE LastDoor(q) # 0
    <3>1. /\ LastDoor(q) \in 1..Len(q)
          /\ q[LastDoor(q)] \in Doors
          /\ \A i \in 1..Len(q) : q[i] \in Doors => i <= LastDoor(q)
      BY <2>2, LastDoorIs
    <3>2. /\ LastDoor(q) \in 1..Len(a) /\ a[LastDoor(q)] = q[LastDoor(q)]
          /\ \A i \in 1..Len(a) : a[i] \in Doors => i <= LastDoor(q)
      BY <1>1, <1>3, <3>1
    <3>3. LastDoor(a) = LastDoor(q)
      BY <1>1, <3>1, <3>2, LastDoorAt
    <3> QED BY <1>3, <3>2, <3>3 DEF Final, a
  <2> QED BY <2>1, <2>2
<1> QED BY <1>2, <1>3

\* Working off the first event keeps what will have been reported last.
LEMMA FinalTail ==
    ASSUME NEW q \in Seq(Events), q # <<>>, NEW r
    PROVE  Final(Tail(q), IF Head(q) \in Doors THEN Head(q) ELSE r) = Final(q, r)
<1> DEFINE t == Tail(q)
<1>1. /\ t \in Seq(Events) /\ Len(t) = Len(q) - 1
      /\ Len(q) \in Nat \ {0}
      /\ Head(q) = q[1]
      /\ \A i \in 1..Len(t) : i + 1 \in 1..Len(q) /\ t[i] = q[i + 1]
      /\ \A i \in 2..Len(q) : i - 1 \in 1..Len(t) /\ t[i - 1] = q[i]
  OBVIOUS
<1> HIDE DEF t
<1>2. CASE LastDoor(q) = 0
  <2>1. \A i \in 1..Len(q) : q[i] \notin Doors
    BY <1>2, LastDoorIs
  <2>2. \A i \in 1..Len(t) : t[i] \notin Doors
    BY <1>1, <2>1
  <2>3. LastDoor(t) = 0 /\ Head(q) \notin Doors
    BY <1>1, <2>1, <2>2, LastDoorIs
  <2> QED BY <1>2, <2>3 DEF Final, t
<1>3. CASE LastDoor(q) = 1
  <2>1. q[1] \in Doors /\ \A i \in 1..Len(q) : q[i] \in Doors => i <= 1
    BY <1>3, LastDoorIs
  <2>2. \A i \in 1..Len(t) : t[i] \notin Doors
    BY <1>1, <2>1
  <2>3. LastDoor(t) = 0
    BY <1>1, <2>2, LastDoorIs
  <2> QED BY <1>1, <1>3, <2>1, <2>3 DEF Final, t
<1>4. CASE LastDoor(q) \notin {0, 1}
  <2> DEFINE k == LastDoor(q)
  <2>1. /\ k \in 2..Len(q) /\ q[k] \in Doors
        /\ \A i \in 1..Len(q) : q[i] \in Doors => i <= k
    BY <1>1, <1>4, LastDoorIs
  <2> HIDE DEF k
  <2>2. /\ k - 1 \in 1..Len(t) /\ t[k - 1] = q[k]
        /\ \A i \in 1..Len(t) : t[i] \in Doors => i <= k - 1
    BY <1>1, <2>1
  <2>3. LastDoor(t) = k - 1
    BY <1>1, <2>1, <2>2, LastDoorAt
  <2> QED BY <2>1, <2>2, <2>3 DEF Final, t, k
<1> QED BY <1>2, <1>3, <1>4

\* With no report left in the queue, the last one is the one made.
LEMMA FinalNone ==
    ASSUME NEW q \in Seq(Events), NEW r, \A i \in 1..Len(q) : q[i] \notin Doors
    PROVE  Final(q, r) = r
  BY LastDoorIs DEF Final

----------------------------------------------------------------------------
(* Type correctness *)

\* The two polarities turn a level into a state of the door.
LEMMA InterpretType == \A val, low : Interpret(val, low) \in Doors
  BY DEF Interpret, Doors

\* What a queue with room for one more holds after a put.
LEMMA PutType ==
    ASSUME TypeOK, NEW e \in Events, Room
    PROVE  Append(queue, e) \in Seq(Events) /\ Len(Append(queue, e)) <= QueueSize
  BY QueueSizeAssumption DEF TypeOK, Room

\* What it holds after a get.
LEMMA GetType ==
    ASSUME TypeOK, Get
    PROVE  /\ queue' \in Seq(Events) /\ Len(queue') <= QueueSize
           /\ Head(queue) \in Events
  BY QueueSizeAssumption DEF TypeOK, Get

\* Storing a state keeps the sensor typed.
LEMMA StoreType ==
    ASSUME TypeOK, NEW s \in Doors, Store(s) \/ StoreIfChanged(s)
    PROVE  /\ state' \in Doors
           /\ open_for' \in 0..Threshold \cup {NotOpen}
           /\ alert_sent' \in BOOLEAN
           /\ alerts' \in Nat
           /\ state' = s
<1>1. 0 \in 0..Threshold
  BY ThresholdAssumption
<1>2. ASSUME Store(s)
      PROVE  /\ state' = s /\ alert_sent' \in BOOLEAN /\ alerts' = 0
             /\ open_for' \in 0..Threshold \cup {NotOpen}
  BY <1>1, <1>2 DEF Store
<1>3. CASE StoreIfChanged(s)
  <2>1. CASE s # state
    BY <1>2, <1>3, <2>1 DEF StoreIfChanged
  <2>2. CASE s = state
    BY <1>3, <2>2 DEF TypeOK, StoreIfChanged
  <2> QED BY <2>1, <2>2
<1> QED BY <1>2, <1>3

\* The initial states satisfy the inductive invariant.
LEMMA InvInit == Init => IInv
<1> SUFFICES ASSUME Init PROVE IInv
  OBVIOUS
<1>1. TypeOK
  <2>1. queue \in Seq(Events) /\ Len(queue) <= QueueSize
    BY QueueSizeAssumption DEF Init
  <2> QED BY <2>1 DEF Init, TypeOK, Doors, Excuses
<1>2. Started /\ FreshReading /\ FreshReport /\ ReportFollowsState /\ AlertDiscipline
  BY DEF Init, Started, FreshReading, FreshReport, ReportFollowsState, AlertDiscipline
<1> QED BY <1>1, <1>2 DEF IInv

\* No step of the door, the callback, the alert thread or the main thread loses a type.
LEMMA TypeStep == TypeOK /\ Started /\ [Next]_vars => TypeOK'
<1> SUFFICES ASSUME TypeOK, Started, [Next]_vars PROVE TypeOK'
  OBVIOUS
<1> USE DEF sensor, edges, callbk, history
<1>1. CASE DoorMoves \/ EdgeIgnored
  <2>1. edge' \in BOOLEAN
    <3>1. (main \in {"detecting", "posting", "loop"}) \in BOOLEAN
      OBVIOUS
    <3> QED BY <1>1, <3>1, Zenon DEF DoorMoves, EdgeIgnored
  <2>2. excuses' \subseteq Excuses
    BY <1>1 DEF TypeOK, DoorMoves, EdgeIgnored, Excuses
  <2> QED BY <1>1, <2>1, <2>2 DEF TypeOK, DoorMoves, EdgeIgnored
<1>2. CASE Tick
  BY <1>2, ThresholdAssumption DEF TypeOK, Tick
<1>3. CASE CallbackSamples \/ CallbackInterprets
  BY <1>3, InterpretType DEF TypeOK, CallbackSamples, CallbackInterprets
<1>4. CASE CallbackStores
  <2>1. reading \in Doors /\ StoreIfChanged(reading)
    BY <1>4 DEF TypeOK, CallbackStores
  <2> QED BY <1>4, <2>1, StoreType DEF TypeOK, CallbackStores
<1>5. CASE CallbackPosts
  <2>1. CASE Room
    BY <1>5, <2>1, PutType DEF TypeOK, CallbackPosts, Events
  <2>2. CASE ~Room
    BY <1>5, <2>2 DEF TypeOK, CallbackPosts, Excuses
  <2> QED BY <2>1, <2>2
<1>6. CASE AlertMonitorChecks
  <2>1. CASE Room
    BY <1>6, <2>1, PutType DEF TypeOK, AlertMonitorChecks, Events
  <2>2. CASE ~Room
    BY <1>6, <2>2 DEF TypeOK, AlertMonitorChecks
  <2> QED BY <2>1, <2>2
<1>7. CASE SetUp
  <2>1. Interpret(level, active_low) \in Doors /\ Store(Interpret(level, active_low))
    BY <1>7, InterpretType DEF SetUp
  <2> QED BY <1>7, <2>1, StoreType DEF TypeOK, SetUp
<1>8. CASE StartDetecting \/ ReadInitial
  BY <1>8 DEF TypeOK, Started, StartDetecting, ReadInitial
<1>9. CASE PostInitial
  <2>1. CASE Room
    BY <1>9, <2>1, PutType DEF TypeOK, PostInitial, Events, Excuses
  <2>2. CASE ~Room
    BY <1>9, <2>2 DEF TypeOK, PostInitial, Excuses
  <2> QED BY <2>1, <2>2
<1>10. ASSUME NEW e \in {"set_door_polarity", "other"}, Post(e) PROVE TypeOK'
  BY <1>10, PutType DEF TypeOK, Post, Events
<1>11. CASE DispatchDoorState \/ DispatchNoEffect
  <2>1. Get
    BY <1>11 DEF DispatchDoorState, DispatchNoEffect
  <2> QED BY <1>11, <2>1, GetType DEF TypeOK, DispatchDoorState, DispatchNoEffect, Get
<1>12. CASE DispatchSetPolarity
  <2>1. Get /\ StoreIfChanged(Interpret(level, ~active_low)) /\ active_low' = ~active_low
    BY <1>12 DEF DispatchSetPolarity, SetActiveLow
  <2>2. excuses' \subseteq Excuses /\ reported' = state' /\ active_low' \in BOOLEAN
    BY <1>12, <2>1 DEF DispatchSetPolarity, Excuses
  <2>3. /\ state' \in Doors
        /\ open_for' \in 0..Threshold \cup {NotOpen}
        /\ alert_sent' \in BOOLEAN
        /\ alerts' \in Nat
    BY <2>1, InterpretType, StoreType
  <2>4. queue' \in Seq(Events) /\ Len(queue') <= QueueSize
    BY <2>1, GetType
  <2> QED BY <2>1, <2>2, <2>3, <2>4 DEF TypeOK, Get
<1>13. CASE ProcessEnds
  <2>1. queue' \in Seq(Events) /\ Len(queue') <= QueueSize
    BY <1>13, QueueSizeAssumption DEF ProcessEnds
  <2> QED BY <1>13, <2>1 DEF TypeOK, ProcessEnds
<1>14. CASE UNCHANGED vars
  BY <1>14 DEF TypeOK, vars
<1> QED
  BY <1>1, <1>2, <1>3, <1>4, <1>5, <1>6, <1>7, <1>8, <1>9, <1>10, <1>11, <1>12, <1>13,
     <1>14
  DEF Next, Callback, Startup, Dispatch

----------------------------------------------------------------------------
(* What the sensor knows *)

\* A callback and a known state belong to a process that has set the sensor up.
LEMMA StartedStep == IInv /\ [Next]_vars => Started'
<1> SUFFICES ASSUME IInv, [Next]_vars PROVE Started'
  OBVIOUS
<1> USE DEF sensor, edges, callbk, history, Started
<1>1. CASE DoorMoves \/ EdgeIgnored \/ Tick
  BY <1>1 DEF IInv, TypeOK, DoorMoves, EdgeIgnored, Tick
<1>2. CASE CallbackSamples \/ CallbackInterprets \/ CallbackPosts
  BY <1>2 DEF IInv, CallbackSamples, CallbackInterprets, CallbackPosts
<1>3. CASE CallbackStores
  <2>1. reading \in Doors /\ StoreIfChanged(reading)
    BY <1>3 DEF IInv, TypeOK, CallbackStores
  <2> QED BY <1>3, <2>1, StoreType DEF IInv, CallbackStores
<1>4. CASE SetUp
  <2>1. Store(Interpret(level, active_low))
    BY <1>4 DEF SetUp
  <2> QED BY <1>4, <2>1, InterpretType, StoreType DEF IInv, SetUp
<1>5. CASE AlertMonitorChecks \/ StartDetecting \/ ReadInitial \/ PostInitial
  BY <1>5 DEF IInv, AlertMonitorChecks, StartDetecting, ReadInitial, PostInitial
<1>6. CASE \E e \in {"set_door_polarity", "other"} : Post(e)
  BY <1>6 DEF IInv, Post
<1>7. CASE DispatchDoorState \/ DispatchNoEffect
  BY <1>7 DEF IInv, DispatchDoorState, DispatchNoEffect, Get
<1>8. CASE DispatchSetPolarity
  <2>1. StoreIfChanged(Interpret(level, ~active_low)) /\ Get
    BY <1>8 DEF DispatchSetPolarity, SetActiveLow
  <2> QED BY <2>1, InterpretType, StoreType DEF IInv, Get
<1>9. CASE ProcessEnds
  BY <1>9 DEF ProcessEnds
<1>10. CASE UNCHANGED vars
  BY <1>10 DEF IInv, vars
<1> QED
  BY <1>1, <1>2, <1>3, <1>4, <1>5, <1>6, <1>7, <1>8, <1>9, <1>10
  DEF Next, Callback, Startup, Dispatch

\* A reading is handed from stage to stage as the pin's, or an edge or an excuse says
\* why not.
LEMMA FreshReadingStep == IInv /\ [Next]_vars => FreshReading'
<1> SUFFICES ASSUME IInv, [Next]_vars PROVE FreshReading'
  OBVIOUS
<1> USE DEF sensor, edges, callbk, history, FreshReading
<1>1. CASE DoorMoves
  BY <1>1 DEF IInv, TypeOK, Started, DoorMoves
<1>2. CASE EdgeIgnored \/ Tick
  BY <1>2 DEF IInv, EdgeIgnored, Tick
<1>3. CASE CallbackSamples
  BY <1>3 DEF CallbackSamples
<1>4. CASE CallbackInterprets
  BY <1>4 DEF IInv, CallbackInterprets
<1>5. CASE CallbackStores
  <2>1. state' = reading
    BY <1>5, StoreType DEF IInv, TypeOK, CallbackStores
  <2> QED BY <1>5, <2>1 DEF IInv, CallbackStores
<1>6. CASE CallbackPosts
  BY <1>6 DEF IInv, CallbackPosts
<1>7. CASE AlertMonitorChecks \/ StartDetecting \/ ReadInitial \/ PostInitial
  BY <1>7 DEF IInv, AlertMonitorChecks, StartDetecting, ReadInitial, PostInitial
<1>8. CASE SetUp
  <2>1. state' = Interpret(level, active_low) /\ callback = "idle"
    BY <1>8 DEF IInv, Started, SetUp, Store
  <2> QED BY <1>8, <2>1 DEF SetUp
<1>9. CASE \E e \in {"set_door_polarity", "other"} : Post(e)
  BY <1>9 DEF IInv, Post
<1>10. CASE DispatchDoorState \/ DispatchNoEffect
  BY <1>10 DEF IInv, DispatchDoorState, DispatchNoEffect, Get
<1>11. CASE DispatchSetPolarity
  <2>1. state' = Interpret(level, active_low')
    BY <1>11, InterpretType, StoreType DEF IInv, DispatchSetPolarity, SetActiveLow
  <2> QED BY <1>11, <2>1 DEF IInv, DispatchSetPolarity, Get
<1>12. CASE ProcessEnds
  BY <1>12 DEF ProcessEnds
<1>13. CASE UNCHANGED vars
  BY <1>13 DEF IInv, vars
<1> QED
  BY <1>1, <1>2, <1>3, <1>4, <1>5, <1>6, <1>7, <1>8, <1>9, <1>10, <1>11, <1>12, <1>13
  DEF Next, Callback, Startup, Dispatch

----------------------------------------------------------------------------
(* What is reported *)

\* The state the callback stored is the one it posts, unless the polarity changed.
LEMMA FreshReportStep == IInv /\ [Next]_vars => FreshReport'
<1> SUFFICES ASSUME IInv, [Next]_vars PROVE FreshReport'
  OBVIOUS
<1> USE DEF sensor, edges, callbk, history, FreshReport
<1>1. CASE DoorMoves \/ EdgeIgnored \/ Tick
  BY <1>1 DEF IInv, DoorMoves, EdgeIgnored, Tick
<1>2. CASE CallbackSamples \/ CallbackInterprets \/ CallbackPosts
  BY <1>2 DEF IInv, CallbackSamples, CallbackInterprets, CallbackPosts
<1>3. CASE CallbackStores
  BY <1>3, StoreType DEF IInv, TypeOK, CallbackStores
<1>4. CASE AlertMonitorChecks \/ StartDetecting \/ ReadInitial \/ PostInitial
  BY <1>4 DEF IInv, AlertMonitorChecks, StartDetecting, ReadInitial, PostInitial
<1>5. CASE SetUp
  BY <1>5 DEF IInv, Started, SetUp
<1>6. CASE \E e \in {"set_door_polarity", "other"} : Post(e)
  BY <1>6 DEF IInv, Post
<1>7. CASE DispatchDoorState \/ DispatchNoEffect
  BY <1>7 DEF IInv, DispatchDoorState, DispatchNoEffect, Get
<1>8. CASE DispatchSetPolarity
  BY <1>8 DEF DispatchSetPolarity, Get
<1>9. CASE ProcessEnds
  BY <1>9 DEF ProcessEnds
<1>10. CASE UNCHANGED vars
  BY <1>10 DEF IInv, vars
<1> QED
  BY <1>1, <1>2, <1>3, <1>4, <1>5, <1>6, <1>7, <1>8, <1>9, <1>10
  DEF Next, Callback, Startup, Dispatch

\* Reports are made in the order of the states, or an excuse says why not.
LEMMA ReportStep == IInv /\ [Next]_vars => ReportFollowsState'
<1> SUFFICES ASSUME IInv, [Next]_vars,
                    main' = "loop", excuses' \cap {"dropped", "overtaken"} = {}
             PROVE  LastReport' = state'
  BY DEF ReportFollowsState
<1> USE DEF sensor, edges, callbk, history
<1>1. LastReport' = IF callback' = "stored" THEN reading' ELSE Final(queue', reported')
  BY DEF LastReport, LastDoor, Final, SelectLastInSeq
<1>2. queue \in Seq(Events) /\ TypeOK
  BY DEF IInv, TypeOK
\* In the loop a step that keeps callback, state and excuses keeps the last report as
\* long as it keeps what the queue will bring.
<1>3. ASSUME main = "loop", UNCHANGED <<state, reading>>,
             callback' = callback \/ {callback, callback'} \cap {"stored"} = {},
             excuses \cap {"dropped", "overtaken"} = {},
             Final(queue', reported') = Final(queue, reported)
      PROVE  LastReport' = state'
  BY <1>1, <1>3, LastReportIs DEF IInv, ReportFollowsState
<1>4. CASE DoorMoves \/ EdgeIgnored \/ Tick
  BY <1>3, <1>4 DEF DoorMoves, EdgeIgnored, Tick
<1>5. CASE CallbackSamples
  BY <1>3, <1>5 DEF CallbackSamples
<1>6. CASE CallbackInterprets
  <2>1. main = "loop" /\ callback = "sampled" /\ callback' = "interpreted"
    BY <1>6 DEF CallbackInterprets
  <2>2. LastReport = Final(queue, reported) /\ LastReport' = Final(queue, reported)
    BY <1>1, <1>6, <2>1, LastReportIs DEF CallbackInterprets
  <2> QED BY <1>6, <2>1, <2>2 DEF IInv, ReportFollowsState, CallbackInterprets
<1>7. CASE CallbackStores
  <2>1. state' = reading
    BY <1>2, <1>7, StoreType DEF TypeOK, CallbackStores
  <2>2. CASE reading = state
    BY <1>3, <1>7, <2>1, <2>2 DEF CallbackStores
  <2>3. CASE reading # state
    BY <1>1, <1>7, <2>1, <2>3 DEF CallbackStores
  <2> QED BY <2>2, <2>3
<1>8. CASE CallbackPosts
  <2>1. Room /\ queue' = Append(queue, reading) /\ excuses' = excuses
    BY <1>8 DEF CallbackPosts
  <2>2. reading \in Doors /\ reading \in Events
    BY <1>2 DEF TypeOK, Events
  <2>3. LastReport' = reading
    BY <1>1, <1>2, <1>8, <2>1, <2>2, FinalAppend DEF CallbackPosts
  <2> QED BY <1>8, <2>1, <2>3 DEF IInv, FreshReport, CallbackPosts
<1>9. CASE AlertMonitorChecks
  <2>1. "DOOR_ALERT" \in Events /\ "DOOR_ALERT" \notin Doors
    BY DEF Events, Doors
  <2>2. Final(Append(queue, "DOOR_ALERT"), reported) = Final(queue, reported)
    BY <1>2, <2>1, FinalAppend
  <2>3. Final(queue', reported') = Final(queue, reported)
    BY <1>9, <2>2 DEF AlertMonitorChecks
  <2> QED BY <1>3, <1>9, <2>3 DEF AlertMonitorChecks
<1>10. CASE SetUp \/ StartDetecting \/ ReadInitial \/ ProcessEnds
  BY <1>10 DEF SetUp, StartDetecting, ReadInitial, ProcessEnds
<1>11. CASE PostInitial
  <2>1. Room /\ queue' = Append(queue, snapshot) /\ callback' = callback
    BY <1>11 DEF PostInitial
  <2>2. CASE callback = "stored"
    BY <1>1, <1>11, <2>1, <2>2 DEF IInv, FreshReport, PostInitial
  <2>3. CASE callback # "stored"
    <3>1. snapshot = state
      BY <1>11, <2>1, <2>3 DEF PostInitial
    <3>2. snapshot \in Doors /\ snapshot \in Events
      BY <1>2 DEF TypeOK, Events
    <3> QED BY <1>1, <1>2, <1>11, <2>1, <2>3, <3>1, <3>2, FinalAppend DEF PostInitial
  <2> QED BY <2>2, <2>3
<1>12. ASSUME NEW e \in {"set_door_polarity", "other"}, Post(e)
       PROVE  LastReport' = state'
  <2>1. e \in Events /\ e \notin Doors
    BY DEF Events, Doors
  <2>2. Final(queue', reported') = Final(queue, reported)
    BY <1>2, <1>12, <2>1, FinalAppend DEF Post
  <2> QED BY <1>3, <1>12, <2>2 DEF Post
<1>13. CASE DispatchDoorState \/ DispatchNoEffect
  <2>1. queue # <<>> /\ queue' = Tail(queue) /\ Get
    BY <1>13 DEF DispatchDoorState, DispatchNoEffect, Get
  <2>2. reported' = IF Head(queue) \in Doors THEN Head(queue) ELSE reported
    BY <1>13 DEF DispatchDoorState, DispatchNoEffect
  <2>3. Final(queue', reported') = Final(queue, reported)
    BY <1>2, <2>1, <2>2, FinalTail
  <2> QED BY <1>3, <1>13, <2>1, <2>3 DEF DispatchDoorState, DispatchNoEffect, Get
<1>14. CASE DispatchSetPolarity
  <2>1. /\ queue # <<>> /\ queue' = Tail(queue)
        /\ callback' # "stored"
        /\ \A i \in 2..Len(queue) : queue[i] \notin Doors
        /\ reported' = state'
    BY <1>14 DEF DispatchSetPolarity, Get
  <2>2. /\ Tail(queue) \in Seq(Events)
        /\ \A i \in 1..Len(Tail(queue)) : Tail(queue)[i] \notin Doors
    BY <1>2, <2>1
  <2>3. Final(queue', reported') = reported'
    BY <2>1, <2>2, FinalNone
  <2> QED BY <1>1, <2>1, <2>3
<1>15. CASE UNCHANGED vars
  BY <1>3, <1>15 DEF vars
<1> QED
  BY <1>4, <1>5, <1>6, <1>7, <1>8, <1>9, <1>10, <1>11, <1>12, <1>13, <1>14, <1>15
  DEF Next, Callback, Startup, Dispatch

----------------------------------------------------------------------------
(* The alert *)

\* The state's timer and its alert restart together.
LEMMA AlertStep == IInv /\ [Next]_vars => AlertDiscipline'
<1> SUFFICES ASSUME IInv, [Next]_vars PROVE AlertDiscipline'
  OBVIOUS
<1> USE DEF sensor, edges, callbk, history, AlertDiscipline
<1>1. CASE Tick
  BY <1>1, ThresholdAssumption DEF IInv, TypeOK, Tick
<1>2. ASSUME NEW s, Store(s) \/ StoreIfChanged(s) PROVE AlertDiscipline'
  BY <1>2 DEF IInv, Store, StoreIfChanged
<1>3. CASE CallbackStores \/ SetUp \/ DispatchSetPolarity
  BY <1>2, <1>3 DEF CallbackStores, SetUp, DispatchSetPolarity, SetActiveLow
<1>4. CASE AlertMonitorChecks
  BY <1>4 DEF IInv, TypeOK, AlertMonitorChecks
<1>5. ASSUME UNCHANGED <<state, open_for, alert_sent, alerts>> PROVE AlertDiscipline'
  BY <1>5 DEF IInv
<1>6. CASE ProcessEnds
  BY <1>6 DEF ProcessEnds
<1>7. CASE DoorMoves \/ EdgeIgnored
  BY <1>5, <1>7 DEF DoorMoves, EdgeIgnored
<1>8. CASE CallbackSamples \/ CallbackInterprets \/ CallbackPosts
  BY <1>5, <1>8 DEF CallbackSamples, CallbackInterprets, CallbackPosts
<1>9. CASE StartDetecting \/ ReadInitial \/ PostInitial
  BY <1>5, <1>9 DEF StartDetecting, ReadInitial, PostInitial
<1>10. CASE \E e \in {"set_door_polarity", "other"} : Post(e)
  BY <1>5, <1>10 DEF Post
<1>11. CASE DispatchDoorState \/ DispatchNoEffect
  BY <1>5, <1>11 DEF DispatchDoorState, DispatchNoEffect
<1>12. CASE UNCHANGED vars
  BY <1>5, <1>12 DEF vars
<1> QED
  BY <1>1, <1>3, <1>4, <1>6, <1>7, <1>8, <1>9, <1>10, <1>11, <1>12
  DEF Next, Callback, Startup, Dispatch

----------------------------------------------------------------------------
(* The theorems *)

\* The inductive invariant is inductive.
LEMMA InvStep == IInv /\ [Next]_vars => IInv'
  BY TypeStep, StartedStep, FreshReadingStep, FreshReportStep, ReportStep, AlertStep
  DEF IInv

\* The inductive invariant holds in every reachable state.
LEMMA Invariance == Spec => []IInv
  BY InvInit, InvStep, PTL DEF Spec

\* The variables of the sensor keep their types and the queue its maxsize (main.py:498).
THEOREM TypeCorrect == Spec => []TypeOK
  BY Invariance, PTL DEF IInv

\* With no edge waiting and no callback under way the state is the pin's level under the
\* polarity in force, unless an edge was missed or the polarity changed under a reading
\* (door_sensor.py, _edge_callback and set_active_low).
THEOREM StateAlwaysFollowsLevel == Spec => []StateFollowsLevel
<1>1. IInv => StateFollowsLevel
  BY DEF IInv, FreshReading, StateFollowsLevel, Settled
<1> QED BY <1>1, Invariance, PTL

\* The last report is the sensor's state, unless a report was dropped or overtaken, in
\* whatever order edges, the initial report and polarity changes come (door_sensor.py,
\* _edge_callback and start; main.py, _handle_door_state and set_door_polarity).
THEOREM ReportAlwaysFollowsState == Spec => []ReportFollowsState
  BY Invariance, PTL DEF IInv

\* Between two openings at most one alert is posted, and only after the threshold
\* (door_sensor.py, _alert_monitor_loop).
THEOREM AlertsAlwaysDisciplined == Spec => []AlertDiscipline
  BY Invariance, PTL DEF IInv

=============================================================================
