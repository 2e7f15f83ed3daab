------------------------- MODULE ControlSocketProofs -------------------------
(***************************************************************************)
(* The control socket for every number of callers, queue and backlog: what *)
(* a caller is told is true, and commands are carried out in the order in  *)
(* which the operators gave them.                                          *)
(*                                                                         *)
(* Both follow from one fact about the way of a call, from the backlog     *)
(* over the server and the event queue to the main thread: calls may be    *)
(* lost on it, by a restart, a full queue or a caller that has gone, but   *)
(* they never overtake each other and never turn back (Pipeline).          *)
(***************************************************************************)
EXTENDS ControlSocket, TLAPS

\* The calls of a sequence of events are in the order in which they were made.
InOrder(s) ==
    \A m, n \in 1..Len(s) : m < n /\ s[m] # NoCall /\ s[n] # NoCall => s[m] < s[n]

\* Every call of S was made before every call of T.
Before(S, T) == \A i \in S \ {NoCall}, j \in T \ {NoCall} : i < j

\* A call that has not been made is nowhere.
MadeFirst ==
    \A i \in Calls :
        InHand(i) \/ i \in Range(executed) \/ outcome[i] # "none" => i <= made

\* Only calls made before it were over when a call was made.
OverBefore == \A j \in Calls : \A i \in before[j] : i < j

\* The calls pass from the backlog to the server, to the queue, to the main thread
\* without overtaking each other.
Pipeline ==
    /\ stage = "idle" <=> serving = NoCall
    /\ InOrder(executed) /\ InOrder(queue) /\ InOrder(backlog)
    /\ Before(Range(executed), Range(queue))
    /\ Before(Range(executed) \cup Range(queue), Range(backlog))
    /\ Before({serving}, Range(backlog))
    /\ Before((Range(executed) \cup Range(queue)) \ {serving}, {serving})
    /\ stage = "reading" => serving \notin Range(executed) \cup Range(queue)

\* An answer means what it says before anybody receives it.
TrueWhenSent ==
    /\ replied \subseteq Range(executed)
    /\ \A i \in Calls :
        /\ "response" \in {sent[i], outcome[i]} => i \in Range(executed)
        /\ \/ sent[i] = "system busy"
           \/ outcome[i] \in {"system busy", "not running", "could not talk"}
           => i <= made /\ i \notin Range(executed) /\ ~InHand(i)

IInv == TypeOK /\ MadeFirst /\ OverBefore /\ Pipeline /\ TrueWhenSent

----------------------------------------------------------------------------
(* Sequences of calls *)

LEMMA RangeAppend ==
    ASSUME NEW S, NEW s \in Seq(S), NEW x \in S
    PROVE  Range(Append(s, x)) = Range(s) \cup {x}
<1>1. /\ Len(s) \in Nat /\ DOMAIN s = 1..Len(s)
      /\ DOMAIN Append(s, x) = 1..(Len(s) + 1)
      /\ \A i \in 1..Len(s) : Append(s, x)[i] = s[i]
      /\ Append(s, x)[Len(s) + 1] = x
  OBVIOUS
<1>2. 1..(Len(s) + 1) = 1..Len(s) \cup {Len(s) + 1}
  BY <1>1
<1> QED BY <1>1, <1>2, Zenon DEF Range

LEMMA RangeTail ==
    ASSUME NEW S, NEW s \in Seq(S), s # <<>>
    PROVE  Head(s) \in Range(s) /\ Range(Tail(s)) \subseteq Range(s)
<1>1. /\ Len(s) \in Nat /\ DOMAIN s = 1..Len(s)
      /\ 1 \in 1..Len(s) /\ Head(s) = s[1]
      /\ DOMAIN Tail(s) = 1..(Len(s) - 1)
      /\ \A i \in 1..(Len(s) - 1) : Tail(s)[i] = s[i + 1]
  OBVIOUS
<1>2. \A n \in Nat : \A i \in 1..(n - 1) : i + 1 \in 1..n
  OBVIOUS
<1>3. Head(s) \in Range(s)
  BY <1>1, Zenon DEF Range
<1>4. ASSUME NEW x \in Range(Tail(s)) PROVE x \in Range(s)
  <2>1. PICK i \in 1..(Len(s) - 1) : x = Tail(s)[i]
    BY <1>1, Zenon DEF Range
  <2>2. i + 1 \in DOMAIN s /\ x = s[i + 1]
    BY <1>1, <1>2, <2>1
  <2> QED BY <2>2, Zenon DEF Range
<1> QED BY <1>3, <1>4

LEMMA RangeType ==
    ASSUME NEW S, NEW s \in Seq(S)
    PROVE  Range(s) \subseteq S
  BY DEF Range

LEMMA RangeEmpty == Range(<<>>) = {}
  BY DEF Range

\* A call that follows all others keeps a sequence in order; so does taking the first.
LEMMA InOrderAppend ==
    ASSUME NEW s \in Seq(Calls \cup {NoCall}), NEW x \in Calls \cup {NoCall},
           InOrder(s), Before(Range(s), {x})
    PROVE  InOrder(Append(s, x))
<1>1. /\ Len(s) \in Nat /\ DOMAIN s = 1..Len(s)
      /\ Len(Append(s, x)) = Len(s) + 1
      /\ \A i \in 1..Len(s) : Append(s, x)[i] = s[i]
      /\ Append(s, x)[Len(s) + 1] = x
  OBVIOUS
<1>2. \A i \in 1..Len(s) : s[i] \in Range(s)
  BY <1>1 DEF Range
<1> DEFINE q == Append(s, x)
<1>3. ASSUME NEW m \in 1..Len(q), NEW n \in 1..Len(q),
             m < n, q[m] # NoCall, q[n] # NoCall
      PROVE  q[m] < q[n]
  <2>1. m \in 1..Len(s) /\ q[m] = s[m]
    BY <1>1, <1>3
  <2>2. CASE n = Len(s) + 1
    BY <1>1, <1>2, <1>3, <2>1, <2>2 DEF Before
  <2>3. CASE n # Len(s) + 1
    <3>1. n \in 1..Len(s) /\ q[n] = s[n]
      BY <1>1, <2>3
    <3> QED BY <1>3, <2>1, <3>1 DEF InOrder
  <2> QED BY <2>2, <2>3
<1> QED BY <1>3 DEF InOrder

LEMMA InOrderTail ==
    ASSUME NEW s \in Seq(Calls \cup {NoCall}), s # <<>>, InOrder(s)
    PROVE  InOrder(Tail(s)) /\ Before({Head(s)}, Range(Tail(s)))
<1> DEFINE q == Tail(s)
<1>1. /\ Len(s) \in Nat /\ Len(q) = Len(s) - 1
      /\ 1 \in 1..Len(s) /\ Head(s) = s[1]
      /\ DOMAIN q = 1..Len(q)
      /\ \A i \in 1..Len(q) : i + 1 \in 1..Len(s) /\ q[i] = s[i + 1]
  OBVIOUS
<1> HIDE DEF q
<1>2. InOrder(q)
  <2> SUFFICES ASSUME NEW m \in 1..Len(q), NEW n \in 1..Len(q),
                      m < n, q[m] # NoCall, q[n] # NoCall
               PROVE  q[m] < q[n]
    BY DEF InOrder
  <2>1. m + 1 \in 1..Len(s) /\ n + 1 \in 1..Len(s) /\ m + 1 < n + 1
    BY <1>1
  <2>2. q[m] = s[m + 1] /\ q[n] = s[n + 1]
    BY <1>1
  <2> QED BY <2>1, <2>2 DEF InOrder
<1>3. ASSUME NEW j \in Range(q), Head(s) # NoCall, j # NoCall PROVE Head(s) < j
  <2>1. PICK n \in 1..Len(q) : j = q[n]
    BY <1>1 DEF Range
  <2>2. n + 1 \in 1..Len(s) /\ 1 < n + 1 /\ q[n] = s[n + 1]
    BY <1>1
  <2> QED BY <1>1, <1>3, <2>1, <2>2 DEF InOrder
<1>4. Before({Head(s)}, Range(q))
  BY <1>3 DEF Before
<1> QED BY <1>2, <1>4 DEF q

\* Before is about members.
LEMMA BeforeSubset ==
    ASSUME NEW S, NEW T, Before(S, T), NEW U \in SUBSET S, NEW V \in SUBSET T
    PROVE  Before(U, V)
  BY DEF Before

LEMMA BeforeUnion ==
    /\ \A S, T, U : Before(S, U) /\ Before(T, U) => Before(S \cup T, U)
    /\ \A S, T, U : Before(S, T) /\ Before(S, U) => Before(S, T \cup U)
    /\ \A S : Before(S, {}) /\ Before(S, {NoCall}) /\ Before({NoCall}, S)
  BY DEF Before

----------------------------------------------------------------------------
(* Every action keeps the inductive invariant *)

\* Nothing happens before the first start.
LEMMA InvInit == Init => IInv
<1> SUFFICES ASSUME Init PROVE IInv
  OBVIOUS
<1>1. TypeOK
  <2>1. /\ backlog \in Seq(Calls) /\ Len(backlog) <= Backlog
        /\ queue \in Seq(Calls \cup {NoCall}) /\ Len(queue) <= QueueSize
        /\ executed \in Seq(Calls)
    BY SizesAssumption DEF Init
  <2>2. made \in 0..MaxCalls
    BY MaxCallsAssumption DEF Init
  <2> QED BY <2>1, <2>2 DEF Init, TypeOK, Outcomes
<1>2. /\ Range(executed) = {} /\ Range(queue) = {} /\ Range(backlog) = {}
      /\ \A i \in Calls : ~InHand(i)
  BY RangeEmpty DEF Init, InHand, Calls, NoCall
<1>3. MadeFirst /\ OverBefore /\ TrueWhenSent
  BY <1>2 DEF Init, MadeFirst, OverBefore, TrueWhenSent
<1>4. Pipeline
  BY <1>2 DEF Init, Pipeline, InOrder, Before
<1> QED BY <1>1, <1>3, <1>4 DEF IInv

\* Where calls are after each action: whatever is in hand or carried out was so before,
\* or has just been made.
Kept ==
    /\ made' \in Nat /\ made <= made'
    /\ Range(executed) \subseteq Range(executed')
    /\ \A i \in Calls :
        InHand(i)' \/ i \in Range(executed')
            => InHand(i) \/ i \in Range(executed) \/ (i = made + 1 /\ made' = i)

LEMMA Types ==
    ASSUME TypeOK
    PROVE  /\ executed \in Seq(Calls) /\ executed \in Seq(Calls \cup {NoCall})
           /\ backlog \in Seq(Calls) /\ backlog \in Seq(Calls \cup {NoCall})
           /\ queue \in Seq(Calls \cup {NoCall})
           /\ Range(executed) \subseteq Calls
           /\ Range(backlog) \subseteq Calls
           /\ Range(queue) \subseteq Calls \cup {NoCall}
           /\ made \in Nat /\ made <= MaxCalls /\ MaxCalls \in Nat
           /\ NoCall \notin Calls
           /\ \A i \in Calls : i \in Nat \ {0}
<1>1. /\ executed \in Seq(Calls) /\ executed \in Seq(Calls \cup {NoCall})
      /\ backlog \in Seq(Calls) /\ backlog \in Seq(Calls \cup {NoCall})
      /\ queue \in Seq(Calls \cup {NoCall})
  BY DEF TypeOK
<1>2. /\ made \in Nat /\ made <= MaxCalls /\ MaxCalls \in Nat
      /\ NoCall \notin Calls
      /\ \A i \in Calls : i \in Nat \ {0}
  BY MaxCallsAssumption DEF TypeOK, Calls, NoCall
<1> QED BY <1>1, <1>2, RangeType

\* What a step does to the places a call can be in.
LEMMA MakeIs ==
    ASSUME TypeOK, Make
    PROVE  made + 1 \in Calls /\ made' = made + 1 /\ made' \in 0..MaxCalls
  BY Types DEF Make, Calls

LEMMA ConnectIs ==
    ASSUME TypeOK, Connect
    PROVE  /\ Range(backlog') = Range(backlog) \cup {made + 1}
           /\ UNCHANGED <<executed, queue, serving, stage>>
<1>1. backlog \in Seq(Calls) /\ made + 1 \in Calls
  BY Types, MakeIs DEF Connect
<1>2. Range(Append(backlog, made + 1)) = Range(backlog) \cup {made + 1}
  BY <1>1, RangeAppend
<1> QED BY <1>2 DEF Connect

LEMMA AcceptIs ==
    ASSUME TypeOK, Accept
    PROVE  /\ serving' \in Range(backlog)
           /\ Range(backlog') \subseteq Range(backlog)
           /\ UNCHANGED <<executed, queue, made>>
  BY Types, RangeTail DEF Accept, callers

LEMMA EnqueueIs ==
    ASSUME TypeOK, Enqueue
    PROVE  /\ Range(queue') = Range(queue) \cup {serving}
           /\ UNCHANGED <<executed, backlog, serving, made>>
<1>1. serving \in Calls \cup {NoCall} /\ queue \in Seq(Calls \cup {NoCall})
  BY DEF TypeOK
<1>2. Range(Append(queue, serving)) = Range(queue) \cup {serving}
  BY <1>1, RangeAppend
<1> QED BY <1>2 DEF Enqueue, callers

LEMMA FinishIs ==
    ASSUME Busy \/ PassReply \/ ReplyTimesOut
    PROVE  /\ serving' = NoCall /\ stage' = "idle"
           /\ UNCHANGED <<executed, queue, backlog, made>>
  BY DEF Busy, PassReply, ReplyTimesOut, Finish, callers

LEMMA PostIs ==
    ASSUME TypeOK, Post
    PROVE  /\ Range(queue') = Range(queue) \cup {NoCall}
           /\ UNCHANGED <<executed, backlog, serving, stage, made>>
<1>1. queue \in Seq(Calls \cup {NoCall}) /\ NoCall \in Calls \cup {NoCall}
  BY DEF TypeOK
<1>2. Range(Append(queue, NoCall)) = Range(queue) \cup {NoCall}
  BY <1>1, RangeAppend
<1>3. queue' = Append(queue, NoCall)
  BY DEF Post
<1>4. UNCHANGED <<executed, backlog, serving, stage, made>>
  BY DEF Post, callers, server
<1> QED BY <1>2, <1>3, <1>4, Zenon

LEMMA ExecuteIs ==
    ASSUME TypeOK, Execute
    PROVE  /\ Head(queue) \in Range(queue) /\ Head(queue) \in Calls
           /\ Range(queue') \subseteq Range(queue)
           /\ Range(executed') = Range(executed) \cup {Head(queue)}
           /\ UNCHANGED <<backlog, serving, stage, made>>
<1>1. /\ Head(queue) \in Range(queue) /\ Range(queue') \subseteq Range(queue)
      /\ Head(queue) # NoCall
  BY Types, RangeTail DEF Execute
<1>2. Head(queue) \in Calls
  BY <1>1, Types
<1>3. Range(executed') = Range(executed) \cup {Head(queue)}
  <2>1. executed \in Seq(Calls)
    BY Types
  <2>2. Range(Append(executed, Head(queue))) = Range(executed) \cup {Head(queue)}
    BY <1>2, <2>1, RangeAppend
  <2> QED BY <2>2 DEF Execute
<1> QED BY <1>1, <1>2, <1>3 DEF Execute, callers, server

LEMMA DispatchOtherIs ==
    ASSUME TypeOK, DispatchOther
    PROVE  /\ Range(queue') \subseteq Range(queue)
           /\ UNCHANGED <<executed, backlog, serving, stage, made>>
  BY Types, RangeTail DEF DispatchOther, callers, server

LEMMA StopIs ==
    ASSUME Stop
    PROVE  /\ Range(backlog') = {}
           /\ UNCHANGED <<executed, queue, serving, stage, made>>
  BY RangeEmpty DEF Stop

LEMMA EndIs ==
    ASSUME End
    PROVE  /\ Range(backlog') = {} /\ Range(queue') = {}
           /\ serving' = NoCall /\ stage' = "idle"
           /\ UNCHANGED <<executed, made>>
  BY RangeEmpty DEF End

\* The steps that move no call.
Still ==
    \/ ConnectFails
    \/ \E i \in Calls : Receive(i) \/ CallTimesOut(i)
    \/ Start
    \/ UNCHANGED vars

LEMMA StillIs ==
    ASSUME Still
    PROVE  UNCHANGED <<executed, queue, backlog, serving, stage>>
  BY DEF Still, ConnectFails, Receive, CallTimesOut, Start, vars, callers, server

LEMMA Steps ==
    ASSUME [Next]_vars
    PROVE  \/ Connect \/ Accept \/ Enqueue \/ Busy \/ PassReply \/ ReplyTimesOut
           \/ Post \/ Execute \/ DispatchOther \/ Stop \/ End \/ Still
  BY DEF Next, Server, MainLoop, Still

LEMMA KeptStep == TypeOK /\ [Next]_vars => Kept
<1> SUFFICES ASSUME TypeOK, [Next]_vars PROVE Kept
  OBVIOUS
<1> USE DEF Kept, InHand
<1>1. made \in Nat /\ NoCall \notin Calls
  BY Types
<1>2. CASE Connect
  <2>1. made' = made + 1
    BY <1>2, MakeIs DEF Connect
  <2> QED BY <1>1, <1>2, <2>1, ConnectIs
<1>3. CASE Accept
  BY <1>1, <1>3, AcceptIs
<1>4. CASE Enqueue
  BY <1>1, <1>4, EnqueueIs
<1>5. CASE Busy \/ PassReply \/ ReplyTimesOut
  BY <1>1, <1>5, FinishIs
<1>6. CASE Post
  BY <1>1, <1>6, PostIs
<1>7. CASE Execute
  BY <1>1, <1>7, ExecuteIs
<1>8. CASE DispatchOther
  BY <1>1, <1>8, DispatchOtherIs
<1>9. CASE Stop
  BY <1>1, <1>9, StopIs
<1>10. CASE End
  BY <1>1, <1>10, EndIs
<1>11. CASE Still
  <2>1. made' \in Nat /\ made <= made'
    <3>1. made' = made \/ made' = made + 1
      BY <1>11 DEF Still, ConnectFails, Make, Receive, CallTimesOut, Start, vars, callers
    <3> QED BY <1>1, <3>1
  <2> QED BY <1>11, <2>1, StillIs
<1> QED
  BY <1>2, <1>3, <1>4, <1>5, <1>6, <1>7, <1>8, <1>9, <1>10, <1>11, Steps

\* What a step does to the outcome of a call: nothing, or it is made, or it ends.
OutcomeMoves(i) ==
    \/ outcome'[i] = outcome[i]
    \/ /\ i = made + 1 /\ made' = i
       /\ outcome'[i] \in {"waiting", "not running", "could not talk"}
       /\ Connect \/ ConnectFails
    \/ outcome[i] = "waiting" /\ outcome'[i] = sent[i] /\ sent[i] # "nothing"
    \/ outcome[i] = "waiting" /\ outcome'[i] \in {"did not respond", "no response"}

LEMMA OutcomeStep ==
    ASSUME TypeOK, [Next]_vars
    PROVE  outcome' \in [Calls -> Outcomes] /\ \A i \in Calls : OutcomeMoves(i)
<1>1. /\ outcome \in [Calls -> Outcomes]
      /\ sent \in [Calls -> Responses \cup {"nothing"}]
  BY DEF TypeOK
<1>2. {"waiting", "not running", "could not talk", "did not respond", "no response"}
      \subseteq Outcomes /\ Responses \subseteq Outcomes
  BY DEF Outcomes
<1>3. CASE Connect \/ ConnectFails
  <2>1. made + 1 \in Calls /\ made' = made + 1
    BY <1>3, MakeIs DEF Connect, ConnectFails
  <2>2. PICK o \in {"waiting", "not running", "could not talk"} :
            outcome' = [outcome EXCEPT ![made + 1] = o]
    BY <1>3 DEF Connect, ConnectFails
  <2> QED BY <1>1, <1>2, <1>3, <2>1, <2>2 DEF OutcomeMoves
<1>4. ASSUME NEW c \in Calls, Receive(c)
      PROVE  outcome' \in [Calls -> Outcomes] /\ \A i \in Calls : OutcomeMoves(i)
  <2>1. /\ outcome[c] = "waiting" /\ sent[c] # "nothing"
        /\ outcome' = [outcome EXCEPT ![c] = sent[c]]
    BY <1>4 DEF Receive
  <2>2. sent[c] \in Outcomes
    BY <1>1, <1>2, <2>1
  <2> QED BY <1>1, <2>1, <2>2 DEF OutcomeMoves
<1>5. ASSUME NEW c \in Calls, CallTimesOut(c)
      PROVE  outcome' \in [Calls -> Outcomes] /\ \A i \in Calls : OutcomeMoves(i)
  BY <1>1, <1>2, <1>5 DEF CallTimesOut, OutcomeMoves
<1>6. CASE Stop \/ End
  <2>1. PICK C : Closed(C)
    BY <1>6 DEF Stop, End
  <2>2. \A i \in Calls : \/ outcome'[i] = outcome[i]
                         \/ outcome[i] = "waiting" /\ outcome'[i] = "no response"
    BY <2>1 DEF Closed
  <2>3. outcome' \in [Calls -> Outcomes]
    BY <1>1, <1>2, <2>1 DEF Closed
  <2> QED BY <2>2, <2>3 DEF OutcomeMoves
<1>7. CASE \/ Accept \/ Enqueue \/ Busy \/ PassReply \/ ReplyTimesOut \/ Post \/ Execute
           \/ DispatchOther \/ Start \/ UNCHANGED vars
  <2>1. outcome' = outcome
    BY <1>7 DEF Accept, Enqueue, Busy, PassReply, ReplyTimesOut, Finish, Post, Execute,
                DispatchOther, Start, vars, callers
  <2> QED BY <1>1, <2>1 DEF OutcomeMoves
<1> QED BY <1>3, <1>4, <1>5, <1>6, <1>7 DEF Next, Server, MainLoop

LEMMA MadeFirstStep == IInv /\ [Next]_vars => MadeFirst'
<1> SUFFICES ASSUME IInv, [Next]_vars, NEW i \in Calls,
                    InHand(i)' \/ i \in Range(executed') \/ outcome'[i] # "none"
             PROVE  i <= made'
  BY DEF MadeFirst
<1>1. TypeOK /\ MadeFirst /\ Kept /\ made \in Nat /\ i \in Nat
  BY KeptStep, Types DEF IInv
<1>2. CASE InHand(i)' \/ i \in Range(executed')
  <2>1. CASE InHand(i) \/ i \in Range(executed)
    BY <1>1, <2>1 DEF MadeFirst, Kept
  <2>2. CASE i = made + 1 /\ made' = i
    BY <1>1, <2>2
  <2> QED BY <1>1, <1>2, <2>1, <2>2 DEF Kept
<1>3. CASE outcome'[i] # "none"
  <2>1. outcome[i] # "none" \/ made' = i
    BY <1>1, <1>3, OutcomeStep DEF OutcomeMoves
  <2>2. outcome[i] # "none" => i <= made
    BY <1>1 DEF MadeFirst
  <2> QED BY <1>1, <2>1, <2>2 DEF Kept
<1> QED BY <1>2, <1>3

LEMMA OverBeforeStep ==
    IInv /\ [Next]_vars => OverBefore' /\ before' \in [Calls -> SUBSET Calls]
<1> SUFFICES ASSUME IInv, [Next]_vars
             PROVE  OverBefore' /\ before' \in [Calls -> SUBSET Calls]
  OBVIOUS
<1>1. TypeOK /\ MadeFirst /\ OverBefore /\ made \in Nat
      /\ before \in [Calls -> SUBSET Calls]
  BY Types DEF IInv, TypeOK
<1>2. CASE Connect \/ ConnectFails
  <2>1. /\ made + 1 \in Calls
        /\ before' = [before EXCEPT ![made + 1] = {i \in Calls : Returned(i)}]
    BY <1>1, <1>2, MakeIs DEF Connect, ConnectFails, Make
  <2>2. ASSUME NEW i \in Calls, Returned(i) PROVE i < made + 1
    <3>1. i <= made
      BY <1>1, <2>2 DEF MadeFirst, Returned
    <3> QED BY <1>1, <3>1, Types
  <2>3. before' \in [Calls -> SUBSET Calls]
    BY <1>1, <2>1
  <2>4. ASSUME NEW j \in Calls, NEW i \in before'[j] PROVE i < j
    <3>1. CASE j = made + 1
      BY <1>1, <2>1, <2>2, <2>4, <3>1
    <3>2. CASE j # made + 1
      BY <1>1, <2>1, <2>4, <3>2 DEF OverBefore
    <3> QED BY <3>1, <3>2
  <2> QED BY <2>3, <2>4 DEF OverBefore
<1>3. CASE ~(Connect \/ ConnectFails)
  <2>1. before' = before
    BY <1>3 DEF Next, Receive, CallTimesOut, Server, Accept, Enqueue, Busy, PassReply,
                ReplyTimesOut, Finish, Post, MainLoop, Execute, DispatchOther, Stop, End,
                Start, vars, callers
  <2> QED BY <1>1, <2>1 DEF OverBefore
<1> QED BY <1>2, <1>3

\* Every action keeps the order of the calls.
LEMMA PipelineStep == IInv /\ [Next]_vars => Pipeline'
<1> SUFFICES ASSUME IInv, [Next]_vars PROVE Pipeline'
  OBVIOUS
<1> DEFINE E == Range(executed)
           Q == Range(queue)
           B == Range(backlog)
<1>1. /\ TypeOK /\ MadeFirst
      /\ stage = "idle" <=> serving = NoCall
      /\ InOrder(executed) /\ InOrder(queue) /\ InOrder(backlog)
      /\ Before(E, Q)
      /\ Before(E \cup Q, B)
      /\ Before({serving}, B)
      /\ Before((E \cup Q) \ {serving}, {serving})
      /\ stage = "reading" => serving \notin E \cup Q
  BY DEF IInv, Pipeline
<1>2. /\ NoCall \notin Calls /\ \A i \in Calls : i \in Nat \ {0}
      /\ E \subseteq Calls /\ B \subseteq Calls /\ Q \subseteq Calls \cup {NoCall}
      /\ serving \in Calls \cup {NoCall}
      /\ stage \in {"idle", "reading", "waiting"}
  BY <1>1, Types DEF TypeOK
<1>3. CASE Connect
  <2>1. made + 1 \in Calls /\ backlog' = Append(backlog, made + 1)
    BY <1>1, <1>3, MakeIs DEF Connect
  <2>2. Range(backlog') = B \cup {made + 1} /\ UNCHANGED <<executed, queue, serving, stage>>
    BY <1>1, <1>3, ConnectIs
  <2>3. \A i \in (E \cup Q \cup B \cup {serving}) \ {NoCall} : i < made + 1
    <3> SUFFICES ASSUME NEW i \in (E \cup Q \cup B \cup {serving}) \ {NoCall}
                 PROVE  i < made + 1
      OBVIOUS
    <3>1. i \in Calls /\ i <= made
      BY <1>1, <1>2 DEF MadeFirst, InHand
    <3> QED BY <1>1, <3>1, Types
  <2>4. /\ Before(E \cup Q, {made + 1}) /\ Before({serving}, {made + 1})
        /\ Before(B, {made + 1})
    BY <2>3 DEF Before
  <2>5. InOrder(backlog')
    BY <1>1, <2>1, <2>4, InOrderAppend, Types
  <2>6. Before(E \cup Q, Range(backlog')) /\ Before({serving}, Range(backlog'))
    BY <1>1, <2>2, <2>4, BeforeUnion
  <2> QED BY <1>1, <2>2, <2>5, <2>6 DEF Pipeline
<1>4. CASE Accept
  <2>1. /\ serving' = Head(backlog) /\ backlog' = Tail(backlog) /\ backlog # <<>>
        /\ stage' = "reading"
    BY <1>4 DEF Accept
  <2>2. /\ serving' \in B /\ Range(backlog') \subseteq B /\ serving' \in Calls
        /\ UNCHANGED <<executed, queue>>
    BY <1>1, <1>2, <1>4, AcceptIs
  <2>3. InOrder(backlog') /\ Before({serving'}, Range(backlog'))
    BY <1>1, <2>1, InOrderTail, Types
  <2>4. Before(E \cup Q, Range(backlog')) /\ Before(E \cup Q, {serving'})
    BY <1>1, <2>2, BeforeSubset
  <2>5. serving' \notin E \cup Q
    BY <1>2, <2>2, <2>4 DEF Before
  <2>6. Before((E \cup Q) \ {serving'}, {serving'})
    BY <2>4, <2>5, BeforeSubset
  <2> QED BY <1>1, <1>2, <2>1, <2>2, <2>3, <2>4, <2>5, <2>6 DEF Pipeline
<1>5. CASE Enqueue
  <2>1. /\ queue' = Append(queue, serving) /\ stage = "reading" /\ stage' = "waiting"
        /\ Range(queue') = Q \cup {serving}
        /\ UNCHANGED <<executed, backlog, serving>>
    BY <1>1, <1>5, EnqueueIs DEF Enqueue
  <2>2. Before(E, {serving}) /\ Before(Q, {serving})
    BY <1>1, <2>1 DEF Before
  <2>3. InOrder(queue')
    BY <1>1, <1>2, <2>1, <2>2, InOrderAppend, Types
  <2>4. /\ Before(E, Range(queue'))
        /\ Before(E \cup Range(queue'), B)
    BY <1>1, <2>1, <2>2 DEF Before
  <2>5. Before((E \cup Range(queue')) \ {serving}, {serving})
    BY <1>1, <2>1 DEF Before
  <2> QED BY <1>1, <2>1, <2>3, <2>4, <2>5 DEF Pipeline
<1>6. CASE Busy \/ PassReply \/ ReplyTimesOut
  BY <1>1, <1>6, FinishIs, BeforeUnion DEF Pipeline
<1>7. CASE Post
  <2>1. /\ queue' = Append(queue, NoCall)
        /\ Range(queue') = Q \cup {NoCall}
        /\ UNCHANGED <<executed, backlog, serving, stage>>
    BY <1>1, <1>7, PostIs DEF Post
  <2>2. InOrder(queue')
    BY <1>1, <2>1, InOrderAppend, BeforeUnion, Types
  <2>3. /\ Before(E, Range(queue')) /\ Before(E \cup Range(queue'), B)
        /\ Before((E \cup Range(queue')) \ {serving}, {serving})
    BY <1>1, <2>1 DEF Before
  <2>4. stage = "reading" => serving \notin E \cup Range(queue')
    BY <1>1, <2>1
  <2> QED BY <1>1, <2>1, <2>2, <2>3, <2>4 DEF Pipeline
<1>8. CASE Execute
  <2> DEFINE h == Head(queue)
  <2>1. /\ queue' = Tail(queue) /\ queue # <<>> /\ executed' = Append(executed, h)
        /\ h \in Q /\ h \in Calls /\ Range(queue') \subseteq Q
        /\ Range(executed') = E \cup {h}
        /\ UNCHANGED <<backlog, serving, stage>>
    BY <1>1, <1>8, ExecuteIs DEF Execute
  <2>2. InOrder(queue') /\ Before({h}, Range(queue'))
    BY <1>1, <2>1, InOrderTail, Types
  <2>3. Before(E, {h}) /\ Before(E, Range(queue'))
    BY <1>1, <2>1, BeforeSubset
  <2>4. InOrder(executed')
    BY <1>1, <2>1, <2>3, InOrderAppend, Types
  <2> HIDE DEF h
  <2>5. Before(Range(executed'), Range(queue'))
    BY <2>1, <2>2, <2>3, BeforeUnion
  <2>6. Range(executed') \cup Range(queue') \subseteq E \cup Q
    BY <2>1
  <2>7. /\ Before(Range(executed') \cup Range(queue'), B)
        /\ Before((Range(executed') \cup Range(queue')) \ {serving}, {serving})
        /\ stage = "reading" => serving \notin Range(executed') \cup Range(queue')
    BY <1>1, <2>6 DEF Before
  <2> QED BY <1>1, <2>1, <2>2, <2>4, <2>5, <2>7 DEF Pipeline
<1>9. CASE DispatchOther
  <2>1. /\ queue' = Tail(queue) /\ queue # <<>> /\ Range(queue') \subseteq Q
        /\ UNCHANGED <<executed, backlog, serving, stage>>
    BY <1>1, <1>9, DispatchOtherIs DEF DispatchOther
  <2>2. InOrder(queue')
    BY <1>1, <2>1, InOrderTail, Types
  <2>3. /\ Before(E, Range(queue')) /\ Before(E \cup Range(queue'), B)
        /\ Before((E \cup Range(queue')) \ {serving}, {serving})
        /\ stage = "reading" => serving \notin E \cup Range(queue')
    BY <1>1, <2>1 DEF Before
  <2> QED BY <1>1, <2>1, <2>2, <2>3 DEF Pipeline
<1>10. CASE Stop
  <2>1. Range(backlog') = {} /\ UNCHANGED <<executed, queue, serving, stage>>
    BY <1>10, StopIs
  <2>2. InOrder(backlog')
    BY <1>10 DEF Stop, InOrder
  <2> QED BY <1>1, <2>1, <2>2, BeforeUnion DEF Pipeline
<1>11. CASE End
  <2>1. /\ Range(backlog') = {} /\ Range(queue') = {} /\ serving' = NoCall
        /\ stage' = "idle" /\ executed' = executed
    BY <1>11, EndIs
  <2>2. InOrder(backlog') /\ InOrder(queue')
    BY <1>11 DEF End, InOrder
  <2> QED BY <1>1, <2>1, <2>2, BeforeUnion DEF Pipeline
<1>12. CASE Still
  BY <1>1, <1>12, StillIs DEF Pipeline
<1> QED
  BY <1>3, <1>4, <1>5, <1>6, <1>7, <1>8, <1>9, <1>10, <1>11, <1>12, Steps

\* What a step does to what is sent to a call: nothing, or the server answers it.
SentMoves(i) ==
    \/ sent'[i] = sent[i]
    \/ Busy /\ i = serving /\ sent'[i] = "system busy"
    \/ PassReply /\ i = serving /\ sent'[i] = "response"
    \/ sent'[i] = "timed out"

LEMMA SentStep ==
    ASSUME TypeOK, [Next]_vars
    PROVE  /\ sent' \in [Calls -> Responses \cup {"nothing"}]
           /\ \A i \in Calls : SentMoves(i)
<1>1. sent \in [Calls -> Responses \cup {"nothing"}]
  BY DEF TypeOK
<1>2. CASE Busy
  <2>1. sent' = [sent EXCEPT ![serving] = "system busy"]
    BY <1>2 DEF Busy, Finish
  <2> QED BY <1>1, <1>2, <2>1 DEF SentMoves, Responses
<1>3. CASE PassReply
  <2>1. sent' = [sent EXCEPT ![serving] = "response"]
    BY <1>3 DEF PassReply, Finish
  <2> QED BY <1>1, <1>3, <2>1 DEF SentMoves, Responses
<1>4. CASE ReplyTimesOut
  <2>1. sent' = [sent EXCEPT ![serving] = "timed out"]
    BY <1>4 DEF ReplyTimesOut, Finish
  <2> QED BY <1>1, <2>1 DEF SentMoves, Responses
<1>5. CASE ~(Busy \/ PassReply \/ ReplyTimesOut)
  <2>1. sent' = sent
    BY <1>5 DEF Next, Connect, ConnectFails, Receive, CallTimesOut, Server, Accept,
                Enqueue, Post, MainLoop, Execute, DispatchOther, Stop, End, Start, vars
  <2> QED BY <1>1, <2>1 DEF SentMoves
<1> QED BY <1>2, <1>3, <1>4, <1>5

\* A reply comes from a request that was carried out.
LEMMA RepliedStep ==
    ASSUME IInv, [Next]_vars
    PROVE  replied' \subseteq Range(executed') /\ replied' \subseteq Calls
<1>1. TypeOK /\ replied \subseteq Range(executed) /\ replied \subseteq Calls
  BY DEF IInv, TrueWhenSent, TypeOK
<1>2. Range(executed) \subseteq Range(executed')
  BY <1>1, KeptStep DEF Kept
<1>3. CASE Execute
  <2>1. /\ replied' = replied \cup {Head(queue)} /\ Head(queue) \in Calls
        /\ Range(executed') = Range(executed) \cup {Head(queue)}
    BY <1>1, <1>3, ExecuteIs DEF Execute
  <2> QED BY <1>1, <2>1
<1>4. CASE ~Execute
  <2>1. replied' \subseteq replied
    BY <1>4 DEF Next, Connect, ConnectFails, Receive, CallTimesOut, Server, Accept,
                Enqueue, Busy, PassReply, ReplyTimesOut, Finish, Post, MainLoop,
                DispatchOther, Stop, End, Start, vars, server
  <2> QED BY <1>1, <1>2, <2>1
<1> QED BY <1>3, <1>4

\* A call that was turned away is nowhere and does not come back.
Nowhere(i) == i <= made /\ i \notin Range(executed) /\ ~InHand(i)

LEMMA NowhereStays ==
    ASSUME TypeOK, [Next]_vars, NEW i \in Calls, Nowhere(i)
    PROVE  Nowhere(i)'
<1>1. Kept /\ made \in Nat /\ i \in Nat
  BY KeptStep, Types
<1>2. i # made + 1 /\ i <= made'
  BY <1>1 DEF Kept, Nowhere
<1> QED BY <1>1, <1>2 DEF Kept, Nowhere

\* A call the server turns away is past the backlog and not on the queue; one that does
\* not connect does not get anywhere.
LEMMA TurnedAway ==
    ASSUME IInv, [Next]_vars, NEW i \in Calls,
           \/ Busy /\ i = serving
           \/ ConnectFails /\ i = made + 1 /\ made' = i
    PROVE  Nowhere(i)'
<1>1. /\ TypeOK /\ MadeFirst /\ Pipeline /\ made \in Nat
      /\ NoCall \notin Calls /\ i \in Nat
  BY Types DEF IInv
<1>2. CASE Busy /\ i = serving
  <2>1. stage = "reading"
    BY <1>2 DEF Busy
  <2>2. i \notin Range(executed) \cup Range(queue)
    BY <1>1, <1>2, <2>1 DEF Pipeline
  <2>3. i \notin Range(backlog)
    BY <1>1, <1>2 DEF Pipeline, Before
  <2>4. i <= made
    BY <1>1, <1>2 DEF MadeFirst, InHand
  <2>5. serving' = NoCall /\ UNCHANGED <<executed, queue, backlog, made>>
    BY <1>2, FinishIs
  <2> QED BY <1>1, <2>2, <2>3, <2>4, <2>5 DEF Nowhere, InHand
<1>3. CASE ConnectFails /\ i = made + 1 /\ made' = i
  <2>1. ~(i <= made)
    BY <1>1, <1>3
  <2>2. i \notin Range(executed) /\ ~InHand(i)
    BY <1>1, <2>1 DEF MadeFirst
  <2>3. UNCHANGED <<executed, queue, backlog, serving>>
    BY <1>3 DEF ConnectFails, server
  <2> QED BY <1>1, <1>3, <2>2, <2>3 DEF Nowhere, InHand
<1> QED BY <1>2, <1>3

\* Every action keeps the answers true.
LEMMA TrueWhenSentStep == IInv /\ [Next]_vars => TrueWhenSent'
<1> SUFFICES ASSUME IInv, [Next]_vars PROVE TrueWhenSent'
  OBVIOUS
<1>1. /\ TypeOK /\ TrueWhenSent /\ Range(executed) \subseteq Range(executed')
  BY KeptStep DEF IInv, Kept
<1>2. replied' \subseteq Range(executed')
  BY RepliedStep
<1>3. ASSUME NEW i \in Calls, "response" \in {sent'[i], outcome'[i]}
      PROVE  i \in Range(executed')
  <2>1. SentMoves(i) /\ OutcomeMoves(i)
    BY <1>1, SentStep, OutcomeStep
  <2>2. CASE "response" \in {sent[i], outcome[i]}
    BY <1>1, <2>2 DEF TrueWhenSent
  <2>3. CASE PassReply /\ i = serving
    BY <1>1, <2>3 DEF PassReply, TrueWhenSent
  <2> QED BY <1>3, <2>1, <2>2, <2>3 DEF SentMoves, OutcomeMoves
<1>4. ASSUME NEW i \in Calls,
             \/ sent'[i] = "system busy"
             \/ outcome'[i] \in {"system busy", "not running", "could not talk"}
      PROVE  Nowhere(i)'
  <2>1. /\ SentMoves(i) /\ OutcomeMoves(i)
        /\ sent[i] \in Responses \cup {"nothing"}
    BY <1>1, SentStep, OutcomeStep DEF TypeOK
  <2>2. CASE \/ sent[i] = "system busy"
             \/ outcome[i] \in {"system busy", "not running", "could not talk"}
    <3>1. Nowhere(i)
      BY <1>1, <2>2 DEF TrueWhenSent, Nowhere
    <3> QED BY <1>1, <3>1, NowhereStays
  <2>3. CASE Busy /\ i = serving
    BY <2>3, TurnedAway
  <2>4. CASE ConnectFails /\ i = made + 1 /\ made' = i
    BY <2>4, TurnedAway
  <2>5. CASE Connect /\ i = made + 1
    <3>1. outcome'[i] = "waiting" /\ sent' = sent
      BY <1>1, <2>5, MakeIs DEF Connect, TypeOK
    <3> QED BY <1>4, <2>2, <3>1
  <2> QED BY <1>4, <2>1, <2>2, <2>3, <2>4, <2>5
          DEF SentMoves, OutcomeMoves, Responses
<1> QED BY <1>2, <1>3, <1>4 DEF TrueWhenSent, Nowhere

\* The queue and the backlog keep their limits, every variable its type.
LEMMA TypeStep == IInv /\ [Next]_vars => TypeOK'
<1> SUFFICES ASSUME IInv, [Next]_vars PROVE TypeOK'
  OBVIOUS
<1> USE DEF callers, server
<1>1. TypeOK /\ QueueSize \in Nat \ {0} /\ Backlog \in Nat \ {0}
  BY SizesAssumption DEF IInv
<1>2. /\ outcome' \in [Calls -> Outcomes]
      /\ sent' \in [Calls -> Responses \cup {"nothing"}]
      /\ replied' \subseteq Calls
      /\ before' \in [Calls -> SUBSET Calls]
  BY <1>1, OutcomeStep, SentStep, RepliedStep, OverBeforeStep
<1>3. service' \in {"up", "stopping", "down"} /\ stage' \in {"idle", "reading", "waiting"}
  BY <1>1 DEF TypeOK, Next, Connect, ConnectFails, Receive, CallTimesOut, Server, Accept,
              Enqueue, Busy, PassReply, ReplyTimesOut, Finish, Post, MainLoop, Execute,
              DispatchOther, Stop, End, Start, vars
<1>4. made' \in 0..MaxCalls
  <2>1. CASE Connect \/ ConnectFails
    BY <1>1, <2>1, MakeIs DEF Connect, ConnectFails
  <2>2. CASE ~(Connect \/ ConnectFails)
    BY <1>1, <2>2
    DEF TypeOK, Next, Receive, CallTimesOut, Server, Accept, Enqueue, Busy, PassReply,
        ReplyTimesOut, Finish, Post, MainLoop, Execute, DispatchOther, Stop, End, Start,
        vars
  <2> QED BY <2>1, <2>2
<1>5. executed' \in Seq(Calls)
  <2>1. CASE Execute
    BY <1>1, <2>1, ExecuteIs DEF TypeOK, Execute
  <2>2. CASE ~Execute
    BY <1>1, <2>2
    DEF TypeOK, Next, Connect, ConnectFails, Receive, CallTimesOut, Server, Accept,
        Enqueue, Busy, PassReply, ReplyTimesOut, Finish, Post, MainLoop, DispatchOther,
        Stop, End, Start, vars
  <2> QED BY <2>1, <2>2
<1>6. serving' \in Calls \cup {NoCall}
  <2>1. CASE Accept
    BY <1>1, <2>1, AcceptIs, Types
  <2>2. CASE ~Accept
    <3>1. serving' = serving \/ serving' = NoCall
      BY <2>2 DEF Next, Connect, ConnectFails, Receive, CallTimesOut, Server, Enqueue,
                  Busy, PassReply, ReplyTimesOut, Finish, Post, MainLoop, Execute,
                  DispatchOther, Stop, End, Start, vars
    <3> QED BY <1>1, <3>1 DEF TypeOK
  <2> QED BY <2>1, <2>2
<1>7. backlog' \in Seq(Calls) /\ Len(backlog') <= Backlog
  <2>1. backlog \in Seq(Calls) /\ Len(backlog) <= Backlog
    BY <1>1 DEF TypeOK
  <2>2. CASE Connect
    <3>1. /\ backlog' = Append(backlog, made + 1) /\ made + 1 \in Calls
          /\ Len(backlog) < Backlog
      BY <1>1, <2>2, MakeIs DEF Connect
    <3> QED BY <1>1, <2>1, <3>1
  <2>3. CASE Accept
    <3>1. backlog' = Tail(backlog) /\ backlog # <<>>
      BY <2>3 DEF Accept
    <3> QED BY <1>1, <2>1, <3>1
  <2>4. CASE ~Connect /\ ~Accept
    <3>1. backlog' = backlog \/ backlog' = <<>>
      BY <2>4 DEF Next, ConnectFails, Receive, CallTimesOut, Server, Enqueue, Busy,
                  PassReply, ReplyTimesOut, Finish, Post, MainLoop, Execute,
                  DispatchOther, Stop, End, Start, vars
    <3>2. <<>> \in Seq(Calls) /\ Len(<<>>) <= Backlog
      BY <1>1
    <3> QED BY <2>1, <3>1, <3>2
  <2> QED BY <2>2, <2>3, <2>4
<1>8. queue' \in Seq(Calls \cup {NoCall}) /\ Len(queue') <= QueueSize
  <2>1. /\ queue \in Seq(Calls \cup {NoCall}) /\ Len(queue) <= QueueSize
        /\ serving \in Calls \cup {NoCall}
    BY <1>1 DEF TypeOK
  <2>2. CASE Enqueue \/ Post
    <3>1. PICK e \in Calls \cup {NoCall} : queue' = Append(queue, e)
      BY <2>1, <2>2 DEF Enqueue, Post
    <3>2. Len(queue) < QueueSize
      BY <2>2 DEF Enqueue, Post, Room
    <3> QED BY <1>1, <2>1, <3>1, <3>2
  <2>3. CASE Execute \/ DispatchOther
    <3>1. queue' = Tail(queue) /\ queue # <<>>
      BY <2>3 DEF Execute, DispatchOther
    <3> QED BY <1>1, <2>1, <3>1
  <2>4. CASE ~(Enqueue \/ Post \/ Execute \/ DispatchOther)
    <3>1. queue' = queue \/ queue' = <<>>
      BY <2>4 DEF Next, Connect, ConnectFails, Receive, CallTimesOut, Server, Accept,
                  Busy, PassReply, ReplyTimesOut, Finish, MainLoop, Stop, End, Start, vars
    <3>2. <<>> \in Seq(Calls \cup {NoCall}) /\ Len(<<>>) <= QueueSize
      BY <1>1
    <3> QED BY <2>1, <3>1, <3>2
  <2> QED BY <2>2, <2>3, <2>4
<1> QED BY <1>2, <1>3, <1>4, <1>5, <1>6, <1>7, <1>8 DEF TypeOK

----------------------------------------------------------------------------
(* The theorems *)

LEMMA InvStep == IInv /\ [Next]_vars => IInv'
  BY TypeStep, MadeFirstStep, OverBeforeStep, PipelineStep, TrueWhenSentStep DEF IInv

\* The inductive invariant holds in every reachable state.
LEMMA Invariance == Spec => []IInv
  BY InvInit, InvStep, PTL DEF Spec

\* The variables of the socket, its callers and the main thread keep their types, the
\* event queue its maxsize and the backlog what listen() was given (control_socket.py:78,
\* main.py:498).
THEOREM TypeCorrect == Spec => []TypeOK
  BY Invariance, PTL DEF IInv

\* A caller that is given the command's own response can rely on it having been carried
\* out, one that is turned away on it never being (control_socket.py, _serve and call).
THEOREM AnswersAreAlwaysTrue == Spec => []AnswersAreTrue
<1>1. IInv => AnswersAreTrue
  BY DEF IInv, TrueWhenSent, AnswersAreTrue
<1> QED BY <1>1, Invariance, PTL

\* A command made after another had returned, by whatever answer or timeout, is not
\* carried out before it (control_socket.py, _serve and call; main.py,
\* _handle_web_command).
THEOREM RealTimeOrderAlwaysHolds == Spec => []RealTimeOrder
<1>1. IInv => RealTimeOrder
  <2> SUFFICES ASSUME IInv, NEW j \in Calls, NEW i \in before[j], j \in Range(executed)
               PROVE  /\ ~InHand(i)
                      /\ \A m, n \in 1..Len(executed) :
                           executed[m] = i /\ executed[n] = j => m < n
    BY DEF RealTimeOrder
  <2>1. /\ Pipeline /\ i \in Calls /\ i < j /\ i \in Nat /\ j \in Nat
        /\ NoCall \notin Calls /\ Len(executed) \in Nat
    BY Types DEF IInv, OverBefore, TypeOK
  <2>2. ~InHand(i)
    <3>1. i \notin Range(queue) /\ i \notin Range(backlog)
      BY <2>1 DEF Pipeline, Before
    <3>2. i # serving
      BY <2>1 DEF Pipeline, Before
    <3> QED BY <3>1, <3>2 DEF InHand
  <2>3. ASSUME NEW m \in 1..Len(executed), NEW n \in 1..Len(executed),
               executed[m] = i, executed[n] = j, ~(m < n)
        PROVE  FALSE
    <3>1. m # n
      BY <2>1, <2>3
    <3>2. n < m
      BY <2>1, <2>3, <3>1
    <3>3. j < i
      BY <2>1, <2>3, <3>2 DEF Pipeline, InOrder
    <3> QED BY <2>1, <3>3
  <2> QED BY <2>2, <2>3
<1> QED BY <1>1, Invariance, PTL

----------------------------------------------------------------------------
(* The log of commands: ControlSocket implements CommandLog *)

\* A request that is being waited for is on its way or has been carried out.
Waited == stage = "waiting" => serving \in Range(queue) \cup Range(executed)

LEMMA RangeHead ==
    ASSUME NEW S, NEW s \in Seq(S), s # <<>>
    PROVE  Range(s) = {Head(s)} \cup Range(Tail(s))
<1>1. /\ Len(s) \in Nat /\ DOMAIN s = 1..Len(s) /\ Head(s) = s[1]
      /\ DOMAIN Tail(s) = 1..(Len(s) - 1)
      /\ \A i \in 1..(Len(s) - 1) : Tail(s)[i] = s[i + 1]
  OBVIOUS
<1>2. ASSUME NEW x \in Range(s), x # Head(s) PROVE x \in Range(Tail(s))
  <2>1. PICK i \in 1..Len(s) : x = s[i]
    BY <1>1, Zenon DEF Range
  <2>2. i # 1
    BY <1>1, <1>2, <2>1
  <2>3. i - 1 \in 1..(Len(s) - 1) /\ (i - 1) + 1 = i
    BY <1>1, <2>1, <2>2
  <2>4. x = Tail(s)[i - 1]
    BY <1>1, <2>1, <2>3
  <2> QED BY <1>1, <2>3, <2>4, Zenon DEF Range
<1> QED BY <1>2, RangeTail

LEMMA WaitedStep == IInv /\ Waited /\ [Next]_vars => Waited'
<1> SUFFICES ASSUME IInv, Waited, [Next]_vars, stage' = "waiting"
             PROVE  serving' \in Range(queue') \cup Range(executed')
  BY DEF Waited
<1>1. TypeOK /\ (stage = "waiting" => serving \in Range(queue) \cup Range(executed))
      /\ (stage = "idle" <=> serving = NoCall)
  BY DEF IInv, Pipeline, Waited
<1>2. CASE Connect \/ Still
  BY <1>1, <1>2, ConnectIs, StillIs
<1>3. CASE Enqueue
  BY <1>1, <1>3, EnqueueIs
<1>4. CASE Accept \/ Busy \/ PassReply \/ ReplyTimesOut \/ End
  BY <1>4, FinishIs, EndIs DEF Accept
<1>5. CASE Post \/ Stop
  BY <1>1, <1>5, PostIs, StopIs
<1>6. CASE Execute
  <2>1. Range(queue) = {Head(queue)} \cup Range(queue')
    BY <1>1, <1>6, Types, RangeHead DEF Execute
  <2> QED BY <1>1, <1>6, <2>1, ExecuteIs
<1>7. CASE DispatchOther
  <2>1. Range(queue) = {NoCall} \cup Range(queue')
    BY <1>1, <1>7, Types, RangeHead DEF DispatchOther
  <2>2. serving # NoCall
    BY <1>1, <1>7, DispatchOtherIs
  <2> QED BY <1>1, <1>7, <2>1, <2>2, DispatchOtherIs
<1> QED BY <1>2, <1>3, <1>4, <1>5, <1>6, <1>7, Steps

\* The way of a call through the socket is no step of the log: as long as it is not
\* carried out it is pending wherever it is.
LEMMA PendingStays ==
    ASSUME IInv, Waited,
           \/ Accept \/ Enqueue \/ PassReply \/ ReplyTimesOut \/ Post \/ DispatchOther
           \/ Still
    PROVE  Pending' = Pending /\ executed' = executed
<1> USE DEF Pending, InHand
<1>1. /\ TypeOK /\ (stage = "idle" <=> serving = NoCall)
      /\ NoCall \notin Calls /\ replied \subseteq Range(executed)
  BY Types DEF IInv, Pipeline, TrueWhenSent
<1>2. CASE Accept
  <2>1. /\ Range(backlog) = {serving'} \cup Range(backlog')
        /\ serving = NoCall
    BY <1>1, <1>2, Types, RangeHead DEF Accept
  <2> QED BY <1>1, <1>2, <2>1, AcceptIs
<1>3. CASE Enqueue
  BY <1>1, <1>3, EnqueueIs
<1>4. CASE PassReply \/ ReplyTimesOut
  <2>1. serving \in Range(queue) \cup Range(executed)
    BY <1>1, <1>4 DEF PassReply, ReplyTimesOut, Waited
  <2> QED BY <1>1, <1>4, <2>1, FinishIs
<1>5. CASE Post
  BY <1>1, <1>5, PostIs
<1>6. CASE DispatchOther
  <2>1. Range(queue) = {NoCall} \cup Range(queue')
    BY <1>1, <1>6, Types, RangeHead DEF DispatchOther
  <2> QED BY <1>1, <1>6, <2>1, DispatchOtherIs
<1>7. CASE Still
  BY <1>7, StillIs
<1> QED BY <1>2, <1>3, <1>4, <1>5, <1>6, <1>7

\* The main thread takes the oldest of the pending calls.
LEMMA OldestFirst ==
    ASSUME IInv, Execute
    PROVE  /\ Head(queue) \in Pending
           /\ \A j \in Pending : Head(queue) <= j
           /\ Pending' = Pending \ {Head(queue)}
<1> DEFINE h == Head(queue)
           E == Range(executed)
           Q == Range(queue)
<1>1. /\ TypeOK /\ InOrder(queue) /\ Before(E, Q)
      /\ Before(E \cup Q, Range(backlog))
      /\ Before((E \cup Q) \ {serving}, {serving})
      /\ NoCall \notin Calls /\ \A i \in Calls : i \in Nat
  BY Types DEF IInv, Pipeline
<1>2. /\ Q = {h} \cup Range(queue') /\ Before({h}, Range(queue'))
      /\ h \in Calls /\ queue' = Tail(queue)
  BY <1>1, Types, RangeHead, InOrderTail, ExecuteIs DEF Execute
<1>3. /\ Range(executed') = E \cup {h}
      /\ UNCHANGED <<backlog, serving>>
  BY <1>1, ExecuteIs
<1> HIDE DEF h, E, Q
<1>4. h \notin E
  BY <1>1, <1>2 DEF Before
<1>5. h \in Pending
  BY <1>2, <1>4 DEF Pending, InHand, E, Q
<1>6. ASSUME NEW j \in Pending, j # h PROVE h < j
  <2>1. j \in Calls /\ j # NoCall /\ h # NoCall /\ (serving = j \/ j \in Range(backlog) \/ j \in Q)
    BY <1>1, <1>2, <1>6 DEF Pending, InHand, Q
  <2>2. CASE j \in Q
    BY <1>2, <1>6, <2>1, <2>2 DEF Before
  <2>3. CASE j \in Range(backlog)
    BY <1>1, <1>2, <2>1, <2>3 DEF Before
  <2>4. CASE serving = j
    BY <1>1, <1>2, <1>6, <2>1, <2>4 DEF Before
  <2> QED BY <2>1, <2>2, <2>3, <2>4
<1>7. \A j \in Pending : h <= j
  BY <1>1, <1>2, <1>6 DEF Pending
<1>8. Pending' = Pending \ {h}
  BY <1>2, <1>3 DEF Pending, InHand, E, Q
<1> QED BY <1>5, <1>7, <1>8 DEF h

LEMMA SaidIs ==
    /\ Said["none"] = "none" /\ Said["waiting"] = "waiting" /\ Said["response"] = "done"
    /\ Said["system busy"] = "refused" /\ Said["not running"] = "refused"
    /\ Said["could not talk"] = "refused"
    /\ Said["timed out"] = "unknown" /\ Said["did not respond"] = "unknown"
    /\ Said["no response"] = "unknown"
  BY DEF Said, Outcomes, Responses

LEMMA SaidOnly ==
    \A o \in Outcomes : (Said[o] = "none" <=> o = "none")
                       /\ (Said[o] = "waiting" <=> o = "waiting")
  BY DEF Said, Outcomes, Responses

\* One call is told something.
LEMMA AnswersMove ==
    ASSUME TypeOK, NEW c \in Calls, NEW o \in Outcomes,
           outcome' = [outcome EXCEPT ![c] = o]
    PROVE  Answers' = [Answers EXCEPT ![c] = Said[o]]
<1>1. outcome \in [Calls -> Outcomes]
  BY DEF TypeOK
<1>2. \A i \in Calls : outcome'[i] = IF i = c THEN o ELSE outcome[i]
  BY <1>1
<1>3. \A i \in Calls : Said[outcome'[i]] = IF i = c THEN Said[o] ELSE Said[outcome[i]]
  BY <1>2
<1> QED BY <1>3 DEF Answers

LEMMA TookEffectIs ==
    ASSUME TypeOK
    PROVE  \A i \in Calls : Log!TookEffect(i) <=> i \in Range(executed)
<1>1. DOMAIN executed = 1..Len(executed)
  BY DEF TypeOK
<1> QED BY <1>1, Zenon DEF Log!TookEffect, Range

LEMMA LogInit == Init => Log!Init
<1> SUFFICES ASSUME Init PROVE Log!Init
  OBVIOUS
<1>1. executed = <<>> /\ Answers = [i \in Calls |-> "none"]
  BY SaidIs DEF Init, Answers
<1>2. Pending = {}
  BY RangeEmpty DEF Init, Pending, InHand, Calls, NoCall
<1>3. service = "down" /\ Room = TRUE
  BY SizesAssumption DEF Init, Room
<1> QED BY <1>1, <1>2, <1>3 DEF Log!Init

\* A call that is made is later than all that were made before.
LEMMA NewestIs ==
    ASSUME IInv, Make
    PROVE  made + 1 \in Calls /\ Log!Newest(made + 1) /\ made + 1 \notin Range(executed)
<1>1. /\ TypeOK /\ MadeFirst /\ outcome \in [Calls -> Outcomes]
      /\ made + 1 \in Calls /\ made \in Nat
      /\ \A i \in Calls : i \in Nat
  BY MakeIs, Types DEF IInv, TypeOK
<1>2. ~(made + 1 <= made)
  BY <1>1
<1>3. outcome[made + 1] = "none" /\ made + 1 \notin Range(executed)
  BY <1>1, <1>2 DEF MadeFirst
<1>4. \A i \in Calls : Answers[i] = Said[outcome[i]]
  BY DEF Answers
<1>5. ASSUME NEW j \in Calls, Answers[j] # "none" PROVE j < made + 1
  <2>1. outcome[j] # "none"
    BY <1>1, <1>4, <1>5, SaidOnly
  <2>2. j <= made /\ j \in Nat
    BY <1>1, <2>1 DEF MadeFirst
  <2> QED BY <1>1, <2>2
<1>6. Answers[made + 1] = "none"
  BY <1>1, <1>3, <1>4, SaidIs
<1> QED BY <1>1, <1>3, <1>5, <1>6 DEF Log!Newest

\* The answer of one call, told by the server or by its own timeout.
LEMMA ReplyIs ==
    ASSUME IInv, NEW c \in Calls, Receive(c) \/ CallTimesOut(c)
    PROVE  Log!Reply(c)
<1>1. /\ TypeOK /\ TrueWhenSent /\ outcome[c] = "waiting"
      /\ sent \in [Calls -> Responses \cup {"nothing"}]
  BY DEF IInv, TypeOK, Receive, CallTimesOut
<1>2. UNCHANGED <<executed, Pending, service, Room>>
  BY DEF Receive, CallTimesOut, Pending, InHand, server, Room
<1>3. c \in Log!Waiting
  BY <1>1, SaidIs DEF Log!Waiting, Answers
<1>4. CASE Receive(c)
  <2>1. sent[c] \in Responses
    BY <1>1, <1>4 DEF Receive
  <2>2. Answers' = [Answers EXCEPT ![c] = Said[sent[c]]]
    BY <1>1, <1>4, <2>1, AnswersMove DEF Receive, Outcomes
  <2>3. CASE sent[c] = "response"
    <3>1. Log!TookEffect(c)
      BY <1>1, <2>3, TookEffectIs DEF TrueWhenSent
    <3>2. Answers' = [Answers EXCEPT ![c] = "done"]
      BY <2>2, <2>3, SaidIs
    <3> QED BY <1>2, <1>3, <3>1, <3>2 DEF Log!Reply, Log!Answer
  <2>4. CASE sent[c] = "system busy"
    <3>1. ~Log!TookEffect(c) /\ c \notin Pending
      BY <1>1, <2>4, TookEffectIs DEF TrueWhenSent, Pending
    <3>2. Answers' = [Answers EXCEPT ![c] = "refused"]
      BY <2>2, <2>4, SaidIs
    <3> QED BY <1>2, <1>3, <3>1, <3>2 DEF Log!Reply, Log!Answer
  <2>5. CASE sent[c] = "timed out"
    <3>1. Answers' = [Answers EXCEPT ![c] = "unknown"]
      BY <2>2, <2>5, SaidIs
    <3> QED BY <1>2, <1>3, <3>1 DEF Log!Reply, Log!Answer
  <2> QED BY <2>1, <2>3, <2>4, <2>5 DEF Responses
<1>5. CASE CallTimesOut(c)
  <2>1. Answers' = [Answers EXCEPT ![c] = Said["did not respond"]]
    BY <1>1, <1>5, AnswersMove DEF CallTimesOut, Outcomes
  <2>2. Answers' = [Answers EXCEPT ![c] = "unknown"]
    BY <2>1, SaidIs
  <2> QED BY <1>2, <1>3, <2>2 DEF Log!Reply, Log!Answer
<1> QED BY <1>4, <1>5

\* The service stops or ends: callers whose connection it closes learn nothing.
LEMMA GoDownIs ==
    ASSUME IInv, Stop \/ End
    PROVE  Log!GoDown
<1>1. TypeOK /\ NoCall \notin Calls
  BY Types DEF IInv
<1>2. Pending' \subseteq Pending /\ executed' = executed
  BY <1>1, StopIs, EndIs DEF Pending, InHand
<1>3. PICK C : Closed(C)
  BY DEF Stop, End
<1> DEFINE S == {i \in Calls : outcome[i] = "waiting" /\ i \in C /\ sent[i] = "nothing"}
<1>4. S \subseteq Log!Waiting
  BY SaidIs DEF Log!Waiting, Answers
<1>5. Answers' = [i \in Calls |-> IF i \in S THEN "unknown" ELSE Answers[i]]
  <2>1. ASSUME NEW i \in Calls
        PROVE  outcome'[i] = IF i \in S THEN "no response" ELSE outcome[i]
    BY <1>3 DEF Closed
  <2>2. ASSUME NEW i \in Calls
        PROVE  Said[outcome'[i]] = IF i \in S THEN "unknown" ELSE Said[outcome[i]]
    BY <2>1, SaidIs
  <2> QED BY <2>2 DEF Answers
<1>6. CASE Stop
  <2>1. service = "up" /\ service' = "stopping" /\ Room' \in BOOLEAN
    BY <1>6 DEF Stop, Room
  <2> QED BY <1>2, <1>4, <1>5, <2>1 DEF Log!GoDown
<1>7. CASE End
  <2>1. Pending' = {}
    BY <1>1, <1>7, RangeEmpty DEF End, Pending, InHand
  <2>2. service # "down" /\ service' = "down" /\ Room' \in BOOLEAN
    BY <1>7 DEF End, Room
  <2> QED BY <1>2, <1>4, <1>5, <2>1, <2>2 DEF Log!GoDown
<1> QED BY <1>6, <1>7

\* Every step is a step of the log or leaves it alone.
LEMMA LogStep == IInv /\ Waited /\ [Next]_vars => [Log!Next]_(Log!lvars)
<1> SUFFICES ASSUME IInv, Waited, [Next]_vars PROVE [Log!Next]_(Log!lvars)
  OBVIOUS
<1>1. TypeOK /\ NoCall \notin Calls
  BY Types DEF IInv
<1>2. CASE Connect
  <2>1. /\ made + 1 \in Calls /\ Log!Newest(made + 1)
        /\ made + 1 \notin Range(executed)
    BY <1>2, NewestIs DEF Connect
  <2>2. Answers' = [Answers EXCEPT ![made + 1] = "waiting"]
    <3>1. Answers' = [Answers EXCEPT ![made + 1] = Said["waiting"]]
      BY <1>1, <1>2, <2>1, AnswersMove DEF Connect, Outcomes
    <3> QED BY <3>1, SaidIs
  <2>3. Pending' = Pending \cup {made + 1} /\ executed' = executed
    BY <1>1, <1>2, <2>1, ConnectIs DEF Pending, InHand
  <2>4. Log!Ask(made + 1)
    BY <1>2, <2>1, <2>2, <2>3 DEF Connect, Room, Log!Ask, Log!Answer
  <2> QED BY <2>1, <2>4 DEF Log!Next
<1>3. CASE ConnectFails
  <2>1. made + 1 \in Calls /\ Log!Newest(made + 1)
    BY <1>3, NewestIs DEF ConnectFails
  <2>2. PICK o \in {"not running", "could not talk"} :
            outcome' = [outcome EXCEPT ![made + 1] = o]
    BY <1>3 DEF ConnectFails
  <2>3. Answers' = [Answers EXCEPT ![made + 1] = "refused"]
    <3>1. Answers' = [Answers EXCEPT ![made + 1] = Said[o]]
      BY <1>1, <2>1, <2>2, AnswersMove DEF Outcomes
    <3>2. Said[o] = "refused"
      BY SaidIs
    <3> QED BY <3>1, <3>2
  <2>4. Pending' = Pending /\ executed' = executed
    BY <1>3, StillIs DEF Still, Pending, InHand
  <2>5. Log!Refuse(made + 1)
    BY <1>3, <2>1, <2>3, <2>4 DEF ConnectFails, Room, Log!Refuse, Log!Answer
  <2> QED BY <2>1, <2>5 DEF Log!Next
<1>4. ASSUME NEW c \in Calls, Receive(c) \/ CallTimesOut(c)
      PROVE  Log!Next
  BY <1>4, ReplyIs DEF Log!Next
<1>5. CASE Busy
  <2>1. /\ serving \in Calls /\ serving' = NoCall
        /\ UNCHANGED <<executed, queue, backlog, outcome>>
    BY <1>5, FinishIs DEF IInv, TypeOK, Pipeline, Busy, Finish, callers
  <2>2. serving \notin Range(executed) /\ serving \notin Range(queue)
    BY <1>5 DEF IInv, Pipeline, Busy
  <2>3. serving \notin Range(backlog)
    BY <1>1, <2>1, Types DEF IInv, Pipeline, Before
  <2>4. serving \in Pending /\ Pending' = Pending \ {serving} /\ Answers' = Answers
    BY <1>1, <2>1, <2>2, <2>3 DEF Pending, InHand, Answers
  <2>5. ~Room /\ UNCHANGED <<service, Room>>
    BY <1>5 DEF Busy, Finish, Room
  <2>6. Log!TurnAway(serving)
    BY <2>1, <2>4, <2>5 DEF Log!TurnAway
  <2> QED BY <2>1, <2>6 DEF Log!Next
<1>6. CASE Execute
  <2>1. /\ Head(queue) \in Calls
        /\ executed' = Append(executed, Head(queue)) /\ Answers' = Answers
    BY <1>1, <1>6, ExecuteIs DEF Execute, callers, Answers
  <2>2. service = "up" /\ service' = service /\ Room' \in BOOLEAN
    BY <1>6 DEF Execute, Room
  <2>3. Log!TakeEffect(Head(queue))
    BY <1>6, <2>1, <2>2, OldestFirst DEF Log!TakeEffect
  <2> QED BY <2>1, <2>3 DEF Log!Next
<1>7. CASE Stop \/ End
  BY <1>7, GoDownIs DEF Log!Next
<1>8. CASE \/ Accept \/ Enqueue \/ PassReply \/ ReplyTimesOut \/ Post \/ DispatchOther
  <2>1. Pending' = Pending /\ executed' = executed
    BY <1>8, PendingStays
  <2>2. Answers' = Answers /\ service' = service
    <3>1. outcome' = outcome /\ service' = service
      BY <1>8 DEF Accept, Enqueue, PassReply, ReplyTimesOut, Finish, Post, DispatchOther,
                  callers
    <3> QED BY <3>1 DEF Answers
  <2>3. Room' \in BOOLEAN
    BY DEF Room
  <2>4. Log!Crowd
    BY <2>1, <2>2, <2>3 DEF Log!Crowd
  <2> QED BY <2>4 DEF Log!Next
<1>9. CASE Start
  <2>1. Pending' = Pending /\ executed' = executed
    BY <1>9, PendingStays DEF Still
  <2>2. Answers' = Answers /\ UNCHANGED Room /\ service = "down" /\ service' = "up"
    BY <1>9 DEF Start, callers, Answers, Room
  <2>3. Log!ComeUp
    BY <2>1, <2>2 DEF Log!ComeUp
  <2> QED BY <2>3 DEF Log!Next
<1>10. CASE UNCHANGED vars
  BY <1>10 DEF vars, callers, server, Pending, InHand, Answers, Room, Log!lvars
<1> QED
  BY <1>2, <1>3, <1>4, <1>5, <1>6, <1>7, <1>8, <1>9, <1>10 DEF Next, Server, MainLoop

\* Towards the operators the socket is a log of commands: each takes effect once or not at
\* all, in the order in which they were given, and the answers say no more than is so.
\* While the service is up, a command it has taken in is lost only by a full queue: giving
\* up on an answer, at either end, withdraws nothing (control_socket.py, _serve and call;
\* main.py, _handle_web_command).
THEOREM CommandsAreAlwaysLogged == Spec => CommandsAreLogged
<1>1. Init => Waited
  BY DEF Init, Waited
<1> QED
  BY <1>1, InvInit, InvStep, WaitedStep, LogInit, LogStep, PTL
  DEF Spec, CommandsAreLogged, Log!Spec

=============================================================================
