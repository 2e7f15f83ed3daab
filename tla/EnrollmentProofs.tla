--------------------------- MODULE EnrollmentProofs ---------------------------
(***************************************************************************)
(* Enrollment, for every number of fetches of the page, tags and clicks:   *)
(* an arm captures one scan, and what became of it is not lost between the *)
(* main thread and the page.  The outcome passes through the reply of a    *)
(* request that may have timed out in the meantime.  It is not overwritten *)
(* there because a request on the queue is the only one of its call, and   *)
(* the call has no answer yet (Awaited).                                   *)
(***************************************************************************)
EXTENDS Enrollment, SequenceTheorems, TLAPS

\* Each arm that is still on the queue comes from a click of its own, in the order of the
\* clicks, which are more than the arms carried out.
Clicked(q, s, a) ==
    \E n \in Seq(Nat) :
        /\ Len(n) = Len(q)
        /\ \A i \in 1..Len(q) :
            q[i].what = "arm" =>
                /\ s < n[i] /\ n[i] <= a
                /\ \A j \in 1..Len(q) : i < j /\ q[j].what = "arm" => n[i] < n[j]

\* No request on the queue waits for call c.
NoneFor(q, c) == \A i \in 1..Len(q) : q[i].what # "scan" => q[i].arg # c

\* A request on the queue that has a caller is the only one of its call, which asked for
\* it and has no answer yet.
Awaited(q, req, ans) ==
    \A i \in 1..Len(q) :
        q[i].what # "scan" /\ q[i].arg # NoCall =>
            /\ req[q[i].arg] = q[i].what
            /\ ans[q[i].arg] = None
            /\ \A j \in 1..Len(q) :
                j # i /\ q[j].what # "scan" => q[j].arg # q[i].arg

\* An answer belongs to a fetch, and only polls carry outcomes.
AnswersFit ==
    /\ answer \in [Calls -> {None, Failed} \cup Answers]
    /\ \A c \in Calls :
        /\ request[c] = "none" => answer[c] = None
        /\ request[c] \in {"arm", "cancel"} /\ answer[c] \notin {None, Failed}
            => answer[c].capture = None

IInv ==
    /\ TypeOK
    /\ armed => session > 0
    /\ Clicked(queue, session, arms)
    /\ Awaited(queue, request, answer)
    /\ AnswersFit
    /\ OneShot
    /\ OutcomeIsKept

----------------------------------------------------------------------------
(* Requests on the queue *)

LEMMA EventIs ==
    ASSUME NEW e \in Events
    PROVE  /\ e.what \in {"scan", "arm", "poll", "cancel"}
           /\ e.what = "scan" => e.arg \in Tags
           /\ e.what # "scan" => e.arg \in Calls \cup {NoCall}
           /\ \A x \in Calls \cup {NoCall} :
                e.what # "scan" => [e EXCEPT !.arg = x] \in Events
  BY DEF Events

\* The positions of a queue after an event has been added, or the first one taken.
LEMMA Appended ==
    ASSUME NEW S, NEW q \in Seq(S), NEW e \in S
    PROVE  /\ Append(q, e) \in Seq(S) /\ Len(q) \in Nat
           /\ Len(Append(q, e)) = Len(q) + 1
           /\ Append(q, e)[Len(q) + 1] = e
           /\ \A i \in 1..Len(q) : Append(q, e)[i] = q[i]
           /\ \A i \in 1..(Len(q) + 1) : i \in 1..Len(q) \/ i = Len(q) + 1
  BY AppendProperties

LEMMA Taken ==
    ASSUME NEW S, NEW q \in Seq(S), q # <<>>
    PROVE  /\ Tail(q) \in Seq(S) /\ Len(q) \in Nat \ {0}
           /\ Len(Tail(q)) = Len(q) - 1
           /\ Head(q) \in S /\ Head(q) = q[1] /\ 1 \in 1..Len(q)
           /\ \A i \in 1..Len(Tail(q)) : i + 1 \in 1..Len(q) /\ Tail(q)[i] = q[i + 1]
<1>1. /\ Tail(q) \in Seq(S) /\ Len(q) \in Nat \ {0}
      /\ Len(Tail(q)) = Len(q) - 1
      /\ Head(q) \in S /\ Head(q) = q[1]
  OBVIOUS
<1>2. ASSUME NEW i \in 1..Len(Tail(q))
      PROVE  i + 1 \in 1..Len(q) /\ Tail(q)[i] = q[i + 1]
  BY <1>1
<1> QED BY <1>1, <1>2

LEMMA ClickedAppend ==
    ASSUME NEW q \in Seq(Events), NEW e \in Events, NEW s \in Nat, NEW a \in Nat,
           Clicked(q, s, a), s <= a
    PROVE  /\ Clicked(q, s, a + 1)
           /\ Clicked(Append(q, e), s, a + 1)
           /\ e.what # "arm" => Clicked(Append(q, e), s, a)
<1> DEFINE p == Append(q, e)
<1>1. PICK n \in Seq(Nat) :
        /\ Len(n) = Len(q)
        /\ \A i \in 1..Len(q) :
            q[i].what = "arm" =>
                /\ s < n[i] /\ n[i] <= a
                /\ \A j \in 1..Len(q) : i < j /\ q[j].what = "arm" => n[i] < n[j]
  BY DEF Clicked
<1>2. \A i \in 1..Len(q) : n[i] \in Nat
  BY <1>1
<1>3. Clicked(q, s, a + 1)
  <2>1. \A i \in 1..Len(q) : n[i] <= a => n[i] <= a + 1
    BY <1>2
  <2> QED BY <1>1, <2>1 DEF Clicked
<1> DEFINE m == Append(n, a + 1)
<1>4. /\ Len(p) = Len(q) + 1 /\ Len(q) \in Nat /\ p[Len(q) + 1] = e
      /\ \A i \in 1..Len(q) : p[i] = q[i]
      /\ \A i \in 1..Len(p) : i \in 1..Len(q) \/ i = Len(q) + 1
  BY Appended
<1>5. /\ m \in Seq(Nat) /\ Len(m) = Len(p) /\ m[Len(q) + 1] = a + 1
      /\ \A i \in 1..Len(q) : m[i] = n[i]
  BY <1>1, <1>4
<1> HIDE DEF p, m
<1>6. ASSUME NEW i \in 1..Len(p), p[i].what = "arm"
      PROVE  /\ s < m[i] /\ m[i] <= a + 1
             /\ e.what # "arm" => m[i] <= a
             /\ \A j \in 1..Len(p) : i < j /\ p[j].what = "arm" => m[i] < m[j]
  <2>1. CASE i \in 1..Len(q)
    <3>1. /\ m[i] = n[i] /\ q[i].what = "arm" /\ n[i] \in Nat
          /\ s < n[i] /\ n[i] <= a
      BY <1>1, <1>2, <1>4, <1>5, <1>6, <2>1
    <3>2. ASSUME NEW j \in 1..Len(p), i < j, p[j].what = "arm" PROVE m[i] < m[j]
      <4>1. CASE j \in 1..Len(q)
        BY <1>1, <1>4, <1>5, <2>1, <3>1, <3>2, <4>1
      <4>2. CASE j = Len(q) + 1
        BY <1>5, <3>1, <4>2
      <4> QED BY <1>4, <4>1, <4>2
    <3> QED BY <3>1, <3>2
  <2>2. CASE i = Len(q) + 1
    <3>1. m[i] = a + 1 /\ e.what = "arm"
      BY <1>4, <1>5, <1>6, <2>2
    <3>2. \A j \in 1..Len(p) : ~(i < j)
      BY <1>4, <2>2
    <3> QED BY <3>1, <3>2
  <2> QED BY <1>4, <2>1, <2>2
<1>7. Clicked(p, s, a + 1) /\ (e.what # "arm" => Clicked(p, s, a))
  BY <1>5, <1>6 DEF Clicked
<1> QED BY <1>3, <1>7 DEF p

LEMMA ClickedEmpty ==
    ASSUME NEW s, NEW a
    PROVE  Clicked(<<>>, s, a)
<1>1. <<>> \in Seq(Nat) /\ Len(<<>>) = 0 /\ \A i \in 1..Len(<<>>) : FALSE
  OBVIOUS
<1> QED BY <1>1, Zenon DEF Clicked

LEMMA ClickedTail ==
    ASSUME NEW q \in Seq(Events), q # <<>>, NEW s \in Nat, NEW a \in Nat,
           Clicked(q, s, a)
    PROVE  /\ Head(q).what # "arm" => Clicked(Tail(q), s, a)
           /\ Head(q).what = "arm" => s + 1 <= a /\ Clicked(Tail(q), s + 1, a)
<1> DEFINE p == Tail(q)
<1>1. PICK n \in Seq(Nat) :
        /\ Len(n) = Len(q)
        /\ \A i \in 1..Len(q) :
            q[i].what = "arm" =>
                /\ s < n[i] /\ n[i] <= a
                /\ \A j \in 1..Len(q) : i < j /\ q[j].what = "arm" => n[i] < n[j]
  BY DEF Clicked
<1>2. \A i \in 1..Len(q) : n[i] \in Nat
  BY <1>1
<1> DEFINE m == Tail(n)
<1>3. /\ Len(q) \in Nat \ {0} /\ Len(p) = Len(q) - 1
      /\ Head(q) = q[1] /\ 1 \in 1..Len(q)
      /\ \A i \in 1..Len(p) : i + 1 \in 1..Len(q) /\ p[i] = q[i + 1]
  BY Taken
<1>4. n # <<>>
  BY <1>1, <1>3
<1>5. /\ m \in Seq(Nat) /\ Len(m) = Len(p)
      /\ \A i \in 1..Len(p) : m[i] = n[i + 1]
  BY <1>1, <1>3, <1>4, Taken
<1> HIDE DEF p, m
<1>6. ASSUME NEW i \in 1..Len(p), p[i].what = "arm"
      PROVE  /\ s < m[i] /\ m[i] <= a
             /\ Head(q).what = "arm" => s + 1 < m[i]
             /\ \A j \in 1..Len(p) : i < j /\ p[j].what = "arm" => m[i] < m[j]
  <2>1. /\ i + 1 \in 1..Len(q) /\ m[i] = n[i + 1] /\ q[i + 1].what = "arm"
        /\ n[i + 1] \in Nat
    BY <1>2, <1>3, <1>5, <1>6
  <2>2. s < m[i] /\ m[i] <= a
    BY <1>1, <2>1
  <2>3. Head(q).what = "arm" => s + 1 < m[i]
    <3>1. 1 < i + 1
      BY <1>3
    <3>2. Head(q).what = "arm" => s < n[1] /\ n[1] < n[i + 1]
      BY <1>1, <1>3, <2>1, <3>1
    <3> QED BY <1>2, <1>3, <2>1, <3>2
  <2>4. ASSUME NEW j \in 1..Len(p), i < j, p[j].what = "arm" PROVE m[i] < m[j]
    <3>1. j + 1 \in 1..Len(q) /\ m[j] = n[j + 1] /\ q[j + 1].what = "arm"
      BY <1>3, <1>5, <2>4
    <3>2. i + 1 < j + 1
      BY <1>3, <2>4
    <3> QED BY <1>1, <2>1, <3>1, <3>2
  <2> QED BY <2>2, <2>3, <2>4
<1>7. Clicked(p, s, a) /\ (Head(q).what = "arm" => Clicked(p, s + 1, a))
  BY <1>5, <1>6 DEF Clicked
<1>8. Head(q).what = "arm" => s + 1 <= a
  BY <1>1, <1>2, <1>3
<1> QED BY <1>7, <1>8 DEF p

\* A call's events can be told from the others' by their argument.
LEMMA AwaitedElsewhere ==
    ASSUME NEW q \in Seq(Events), NEW r1, NEW r2, NEW a1, NEW a2, NEW c,
           Awaited(q, r1, a1), NoneFor(q, c),
           \A d \in Calls \ {c} : r2[d] = r1[d] /\ a2[d] = a1[d]
    PROVE  Awaited(q, r2, a2)
<1> SUFFICES ASSUME NEW i \in 1..Len(q), q[i].what # "scan", q[i].arg # NoCall
             PROVE  /\ r2[q[i].arg] = q[i].what
                    /\ a2[q[i].arg] = None
                    /\ \A j \in 1..Len(q) :
                        j # i /\ q[j].what # "scan" => q[j].arg # q[i].arg
  BY DEF Awaited
<1>1. q[i] \in Events
  OBVIOUS
<1>2. q[i].arg \in Calls \ {c}
  BY <1>1, EventIs DEF NoneFor
<1> QED BY <1>2 DEF Awaited

LEMMA AwaitedAppend ==
    ASSUME NEW q \in Seq(Events), NEW e \in Events, NEW req, NEW ans,
           Awaited(q, req, ans),
           e.what # "scan" /\ e.arg # NoCall =>
               req[e.arg] = e.what /\ ans[e.arg] = None /\ NoneFor(q, e.arg)
    PROVE  Awaited(Append(q, e), req, ans)
<1> DEFINE p == Append(q, e)
<1>1. /\ Len(p) = Len(q) + 1 /\ Len(q) \in Nat /\ p[Len(q) + 1] = e
      /\ \A i \in 1..Len(q) : p[i] = q[i]
      /\ \A i \in 1..Len(p) : i \in 1..Len(q) \/ i = Len(q) + 1
  BY Appended
<1> HIDE DEF p
<1>2. ASSUME NEW i \in 1..Len(p), p[i].what # "scan", p[i].arg # NoCall
      PROVE  /\ req[p[i].arg] = p[i].what
             /\ ans[p[i].arg] = None
             /\ \A j \in 1..Len(p) :
                 j # i /\ p[j].what # "scan" => p[j].arg # p[i].arg
  <2>1. CASE i \in 1..Len(q)
    <3>1. p[i] = q[i]
      BY <1>1, <2>1
    <3>2. ASSUME NEW j \in 1..Len(p), j # i, p[j].what # "scan", p[j].arg = p[i].arg
          PROVE  FALSE
      <4>1. CASE j \in 1..Len(q)
        BY <1>1, <1>2, <2>1, <3>2, <4>1 DEF Awaited
      <4>2. CASE j = Len(q) + 1
        BY <1>1, <1>2, <2>1, <3>2, <4>2 DEF NoneFor
      <4> QED BY <1>1, <4>1, <4>2
    <3> QED BY <1>2, <2>1, <3>1, <3>2 DEF Awaited
  <2>2. CASE i = Len(q) + 1
    <3>1. p[i] = e
      BY <1>1, <2>2
    <3>2. ASSUME NEW j \in 1..Len(p), j # i, p[j].what # "scan", p[j].arg = p[i].arg
          PROVE  FALSE
      BY <1>1, <1>2, <2>2, <3>1, <3>2 DEF NoneFor
    <3> QED BY <1>2, <3>1, <3>2
  <2> QED BY <1>1, <2>1, <2>2
<1>3. Awaited(p, req, ans)
  BY <1>2 DEF Awaited
<1> QED BY <1>3 DEF p

LEMMA AwaitedTail ==
    ASSUME NEW q \in Seq(Events), q # <<>>, NEW req, NEW ans, Awaited(q, req, ans)
    PROVE  /\ Awaited(Tail(q), req, ans)
           /\ Head(q).what # "scan" /\ Head(q).arg # NoCall =>
                /\ req[Head(q).arg] = Head(q).what
                /\ ans[Head(q).arg] = None
                /\ NoneFor(Tail(q), Head(q).arg)
<1> DEFINE p == Tail(q)
<1>1. /\ Len(q) \in Nat \ {0} /\ Len(p) = Len(q) - 1
      /\ Head(q) = q[1] /\ 1 \in 1..Len(q)
      /\ \A i \in 1..Len(p) : i + 1 \in 1..Len(q) /\ p[i] = q[i + 1]
  BY Taken
<1> HIDE DEF p
<1>2. \A i, j \in 1..Len(p) : i # j => i + 1 # j + 1
  BY <1>1
<1>3. Awaited(p, req, ans)
  <2> SUFFICES ASSUME NEW i \in 1..Len(p), p[i].what # "scan", p[i].arg # NoCall
               PROVE  /\ req[p[i].arg] = p[i].what
                      /\ ans[p[i].arg] = None
                      /\ \A j \in 1..Len(p) :
                            j # i /\ p[j].what # "scan" => p[j].arg # p[i].arg
    BY DEF Awaited
  <2>1. i + 1 \in 1..Len(q) /\ p[i] = q[i + 1]
    BY <1>1
  <2>2. /\ req[p[i].arg] = p[i].what
        /\ ans[p[i].arg] = None
        /\ \A k \in 1..Len(q) :
              k # i + 1 /\ q[k].what # "scan" => q[k].arg # p[i].arg
    BY <2>1 DEF Awaited
  <2> QED BY <1>1, <1>2, <2>2
<1>4. \A i \in 1..Len(p) : i + 1 # 1
  BY <1>1
<1>5. ASSUME Head(q).what # "scan", Head(q).arg # NoCall
      PROVE  /\ req[Head(q).arg] = Head(q).what
             /\ ans[Head(q).arg] = None
             /\ NoneFor(p, Head(q).arg)
  BY <1>1, <1>4, <1>5 DEF Awaited, NoneFor
<1> QED BY <1>3, <1>5 DEF p

\* Nobody on the queue waits for a call that has asked for nothing or has its answer.
LEMMA NobodyWaits ==
    ASSUME NEW q, NEW req, NEW ans, NEW c, Awaited(q, req, ans), c # NoCall,
           ans[c] # None \/ \A i \in 1..Len(q) : q[i].what # req[c]
    PROVE  NoneFor(q, c)
  BY DEF Awaited, NoneFor

\* A call given up on leaves its request behind, as nobody's.
LEMMA ForgetIs ==
    ASSUME TypeOK, NEW c \in Calls
    PROVE  /\ Forget(c) \in Seq(Events)
           /\ Len(Forget(c)) = Len(queue)
           /\ \A i \in 1..Len(queue) :
                /\ Forget(c)[i].what = queue[i].what
                /\ Forget(c)[i].arg \in {queue[i].arg, NoCall}
           /\ NoneFor(Forget(c), c)
<1> DEFINE F == Forget(c)
<1>1. /\ queue \in Seq(Events) /\ Len(queue) \in Nat
      /\ \A i \in 1..Len(queue) : queue[i] \in Events
      /\ NoCall \notin Calls
  BY CallsAssumption DEF TypeOK
<1>2. ASSUME NEW i \in 1..Len(queue)
      PROVE  /\ F[i] \in Events
             /\ F[i].what = queue[i].what
             /\ F[i].arg \in {queue[i].arg, NoCall}
             /\ F[i].what # "scan" => F[i].arg # c
  <2>1. CASE queue[i].what # "scan" /\ queue[i].arg = c
    <3>1. F[i] = [queue[i] EXCEPT !.arg = NoCall]
      BY <2>1 DEF Forget
    <3>2. F[i] \in Events
      BY <1>1, <2>1, <3>1, EventIs
    <3>3. F[i].what = queue[i].what /\ F[i].arg = NoCall
      BY <1>1, <3>1 DEF Events
    <3> QED BY <1>1, <3>2, <3>3
  <2>2. CASE ~(queue[i].what # "scan" /\ queue[i].arg = c)
    <3>1. F[i] = queue[i]
      BY <2>2 DEF Forget
    <3> QED BY <1>1, <2>2, <3>1
  <2> QED BY <2>1, <2>2
<1>3. DOMAIN F = 1..Len(queue) /\ F = [i \in 1..Len(queue) |-> F[i]]
  BY DEF Forget
<1> HIDE DEF F
<1>4. F \in Seq(Events) /\ Len(F) = Len(queue)
  BY <1>1, <1>2, <1>3
<1>5. NoneFor(F, c)
  BY <1>2, <1>4 DEF NoneFor
<1> QED BY <1>2, <1>4, <1>5 DEF F

LEMMA ForgetKeeps ==
    ASSUME TypeOK, NEW c \in Calls, NEW s, NEW a, NEW req, NEW ans
    PROVE  /\ Clicked(queue, s, a) => Clicked(Forget(c), s, a)
           /\ Awaited(queue, req, ans) => Awaited(Forget(c), req, ans)
<1>1. /\ Len(Forget(c)) = Len(queue)
      /\ \A i \in 1..Len(queue) :
           /\ Forget(c)[i].what = queue[i].what
           /\ Forget(c)[i].arg \in {queue[i].arg, NoCall}
  BY ForgetIs
<1> DEFINE F == Forget(c)
<1> HIDE DEF F
<1>2. ASSUME Clicked(queue, s, a) PROVE Clicked(F, s, a)
  BY <1>1, <1>2 DEF Clicked, F
<1>3. ASSUME Awaited(queue, req, ans) PROVE Awaited(F, req, ans)
  BY <1>1, <1>3 DEF Awaited, F
<1> QED BY <1>2, <1>3 DEF F

----------------------------------------------------------------------------
(* The actions *)

\* A fetch of the page.
LEMMA FetchIs ==
    ASSUME TypeOK, NEW d \in Calls, ClickScan(d) \/ Poll(d) \/ ClickCancel(d)
    PROVE  \E c \in Calls, what \in {"arm", "poll", "cancel"} :
               /\ Fetch(c, what)
               /\ [what |-> what, arg |-> c] \in Events
               /\ arms' = IF what = "arm" THEN arms + 1 ELSE arms
               /\ arms' \in 0..MaxArms
               /\ page' \in {"idle", "arming", "polling"} /\ leaked' \in BOOLEAN
<1>1. \A what \in {"arm", "poll", "cancel"} : [what |-> what, arg |-> d] \in Events
  BY DEF Events
<1>2. arms \in Nat /\ MaxArms \in Nat /\ arms <= MaxArms
  BY MaxArmsAssumption DEF TypeOK
<1>3. CASE ClickScan(d)
  BY <1>1, <1>2, <1>3 DEF ClickScan, TypeOK
<1>4. CASE Poll(d)
  BY <1>1, <1>2, <1>4 DEF Poll, TypeOK, browser
<1>5. CASE ClickCancel(d)
  BY <1>1, <1>2, <1>5 DEF ClickCancel, TypeOK, browser
<1> QED BY <1>3, <1>4, <1>5

\* The main thread takes an event.
LEMMA GetIs ==
    ASSUME TypeOK, NEW what, Get(what)
    PROVE  /\ queue # <<>> /\ queue \in Seq(Events) /\ queue' = Tail(queue)
           /\ Head(queue) \in Events /\ Head(queue).what = what
           /\ what = "scan" => Arg \in Tags
           /\ what # "scan" => Arg \in Calls \cup {NoCall}
           /\ request' = request /\ UNCHANGED browser /\ drops' = drops
           /\ main' = "check"
<1>1. queue # <<>> /\ queue \in Seq(Events) /\ Head(queue).what = what
  BY DEF TypeOK, Get
<1>2. Head(queue) \in Events
  BY <1>1, Taken
<1> QED BY <1>1, <1>2, EventIs DEF Get, Arg

\* Its reply goes to one call at most.
LEMMA ReplyIs ==
    ASSUME AnswersFit, NEW c \in Calls \cup {NoCall}, NEW a \in Answers, Reply(c, a)
    PROVE  /\ answer' \in [Calls -> {None, Failed} \cup Answers]
           /\ \A d \in Calls \ {c} : answer'[d] = answer[d]
           /\ c \in Calls => answer'[c] = a
           /\ c = NoCall => answer' = answer
  BY CallsAssumption DEF AnswersFit, Reply

LEMMA Steps ==
    ASSUME [Next]_vars
    PROVE  \/ \E c \in Calls : ClickScan(c) \/ Poll(c) \/ ClickCancel(c)
           \/ \E c \in Calls : Delivered(c)
           \/ \E c \in Calls : Dropped(c)
           \/ \E c \in Calls : TimesOut(c)
           \/ \E t \in Tags : Scan(t)
           \/ DispatchArm \/ DispatchCancel \/ DispatchPoll \/ DispatchScan
           \/ ServiceEnds
           \/ Tick \/ Check \/ GetNothing \/ ServiceStarts \/ UNCHANGED vars
  BY DEF Next, Main, Dispatch

\* What the main thread does without an event touches no call.
LEMMA IdleIs ==
    ASSUME Tick \/ Check \/ GetNothing \/ ServiceStarts \/ UNCHANGED vars
    PROVE  UNCHANGED <<queue, request, answer, page, leaked, arms, session, captures, drops>>
  BY DEF Tick, Check, GetNothing, ServiceStarts, vars, reader, calls, browser, history,
         outcome

----------------------------------------------------------------------------
(* Every action keeps the inductive invariant *)

LEMMA InvInit == Init => IInv
<1> SUFFICES ASSUME Init PROVE IInv
  OBVIOUS
<1>1. queue = <<>> /\ queue \in Seq(Events) /\ Len(queue) = 0
  BY DEF Init
<1>2. TypeOK
  <2>1. left \in 0..Window /\ arms \in 0..MaxArms /\ session \in 0..arms
    BY WindowAssumption, MaxArmsAssumption DEF Init
  <2>2. Len(queue) <= QueueSize
    BY <1>1, QueueSizeAssumption
  <2>3. captures \in Nat /\ drops \in {0, 1}
    BY DEF Init
  <2> QED BY <1>1, <2>1, <2>2, <2>3 DEF Init, TypeOK
<1>3. Clicked(queue, session, arms)
  BY <1>1, ClickedEmpty
<1>4. Awaited(queue, request, answer)
  BY <1>1 DEF Awaited
<1>5. AnswersFit
  BY DEF Init, AnswersFit
<1> QED BY <1>2, <1>3, <1>4, <1>5 DEF Init, IInv, OneShot, OutcomeIsKept

\* The queue: its type, its limit and the clicks behind the arms on it.
LEMMA QueueStep ==
    ASSUME IInv, [Next]_vars
    PROVE  queue' \in Seq(Events) /\ Len(queue') <= QueueSize
<1>1. /\ TypeOK /\ queue \in Seq(Events) /\ Len(queue) <= QueueSize
      /\ QueueSize \in Nat \ {0} /\ Len(queue) \in Nat
  BY QueueSizeAssumption DEF IInv, TypeOK
<1>2. ASSUME NEW e \in Events, Room, queue' = Append(queue, e)
      PROVE  queue' \in Seq(Events) /\ Len(queue') <= QueueSize
  BY <1>1, <1>2 DEF Room
<1>3. ASSUME NEW d \in Calls, ClickScan(d) \/ Poll(d) \/ ClickCancel(d)
      PROVE  queue' \in Seq(Events) /\ Len(queue') <= QueueSize
  <2>1. PICK c \in Calls, what \in {"arm", "poll", "cancel"} :
            Fetch(c, what) /\ [what |-> what, arg |-> c] \in Events
    BY <1>1, <1>3, FetchIs
  <2> QED BY <1>1, <1>2, <2>1 DEF Fetch
<1>4. ASSUME NEW t \in Tags, Scan(t)
      PROVE  queue' \in Seq(Events) /\ Len(queue') <= QueueSize
  <2>1. [what |-> "scan", arg |-> t] \in Events
    BY DEF Events
  <2> QED BY <1>2, <1>4, <2>1 DEF Scan
<1>5. ASSUME NEW c \in Calls, Dropped(c) \/ TimesOut(c)
      PROVE  queue' \in Seq(Events) /\ Len(queue') <= QueueSize
  BY <1>1, <1>5, ForgetIs DEF Dropped, TimesOut
<1>6. ASSUME NEW what, Get(what)
      PROVE  queue' \in Seq(Events) /\ Len(queue') <= QueueSize
  <2>1. queue # <<>> /\ queue' = Tail(queue)
    BY <1>1, <1>6, GetIs
  <2> QED BY <1>1, <2>1, Taken
<1>7. CASE ServiceEnds
  <2>1. queue' = <<>> /\ <<>> \in Seq(Events) /\ Len(<<>>) <= QueueSize
    BY <1>1, <1>7 DEF ServiceEnds
  <2> QED BY <2>1
<1>8. CASE \E c \in Calls : Delivered(c)
  BY <1>1, <1>8 DEF Delivered
<1>9. CASE Tick \/ Check \/ GetNothing \/ ServiceStarts \/ UNCHANGED vars
  BY <1>1, <1>9, IdleIs
<1> QED
  BY <1>3, <1>4, <1>5, <1>6, <1>7, <1>8, <1>9, Steps
  DEF DispatchArm, DispatchCancel, DispatchPoll, DispatchScan

LEMMA ClickedStep ==
    ASSUME IInv, [Next]_vars
    PROVE  /\ Clicked(queue', session', arms')
           /\ arms' \in 0..MaxArms /\ session' \in 0..arms'
<1>1. /\ TypeOK /\ queue \in Seq(Events) /\ Clicked(queue, session, arms)
      /\ arms \in 0..MaxArms /\ session \in 0..arms
      /\ arms \in Nat /\ session \in Nat /\ session <= arms /\ MaxArms \in Nat
  BY MaxArmsAssumption DEF IInv, TypeOK
<1> DEFINE Goal == /\ Clicked(queue', session', arms')
                   /\ arms' \in 0..MaxArms /\ session' \in 0..arms'
<1>2. ASSUME NEW d \in Calls, ClickScan(d) \/ Poll(d) \/ ClickCancel(d) PROVE Goal
  <2>1. PICK c \in Calls, what \in {"arm", "poll", "cancel"} :
            /\ Fetch(c, what) /\ [what |-> what, arg |-> c] \in Events
            /\ arms' = IF what = "arm" THEN arms + 1 ELSE arms
            /\ arms' \in 0..MaxArms
    BY <1>1, <1>2, FetchIs
  <2> DEFINE e == [what |-> what, arg |-> c]
  <2>2. /\ queue' = Append(queue, e) \/ queue' = queue
        /\ session' = session
    BY <2>1 DEF Fetch, history, outcome
  <2>3. e \in Events /\ e.what = what
    BY <2>1
  <2> HIDE DEF e
  <2>4. Clicked(queue', session, arms')
    BY <1>1, <2>1, <2>2, <2>3, ClickedAppend
  <2>5. session' \in 0..arms'
    BY <1>1, <2>1, <2>2
  <2> QED BY <2>1, <2>2, <2>4, <2>5
<1>3. ASSUME NEW t \in Tags, Scan(t) PROVE Goal
  <2> DEFINE e == [what |-> "scan", arg |-> t]
  <2>1. queue' = Append(queue, e) /\ UNCHANGED <<session, arms>>
    BY <1>3 DEF Scan, history, outcome, browser
  <2>2. e \in Events /\ e.what # "arm"
    BY DEF Events
  <2> HIDE DEF e
  <2> QED BY <1>1, <2>1, <2>2, ClickedAppend
<1>4. ASSUME NEW c \in Calls, Dropped(c) \/ TimesOut(c) PROVE Goal
  <2>1. queue' = Forget(c) /\ UNCHANGED <<session, arms>>
    BY <1>4 DEF Dropped, TimesOut, browser
  <2> QED BY <1>1, <2>1, ForgetKeeps
<1>5. CASE DispatchArm
  <2>1. /\ queue # <<>> /\ queue' = Tail(queue) /\ Head(queue).what = "arm"
        /\ session' = session + 1 /\ arms' = arms
    BY <1>1, <1>5, GetIs DEF DispatchArm, browser
  <2>2. session + 1 <= arms /\ Clicked(Tail(queue), session + 1, arms)
    BY <1>1, <2>1, ClickedTail
  <2> QED BY <1>1, <2>1, <2>2
<1>6. CASE DispatchCancel \/ DispatchPoll \/ DispatchScan
  <2>1. /\ queue # <<>> /\ queue' = Tail(queue) /\ Head(queue).what # "arm"
        /\ session' = session /\ arms' = arms
    BY <1>1, <1>6, GetIs DEF DispatchCancel, DispatchPoll, DispatchScan, browser
  <2> QED BY <1>1, <2>1, ClickedTail
<1>7. CASE ServiceEnds
  <2>1. queue' = <<>> /\ UNCHANGED <<session, arms>>
    BY <1>7 DEF ServiceEnds, browser
  <2> QED BY <1>1, <2>1, ClickedEmpty
<1>8. CASE \E c \in Calls : Delivered(c)
  BY <1>1, <1>8 DEF Delivered
<1>9. CASE Tick \/ Check \/ GetNothing \/ ServiceStarts \/ UNCHANGED vars
  BY <1>1, <1>9, IdleIs
<1> QED
  BY <1>2, <1>3, <1>4, <1>5, <1>6, <1>7, <1>8, <1>9, Steps

\* What a fetch and its end do to the call: the others do not notice.
LEMMA CallMoves ==
    ASSUME TypeOK, AnswersFit, NEW c \in Calls,
           \/ \E what \in {"arm", "poll", "cancel"} : Fetch(c, what)
           \/ Delivered(c) \/ Dropped(c) \/ TimesOut(c)
    PROVE  /\ \A d \in Calls \ {c} : request'[d] = request[d] /\ answer'[d] = answer[d]
           /\ request' \in [Calls -> {"none", "arm", "poll", "cancel"}]
           /\ answer' \in [Calls -> {None, Failed} \cup Answers]
<1>1. /\ request \in [Calls -> {"none", "arm", "poll", "cancel"}]
      /\ answer \in [Calls -> {None, Failed} \cup Answers]
  BY DEF TypeOK, AnswersFit
<1>2. ASSUME NEW what \in {"arm", "poll", "cancel"}, Fetch(c, what)
      PROVE  /\ \A d \in Calls \ {c} : request'[d] = request[d] /\ answer'[d] = answer[d]
             /\ request' \in [Calls -> {"none", "arm", "poll", "cancel"}]
             /\ answer' \in [Calls -> {None, Failed} \cup Answers]
  <2>1. /\ request' = [request EXCEPT ![c] = what]
        /\ answer' = answer \/ answer' = [answer EXCEPT ![c] = Failed]
    BY <1>2 DEF Fetch
  <2> QED BY <1>1, <2>1
<1>3. CASE Delivered(c) \/ Dropped(c)
  <2>1. /\ request' = [request EXCEPT ![c] = "none"]
        /\ answer' = [answer EXCEPT ![c] = None]
    BY <1>3 DEF Delivered, Dropped
  <2> QED BY <1>1, <2>1
<1>4. CASE TimesOut(c)
  <2>1. request' = request /\ answer' = [answer EXCEPT ![c] = Failed]
    BY <1>4 DEF TimesOut
  <2> QED BY <1>1, <2>1
<1> QED BY <1>2, <1>3, <1>4

\* The main thread's reply and what it takes from the queue.
LEMMA ReplyMoves ==
    ASSUME IInv, NEW what \in {"arm", "poll", "cancel"}, Get(what),
           NEW a \in Answers, Reply(Arg, a)
    PROVE  /\ answer' \in [Calls -> {None, Failed} \cup Answers]
           /\ Awaited(queue', request', answer')
           /\ Arg = NoCall => answer' = answer
           /\ Arg # NoCall =>
                /\ Arg \in Calls /\ request'[Arg] = what
                /\ answer[Arg] = None /\ answer'[Arg] = a
                /\ \A d \in Calls \ {Arg} : answer'[d] = answer[d]
<1>1. /\ TypeOK /\ AnswersFit /\ Awaited(queue, request, answer)
      /\ queue # <<>> /\ queue \in Seq(Events) /\ queue' = Tail(queue)
      /\ Head(queue).what = what /\ Arg \in Calls \cup {NoCall} /\ request' = request
  BY GetIs DEF IInv
<1>2. /\ answer' \in [Calls -> {None, Failed} \cup Answers]
      /\ \A d \in Calls \ {Arg} : answer'[d] = answer[d]
      /\ Arg \in Calls => answer'[Arg] = a
      /\ Arg = NoCall => answer' = answer
  BY <1>1, ReplyIs
<1>3. /\ Awaited(Tail(queue), request, answer)
      /\ Arg # NoCall => /\ request[Arg] = what
                         /\ answer[Arg] = None
                         /\ NoneFor(Tail(queue), Arg)
  BY <1>1, AwaitedTail DEF Arg
<1>4. Tail(queue) \in Seq(Events)
  BY <1>1, Taken
<1>5. Awaited(queue', request', answer')
  <2>1. CASE Arg = NoCall
    BY <1>1, <1>2, <1>3, <2>1
  <2>2. CASE Arg # NoCall
    BY <1>1, <1>2, <1>3, <1>4, <2>2, AwaitedElsewhere
  <2> QED BY <2>1, <2>2
<1> QED BY <1>1, <1>2, <1>3, <1>5

\* What the main thread replies.
LEMMA RepliesAre ==
    ASSUME TypeOK
    PROVE  /\ [armed |-> TRUE, capture |-> None] \in Answers
           /\ [armed |-> FALSE, capture |-> None] \in Answers
           /\ [armed |-> armed, capture |-> result] \in Answers
  BY DEF TypeOK, Answers

LEMMA RepliesIs ==
    ASSUME TypeOK, DispatchArm \/ DispatchCancel \/ DispatchPoll
    PROVE  \E what \in {"arm", "poll", "cancel"}, a \in Answers :
               /\ Get(what) /\ Reply(Arg, a)
               /\ what \in {"arm", "cancel"} => a.capture = None
<1>1. \A b \in BOOLEAN : \A r : [armed |-> b, capture |-> r].capture = r
  OBVIOUS
<1>2. CASE DispatchArm
  BY <1>1, <1>2, RepliesAre DEF DispatchArm
<1>3. CASE DispatchCancel
  BY <1>1, <1>3, RepliesAre DEF DispatchCancel
<1>4. CASE DispatchPoll
  BY <1>4, RepliesAre DEF DispatchPoll
<1> QED BY <1>2, <1>3, <1>4

\* Requests and answers keep belonging to each other.
LEMMA AwaitedStep == IInv /\ [Next]_vars => Awaited(queue', request', answer')
<1> SUFFICES ASSUME IInv, [Next]_vars PROVE Awaited(queue', request', answer')
  OBVIOUS
<1>1. /\ TypeOK /\ AnswersFit /\ Awaited(queue, request, answer)
      /\ queue \in Seq(Events) /\ NoCall \notin Calls
  BY CallsAssumption DEF IInv, TypeOK
<1>2. ASSUME NEW d \in Calls, ClickScan(d) \/ Poll(d) \/ ClickCancel(d)
      PROVE  Awaited(queue', request', answer')
  <2>1. PICK c \in Calls, what \in {"arm", "poll", "cancel"} :
            Fetch(c, what) /\ [what |-> what, arg |-> c] \in Events
    BY <1>1, <1>2, FetchIs
  <2> DEFINE e == [what |-> what, arg |-> c]
  <2>2. e \in Events /\ e.what = what /\ e.arg = c
    BY <2>1
  <2>3. /\ request[c] = "none" /\ request' = [request EXCEPT ![c] = what]
        /\ \/ queue' = Append(queue, e) /\ answer' = answer
           \/ queue' = queue
    BY <2>1 DEF Fetch
  <2> HIDE DEF e
  <2>4. \A i \in 1..Len(queue) :
            queue[i].what # "scan" /\ queue[i].arg # NoCall
                => queue[i].arg \in Calls /\ queue[i].what # "none"
    <3>1. \A i \in 1..Len(queue) : queue[i] \in Events
      BY <1>1
    <3> QED BY <3>1, EventIs
  <2>5. NoneFor(queue, c)
    BY <1>1, <2>3, <2>4 DEF Awaited, NoneFor
  <2>6. \A o \in Calls \ {c} : request'[o] = request[o] /\ answer'[o] = answer[o]
    BY <1>1, <2>1, CallMoves
  <2>7. Awaited(queue, request', answer')
    BY <1>1, <2>5, <2>6, AwaitedElsewhere
  <2>8. request'[c] = what /\ answer[c] = None
    BY <1>1, <2>3 DEF TypeOK, AnswersFit
  <2> QED BY <1>1, <2>2, <2>3, <2>5, <2>7, <2>8, AwaitedAppend
<1>3. ASSUME NEW c \in Calls, Delivered(c) PROVE Awaited(queue', request', answer')
  <2>1. answer[c] # None /\ queue' = queue
    BY <1>3 DEF Delivered
  <2>2. NoneFor(queue, c)
    BY <1>1, <2>1, NobodyWaits
  <2> QED BY <1>1, <1>3, <2>1, <2>2, CallMoves, AwaitedElsewhere
<1>4. ASSUME NEW c \in Calls, Dropped(c) \/ TimesOut(c)
      PROVE  Awaited(queue', request', answer')
  <2>1. queue' = Forget(c)
    BY <1>4 DEF Dropped, TimesOut
  <2> DEFINE F == Forget(c)
  <2>2. F \in Seq(Events) /\ NoneFor(F, c) /\ Awaited(F, request, answer)
    BY <1>1, ForgetIs, ForgetKeeps
  <2>3. \A d \in Calls \ {c} : request'[d] = request[d] /\ answer'[d] = answer[d]
    BY <1>1, <1>4, CallMoves
  <2> HIDE DEF F
  <2>4. Awaited(F, request', answer')
    BY <2>2, <2>3, AwaitedElsewhere
  <2> QED BY <2>1, <2>4 DEF F
<1>5. ASSUME NEW t \in Tags, Scan(t) PROVE Awaited(queue', request', answer')
  <2> DEFINE e == [what |-> "scan", arg |-> t]
  <2>1. queue' = Append(queue, e) /\ UNCHANGED <<request, answer>>
    BY <1>5 DEF Scan, calls
  <2>2. e \in Events /\ e.what = "scan"
    BY DEF Events
  <2> HIDE DEF e
  <2> QED BY <1>1, <2>1, <2>2, AwaitedAppend
<1>6. CASE DispatchArm \/ DispatchCancel \/ DispatchPoll
  BY <1>1, <1>6, RepliesIs, ReplyMoves
<1>7. CASE DispatchScan
  <2>1. queue # <<>> /\ queue' = Tail(queue) /\ UNCHANGED <<request, answer>>
    BY <1>1, <1>7, GetIs DEF DispatchScan
  <2> QED BY <1>1, <2>1, AwaitedTail
<1>8. CASE ServiceEnds
  <2>1. \A i \in 1..Len(queue') : FALSE
    BY <1>8 DEF ServiceEnds
  <2> QED BY <2>1 DEF Awaited
<1>9. CASE Tick \/ Check \/ GetNothing \/ ServiceStarts \/ UNCHANGED vars
  BY <1>1, <1>9, IdleIs
<1> QED
  BY <1>2, <1>3, <1>4, <1>5, <1>6, <1>7, <1>8, <1>9, Steps

LEMMA AnswersFitStep ==
    IInv /\ [Next]_vars
        => AnswersFit' /\ request' \in [Calls -> {"none", "arm", "poll", "cancel"}]
<1> SUFFICES ASSUME IInv, [Next]_vars
             PROVE  /\ AnswersFit'
                    /\ request' \in [Calls -> {"none", "arm", "poll", "cancel"}]
  OBVIOUS
<1>1. /\ TypeOK /\ AnswersFit
      /\ request \in [Calls -> {"none", "arm", "poll", "cancel"}]
      /\ answer \in [Calls -> {None, Failed} \cup Answers]
  BY DEF IInv, TypeOK, AnswersFit
<1> DEFINE Fits(c) ==
        /\ request[c] = "none" => answer[c] = None
        /\ request[c] \in {"arm", "cancel"} /\ answer[c] \notin {None, Failed}
            => answer[c].capture = None
<1>2. ASSUME NEW c \in Calls,
             \/ \E what \in {"arm", "poll", "cancel"} : Fetch(c, what)
             \/ Delivered(c) \/ Dropped(c) \/ TimesOut(c)
      PROVE  AnswersFit' /\ request' \in [Calls -> {"none", "arm", "poll", "cancel"}]
  <2>1. /\ \A d \in Calls \ {c} : request'[d] = request[d] /\ answer'[d] = answer[d]
        /\ request' \in [Calls -> {"none", "arm", "poll", "cancel"}]
        /\ answer' \in [Calls -> {None, Failed} \cup Answers]
    BY <1>1, <1>2, CallMoves
  <2>2. /\ request'[c] = "none" => answer'[c] = None
        /\ answer'[c] \in {None, Failed}
    <3>1. ASSUME NEW what \in {"arm", "poll", "cancel"}, Fetch(c, what)
          PROVE  request'[c] # "none" /\ answer'[c] \in {None, Failed}
      <4>1. /\ request[c] = "none" /\ request' = [request EXCEPT ![c] = what]
            /\ answer' = answer \/ answer' = [answer EXCEPT ![c] = Failed]
        BY <3>1 DEF Fetch
      <4>2. answer[c] = None
        BY <1>1, <4>1 DEF AnswersFit
      <4> QED BY <1>1, <4>1, <4>2
    <3>2. CASE Delivered(c) \/ Dropped(c)
      BY <1>1, <3>2 DEF Delivered, Dropped
    <3>3. CASE TimesOut(c)
      BY <1>1, <3>3 DEF TimesOut
    <3> QED BY <1>2, <3>1, <3>2, <3>3
  <2>3. \A d \in Calls : Fits(d)'
    BY <1>1, <2>1, <2>2 DEF AnswersFit
  <2> QED BY <2>1, <2>3 DEF AnswersFit
<1>3. CASE DispatchArm \/ DispatchCancel \/ DispatchPoll
  <2>1. PICK what \in {"arm", "poll", "cancel"}, a \in Answers :
            /\ Get(what) /\ Reply(Arg, a)
            /\ what \in {"arm", "cancel"} => a.capture = None
    BY <1>1, <1>3, RepliesIs
  <2>2. /\ answer' \in [Calls -> {None, Failed} \cup Answers]
        /\ Arg = NoCall => answer' = answer
        /\ Arg # NoCall =>
             /\ Arg \in Calls /\ request'[Arg] = what
             /\ answer'[Arg] = a
             /\ \A d \in Calls \ {Arg} : answer'[d] = answer[d]
        /\ request' = request
    BY <1>1, <2>1, ReplyMoves, GetIs
  <2>3. \A d \in Calls : Fits(d)'
    BY <1>1, <2>1, <2>2 DEF AnswersFit
  <2> QED BY <1>1, <2>2, <2>3 DEF AnswersFit
<1>4. CASE ServiceEnds
  <2>1. /\ request' = request
        /\ answer' = [c \in Calls |-> IF Pending(c) THEN Failed ELSE answer[c]]
    BY <1>4 DEF ServiceEnds
  <2>2. \A d \in Calls : Fits(d)'
    BY <1>1, <2>1 DEF AnswersFit, Pending
  <2> QED BY <1>1, <2>1, <2>2 DEF AnswersFit
<1>5. CASE \/ \E t \in Tags : Scan(t)
           \/ DispatchScan
           \/ Tick \/ Check \/ GetNothing \/ ServiceStarts \/ UNCHANGED vars
  <2>1. request' = request /\ answer' = answer
    BY <1>1, <1>5, IdleIs, GetIs DEF Scan, DispatchScan, calls
  <2> QED BY <1>1, <2>1 DEF AnswersFit
<1>6. ASSUME NEW d \in Calls, ClickScan(d) \/ Poll(d) \/ ClickCancel(d)
      PROVE  AnswersFit' /\ request' \in [Calls -> {"none", "arm", "poll", "cancel"}]
  BY <1>1, <1>2, <1>6, FetchIs
<1> QED BY <1>2, <1>3, <1>4, <1>5, <1>6, Steps

\* An arm takes one scan.
LEMMA OneShotStep == IInv /\ [Next]_vars => OneShot' /\ captures' \in Nat
<1> SUFFICES ASSUME IInv, [Next]_vars PROVE OneShot' /\ captures' \in Nat
  OBVIOUS
<1>1. OneShot /\ captures \in Nat /\ armed \in BOOLEAN
  BY DEF IInv, TypeOK
<1>2. CASE DispatchArm \/ ServiceEnds
  <2>1. captures' = 0
    BY <1>2 DEF DispatchArm, ServiceEnds
  <2> QED BY <2>1 DEF OneShot
<1>3. CASE DispatchScan
  <2>1. CASE armed
    <3>1. captures = 0 /\ captures' = captures + 1 /\ armed' = FALSE
      <4>1. captures <= 1 /\ captures # 1
        BY <1>1, <2>1 DEF OneShot
      <4>2. captures' = captures + 1 /\ armed' = FALSE
        BY <1>3, <2>1 DEF DispatchScan, Capture, Disarm
      <4> QED BY <1>1, <4>1, <4>2
    <3> QED BY <3>1 DEF OneShot
  <2>2. CASE ~armed
    BY <1>1, <1>3, <2>2 DEF DispatchScan, reader, OneShot
  <2> QED BY <2>1, <2>2
<1>4. CASE Check \/ DispatchCancel
  <2>1. captures' = captures /\ (armed' = armed \/ armed' = FALSE)
    BY <1>4 DEF Check, DispatchCancel, Disarm
  <2> QED BY <1>1, <2>1 DEF OneShot
<1>5. CASE ~(DispatchArm \/ ServiceEnds \/ DispatchScan \/ Check \/ DispatchCancel)
  <2>1. captures' = captures /\ armed' = armed
    BY <1>5 DEF Next, ClickScan, Poll, ClickCancel, Fetch, Delivered, Dropped, TimesOut,
                Scan, Tick, Main, GetNothing, Dispatch, DispatchPoll, ServiceStarts, vars,
                reader, history, outcome
  <2> QED BY <1>1, <2>1 DEF OneShot
<1> QED BY <1>2, <1>3, <1>4, <1>5

\* A call that stays as it is goes on carrying what it carries.
LEMMA StillCarried ==
    ASSUME NEW c \in Calls, request'[c] = request[c], answer'[c] = answer[c], NEW o,
           Carries(c, o)
    PROVE  Carries(c, o)'
  BY DEF Carries

\* An outcome moves from the main thread to the answer of a poll and is kept there.
LEMMA OutcomeIsKeptStep == IInv /\ [Next]_vars => OutcomeIsKept'
<1> SUFFICES ASSUME IInv, [Next]_vars, owed' # None, ~lost'
             PROVE  result' = owed' \/ \E c \in Calls : Carries(c, owed)'
  BY DEF OutcomeIsKept
<1>1. /\ TypeOK /\ AnswersFit /\ OutcomeIsKept
      /\ request \in [Calls -> {"none", "arm", "poll", "cancel"}]
      /\ answer \in [Calls -> {None, Failed} \cup Answers]
      /\ None \notin Answers /\ Failed \notin Answers
  BY AnswersAssumption DEF IInv, TypeOK, AnswersFit
\* It is enough that the outcome was owed before and every call that carried it stays.
<1>2. ASSUME owed' = owed, ~lost, result' = result,
             \A d \in Calls : Carries(d, owed) =>
                request'[d] = request[d] /\ answer'[d] = answer[d]
      PROVE  result' = owed' \/ \E c \in Calls : Carries(c, owed)'
  <2>1. CASE result = owed
    BY <1>2, <2>1
  <2>2. CASE result # owed
    <3>1. PICK d \in Calls : Carries(d, owed)
      BY <1>1, <1>2, <2>2 DEF OutcomeIsKept
    <3>2. Carries(d, owed)'
      BY <1>2, <3>1 DEF Carries
    <3> QED BY <3>2
  <2> QED BY <2>1, <2>2
<1>3. ASSUME NEW d \in Calls, ClickScan(d) \/ Poll(d) \/ ClickCancel(d)
      PROVE  result' = owed' \/ \E c \in Calls : Carries(c, owed)'
  <2>1. PICK c \in Calls, what \in {"arm", "poll", "cancel"} : Fetch(c, what)
    BY <1>1, <1>3, FetchIs
  <2>2. /\ request[c] = "none"
        /\ UNCHANGED <<result, owed, lost>>
    BY <2>1 DEF Fetch, reader, history, outcome
  <2>3. \A e \in Calls \ {c} : request'[e] = request[e] /\ answer'[e] = answer[e]
    BY <1>1, <2>1, CallMoves
  <2>4. ~Carries(c, owed)
    BY <2>2 DEF Carries
  <2> QED BY <1>2, <2>2, <2>3, <2>4
<1>4. ASSUME NEW c \in Calls, Delivered(c)
      PROVE  result' = owed' \/ \E d \in Calls : Carries(d, owed)'
  <2>1. /\ result' = result /\ lost' = lost
        /\ ArmAnswered(c) \/ CancelAnswered(c) \/ PollAnswered(c)
    BY <1>4 DEF Delivered, reader
  <2>2. \A e \in Calls \ {c} : request'[e] = request[e] /\ answer'[e] = answer[e]
    BY <1>1, <1>4, CallMoves
  <2>3. owed' = owed
    BY <2>1 DEF ArmAnswered, CancelAnswered, PollAnswered
  <2>4. ~Carries(c, owed)
    <3> SUFFICES ASSUME Carries(c, owed) PROVE FALSE
      OBVIOUS
    <3>1. /\ request[c] # "none" /\ answer[c] \notin {None, Failed}
          /\ answer[c].capture = owed
      BY DEF Carries
    <3>2. CASE ArmAnswered(c) \/ CancelAnswered(c)
      <4>1. request[c] \in {"arm", "cancel"}
        BY <3>2 DEF ArmAnswered, CancelAnswered
      <4> QED BY <1>1, <2>3, <3>1, <4>1 DEF AnswersFit
    <3>3. CASE PollAnswered(c)
      <4>1. CapturedIn(answer[c]) = owed
        BY <3>1 DEF CapturedIn
      <4>2. owed' = None
        BY <3>3, <4>1 DEF PollAnswered
      <4> QED BY <4>2
    <3> QED BY <2>1, <3>2, <3>3
  <2> QED BY <1>2, <2>1, <2>2, <2>3, <2>4
<1>5. ASSUME NEW c \in Calls, Dropped(c) \/ TimesOut(c)
      PROVE  result' = owed' \/ \E d \in Calls : Carries(d, owed)'
  <2>1. /\ result' = result /\ owed' = owed
        /\ lost' = (lost \/ (owed # None /\ Carries(c, owed)))
    BY <1>5 DEF Dropped, TimesOut, reader
  <2>2. ~lost /\ ~Carries(c, owed)
    BY <2>1
  <2>3. \A e \in Calls \ {c} : request'[e] = request[e] /\ answer'[e] = answer[e]
    BY <1>1, <1>5, CallMoves
  <2> QED BY <1>2, <2>1, <2>2, <2>3
<1>6. CASE DispatchArm \/ DispatchCancel \/ ServiceEnds
  BY <1>6 DEF DispatchArm, DispatchCancel, ServiceEnds
<1>7. CASE DispatchPoll
  <2> DEFINE a == [armed |-> armed, capture |-> result]
  <2>1. /\ Get("poll") /\ Reply(Arg, a) /\ owed' = owed
        /\ ~lost /\ ~(Arg = NoCall /\ owed # None /\ result = owed)
        /\ request' = request
    BY <1>1, <1>7, GetIs DEF DispatchPoll
  <2>2. a \in Answers /\ a.capture = result
    BY <1>1, RepliesAre
  <2> HIDE DEF a
  <2>3. /\ Arg = NoCall => answer' = answer
        /\ Arg # NoCall =>
             /\ Arg \in Calls /\ request'[Arg] = "poll"
             /\ answer[Arg] = None /\ answer'[Arg] = a
             /\ \A d \in Calls \ {Arg} : answer'[d] = answer[d]
    BY <2>1, <2>2, ReplyMoves
  <2>4. CASE result = owed
    <3>1. PICK c \in Calls : request'[c] = "poll" /\ answer'[c] = a
      BY <2>1, <2>3, <2>4
    <3>2. a \notin {None, Failed}
      BY <1>1, <2>2
    <3>3. Carries(c, owed)'
      BY <2>1, <2>2, <2>4, <3>1, <3>2 DEF Carries
    <3> QED BY <3>3, <2>1
  <2>5. CASE result # owed
    <3>1. PICK d \in Calls : Carries(d, owed)
      BY <1>1, <2>1, <2>5 DEF OutcomeIsKept
    <3>2. answer'[d] = answer[d]
      BY <2>3, <3>1 DEF Carries
    <3>3. Carries(d, owed)'
      BY <2>1, <3>1, <3>2 DEF Carries
    <3> QED BY <3>3
  <2> QED BY <2>4, <2>5
<1>8. CASE Check \/ DispatchScan
  <2>1. \/ result' = owed'
        \/ UNCHANGED <<result, owed, lost, request, answer>>
    BY <1>1, <1>8, GetIs DEF Check, DispatchScan, Capture, Record, reader, calls
  <2> QED BY <1>2, <2>1
<1>9. CASE \/ \E t \in Tags : Scan(t)
           \/ Tick \/ GetNothing \/ ServiceStarts \/ UNCHANGED vars
  <2>1. UNCHANGED <<result, owed, lost, request, answer>>
    BY <1>9 DEF Scan, Tick, GetNothing, ServiceStarts, vars, reader, calls, history,
                outcome
  <2> QED BY <1>2, <2>1
<1> QED
  BY <1>3, <1>4, <1>5, <1>6, <1>7, <1>8, <1>9, Steps

\* An outcome the main thread records is one of the arm it belongs to.
LEMMA OutcomesAre ==
    ASSUME TypeOK, session > 0
    PROVE  \A status \in {"added", "already", "error", "timeout"}, t \in Tags \cup {None} :
               [status |-> status, uid |-> t, arm |-> session] \in Outcomes
<1>1. session \in 1..MaxArms
  BY MaxArmsAssumption DEF TypeOK
<1> QED BY <1>1 DEF Outcomes

\* The reader's variables and the history of its outcome keep their types.
LEMMA ReaderStep ==
    ASSUME IInv, [Next]_vars
    PROVE  /\ armed' \in BOOLEAN /\ left' \in 0..Window
           /\ result' \in Outcomes \cup {None} /\ owed' \in Outcomes \cup {None}
           /\ enrolled' \subseteq Tags
           /\ armed' => session' > 0
<1> DEFINE Goal == /\ armed' \in BOOLEAN /\ left' \in 0..Window
                   /\ result' \in Outcomes \cup {None} /\ owed' \in Outcomes \cup {None}
                   /\ enrolled' \subseteq Tags
                   /\ armed' => session' > 0
<1>1. /\ TypeOK /\ armed \in BOOLEAN /\ left \in 0..Window
      /\ result \in Outcomes \cup {None} /\ owed \in Outcomes \cup {None}
      /\ enrolled \subseteq Tags /\ (armed => session > 0)
      /\ session \in Nat /\ 0 \in 0..Window /\ Window \in 0..Window
  BY WindowAssumption DEF IInv, TypeOK
<1>2. CASE Check
  <2>1. CASE armed /\ left = 0
    <3>1. result' = [status |-> "timeout", uid |-> None, arm |-> session]
          /\ owed' = result' /\ armed' = FALSE /\ left' = 0 /\ enrolled' = enrolled
      BY <1>2, <2>1 DEF Check, Disarm, Record
    <3>2. [status |-> "timeout", uid |-> None, arm |-> session] \in Outcomes
      BY <1>1, <2>1, OutcomesAre
    <3> QED BY <1>1, <3>1, <3>2
  <2>2. CASE ~(armed /\ left = 0)
    BY <1>1, <1>2, <2>2 DEF Check
  <2> QED BY <2>1, <2>2
<1>3. CASE DispatchScan
  <2>1. CASE armed
    <3>1. Arg \in Tags
      BY <1>1, <1>3, GetIs DEF DispatchScan
    <3>2. /\ owed' = result' /\ armed' = FALSE /\ left' = 0
          /\ enrolled' \in {enrolled, enrolled \cup {Arg}}
          /\ \E status \in {"added", "already", "error"} :
                result' = [status |-> status, uid |-> Arg, arm |-> session]
      BY <1>3, <2>1 DEF DispatchScan, Capture, Disarm, Record
    <3>3. \A status \in {"added", "already", "error"} :
              [status |-> status, uid |-> Arg, arm |-> session] \in Outcomes
      BY <1>1, <2>1, <3>1, OutcomesAre
    <3> QED BY <1>1, <3>1, <3>2, <3>3
  <2>2. CASE ~armed
    BY <1>1, <1>3, <2>2 DEF DispatchScan, reader
  <2> QED BY <2>1, <2>2
<1>4. CASE DispatchArm
  <2>1. /\ armed' = TRUE /\ left' = Window /\ result' = None /\ owed' = None
        /\ enrolled' = enrolled /\ session' = session + 1
    BY <1>4 DEF DispatchArm
  <2> QED BY <1>1, <2>1
<1>5. CASE DispatchCancel \/ ServiceEnds
  <2>1. /\ armed' = FALSE /\ left' = 0 /\ result' = None /\ owed' = None
        /\ enrolled' = enrolled
    BY <1>5 DEF DispatchCancel, ServiceEnds, Disarm
  <2> QED BY <1>1, <2>1
<1>6. CASE DispatchPoll
  BY <1>1, <1>6 DEF DispatchPoll
<1>7. CASE Tick
  BY <1>1, <1>7 DEF Tick, history, outcome
<1>8. ASSUME NEW c \in Calls, Delivered(c) PROVE Goal
  <2>1. UNCHANGED <<reader, session>> /\ owed' \in {owed, None}
    BY <1>8 DEF Delivered, ArmAnswered, CancelAnswered, PollAnswered
  <2> QED BY <1>1, <2>1 DEF reader
<1>9. CASE \/ \E c \in Calls : ClickScan(c) \/ Poll(c) \/ ClickCancel(c)
           \/ \E c \in Calls : Dropped(c) \/ TimesOut(c)
           \/ \E t \in Tags : Scan(t)
           \/ GetNothing \/ ServiceStarts \/ UNCHANGED vars
  <2>1. UNCHANGED <<reader, session, owed>>
    BY <1>9 DEF ClickScan, Poll, ClickCancel, Fetch, Dropped, TimesOut, Scan, GetNothing,
                ServiceStarts, vars, history, outcome
  <2> QED BY <1>1, <2>1 DEF reader
<1> QED
  BY <1>2, <1>3, <1>4, <1>5, <1>6, <1>7, <1>8, <1>9, Steps

\* So do the loop's, the page's and the other histories'.
LEMMA PageStep ==
    ASSUME IInv, [Next]_vars
    PROVE  /\ main' \in {"check", "get", "down"}
           /\ page' \in {"idle", "arming", "polling"} /\ leaked' \in BOOLEAN
           /\ lost' \in BOOLEAN /\ drops' \in {0, 1}
<1> USE DEF history, outcome, browser
<1>1. /\ TypeOK /\ main \in {"check", "get", "down"}
      /\ page \in {"idle", "arming", "polling"} /\ leaked \in BOOLEAN
      /\ lost \in BOOLEAN /\ drops \in {0, 1}
  BY DEF IInv, TypeOK
<1> DEFINE Goal == /\ main' \in {"check", "get", "down"}
                   /\ page' \in {"idle", "arming", "polling"} /\ leaked' \in BOOLEAN
                   /\ lost' \in BOOLEAN /\ drops' \in {0, 1}
<1>2. ASSUME NEW d \in Calls, ClickScan(d) \/ Poll(d) \/ ClickCancel(d) PROVE Goal
  <2>1. PICK c \in Calls, what \in {"arm", "poll", "cancel"} :
            /\ Fetch(c, what)
            /\ page' \in {"idle", "arming", "polling"} /\ leaked' \in BOOLEAN
    BY <1>1, <1>2, FetchIs
  <2> QED BY <1>1, <2>1 DEF Fetch
<1>3. ASSUME NEW c \in Calls, Delivered(c) PROVE Goal
  <2>1. UNCHANGED <<main, lost, drops>>
    BY <1>3 DEF Delivered
  <2>2. page' \in {"idle", "arming", "polling"}
    BY <1>1, <1>3 DEF Delivered, ArmAnswered, CancelAnswered, PollAnswered
  <2>3. leaked' \in BOOLEAN
    <3>1. CASE ArmAnswered(c) \/ CancelAnswered(c)
      BY <1>1, <3>1 DEF ArmAnswered, CancelAnswered
    <3>2. CASE PollAnswered(c)
      BY <3>2 DEF PollAnswered
    <3> QED BY <1>3, <3>1, <3>2 DEF Delivered
  <2> QED BY <1>1, <2>1, <2>2, <2>3
<1>4. ASSUME NEW c \in Calls, Dropped(c) \/ TimesOut(c) PROVE Goal
  <2>1. lost' \in BOOLEAN
    BY <1>4 DEF Dropped, TimesOut
  <2>2. drops' \in {0, 1}
    BY <1>1, <1>4 DEF Dropped, TimesOut
  <2>3. page' \in {"idle", "arming", "polling"} /\ leaked' = leaked /\ main' = main
    BY <1>1, <1>4 DEF Dropped, TimesOut
  <2> QED BY <1>1, <2>1, <2>2, <2>3
<1>5. CASE DispatchArm \/ DispatchCancel \/ DispatchPoll \/ DispatchScan
  <2>1. main' = "check" /\ UNCHANGED <<page, leaked, drops>>
    BY <1>5 DEF DispatchArm, DispatchCancel, DispatchPoll, DispatchScan, Get
  <2>2. lost' \in BOOLEAN
    BY <1>1, <1>5 DEF DispatchArm, DispatchCancel, DispatchPoll, DispatchScan, Capture,
                      Record
  <2> QED BY <1>1, <2>1, <2>2
<1>6. CASE ServiceEnds
  BY <1>1, <1>6 DEF ServiceEnds
<1>7. CASE \E t \in Tags : Scan(t)
  BY <1>1, <1>7 DEF Scan
<1>8. CASE Tick \/ Check \/ GetNothing \/ ServiceStarts \/ UNCHANGED vars
  <2>1. UNCHANGED <<page, leaked, drops>>
    BY <1>8, IdleIs
  <2>2. main' \in {"check", "get", "down"}
    BY <1>1, <1>8 DEF Tick, Check, GetNothing, ServiceStarts, vars
  <2>3. lost' \in BOOLEAN
    BY <1>1, <1>8 DEF Tick, Check, Record, GetNothing, ServiceStarts, vars
  <2> QED BY <1>1, <2>1, <2>2, <2>3
<1> QED
  BY <1>2, <1>3, <1>4, <1>5, <1>6, <1>7, <1>8, Steps

----------------------------------------------------------------------------
(* The theorems *)

LEMMA InvStep == IInv /\ [Next]_vars => IInv'
<1> SUFFICES ASSUME IInv, [Next]_vars PROVE IInv'
  OBVIOUS
<1>1. /\ AnswersFit' /\ request' \in [Calls -> {"none", "arm", "poll", "cancel"}]
      /\ OneShot' /\ captures' \in Nat
  BY AnswersFitStep, OneShotStep
<1>2. \A c \in Calls : answer'[c] \in {None, Failed} \/ answer'[c] \in Answers
  BY <1>1 DEF AnswersFit
<1>3. TypeOK'
  BY <1>1, <1>2, QueueStep, ClickedStep, ReaderStep, PageStep DEF TypeOK
<1> QED
  BY <1>1, <1>3, ClickedStep, ReaderStep, AwaitedStep, OutcomeIsKeptStep DEF IInv

\* The inductive invariant holds in every reachable state.
LEMMA Invariance == Spec => []IInv
  BY InvInit, InvStep, PTL DEF Spec

\* The variables of the reader, the page and the calls between them keep their types, and
\* the event queue its maxsize (main.py:498).
THEOREM TypeCorrect == Spec => []TypeOK
  BY Invariance, PTL DEF IInv

\* An arm captures one scan at most, however many are queued behind it (main.py,
\* _handle_nfc and _capture_tag).
THEOREM ArmIsAlwaysOneShot == Spec => []OneShot
  BY Invariance, PTL DEF IInv

\* What became of an arm is kept until the page has it, unless the answer that carried it
\* was lost (main.py, enroll_status in _handle_web_command; static/nfc.js, poll).
THEOREM OutcomeIsAlwaysKept == Spec => []OutcomeIsKept
  BY Invariance, PTL DEF IInv

=============================================================================
