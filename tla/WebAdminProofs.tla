--------------------------- MODULE WebAdminProofs ---------------------------
(***************************************************************************)
(* Two parts of the web admin, the History page on the event history and   *)
(* the login.                                                              *)
(*                                                                         *)
(* EventStore, for every number of events and every page size: no recorded *)
(* event is missing before its time, and a walk towards older events skips *)
(* no row.  Both rest on what the open transaction can be: it misses only  *)
(* the oldest of the committed rows, expired ones, and brings back none    *)
(* that the walk did not find (OpenTransaction).  So whatever commit comes *)
(* next, the rows newer than one that survives it survive too, a row moves *)
(* only towards older pages, and the pages already passed keep their       *)
(* promise (WalkedSoFar).                                                  *)
(*                                                                         *)
(* LoginThrottle, for every set of threads, every limit and every lockout: *)
(* the bound on the failures is inductive as it stands, because it counts  *)
(* the attempts still under way along with the failures.                   *)
(***************************************************************************)
EXTENDS EventStore, LoginThrottle, FiniteSetTheorems, TLAPS

\* What the table may become with the next commit: it removes expired rows only, and the
\* oldest ones first, and brings back none that was gone when the walk began.
MayFollow(rows) ==
    /\ \A e \in table : e \in rows \/ Expired(e)
    /\ \A e \in table \cap rows : \A d \in table : d > e => d \in rows
    /\ begun \cap rows \subseteq table

OpenTransaction == MayFollow(work)

\* The first n rows, as far as they were there from the start, have been shown.
ShownBefore(n) == \A e \in begun \cap table : Rank(e) < n => e \in shown

\* Pages are asked for in a row: the ones before the page that loads have been shown,
\* and so has the page whose links are there.
WalkedSoFar ==
    /\ loading => page >= 1 /\ ShownBefore((page - 1) * PageSize)
    /\ ~loading /\ links => page >= 1 /\ ShownBefore(page * PageSize)

IInv ==
    /\ TypeOK
    /\ HistoryIsFaithful
    /\ OpenTransaction
    /\ WalkedSoFar
    /\ NoRowSkipped

----------------------------------------------------------------------------
(* Ranks *)

\* Of two finite sets of events, the one that has all the newer events of the other has
\* no fewer of them.
LEMMA NewerCounted ==
    ASSUME NEW n \in Nat, NEW S \in SUBSET (1..n), NEW T \in SUBSET (1..n), NEW e,
           \A d \in S : d > e => d \in T
    PROVE  /\ Cardinality({d \in S : d > e}) \in Nat
           /\ Cardinality({d \in T : d > e}) \in Nat
           /\ Cardinality({d \in S : d > e}) <= Cardinality({d \in T : d > e})
<1> DEFINE NewerS == {d \in S : d > e}
           NewerT == {d \in T : d > e}
<1>1. IsFiniteSet(1..n)
  BY FS_Interval
<1>2. IsFiniteSet(NewerS) /\ IsFiniteSet(NewerT)
  <2>1. NewerS \in SUBSET (1..n) /\ NewerT \in SUBSET (1..n)
    OBVIOUS
  <2> QED  BY <1>1, <2>1, FS_Subset
<1>3. NewerS \in SUBSET NewerT
  OBVIOUS
<1>4. Cardinality(NewerS) <= Cardinality(NewerT)
  BY <1>2, <1>3, FS_Subset
<1>5. Cardinality(NewerS) \in Nat /\ Cardinality(NewerT) \in Nat
  BY <1>2, FS_CardinalityType
<1> QED  BY <1>4, <1>5

\* A set of events has at most as many as there are.
LEMMA CountBounded ==
    ASSUME NEW n \in Nat, NEW S \in SUBSET (1..n)
    PROVE  Cardinality(S) \in 0..n
<1>1. IsFiniteSet(1..n) /\ Cardinality(1..n) = n
  BY FS_Interval
<1>2. IsFiniteSet(S) /\ Cardinality(S) <= Cardinality(1..n)
  BY <1>1, FS_Subset
<1>3. Cardinality(S) \in Nat
  BY <1>2, FS_CardinalityType
<1> QED  BY <1>1, <1>2, <1>3

\* An older row is further back in the pages.
LEMMA RankOrder ==
    ASSUME TypeOK, NEW e \in table, NEW d \in table, d <= e
    PROVE  Rank(e) \in Nat /\ Rank(d) \in Nat /\ Rank(e) <= Rank(d)
<1>1. table \in SUBSET (1..events) /\ events \in Nat
  BY EventAssumption DEF TypeOK
<1>2. {c \in table : c > e} \in SUBSET (1..events)
      /\ {c \in table : c > d} \in SUBSET (1..events)
  BY <1>1
<1>3. {c \in table : c > e} \in SUBSET {c \in table : c > d}
  <2>1. \A c \in 1..events : c > e => c > d
    BY <1>1
  <2> QED  BY <1>1, <2>1
<1>4. IsFiniteSet({c \in table : c > e}) /\ IsFiniteSet({c \in table : c > d})
  <2>1. IsFiniteSet(1..events)
    BY <1>1, FS_Interval
  <2> QED  BY <1>2, <2>1, FS_Subset
<1>5. Cardinality({c \in table : c > e}) <= Cardinality({c \in table : c > d})
  BY <1>3, <1>4, FS_Subset
<1>6. Cardinality({c \in table : c > e}) \in Nat /\ Cardinality({c \in table : c > d}) \in Nat
  BY <1>4, FS_CardinalityType
<1> QED  BY <1>5, <1>6 DEF Rank

----------------------------------------------------------------------------
(* What the writer does *)

LEMMA TypeFacts ==
    ASSUME TypeOK
    PROVE  /\ events \in Nat /\ expired \in Nat
           /\ table \in SUBSET (1..events) /\ work \in SUBSET (1..events)
           /\ synced \in SUBSET (1..events) /\ recorded \in SUBSET (1..events)
           /\ begun \in SUBSET (1..events) /\ shown \in SUBSET (1..events)
           /\ page \in Nat /\ PageSize \in Nat \ {0} /\ MaxEvents \in Nat
  BY EventAssumption DEF TypeOK

\* The statements of the writer, on top of what its transaction holds already.
LEMMA StatementsMayFollow ==
    ASSUME IInv
    PROVE  MayFollow(table) /\ MayFollow(work) /\ MayFollow(Inserted) /\ MayFollow(Kept(work))
<1> USE TypeFacts
<1>1. TypeOK /\ MayFollow(work)
  BY DEF IInv, OpenTransaction
<1>2. MayFollow(table)
  BY DEF MayFollow
<1>3. MayFollow(Inserted)
  <2>1. \A e \in 1..events : e # events + 1
    BY <1>1
  <2> QED  BY <1>1, <2>1 DEF MayFollow, Inserted
<1>4. MayFollow(Kept(work))
  BY <1>1 DEF MayFollow, Kept, Expired
<1> QED  BY <1>1, <1>2, <1>3, <1>4

\* Whatever the next commit makes of the table, a walk that is under way goes on without
\* skipping a row.
LEMMA WalkGoesOn ==
    ASSUME IInv, events' \in Nat, events <= events', table' \in SUBSET (1..events'),
           MayFollow(table'), UNCHANGED walk
    PROVE  WalkedSoFar' /\ NoRowSkipped'
<1> USE TypeFacts
<1>1. TypeOK
  BY DEF IInv
<1>2. table \in SUBSET (1..events')
  BY <1>1
<1>3. \A e \in begun \cap table' : e \in table /\ Rank(e) \in Nat
        /\ Rank(e)' \in Nat /\ Rank(e) <= Rank(e)'
  <2> TAKE e \in begun \cap table'
  <2>1. e \in table /\ \A d \in table : d > e => d \in table'
    BY DEF MayFollow
  <2> QED  BY <1>2, <2>1, NewerCounted DEF Rank
<1>4. \A m \in Int : ShownBefore(m) => ShownBefore(m)'
  BY <1>3 DEF ShownBefore, walk
<1>5. (page - 1) * PageSize \in Int /\ page * PageSize \in Int
  BY <1>1
<1>6. WalkedSoFar'
  BY <1>4, <1>5 DEF IInv, WalkedSoFar, walk
<1>7. NoRowSkipped'
  BY <1>3 DEF IInv, NoRowSkipped, walk
<1> QED  BY <1>6, <1>7

\* A statement of the writer, its commit, or the end of its transaction.
LEMMA WriterStep ==
    ASSUME IInv, events' \in events..MaxEvents,
           NEW rows \in SUBSET (1..events'), MayFollow(rows),
           \/ work' = rows /\ table' = rows
           \/ work' \in {rows, table} /\ UNCHANGED table,
           \A e \in recorded' : e \in recorded \/ e \in table',
           service' # "up" => work' = table',
           service' \in {"down", "up", "blind"},
           UNCHANGED <<synced, expired, walk>>
    PROVE  IInv'
<1> USE TypeFacts
<1>1. TypeOK
  BY DEF IInv
<1>2. events' \in Nat /\ events <= events' /\ events' \in 0..MaxEvents
  BY <1>1
<1>3. 1..events \subseteq 1..events' /\ 0..events \subseteq 0..events'
  BY <1>1, <1>2
<1>4. table' \in SUBSET (1..events') /\ work' \in SUBSET (1..events')
  BY <1>1, <1>3
<1>5. MayFollow(table) /\ MayFollow(rows)
  BY StatementsMayFollow
<1>6. MayFollow(table')
  BY <1>5
<1>7. TypeOK'
  <2>1. expired' \in 0..events' /\ synced' \in SUBSET (1..events')
    BY <1>1, <1>3 DEF TypeOK
  <2>2. recorded' \subseteq 1..events'
    BY <1>1, <1>3, <1>4
  <2>3. page' \in Nat /\ total' \in 0..MaxEvents /\ {loading', links'} \subseteq BOOLEAN
    BY <1>1 DEF TypeOK, walk
  <2>4. begun' \in SUBSET (1..events') /\ shown' \in SUBSET (1..events')
    BY <1>1, <1>3 DEF walk
  <2> QED  BY <1>2, <1>4, <2>1, <2>2, <2>3, <2>4 DEF TypeOK
<1>8. HistoryIsFaithful'
  BY <1>6 DEF IInv, HistoryIsFaithful, MayFollow, Expired
<1>9. OpenTransaction'
  <2>1. CASE work' = table'
    BY <2>1 DEF OpenTransaction, MayFollow
  <2>2. CASE work' = rows /\ UNCHANGED table
    BY <2>2, <1>5 DEF OpenTransaction, MayFollow, Expired, walk
  <2> QED  BY <2>1, <2>2
<1>10. WalkedSoFar' /\ NoRowSkipped'
  BY <1>2, <1>4, <1>6, WalkGoesOn
<1> QED  BY <1>7, <1>8, <1>9, <1>10 DEF IInv

----------------------------------------------------------------------------
(* The steps *)

LEMMA StartsRight == Init => IInv
<1> SUFFICES ASSUME Init
             PROVE  IInv
  OBVIOUS
<1>1. TypeOK
  <2>1. 0 \in 0..MaxEvents /\ 0 \in 0..0
    BY EventAssumption
  <2>2. /\ table \cup work \cup synced \subseteq 1..events /\ recorded \subseteq 1..events
        /\ begun \cup shown \subseteq 1..events
    BY DEF Init
  <2>3. {loading, links} \subseteq BOOLEAN
    BY DEF Init
  <2> QED  BY <2>1, <2>2, <2>3 DEF Init, TypeOK
<1>2. HistoryIsFaithful /\ OpenTransaction
  BY DEF Init, HistoryIsFaithful, OpenTransaction, MayFollow
<1>3. WalkedSoFar /\ NoRowSkipped
  BY DEF Init, WalkedSoFar, NoRowSkipped
<1> QED  BY <1>1, <1>2, <1>3 DEF IInv

LEMMA WriterStays ==
    ASSUME IInv, Log \/ LogFails \/ LogNowhere \/ Prune \/ Start \/ Stop
    PROVE  IInv'
<1> USE TypeFacts
<1>1. TypeOK /\ service \in {"down", "up", "blind"} /\ (service # "up" => work = table)
      /\ events \in 0..MaxEvents
  BY DEF IInv, TypeOK
<1>2. MayFollow(table) /\ MayFollow(work) /\ MayFollow(Inserted) /\ MayFollow(Kept(work))
  BY StatementsMayFollow
<1>3. /\ Inserted \in SUBSET (1..(events + 1)) /\ events + 1 \in Inserted
      /\ Kept(work) \in SUBSET (1..events) /\ work \in SUBSET (1..(events + 1))
      /\ table \in SUBSET (1..(events + 1))
      /\ events \in events..MaxEvents
      /\ events < MaxEvents => events + 1 \in events..MaxEvents
  BY <1>1 DEF Inserted, Kept
<1>4. CASE Log
  BY <1>1, <1>2, <1>3, <1>4, WriterStep DEF Log, Committed
<1>5. CASE LogFails
  <2>1. CASE UNCHANGED <<work, table>>
    BY <1>1, <1>2, <1>3, <1>5, <2>1, WriterStep DEF LogFails
  <2>2. CASE CommitFails(Inserted)
    BY <1>1, <1>2, <1>3, <1>5, <2>2, WriterStep DEF LogFails, CommitFails
  <2> QED  BY <1>5, <2>1, <2>2 DEF LogFails
<1>6. CASE LogNowhere
  BY <1>1, <1>2, <1>3, <1>6, WriterStep DEF LogNowhere
<1>7. CASE Prune
  BY <1>1, <1>2, <1>3, <1>7, WriterStep DEF Prune, PruneTo, Committed, CommitFails
<1>8. CASE Start
  BY <1>1, <1>2, <1>3, <1>8, WriterStep DEF Start, Committed, CommitFails
<1>9. CASE Stop
  BY <1>1, <1>2, <1>3, <1>9, WriterStep DEF Stop, StopWith
<1> QED  BY <1>4, <1>5, <1>6, <1>7, <1>8, <1>9

\* Time, SQLite's own checkpoint, and the loss of power.
LEMMA WorldStays ==
    ASSUME IInv, Age \/ Checkpoint \/ PowerLoss
    PROVE  IInv'
<1> USE TypeFacts
<1>1. TypeOK
  BY DEF IInv
<1>2. CASE Age
  <2>1. TypeOK'
    BY <1>1, <1>2 DEF Age, TypeOK, walk
  <2>2. HistoryIsFaithful' /\ OpenTransaction'
    BY <1>1, <1>2 DEF Age, IInv, HistoryIsFaithful, OpenTransaction, MayFollow, Expired, walk
  <2>3. WalkedSoFar' /\ NoRowSkipped'
    BY <1>2 DEF Age, IInv, WalkedSoFar, ShownBefore, Rank, NoRowSkipped, walk
  <2> QED  BY <2>1, <2>2, <2>3 DEF IInv
<1>3. CASE Checkpoint
  <2>1. TypeOK'
    BY <1>1, <1>3 DEF Checkpoint, TypeOK, walk
  <2>2. HistoryIsFaithful' /\ OpenTransaction'
    BY <1>3 DEF Checkpoint, IInv, HistoryIsFaithful, OpenTransaction, MayFollow, Expired, walk
  <2>3. WalkedSoFar' /\ NoRowSkipped'
    BY <1>3 DEF Checkpoint, IInv, WalkedSoFar, ShownBefore, Rank, NoRowSkipped, walk
  <2> QED  BY <2>1, <2>2, <2>3 DEF IInv
<1>4. CASE PowerLoss
  <2>1. TypeOK'
    <3>1. /\ service' = "down" /\ events' = events /\ expired' = expired
          /\ table' = synced /\ work' = synced /\ synced' = synced
          /\ recorded' \in SUBSET (1..events)
          /\ page' = 0 /\ total' = 0 /\ loading' = FALSE /\ links' = FALSE
          /\ begun' = {} /\ shown' = {}
      BY <1>1, <1>4 DEF PowerLoss
    <3>2. events \in 0..MaxEvents /\ expired \in 0..events /\ 0 \in 0..MaxEvents
      BY <1>1 DEF TypeOK
    <3> QED  BY <1>1, <3>1, <3>2 DEF TypeOK
  <2>2. HistoryIsFaithful' /\ OpenTransaction'
    BY <1>4 DEF PowerLoss, HistoryIsFaithful, OpenTransaction, MayFollow
  <2>3. WalkedSoFar' /\ NoRowSkipped'
    BY <1>4 DEF PowerLoss, WalkedSoFar, ShownBefore, NoRowSkipped
  <2> QED  BY <2>1, <2>2, <2>3 DEF IInv
<1> QED  BY <1>2, <1>3, <1>4

\* A request for a page: count() has returned.
LEMMA CountStays ==
    ASSUME IInv, NEW p \in Nat, p >= 1, Count(p),
           \/ begun' = table /\ shown' = {} /\ p = 1
           \/ ShownBefore((p - 1) * PageSize) /\ UNCHANGED <<begun, shown>>
    PROVE  IInv'
<1> USE TypeFacts
<1>1. TypeOK
  BY DEF IInv
<1>2. Cardinality(table) \in 0..MaxEvents
  <2>1. Cardinality(table) \in 0..events /\ events \in 0..MaxEvents
    BY <1>1, CountBounded DEF TypeOK
  <2> QED  BY <1>1, <2>1
<1>3. TypeOK'
  BY <1>1, <1>2 DEF Count, TypeOK
<1>4. HistoryIsFaithful'
  BY DEF Count, IInv, HistoryIsFaithful, Expired
<1>5. OpenTransaction'
  BY <1>1 DEF Count, IInv, OpenTransaction, MayFollow, Expired
<1>6. WalkedSoFar'
  <2>1. loading' /\ page' = p
    BY DEF Count
  <2>2. ShownBefore((p - 1) * PageSize)'
    <3>1. CASE UNCHANGED <<begun, shown>> /\ ShownBefore((p - 1) * PageSize)
      BY <3>1 DEF Count, ShownBefore, Rank
    <3>2. CASE begun' = table /\ shown' = {} /\ p = 1
      <4>1. (p - 1) * PageSize = 0
        BY <1>1, <3>2
      <4>2. \A e \in table' : Rank(e)' \in Nat
        BY <1>1, <1>3, RankOrder DEF Count, Rank
      <4> QED  BY <4>1, <4>2 DEF ShownBefore
    <3> QED  BY <3>1, <3>2
  <2> QED  BY <2>1, <2>2 DEF WalkedSoFar
<1>7. NoRowSkipped'
  BY DEF Count, IInv, NoRowSkipped
<1> QED  BY <1>3, <1>4, <1>5, <1>6, <1>7 DEF IInv

LEMMA PagerStays ==
    ASSUME IInv, Open \/ Older \/ Newer
    PROVE  IInv'
<1> USE TypeFacts
<1>1. TypeOK
  BY DEF IInv
<1>2. ~loading /\ links => page >= 1 /\ ShownBefore(page * PageSize)
  BY DEF IInv, WalkedSoFar
<1>3. CASE Open
  BY <1>3, CountStays DEF Open
<1>4. CASE Older
  <2>1. page + 1 \in Nat /\ page + 1 >= 1 /\ (page + 1) - 1 = page
    BY <1>1
  <2> QED  BY <1>2, <1>4, <2>1, CountStays DEF Older
<1>5. CASE Newer
  <2>1. page - 1 \in Nat /\ page - 1 >= 1
    BY <1>1, <1>5 DEF Newer
  <2>2. ((page - 1) - 1) * PageSize <= page * PageSize
    <3>1. ((page - 1) - 1) * PageSize = page * PageSize - 2 * PageSize
      BY <1>1
    <3>2. page * PageSize \in Int
      BY <1>1
    <3> QED  BY <1>1, <3>1, <3>2
  <2>3. ShownBefore(((page - 1) - 1) * PageSize)
    <3>1. \A e \in table : Rank(e) \in Nat
      BY <1>1, RankOrder
    <3>2. page * PageSize \in Int /\ ((page - 1) - 1) * PageSize \in Int
      BY <1>1
    <3> QED  BY <1>2, <1>5, <2>2, <3>1, <3>2 DEF Newer, ShownBefore
  <2> QED  BY <1>5, <2>1, <2>3, CountStays DEF Newer
<1> QED  BY <1>3, <1>4, <1>5

\* The rows of a page continue those of the pages before it.
LEMMA RecentStays ==
    ASSUME IInv, Recent
    PROVE  IInv'
<1> USE TypeFacts
<1> DEFINE offset == (page - 1) * PageSize
<1>1. TypeOK /\ page >= 1 /\ ShownBefore(offset)
  BY DEF IInv, WalkedSoFar, Recent, RecentFrom
<1>2. offset \in Int /\ page * PageSize = offset + PageSize
  BY <1>1
<1>3. PICK rows \in {Rows(offset), {}} : links' = (rows # {}) /\ shown' = shown \cup rows
  BY DEF Recent, RecentFrom
<1>4. /\ loading' = FALSE
      /\ UNCHANGED <<service, events, table, work, synced, expired, recorded>>
      /\ UNCHANGED <<page, total, begun>>
  BY DEF Recent, RecentFrom
<1>5. \A e \in table : Rank(e) \in Nat /\ Rank(e)' = Rank(e)
  <2>1. \A e \in table : Rank(e) \in Nat
    BY <1>1, RankOrder
  <2> QED  BY <1>4, <2>1 DEF Rank
<1>6. \A e \in rows : e \in table /\ offset <= Rank(e) /\ Rank(e) < offset + PageSize
  BY <1>3 DEF Rows
<1>7. \A e \in begun \cap table : rows # {} /\ Rank(e) < offset + PageSize => e \in shown'
  <2> SUFFICES ASSUME NEW e \in begun \cap table, rows # {}, Rank(e) < offset + PageSize
               PROVE  e \in shown'
    OBVIOUS
  <2>1. CASE Rank(e) < offset
    BY <1>1, <1>3, <2>1 DEF ShownBefore
  <2>2. CASE offset <= Rank(e)
    BY <1>3, <2>2 DEF Rows
  <2>3. Rank(e) < offset \/ offset <= Rank(e)
    BY <1>2, <1>5
  <2> QED  BY <2>1, <2>2, <2>3
<1> HIDE DEF offset
<1>8. TypeOK'
  <2>1. shown' \in SUBSET (1..events)
    BY <1>1, <1>3, <1>6
  <2>2. links' \in BOOLEAN
    BY <1>3
  <2> QED  BY <1>1, <1>4, <2>1, <2>2 DEF TypeOK
<1>9. HistoryIsFaithful'
  BY <1>4 DEF IInv, HistoryIsFaithful, Expired
<1>10. OpenTransaction'
  BY <1>4 DEF IInv, OpenTransaction, MayFollow, Expired
<1>11. WalkedSoFar'
  <2>1. links' => \A e \in begun \cap table : Rank(e) < page * PageSize => e \in shown'
    BY <1>2, <1>3, <1>7
  <2>2. links' => ShownBefore(page * PageSize)'
    BY <1>4, <1>5, <2>1 DEF ShownBefore
  <2> QED  BY <1>1, <1>4, <2>2 DEF WalkedSoFar
<1>12. NoRowSkipped'
  <2> SUFFICES ASSUME NEW e \in begun \cap table, NEW d \in shown', d <= e
               PROVE  e \in shown'
    BY <1>4 DEF NoRowSkipped
  <2>1. CASE d \in shown
    BY <1>3, <2>1 DEF IInv, NoRowSkipped
  <2>2. CASE d \in rows
    <3>1. d \in table /\ Rank(d) < offset + PageSize
      BY <1>6, <2>2
    <3>2. Rank(e) <= Rank(d)
      BY <1>1, <3>1, RankOrder
    <3>3. Rank(e) < offset + PageSize
      BY <1>1, <1>2, <1>5, <3>1, <3>2
    <3> QED  BY <1>7, <2>2, <3>3
  <2> QED  BY <1>3, <2>1, <2>2
<1> QED  BY <1>8, <1>9, <1>10, <1>11, <1>12 DEF IInv

LEMMA Inductive == IInv /\ [Next]_vars => IInv'
<1> SUFFICES ASSUME IInv, [Next]_vars
             PROVE  IInv'
  OBVIOUS
<1>1. CASE Log \/ LogFails \/ LogNowhere \/ Prune \/ Start \/ Stop
  BY <1>1, WriterStays
<1>2. CASE Age \/ Checkpoint \/ PowerLoss
  BY <1>2, WorldStays
<1>3. CASE Open \/ Older \/ Newer
  BY <1>3, PagerStays
<1>4. CASE Recent
  BY <1>4, RecentStays
<1>5. CASE UNCHANGED vars
  BY <1>5 DEF vars, walk, IInv, TypeOK, HistoryIsFaithful, OpenTransaction, MayFollow,
     WalkedSoFar, ShownBefore, Rank, NoRowSkipped, Expired
<1> QED  BY <1>1, <1>2, <1>3, <1>4, <1>5 DEF Next

----------------------------------------------------------------------------
(* The theorems *)

LEMMA Safe == Spec => []IInv
  BY StartsRight, Inductive, PTL DEF Spec

\* The state of the history and of the walk keeps its type, and no transaction outlives
\* the connection it was opened on (event_store.py, setup and close).
THEOREM TypeCorrect == Spec => []TypeOK
<1>1. IInv => TypeOK
  BY DEF IInv
<1> QED  BY Safe, <1>1, PTL

\* No event whose log() succeeded is missing before its retention is over, whatever
\* commits failed, restarts and prunes there were (event_store.py, log and prune).
THEOREM HistoryIsAlwaysFaithful == Spec => []HistoryIsFaithful
<1>1. IInv => HistoryIsFaithful
  BY DEF IInv
<1> QED  BY Safe, <1>1, PTL

\* Paging towards older events passes no row that was there when the walk began and still
\* is, whatever is logged, pruned, rolled back or committed late between two pages
\* (event_store.py, recent; web_admin.py, history_page).
THEOREM NoRowIsEverSkipped == Spec => []NoRowSkipped
<1>1. IInv => NoRowSkipped
  BY DEF IInv
<1> QED  BY Safe, <1>1, PTL

----------------------------------------------------------------------------
(* The login throttle *)

LoginIInv == LoginTypeOK /\ FailuresBounded

\* What the invariant says of a number of failures, and of threads that ask PAM.
Within(failures, asking) ==
    /\ failures >= MaxAttempts => failures + asking < MaxAttempts + Cardinality(Threads)
    /\ failures < MaxAttempts + Cardinality(Threads)

LEMMA LoginConstants ==
    /\ IsFiniteSet(Threads) /\ Cardinality(Threads) \in Nat \ {0}
    /\ MaxAttempts \in Nat \ {0} /\ Lockout \in Nat \ {0}
<1>1. /\ IsFiniteSet(Threads) /\ Threads # {}
      /\ MaxAttempts \in Nat \ {0} /\ Lockout \in Nat \ {0}
  BY LoginAssumption
<1>2. Cardinality(Threads) \in Nat /\ Cardinality(Threads) # 0
  BY <1>1, FS_CardinalityType, FS_EmptySet
<1> QED  BY <1>1, <1>2

LEMMA BoundedMeans ==
    /\ FailuresBounded <=> Within(count, Cardinality(Asking))
    /\ FailuresBounded' <=> Within(count', Cardinality(Asking'))
  BY DEF FailuresBounded, Within

\* The threads that ask PAM are some of the threads; one fewer when one has its answer.
LEMMA AskingCounted ==
    /\ IsFiniteSet(Asking)
    /\ Cardinality(Asking) \in 0..Cardinality(Threads)
    /\ \A t \in Asking :
        /\ Cardinality(Asking) >= 1
        /\ Cardinality(Asking \ {t}) = Cardinality(Asking) - 1
<1> DEFINE A == Asking
<1>1. IsFiniteSet(Threads) /\ Cardinality(Threads) \in Nat
  BY LoginConstants
<1>2. A \in SUBSET Threads
  BY DEF Asking
<1>3. IsFiniteSet(A) /\ Cardinality(A) <= Cardinality(Threads)
  BY <1>1, <1>2, FS_Subset
<1>4. Cardinality(A) \in Nat
  BY <1>3, FS_CardinalityType
<1>5. ASSUME NEW t \in A
      PROVE  Cardinality(A) >= 1 /\ Cardinality(A \ {t}) = Cardinality(A) - 1
  <2>1. IsFiniteSet(A \ {t}) /\ Cardinality(A \ {t}) = Cardinality(A) - 1
    BY <1>3, <1>5, FS_RemoveElement
  <2>2. Cardinality(A \ {t}) \in Nat
    BY <2>1, FS_CardinalityType
  <2> QED  BY <1>4, <2>1, <2>2
<1> QED  BY <1>1, <1>3, <1>4, <1>5

LEMMA LoginStartsRight ==
    LoginInit => LoginIInv
<1> SUFFICES ASSUME LoginInit
             PROVE  LoginIInv
  OBVIOUS
<1>1. MaxAttempts \in Nat \ {0} /\ Lockout \in Nat \ {0} /\ Cardinality(Threads) \in Nat \ {0}
  BY LoginConstants
<1>2. LoginTypeOK
  BY <1>1 DEF LoginInit, LoginTypeOK
<1>3. Within(count, Cardinality(Asking))
  BY <1>1 DEF LoginInit, Within
<1> QED  BY <1>2, <1>3, BoundedMeans DEF LoginIInv

\* A thread that admits an attempt, or ends one, leaves the others as they are.
LEMMA SendMeans ==
    ASSUME LoginTypeOK, NEW t \in Threads,
           NEW status \in {"asking", "302", "401", "403", "429", "500"},
           Send(t, status)
    PROVE  /\ response' \in [Threads ->
                    {"none", "asking", "302", "401", "403", "429", "500"}]
           /\ status = "asking" => Asking' = Asking \cup {t}
           /\ status # "asking" => Asking' = Asking \ {t}
  BY DEF LoginTypeOK, Send, Asking

\* A POST to /login up to PAM: whoever is admitted finds fewer than MaxAttempts failures.
LEMMA PostStays ==
    ASSUME LoginIInv, NEW t \in Threads, Post(t)
    PROVE  LoginIInv'
<1>1. LoginTypeOK /\ FailuresBounded
  BY DEF LoginIInv
<1>2. /\ MaxAttempts \in Nat \ {0} /\ Lockout \in Nat \ {0}
      /\ Cardinality(Threads) \in Nat \ {0}
      /\ count \in Nat /\ age \in 0..Lockout
  BY <1>1, LoginConstants DEF LoginTypeOK
<1>3. CASE Refuse(t)
  <2>1. Asking' = Asking \ {t} /\ t \notin Asking
    BY <1>1, <1>3, SendMeans DEF Refuse, Asking
  <2>2. Cardinality(Asking') = Cardinality(Asking)
    <3>1. Asking' = Asking
      BY <2>1
    <3> QED  BY <3>1
  <2>3. LoginTypeOK'
    BY <1>1, <1>3, SendMeans DEF Refuse, LoginTypeOK
  <2>4. Within(count', Cardinality(Asking'))
    BY <1>1, <1>3, <2>2, BoundedMeans DEF Refuse, Within
  <2> QED  BY <2>3, <2>4, BoundedMeans DEF LoginIInv
<1>4. CASE Admit(t)
  <2>1. count' \in Nat /\ age' \in 0..Lockout /\ count' < MaxAttempts
    BY <1>2, <1>4 DEF Admit, Clear
  <2>2. LoginTypeOK'
    BY <1>1, <1>4, <2>1, SendMeans DEF Admit, LoginTypeOK
  <2>3. Within(count', Cardinality(Asking'))
    BY <1>2, <2>1 DEF Within
  <2> QED  BY <2>2, <2>3, BoundedMeans DEF LoginIInv
<1> QED  BY <1>3, <1>4 DEF Post

\* The outcome: a failure counts one more and has one thread fewer still asking.
LEMMA AnswerStays ==
    ASSUME LoginIInv, NEW t \in Threads, Answer(t)
    PROVE  LoginIInv'
<1> DEFINE n == Cardinality(Asking)
<1>1. LoginTypeOK /\ Within(count, n)
  BY BoundedMeans DEF LoginIInv
<1>2. /\ MaxAttempts \in Nat \ {0} /\ Lockout \in Nat \ {0}
      /\ Cardinality(Threads) \in Nat \ {0}
      /\ count \in Nat /\ age \in 0..Lockout
  BY <1>1, LoginConstants DEF LoginTypeOK
<1>3. \E status \in {"302", "401", "403", "500"} : Send(t, status)
  BY DEF Answer, Fail, Succeed, Unavailable
<1>4. /\ response' \in [Threads -> {"none", "asking", "302", "401", "403", "429", "500"}]
      /\ Asking' = Asking \ {t}
  BY <1>1, <1>3, SendMeans
<1>5. t \in Asking
  BY DEF Answer, Fail, Succeed, Unavailable, Asking
<1>6. n \in 1..Cardinality(Threads) /\ Cardinality(Asking') = n - 1
  BY <1>2, <1>4, <1>5, AskingCounted
<1> HIDE DEF n
<1>7. CASE Fail(t)
  <2>1. count' = count + 1 /\ age' = 0
    BY <1>7 DEF Fail, RecordFailure
  <2>2. LoginTypeOK'
    BY <1>2, <1>4, <2>1 DEF LoginTypeOK
  <2>3. Within(count', n - 1)
    BY <1>1, <1>2, <1>6, <2>1 DEF Within
  <2> QED  BY <1>6, <2>2, <2>3, BoundedMeans DEF LoginIInv
<1>8. CASE Succeed(t)
  <2>1. count' = 0 /\ age' = Lockout
    BY <1>8 DEF Succeed, Clear
  <2>2. LoginTypeOK'
    BY <1>2, <1>4, <2>1 DEF LoginTypeOK
  <2>3. Within(count', n - 1)
    BY <1>1, <1>2, <1>6, <2>1 DEF Within
  <2> QED  BY <1>6, <2>2, <2>3, BoundedMeans DEF LoginIInv
<1>9. CASE Unavailable(t)
  <2>1. count' = count /\ age' = age
    BY <1>9 DEF Unavailable
  <2>2. LoginTypeOK'
    BY <1>2, <1>4, <2>1 DEF LoginTypeOK
  <2>3. Within(count', n - 1)
    BY <1>1, <1>2, <1>6, <2>1 DEF Within
  <2> QED  BY <1>6, <2>2, <2>3, BoundedMeans DEF LoginIInv
<1> QED  BY <1>7, <1>8, <1>9 DEF Answer

LEMMA LoginInductive ==
    LoginIInv /\ [LoginNext]_loginvars => LoginIInv'
<1> SUFFICES ASSUME LoginIInv, [LoginNext]_loginvars
             PROVE  LoginIInv'
  OBVIOUS
<1>1. /\ MaxAttempts \in Nat \ {0} /\ Lockout \in Nat \ {0}
      /\ Cardinality(Threads) \in Nat \ {0}
      /\ count \in Nat /\ age \in 0..Lockout
      /\ LoginTypeOK /\ Within(count, Cardinality(Asking))
  BY LoginConstants, BoundedMeans DEF LoginIInv, LoginTypeOK
<1>2. ASSUME NEW t \in Threads, Post(t) \/ Answer(t)
      PROVE  LoginIInv'
  BY <1>2, PostStays, AnswerStays
<1>3. CASE Tick
  <2>1. count' = count /\ response' = response /\ age' \in 0..Lockout
    BY <1>1, <1>3 DEF Tick
  <2>2. LoginTypeOK'
    BY <1>1, <2>1 DEF LoginTypeOK
  <2>3. Within(count', Cardinality(Asking'))
    BY <1>1, <2>1 DEF Within, Asking
  <2> QED  BY <2>2, <2>3, BoundedMeans DEF LoginIInv
<1>4. CASE Restart
  <2>1. count' = 0 /\ age' = Lockout /\ response' = [t \in Threads |-> "none"]
    BY <1>4 DEF Restart
  <2>2. LoginTypeOK'
    BY <1>1, <2>1 DEF LoginTypeOK
  <2>3. Within(count', Cardinality(Asking'))
    BY <1>1, <2>1 DEF Within
  <2> QED  BY <2>2, <2>3, BoundedMeans DEF LoginIInv
<1>5. CASE UNCHANGED loginvars
  BY <1>5 DEF loginvars, LoginIInv, LoginTypeOK, FailuresBounded, Asking
<1> QED  BY <1>2, <1>3, <1>4, <1>5 DEF LoginNext

\* A client's entry keeps its type, whatever threads do at the same time (web_admin.py,
\* LoginThrottle and login).
THEOREM LoginTypeCorrect ==
    LoginSpec => []LoginTypeOK
<1>1. LoginIInv => LoginTypeOK
  BY DEF LoginIInv
<1> QED  BY LoginStartsRight, LoginInductive, <1>1, PTL DEF LoginSpec

\* However many threads ask PAM between locked_for and record_failure, a client has at
\* most MaxAttempts - 1 failures and one for each of them before it is locked out
\* (web_admin.py, locked_for, record_failure and login).
THEOREM FailuresAlwaysBounded ==
    LoginSpec => []FailuresBounded
<1>1. LoginIInv => FailuresBounded
  BY DEF LoginIInv
<1> QED  BY LoginStartsRight, LoginInductive, <1>1, PTL DEF LoginSpec

=============================================================================
