----------------------------- MODULE EventStore -----------------------------
(***************************************************************************)
(* The event history: EventStore, which the main thread writes, and a walk *)
(* through the History page of the web admin, which reads with EventReader *)
(* (event_store.py; web_admin.py, history_page; templates/history.html).   *)
(* An event is the number of the log() call that brought it: ids are       *)
(* AUTOINCREMENT and grow the same way, so that a table is a set of events *)
(* and ORDER BY id the order of their numbers.  SQLite's part is taken     *)
(* from how the code uses it: DML opens a transaction, and nothing rolls   *)
(* one back when a commit has failed.                                      *)
(***************************************************************************)
EXTENDS Integers, FiniteSets

CONSTANTS
    MaxEvents,      \* bound: calls of log()
    PageSize        \* page_size

ASSUME EventAssumption == MaxEvents \in Nat /\ PageSize \in Nat \ {0}

VARIABLES
    service,        \* "down", "up", or "blind": up without a database
    events,         \* calls of log() so far
    table,          \* the committed rows
    work,           \* the rows as the writer sees them, with its open transaction
    synced,         \* what a power loss leaves of the table (synchronous=NORMAL)
    expired,        \* events up to this one are past the retention
    recorded,       \* history: events whose log() did not fail
    page,           \* the page that is shown or loading, 0 for none
    total,          \* what count() returned for it
    loading,        \* count() has returned, recent() has not been called
    links,          \* the page has rows, and with them a pager
    begun,          \* history: the rows there were when page 1 was asked for
    shown           \* history: the rows of the pages since then

walk == <<page, total, loading, links, begun, shown>>
vars == <<service, events, table, work, synced, expired, recorded, walk>>

----------------------------------------------------------------------------
(* The writer *)

\* A statement changes what the writer sees; its commit makes that the table, or fails
\* and leaves the transaction open, or fails and SQLite rolls it back.
Committed(rows) == work' = rows /\ table' = rows
CommitFails(rows) == work' \in {rows, table} /\ UNCHANGED table

Inserted == work \cup {events + 1}

\* log().
Log ==
    /\ service = "up"
    /\ events < MaxEvents
    /\ events' = events + 1
    /\ Committed(Inserted)
    /\ recorded' = recorded \cup {events + 1}
    /\ UNCHANGED <<service, synced, expired, walk>>

\* The insert raises, or the commit does.
LogFails ==
    /\ service = "up"
    /\ events < MaxEvents
    /\ events' = events + 1
    /\ \/ UNCHANGED <<work, table>>
       \/ CommitFails(Inserted)
    /\ UNCHANGED <<service, synced, expired, recorded, walk>>

\* No connection: the event is not recorded.
LogNowhere ==
    /\ service = "blind"
    /\ events < MaxEvents
    /\ events' = events + 1
    /\ UNCHANGED <<service, table, work, synced, expired, recorded, walk>>

\* prune(): DELETE ... WHERE ts < cutoff.
Expired(e) == e <= expired
Kept(rows) == {e \in rows : ~Expired(e)}
PruneTo(rows) ==
    /\ service = "up"
    /\ Committed(rows) \/ CommitFails(rows)
    /\ UNCHANGED <<service, events, synced, expired, recorded, walk>>
PruneToday == PruneTo({e \in work : e > expired + 1})
Prune == PruneTo(Kept(work))

\* setup(), which prunes, or fails and leaves no connection.
Start ==
    /\ service = "down"
    /\ \/ service' = "up" /\ (Committed(Kept(work)) \/ CommitFails(Kept(work)))
       \/ service' = "blind" /\ UNCHANGED <<table, work>>
    /\ UNCHANGED <<events, synced, expired, recorded, walk>>

\* close(), or the process dies: the open transaction is gone.
StopWith(rows) ==
    /\ service # "down"
    /\ service' = "down"
    /\ work' = rows
    /\ UNCHANGED <<events, table, synced, expired, recorded, walk>>
StopKeeping == StopWith(work)
Stop == StopWith(table)

\* Time passes.
Age ==
    /\ expired < events
    /\ expired' = expired + 1
    /\ UNCHANGED <<service, events, table, work, synced, recorded, walk>>

\* SQLite checkpoints the WAL, which syncs it.
Checkpoint ==
    /\ synced' = table
    /\ UNCHANGED <<service, events, table, work, expired, recorded, walk>>

\* The Pi loses power, and the web admin with it: commits since the last sync are lost,
\* also those of a prune.
PowerLoss ==
    /\ service' = "down"
    /\ table' = synced
    /\ work' = synced
    /\ recorded' = recorded \cap synced
    /\ page' = 0 /\ total' = 0 /\ loading' = FALSE /\ links' = FALSE
    /\ begun' = {} /\ shown' = {}
    /\ UNCHANGED <<events, synced, expired>>

----------------------------------------------------------------------------
(* The reader: history_page asks count() and then recent(), each on a connection of its
   own; count() returns 0 and recent() nothing when they fail. *)

Pages == (total + PageSize - 1) \div PageSize

Count(p) ==
    /\ loading' = TRUE
    /\ page' = p
    /\ total' \in {Cardinality(table), 0}
    /\ UNCHANGED <<service, events, table, work, synced, expired, recorded, links>>

Open ==
    /\ ~loading
    /\ Count(1)
    /\ begun' = table
    /\ shown' = {}

\* The links of the pager.
Older ==
    /\ ~loading /\ links /\ page < Pages
    /\ Count(page + 1)
    /\ UNCHANGED <<begun, shown>>
Newer ==
    /\ ~loading /\ links /\ page > 1
    /\ Count(page - 1)
    /\ UNCHANGED <<begun, shown>>

\* ORDER BY id DESC LIMIT page_size OFFSET offset
Rank(e) == Cardinality({d \in table : d > e})
Rows(offset) == {e \in table : offset <= Rank(e) /\ Rank(e) < offset + PageSize}

RecentFrom(offset) ==
    /\ loading
    /\ loading' = FALSE
    /\ \E rows \in {Rows(offset), {}} :
        /\ links' = (rows # {})
        /\ shown' = shown \cup rows
    /\ UNCHANGED <<service, events, table, work, synced, expired, recorded>>
    /\ UNCHANGED <<page, total, begun>>
RecentFromZero == RecentFrom(page * PageSize)
Recent == RecentFrom((page - 1) * PageSize)

----------------------------------------------------------------------------
Init ==
    /\ service = "down"
    /\ events = 0
    /\ table = {} /\ work = {} /\ synced = {}
    /\ expired = 0
    /\ recorded = {}
    /\ page = 0 /\ total = 0 /\ loading = FALSE /\ links = FALSE
    /\ begun = {} /\ shown = {}

Next ==
    \/ Log \/ LogFails \/ LogNowhere \/ Prune
    \/ Start \/ Stop \/ Age \/ Checkpoint \/ PowerLoss
    \/ Open \/ Older \/ Newer \/ Recent

Spec == Init /\ [][Next]_vars

----------------------------------------------------------------------------
(* Properties *)

\* Every variable keeps its type; no transaction outlives its connection.
TypeOK ==
    /\ service \in {"down", "up", "blind"}
    /\ events \in 0..MaxEvents
    /\ table \cup work \cup synced \subseteq 1..events
    /\ service # "up" => work = table
    /\ expired \in 0..events
    /\ recorded \subseteq 1..events
    /\ page \in Nat
    /\ total \in 0..MaxEvents
    /\ {loading, links} \subseteq BOOLEAN
    /\ begun \cup shown \subseteq 1..events

\* The history tells what happened: nothing that was recorded is missing before its
\* retention is over, although transactions stay open after a failed commit, end with
\* the process, and go to disk with a later event.  (What a power loss takes is no longer
\* counted as recorded.)
HistoryIsFaithful == \A e \in recorded : e \in table \/ Expired(e)

\* Who pages towards older events misses none: whatever is logged or pruned meanwhile,
\* every row that was there at the start and still is has been shown once the walk has
\* come as far as that row, unless a page failed to load.
NoRowSkipped ==
    \A e \in begun \cap table : (\E d \in shown : d <= e) => e \in shown

=============================================================================
