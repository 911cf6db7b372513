---------------------------- MODULE ServiceSync -----------------------------
(***************************************************************************)
(* getServices (tools/serviceTools.ts) as the incremental sync its         *)
(* description tells a caller to run: a first page, then the services      *)
(* updated since the highest updatedAt seen, while the node goes on.  The  *)
(* node's filters are external, modelled from serviceListFiltersSchema.    *)
(*                                                                         *)
(* A behaviour follows the services one way, by the status calls of        *)
(* ServiceStatus or by this sync: the two share only the node.             *)
(***************************************************************************)
EXTENDS ServiceStatus

CONSTANTS
  MaxClock,       \* bound: ticks of the node's clock
  SyncLifecycle,  \* the node's status changes while a caller syncs; the node
                  \* forgets no service
  FirstPages,     \* filters of the first page
  NoCursor

ASSUME ServiceSyncAssumption ==
  /\ MaxClock \in Nat \ {0}
  /\ SyncLifecycle \subseteq Statuses \X (Statuses \ {Absent})
  /\ FirstPages \subseteq {"reserved", "all"}
  /\ NoCursor \notin Nat

VARIABLES
  way,        \* how this behaviour follows the services
  clock,      \* the node's clock
  updatedAt,  \* when each service last changed
  sync,       \* where the caller stands
  page,       \* the node's last answer: the status and updatedAt of its rows
  cursor,     \* the last syncCursor, or NoCursor
  mirror,     \* the statuses the caller knows, Absent for a service it does not
  snapshot    \* history: the node's statuses when it last answered

syncVars == <<way, clock, updatedAt, sync, page, cursor, mirror, snapshot>>
callVars == <<pc, target, waiting, waitTimeout, current, waited, timedOut,
              kind, polls>>
allVars == <<vars, syncVars>>

NoPage == [i \in {} |-> Absent]

\* Only Expired releases a reservation.
Reserved(n) == n \notin {Absent, 75}

-----------------------------------------------------------------------------
SyncInit ==
  /\ Init
  /\ way \in {"polling", "syncing"}
  /\ way = "syncing" => \A i \in Ids : kind[i] = "service"
  /\ clock = 1
  /\ updatedAt = [i \in Ids |-> 0]
  /\ sync = "idle"
  /\ page = NoPage
  /\ cursor = NoCursor
  /\ mirror = [i \in Ids |-> Absent]
  /\ snapshot = mirror

\* The caller asks for a page.
Request ==
  /\ sync = "idle" /\ sync' = "asked"
  /\ UNCHANGED <<node, way, clock, updatedAt, page, cursor, mirror, snapshot>>

\* The node sends the rows of now: those of the first page's filter, or every
\* service, whatever its status, that changed at or after the cursor.
Rows(first) ==
  IF cursor = NoCursor
  THEN {i \in Ids : status[i] # Absent /\ (first = "all" \/ Reserved(status[i]))}
  ELSE {i \in Ids : status[i] # Absent /\ updatedAt[i] >= cursor}

SendPage(first) ==
  /\ sync = "asked" /\ sync' = "sent"
  /\ page' = [i \in Rows(first) |-> [status |-> status[i], updatedAt |-> updatedAt[i]]]
  /\ snapshot' = status
  /\ UNCHANGED <<node, way, clock, updatedAt, cursor, mirror>>

\* The request fails: the caller keeps its cursor and asks again.
PageFails ==
  /\ sync = "asked" /\ sync' = "idle"
  /\ UNCHANGED <<node, way, clock, updatedAt, page, cursor, mirror, snapshot>>

Times(rows) == {rows[i].updatedAt : i \in DOMAIN rows}

\* Faulty variant: the cursor points past the last change seen.
syncCursorPast(rows) == {n + 1 : n \in {m \in Times(rows) : \A t \in Times(rows) : t <= m}}

\* The highest updatedAt of the rows, as the set of the one cursor; a relation,
\* which spares the proofs that a maximum exists.
syncCursor(rows) == {n \in Times(rows) : \A t \in Times(rows) : t <= n}

\* The handler computes the cursor, which an empty page does not have, and the
\* caller takes over rows and cursor.
TakePage ==
  /\ sync = "sent" /\ sync' = "idle"
  /\ cursor' \in IF page = NoPage THEN {cursor} ELSE syncCursor(page)
  /\ mirror' = [i \in Ids |-> IF i \in DOMAIN page THEN page[i].status ELSE mirror[i]]
  /\ page' = NoPage
  /\ UNCHANGED <<node, way, clock, updatedAt, snapshot>>

\* The node creates a service or moves it along (external).
ServiceChanges(i) ==
  /\ NodeMoves(i, SyncLifecycle)
  /\ updatedAt' = [updatedAt EXCEPT ![i] = clock]
  /\ UNCHANGED <<way, clock, sync, page, cursor, mirror, snapshot>>

Tick ==
  /\ clock < MaxClock /\ clock' = clock + 1
  /\ UNCHANGED <<node, way, updatedAt, sync, page, cursor, mirror, snapshot>>

Syncing ==
  /\ way = "syncing"
  /\ \/ Request \/ PageFails \/ TakePage \/ Tick
     \/ \E first \in FirstPages : SendPage(first)
     \/ \E i \in Ids : ServiceChanges(i)
  /\ UNCHANGED callVars

Polling == way = "polling" /\ Next /\ UNCHANGED syncVars

SyncSpec == SyncInit /\ [][Polling \/ Syncing]_allVars
FollowSpec == SyncSpec /\ Answered

-----------------------------------------------------------------------------
(***************************************************************************)
(* Properties.                                                             *)
(***************************************************************************)
\* Every variable holds a value of its kind.
FollowTypeOK ==
  /\ TypeOK
  /\ clock \in 1..MaxClock
  /\ updatedAt \in [Ids -> 0..clock]
  /\ sync \in {"idle", "asked", "sent"}
  /\ \A i \in DOMAIN page :
       i \in Ids /\ page[i] \in [status : Statuses, updatedAt : 0..clock]
  /\ cursor \in Nat \cup {NoCursor}
  /\ mirror \in [Ids -> Statuses]
  /\ snapshot \in [Ids -> Statuses]

\* A caller who feeds the cursor back has, after every page, all the services
\* that held a reservation when the page was made, and all it knew before, in
\* the status they then had: a change in the very tick of a page, between page
\* and request, on an empty page or while a request fails is not lost.
SyncMissesNothing ==
  sync = "idle" /\ cursor # NoCursor =>
    \A i \in Ids : Reserved(snapshot[i]) \/ mirror[i] # Absent => mirror[i] = snapshot[i]
=============================================================================
