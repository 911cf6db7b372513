------------------------- MODULE ServiceSyncProofs --------------------------
(***************************************************************************)
(* A caller that follows services misses nothing, and a wait ends for a    *)
(* reason: for any number of services, jobs and calls, any lifecycle, any  *)
(* budget and poll interval.                                               *)
(***************************************************************************)
EXTENDS ServiceSync, SequenceTheorems, FiniteSetTheorems, TLAPS

(***************************************************************************)
(* The sync.  The promise says nothing of the moment between a page and    *)
(* its taking over, and would not survive it: the invariant ties what      *)
(* changed since the snapshot to the cursor the caller has, or is about    *)
(* to have.                                                                *)
(***************************************************************************)
\* What is known of i is what the snapshot shows.
UpToDate(i) ==
  Reserved(snapshot[i]) \/ mirror[i] # Absent => mirror[i] = snapshot[i]

\* Types, clocks, and the caller's place.
SyncTypes ==
  /\ clock \in Nat
  /\ updatedAt \in [Ids -> Nat] /\ \A i \in Ids : updatedAt[i] <= clock
  /\ status \in [Ids -> Statuses]
  /\ mirror \in [Ids -> Statuses]
  /\ snapshot \in [Ids -> Statuses]
  /\ sync \in {"idle", "asked", "sent"}
  /\ cursor \in Nat \cup {NoCursor}
  /\ DOMAIN page \subseteq Ids
  /\ page = [i \in DOMAIN page |-> page[i]]
  /\ \A i \in DOMAIN page : page[i].updatedAt \in Nat

\* Without a sync nothing is known; before the first cursor neither.
NothingKnown ==
  /\ way # "syncing" => sync = "idle" /\ cursor = NoCursor
  /\ cursor = NoCursor => \A i \in Ids : mirror[i] = Absent

\* What the caller knows of is there, and what changed since the snapshot
\* changed at the cursor or later.
CursorCovers ==
  /\ \A i \in Ids : mirror[i] # Absent => status[i] # Absent
  /\ cursor # NoCursor =>
       /\ cursor <= clock
       /\ \A i \in Ids : status[i] # snapshot[i] => cursor <= updatedAt[i]
       /\ sync # "sent" => \A i \in Ids : UpToDate(i)

\* A page under way shows the snapshot, what it leaves out was known, and what
\* changed since changed no earlier than any of its rows.
PageCovers ==
  sync = "sent" =>
    /\ \A j \in DOMAIN page :
         /\ page[j].status = snapshot[j] /\ status[j] # Absent
         /\ page[j].updatedAt <= clock
         /\ \A i \in Ids : status[i] # snapshot[i] => page[j].updatedAt <= updatedAt[i]
    /\ \A i \in Ids \ DOMAIN page :
         IF cursor = NoCursor THEN ~Reserved(snapshot[i]) ELSE UpToDate(i)

SyncInv == SyncTypes /\ NothingKnown /\ CursorCovers /\ PageCovers

USE DEF Reserved, UpToDate

\* Nothing is known and nothing was sent.
LEMMA InitSync == SyncInit => SyncInv
<1> SUFFICES ASSUME SyncInit PROVE SyncInv
  OBVIOUS
<1>1. status \in [Ids -> Statuses]
  BY ServiceStatusAssumption DEF SyncInit, Init
<1>2. Absent \in Statuses
  BY DEF Statuses
<1> QED
  BY <1>1, <1>2, ServiceSyncAssumption DEF SyncInit, SyncInv, SyncTypes, NothingKnown,
     CursorCovers, PageCovers, NoPage

\* A status moves along an edge, and no other status with it.
LEMMA StatusMoves ==
  ASSUME SyncTypes, NEW i \in Ids, NEW lifecycle \in SUBSET (Statuses \X Statuses),
         NodeMoves(i, lifecycle)
  PROVE  /\ status' \in [Ids -> Statuses]
         /\ \A j \in Ids \ {i} : status'[j] = status[j]
         /\ <<status[i], status'[i]>> \in lifecycle
<1>1. PICK n \in {step[2] : step \in {s \in lifecycle : s[1] = status[i]}} :
        status' = [status EXCEPT ![i] = n]
  BY DEF NodeMoves
<1>2. PICK s \in lifecycle : s[1] = status[i] /\ s[2] = n
  OBVIOUS
<1>3. s \in Statuses \X Statuses /\ s = <<status[i], n>>
  BY <1>2
<1> QED
  BY <1>1, <1>2, <1>3 DEF SyncTypes

\* What an id is never changes.
LEMMA KindsStay == SyncSpec => [](kind \in KindChoices)
<1>1. SyncInit => kind \in KindChoices
  BY DEF SyncInit, Init, PollsInit
<1>2. kind \in KindChoices /\ [Polling \/ Syncing]_allVars => (kind \in KindChoices)'
  BY DEF Polling, Syncing, callVars, allVars, vars, Next, Ask, AskService, AskJob, Reply,
     RequestFails, StartSleep, Wake, Answer
<1> QED
  BY <1>1, <1>2, PTL DEF SyncSpec

\* A poller has no cursor, so nothing is promised to it.
LEMMA PollingKeepsSync == kind \in KindChoices /\ SyncInv /\ Polling => SyncInv'
<1> SUFFICES ASSUME kind \in KindChoices, SyncInv, Polling PROVE SyncInv'
  OBVIOUS
<1>1. CASE \E i \in Ids : NodeMoves(i, Lifecycle[kind[i]])
  <2>1. PICK i \in Ids : NodeMoves(i, Lifecycle[kind[i]])
    BY <1>1
  <2>2. Lifecycle[kind[i]] \in SUBSET (Statuses \X Statuses)
    BY PollTrackerAssumption, ServiceStatusAssumption
  <2>3. status' \in [Ids -> Statuses]
    BY <2>1, <2>2, StatusMoves DEF SyncInv
  <2> QED
    BY <2>1, <2>3 DEF Polling, syncVars, SyncInv, SyncTypes, NothingKnown, CursorCovers,
       PageCovers
<1>2. CASE status' = status
  BY <1>2 DEF Polling, syncVars, SyncInv, SyncTypes, NothingKnown, CursorCovers, PageCovers
<1> QED
  BY <1>1, <1>2 DEF Polling, Next, Ask, AskService, AskJob, Reply, RequestFails,
     StartSleep, Wake, Answer, node

\* The caller asks, or is refused.
LEMMA RequestKeepsSync ==
  ASSUME SyncInv, way = "syncing", Request \/ PageFails PROVE SyncInv'
<1>1. /\ sync # "sent" /\ sync' \in {"idle", "asked"}
      /\ UNCHANGED <<status, way, clock, updatedAt, page, cursor, mirror, snapshot>>
  BY DEF Request, PageFails, node
<1> QED
  BY <1>1 DEF SyncInv, SyncTypes, NothingKnown, CursorCovers, PageCovers

\* The clock goes up only.
LEMMA TickKeepsSync == SyncInv /\ Tick => SyncInv'
BY DEF SyncInv, SyncTypes, NothingKnown, CursorCovers, PageCovers, Tick, node

\* A change is stamped with a clock that no cursor and no row is past.
LEMMA ChangeKeepsSync ==
  ASSUME SyncInv, way = "syncing", NEW i \in Ids, ServiceChanges(i) PROVE SyncInv'
<1>1. /\ status' \in [Ids -> Statuses]
      /\ \A j \in Ids \ {i} : status'[j] = status[j]
      /\ status'[i] # Absent
  <2>1. SyncLifecycle \in SUBSET (Statuses \X Statuses)
    BY ServiceSyncAssumption
  <2>2. <<status[i], status'[i]>> \in SyncLifecycle
    BY <2>1, StatusMoves DEF ServiceChanges, SyncInv
  <2> QED
    BY <2>1, <2>2, StatusMoves, ServiceSyncAssumption DEF ServiceChanges, SyncInv
<1>2. updatedAt' = [updatedAt EXCEPT ![i] = clock]
  BY DEF ServiceChanges
<1>3. UNCHANGED <<way, clock, sync, page, cursor, mirror, snapshot>>
  BY DEF ServiceChanges
<1>4. SyncTypes' /\ NothingKnown'
  BY <1>1, <1>2, <1>3 DEF SyncInv, SyncTypes, NothingKnown
<1>5. CursorCovers'
  BY <1>1, <1>2, <1>3 DEF SyncInv, SyncTypes, CursorCovers
<1>6. PageCovers'
  BY <1>1, <1>2, <1>3 DEF SyncInv, SyncTypes, PageCovers
<1> QED
  BY <1>4, <1>5, <1>6 DEF SyncInv

\* What a page leaves out did not change since the last one, or is not there.
LEMMA SendKeepsSync ==
  ASSUME SyncInv, way = "syncing", NEW first \in FirstPages, SendPage(first)
  PROVE  SyncInv'
<1>1. /\ sync = "asked" /\ sync' = "sent" /\ snapshot' = status
      /\ page' = [i \in Rows(first) |-> [status |-> status[i], updatedAt |-> updatedAt[i]]]
      /\ UNCHANGED <<status, way, clock, updatedAt, cursor, mirror>>
  BY DEF SendPage, node
<1>2. Rows(first) \subseteq Ids
  BY DEF Rows
<1>3. DOMAIN page' = Rows(first)
  BY <1>1
<1>4. \A j \in Rows(first) : page'[j].status = status[j] /\ page'[j].updatedAt = updatedAt[j]
  BY <1>1
<1>5. SyncTypes' /\ NothingKnown'
  BY <1>1, <1>2, <1>3, <1>4 DEF SyncInv, SyncTypes, NothingKnown
<1>6. CursorCovers'
  BY <1>1 DEF SyncInv, SyncTypes, CursorCovers
<1>7. \A i \in Ids \ Rows(first) :
        IF cursor = NoCursor THEN ~Reserved(status[i])
        ELSE Reserved(status[i]) \/ mirror[i] # Absent => mirror[i] = status[i]
  BY <1>1 DEF Rows, SyncInv, SyncTypes, CursorCovers
<1>8. \A j \in Rows(first) : status[j] # Absent /\ updatedAt[j] <= clock
  BY DEF Rows, SyncInv, SyncTypes
<1>9. PageCovers'
  BY <1>1, <1>2, <1>3, <1>4, <1>7, <1>8 DEF PageCovers
<1> QED
  BY <1>5, <1>6, <1>9 DEF SyncInv

\* The new cursor is a row's, so all that changed since the page is past it.
LEMMA TakeKeepsSync == SyncInv /\ TakePage => SyncInv'
<1> SUFFICES ASSUME SyncInv, TakePage PROVE SyncInv'
  OBVIOUS
<1>1. /\ sync = "sent" /\ sync' = "idle"
      /\ mirror' = [i \in Ids |-> IF i \in DOMAIN page THEN page[i].status ELSE mirror[i]]
      /\ page' = NoPage
      /\ UNCHANGED <<status, way, clock, updatedAt, snapshot>>
  BY DEF TakePage, node
<1>2. \A i \in Ids : mirror'[i] = IF i \in DOMAIN page THEN snapshot[i] ELSE mirror[i]
  BY <1>1 DEF SyncInv, PageCovers
<1>3. mirror' \in [Ids -> Statuses]
  BY <1>1, <1>2 DEF SyncInv, SyncTypes
<1>4. DOMAIN NoPage = {} /\ NoPage = [i \in DOMAIN NoPage |-> NoPage[i]]
  BY DEF NoPage
<1>5. CASE page = NoPage
  <2>1. cursor' = cursor
    BY <1>5 DEF TakePage
  <2>2. mirror' = mirror
    BY <1>1, <1>4, <1>5 DEF SyncInv, SyncTypes
  <2> QED
    BY <1>1, <1>4, <1>5, <2>1, <2>2
    DEF SyncInv, SyncTypes, NothingKnown, CursorCovers, PageCovers
<1>6. CASE page # NoPage
  <2>1. PICK j \in DOMAIN page : cursor' = page[j].updatedAt
    BY <1>6 DEF TakePage, syncCursor, Times
  <2>2. /\ cursor' \in Nat /\ cursor' <= clock /\ cursor' # NoCursor
        /\ \A i \in Ids : status[i] # snapshot[i] => cursor' <= updatedAt[i]
    BY <1>1, <2>1, ServiceSyncAssumption DEF SyncInv, SyncTypes, PageCovers
  <2>3. \A i \in Ids : UpToDate(i)'
    BY <1>1, <1>2 DEF SyncInv, PageCovers, NothingKnown
  <2>4. \A i \in Ids : mirror'[i] # Absent => status[i] # Absent
    BY <1>1, <1>2 DEF SyncInv, PageCovers, CursorCovers
  <2>5. way = "syncing"
    BY <1>1 DEF SyncInv, NothingKnown
  <2> QED
    BY <1>1, <1>3, <1>4, <2>2, <2>3, <2>4, <2>5
    DEF SyncInv, SyncTypes, NothingKnown, CursorCovers, PageCovers
<1> QED
  BY <1>5, <1>6

\* Every step keeps the invariant.
LEMMA NextKeepsSync ==
  kind \in KindChoices /\ SyncInv /\ [Polling \/ Syncing]_allVars => SyncInv'
<1> SUFFICES ASSUME kind \in KindChoices, SyncInv, [Polling \/ Syncing]_allVars PROVE SyncInv'
  OBVIOUS
<1>1. CASE UNCHANGED allVars
  BY <1>1 DEF allVars, vars, node, syncVars, SyncInv, SyncTypes, NothingKnown,
     CursorCovers, PageCovers
<1>2. CASE Polling
  BY <1>2, PollingKeepsSync
<1>3. CASE Syncing
  BY <1>3, RequestKeepsSync, TickKeepsSync, ChangeKeepsSync, SendKeepsSync,
     TakeKeepsSync DEF Syncing
<1> QED
  BY <1>1, <1>2, <1>3

\* getServices' cursor keeps what its description says: a caller that feeds it
\* back misses no change, whatever changes while a page is on its way and
\* whichever requests fail, for any number of services and any lifecycle in
\* which the node forgets none.
THEOREM NothingIsMissed == SyncSpec => []SyncMissesNothing
<1>1. SyncInv => SyncMissesNothing
  BY DEF SyncInv, CursorCovers, SyncMissesNothing
<1> QED
  BY <1>1, InitSync, KindsStay, NextKeepsSync, PTL DEF SyncSpec
-----------------------------------------------------------------------------
(***************************************************************************)
(* The waits.  A sleep is begun below the budget, which is how the wait is *)
(* bounded: the cap is a whole number of sleeps, so one begun below it     *)
(* ends within it.  An answer keeps its reason because it stays as it was  *)
(* given.                                                                  *)
(***************************************************************************)
\* What is known of one call.
WaitOf(c) ==
  /\ waited[c] \in Nat
  /\ \E n \in Nat : waited[c] = WAIT_POLL_INTERVAL * n
  /\ waitTimeout[c] \in WaitTimeouts \cup {NoTimeout}
  /\ pc[c] = "idle" => waited[c] = 0
  /\ pc[c] = "sleeping" => waited[c] < Budget(waitTimeout[c])
  /\ WaitIsBounded(c)
  /\ pc[c] = "answered" /\ Waits(c) /\ ~Restarting(c) =>
       IF timedOut[c]
       THEN ~Settled(c) /\ waited[c] >= Budget(waitTimeout[c])
       ELSE Settled(c)

CallTypes ==
  /\ pc \in [Calls -> PCs]
  /\ target \in [Calls -> Ids \cup Kinds \cup {Nothing}]
  /\ waiting \in [Calls -> BOOLEAN]
  /\ waitTimeout \in [Calls -> WaitTimeouts \cup {NoTimeout}]
  /\ current \in [Calls -> [Ids -> Statuses]]
  /\ waited \in [Calls -> Nat]
  /\ timedOut \in [Calls -> BOOLEAN]

WaitInv == CallTypes /\ \A c \in Calls : WaitOf(c)

SameCall(c) ==
  /\ pc'[c] = pc[c] /\ target'[c] = target[c] /\ waiting'[c] = waiting[c]
  /\ waitTimeout'[c] = waitTimeout[c] /\ current'[c] = current[c]
  /\ waited'[c] = waited[c] /\ timedOut'[c] = timedOut[c]

\* A budget is no more than the cap, and no more than what was asked for.
LEMMA BudgetIsClamped ==
  ASSUME NEW timeout \in WaitTimeouts \cup {NoTimeout}
  PROVE  /\ Budget(timeout) \in Nat
         /\ Budget(timeout) <= MAX_WAIT_FOR_RUNNING_SECONDS
         /\ timeout # NoTimeout => timeout \in Nat /\ Budget(timeout) <= timeout
BY ServiceStatusAssumption DEF Budget

\* A sleep begun below the cap, after whole sleeps, ends within it.
LEMMA SleepFits ==
  ASSUME NEW w \in Nat, w < MAX_WAIT_FOR_RUNNING_SECONDS,
         \E n \in Nat : w = WAIT_POLL_INTERVAL * n
  PROVE  /\ w + WAIT_POLL_INTERVAL <= MAX_WAIT_FOR_RUNNING_SECONDS
         /\ \E n \in Nat : w + WAIT_POLL_INTERVAL = WAIT_POLL_INTERVAL * n
<1> DEFINE k == WAIT_POLL_INTERVAL
           max == MAX_WAIT_FOR_RUNNING_SECONDS
           m == max \div k
<1>1. k \in Nat \ {0} /\ max \in Nat /\ max % k = 0
  BY ServiceStatusAssumption
<1>2. PICK n \in Nat : w = k * n
  OBVIOUS
<1> HIDE DEF k, max
<1>3. m \in Int /\ max = k * m + (max % k)
  BY <1>1
<1> HIDE DEF m
<1>4. max = k * m
  BY <1>1, <1>3
<1>5. n + 1 \in Nat /\ k * (n + 1) = k * n + k /\ k * n \in Nat /\ k * m \in Int
  BY <1>1, <1>3
<1>6. ASSUME m <= n PROVE FALSE
  <2>1. k * m <= k * n
    BY <1>1, <1>3, <1>6
  <2> QED
    BY <1>2, <1>4, <1>5, <2>1 DEF max
<1>7. n + 1 <= m
  BY <1>3, <1>6
<1>8. k * (n + 1) <= k * m
  BY <1>1, <1>3, <1>7
<1> QED
  BY <1>2, <1>4, <1>5, <1>8 DEF k, max

\* A call that did not move is where it was.
LEMMA OthersStay ==
  ASSUME NEW c \in Calls, WaitOf(c), SameCall(c), kind' = kind
  PROVE  WaitOf(c)'
<1>1. Asked(c)' = Asked(c)
  BY DEF Asked, SameCall
<1>2. Settled(c)' = Settled(c) /\ Waits(c)' = Waits(c) /\ Restarting(c)' = Restarting(c)
  BY <1>1 DEF Settled, Waits, Restarting, SameCall
<1> QED
  BY <1>2 DEF WaitOf, WaitIsBounded, SameCall

\* No call has begun.
LEMMA InitWaits == SyncInit => WaitInv
<1> SUFFICES ASSUME SyncInit PROVE WaitInv
  OBVIOUS
<1>1. Absent \in Statuses
  BY DEF Statuses
<1>2. CallTypes
  BY <1>1 DEF SyncInit, Init, CallTypes, PCs
<1>3. \A c \in Calls : WaitOf(c)
  <2>1. 0 \in Nat /\ WAIT_POLL_INTERVAL * 0 = 0
    BY ServiceStatusAssumption
  <2> QED
    BY <2>1, ServiceStatusAssumption DEF SyncInit, Init, WaitOf, WaitIsBounded
<1> QED
  BY <1>2, <1>3 DEF WaitInv

\* A call begins: nothing was waited.
LEMMA AskKeepsWaits ==
  ASSUME WaitInv, NEW c \in Calls, Ask(c) PROVE WaitInv'
<1>1. PICK t \in Ids \cup Kinds :
        \/ \E wait \in WaitChoices, timeout \in WaitTimeouts \cup {NoTimeout} :
             AskService(c, t, wait, timeout)
        \/ AskJob(c, t)
  BY DEF Ask
<1>2. ASSUME NEW wait \in WaitChoices, NEW timeout \in WaitTimeouts \cup {NoTimeout},
             AskService(c, t, wait, timeout)
      PROVE  WaitInv'
  <2>1. CallTypes'
    BY <1>2, ServiceStatusAssumption DEF AskService, Move, WaitInv, CallTypes, PCs
  <2>2. \A d \in Calls \ {c} : SameCall(d)
    BY <1>2 DEF AskService, Move, WaitInv, CallTypes, SameCall
  <2>3. WaitOf(c)'
    <3>1. pc'[c] = "asking" /\ waitTimeout'[c] = timeout /\ waited' = waited /\ waited[c] = 0
      BY <1>2 DEF AskService, Move, WaitInv, CallTypes, WaitOf
    <3>2. WaitIsBounded(c)'
      BY <3>1, ServiceStatusAssumption DEF WaitIsBounded
    <3>3. waited[c] \in Nat /\ \E n \in Nat : waited[c] = WAIT_POLL_INTERVAL * n
      BY DEF WaitInv, WaitOf
    <3> QED
      BY <3>1, <3>2, <3>3 DEF WaitOf
  <2> QED
    BY <1>2, <2>1, <2>2, <2>3, OthersStay DEF AskService, WaitInv
<1>3. CASE AskJob(c, t)
  <2>1. CallTypes'
    BY <1>3 DEF AskJob, Move, WaitInv, CallTypes, PCs
  <2>2. \A d \in Calls \ {c} : SameCall(d)
    BY <1>3 DEF AskJob, Move, WaitInv, CallTypes, SameCall
  <2>3. WaitOf(c)'
    BY <1>3 DEF AskJob, Move, WaitInv, CallTypes, WaitOf, WaitIsBounded
  <2> QED
    BY <1>3, <2>1, <2>2, <2>3, OthersStay DEF AskJob, WaitInv
<1> QED
  BY <1>1, <1>2, <1>3

\* A call goes on.
LEMMA StepKeepsWaits ==
  ASSUME WaitInv, status \in [Ids -> Statuses], NEW c \in Calls,
         \/ Reply(c) \/ RequestFails(c) \/ StartSleep(c) \/ Wake(c) \/ Answer(c)
  PROVE  WaitInv'
<1> USE DEF Move
<1>0. kind' = kind
  BY DEF Reply, RequestFails, StartSleep, Wake, Answer
<1>1. CallTypes'
  <2>1. CASE Reply(c)
    <3>1. [i \in Ids |-> IF i \in Asked(c) THEN status[i] ELSE Absent] \in [Ids -> Statuses]
      BY DEF Statuses
    <3> QED
      BY <2>1, <3>1 DEF Reply, WaitInv, CallTypes, PCs
  <2>2. CASE RequestFails(c) \/ StartSleep(c)
    BY <2>2 DEF RequestFails, StartSleep, WaitInv, CallTypes, PCs
  <2>3. CASE Wake(c)
    BY <2>3, ServiceStatusAssumption DEF Wake, WaitInv, CallTypes, PCs
  <2>4. CASE Answer(c)
    <3>1. (Waits(c) /\ ~Settled(c)) \in BOOLEAN
      OBVIOUS
    <3> QED
      BY <2>4, <3>1 DEF Answer, Returns, WaitInv, CallTypes, PCs
  <2> QED
    BY <2>1, <2>2, <2>3, <2>4
<1>2. \A d \in Calls \ {c} : SameCall(d)
  BY DEF Reply, RequestFails, StartSleep, Wake, Answer, Returns, WaitInv, CallTypes, SameCall
<1>3. WaitOf(c)'
  <2>1. CASE Reply(c) \/ RequestFails(c)
    BY <2>1 DEF Reply, RequestFails, WaitInv, CallTypes, WaitOf, WaitIsBounded
  <2>2. CASE StartSleep(c)
    BY <2>2 DEF StartSleep, KeepsWaiting, WaitInv, CallTypes, WaitOf, WaitIsBounded
  <2>3. CASE Wake(c)
    <3>1. waited'[c] = waited[c] + WAIT_POLL_INTERVAL /\ pc'[c] = "asking"
      BY <2>3 DEF Wake, WaitInv, CallTypes
    <3>2. /\ waited[c] < Budget(waitTimeout[c]) /\ waited[c] \in Nat
          /\ \E n \in Nat : waited[c] = WAIT_POLL_INTERVAL * n
          /\ waitTimeout' = waitTimeout
      BY <2>3 DEF Wake, WaitInv, WaitOf
    <3>3. waitTimeout[c] \in WaitTimeouts \cup {NoTimeout}
      BY DEF WaitInv, WaitOf
    <3>4. /\ waited[c] < MAX_WAIT_FOR_RUNNING_SECONDS
          /\ waitTimeout[c] # NoTimeout => waitTimeout[c] \in Nat /\ waited[c] < waitTimeout[c]
      BY <3>2, <3>3, BudgetIsClamped, ServiceStatusAssumption
    <3>5. /\ waited'[c] <= MAX_WAIT_FOR_RUNNING_SECONDS
          /\ \E n \in Nat : waited'[c] = WAIT_POLL_INTERVAL * n
      BY <3>1, <3>2, <3>4, SleepFits
    <3>6. waited'[c] \in Nat /\ WaitIsBounded(c)'
      BY <3>1, <3>2, <3>4, <3>5, ServiceStatusAssumption DEF WaitIsBounded
    <3> QED
      BY <3>1, <3>2, <3>3, <3>5, <3>6 DEF WaitOf
  <2>4. CASE Answer(c)
    <3>1. /\ pc'[c] = "answered"
          /\ UNCHANGED <<target, waiting, waitTimeout, current, waited, kind>>
      BY <2>4 DEF Answer, Returns, WaitInv, CallTypes
    <3>2. Settled(c)' = Settled(c) /\ Waits(c)' = Waits(c)
      BY <3>1 DEF Settled, Asked, Waits
    <3>3. timedOut'[c] = (Waits(c) /\ ~Settled(c))
      BY <2>4 DEF Answer, Returns, WaitInv, CallTypes
    <3>4. ~KeepsWaiting(c)
      BY <2>4 DEF Answer, Returns
    <3>5. Budget(waitTimeout[c]) \in Nat /\ waited[c] \in Nat
      BY BudgetIsClamped DEF WaitInv, WaitOf
    <3>6. Waits(c) => IF Waits(c) /\ ~Settled(c)
                      THEN ~Settled(c) /\ waited[c] >= Budget(waitTimeout[c])
                      ELSE Settled(c)
      BY <3>4, <3>5 DEF KeepsWaiting
    <3>7. WaitIsBounded(c)'
      BY <3>1 DEF WaitInv, WaitOf, WaitIsBounded
    <3>8. \E n \in Nat : waited[c] = WAIT_POLL_INTERVAL * n
      BY DEF WaitInv, WaitOf
    <3> QED
      BY <3>1, <3>2, <3>3, <3>6, <3>7, <3>8 DEF WaitInv, WaitOf
  <2> QED
    BY <2>1, <2>2, <2>3, <2>4
<1> QED
  BY <1>0, <1>1, <1>2, <1>3, OthersStay DEF WaitInv

\* Every step keeps what is known of every call.
LEMMA NextKeepsWaits == SyncInv /\ WaitInv /\ [Polling \/ Syncing]_allVars => WaitInv'
<1> SUFFICES ASSUME SyncInv, WaitInv, [Polling \/ Syncing]_allVars PROVE WaitInv'
  OBVIOUS
<1>1. status \in [Ids -> Statuses]
  BY DEF SyncInv, SyncTypes
<1>2. CASE UNCHANGED <<pc, target, waiting, waitTimeout, current, waited, timedOut, kind>>
  <2>1. \A c \in Calls : SameCall(c)
    BY <1>2 DEF SameCall
  <2> QED
    BY <1>2, <2>1, OthersStay DEF WaitInv, CallTypes
<1>3. CASE \E c \in Calls : Ask(c)
  BY <1>3, AskKeepsWaits
<1>4. CASE \E c \in Calls :
             Reply(c) \/ RequestFails(c) \/ StartSleep(c) \/ Wake(c) \/ Answer(c)
  BY <1>1, <1>4, StepKeepsWaits
<1> QED
  BY <1>2, <1>3, <1>4 DEF Polling, Syncing, Next, allVars, vars, callVars

\* waitForRunning stays within its cap and never gives up before its budget is
\* used up, and its answer says which it was, for any interval and budget and any
\* cap of whole intervals, any number of overlapping calls, and services that move
\* or vanish as they like.
THEOREM WaitsEndForAReason == SyncSpec => []WaitEndsForAReason
<1>1. WaitInv => WaitEndsForAReason
  BY DEF WaitInv, WaitOf, WaitEndsForAReason
<1> QED
  BY <1>1, InitSync, InitWaits, KindsStay, NextKeepsSync, NextKeepsWaits, PTL DEF SyncSpec
-----------------------------------------------------------------------------
(***************************************************************************)
(* An answer is inspected row by row.  FoldLeft is a recursive function on *)
(* the sets of row numbers; that there is one, and what its last value is, *)
(* takes an induction over them.                                           *)
(***************************************************************************)
\* A set of numbers that holds 0, and a successor with each, holds all: the
\* first number it misses would have no predecessor in it.
LEMMA NatInductionOfSets ==
  ASSUME NEW S, 0 \in S, \A n \in Nat : n \in S => n + 1 \in S
  PROVE  Nat \subseteq S
<1> SUFFICES ASSUME NEW m \in Nat, m \notin S PROVE FALSE
  OBVIOUS
<1> DEFINE T == {0..n : n \in Nat \ S}
<1>1. T \subseteq FiniteSubsetsOf(Nat) /\ T # {}
  <2>1. \A n \in Nat : 0..n \in SUBSET Nat /\ IsFiniteSet(0..n)
    BY FS_Interval
  <2> QED
    BY <2>1 DEF FiniteSubsetsOf
<1>2. PICK x \in T : \A y \in T : ~(<<y, x>> \in StrictSubsetOrdering(Nat))
  <2> HIDE DEF T
  <2> QED
    BY <1>1, FS_StrictSubsetOrderingWellFounded, WFMin
<1>3. PICK n \in Nat : n \notin S /\ x = 0..n
  BY DEF T
<1>4. n - 1 \in Nat /\ n - 1 \notin S
  BY <1>3
<1>5. 0..(n - 1) \in T
  BY <1>4
<1>6. 0..(n - 1) \subseteq Nat /\ 0..(n - 1) \subseteq x /\ x # 0..(n - 1) /\ x \subseteq Nat
  BY <1>3, <1>4
<1>7. <<0..(n - 1), x>> \in StrictSubsetOrdering(Nat)
  BY <1>6 DEF StrictSubsetOrdering
<1> QED
  BY <1>2, <1>5, <1>7

\* The recursion behind FoldLeft, on the numbers up to k.
Folds(g, p, rows, k) ==
  g = [s \in SUBSET (1..k) |-> IF s = {} THEN p
                               ELSE inspect(g[s \ {Max(s)}], rows[Max(s)])]

\* The last number is the largest.
LEMMA MaxIs ==
  ASSUME NEW k \in Nat, NEW s \in SUBSET (1..k), k \in s
  PROVE  Max(s) = k
<1>1. \A y \in s : y \in Int /\ k >= y
  OBVIOUS
<1>2. \A x \in s : (\A y \in s : x >= y) => x = k
  BY <1>1
<1> QED
  BY <1>1, <1>2 DEF Max

\* Rows beyond the first k are folded in above those.
LEMMA OneMoreRow ==
  ASSUME NEW p, NEW rows, NEW k \in Nat, NEW g, Folds(g, p, rows, k)
  PROVE  \E h : Folds(h, p, rows, k + 1)
<1> DEFINE m == k + 1
           h == [s \in SUBSET (1..m) |->
                   IF m \in s THEN inspect(g[s \ {m}], rows[m]) ELSE g[s]]
<1>1. SUBSET (1..k) \subseteq SUBSET (1..m) /\ \A s \in SUBSET (1..k) : m \notin s
  OBVIOUS
<1>2. \A s \in SUBSET (1..k) : h[s] = g[s]
  BY <1>1
<1>3. ASSUME NEW s \in SUBSET (1..m)
      PROVE  h[s] = IF s = {} THEN p ELSE inspect(h[s \ {Max(s)}], rows[Max(s)])
  <2>1. CASE m \in s
    <3>1. Max(s) = m
      BY <2>1, MaxIs
    <3>2. s \ {m} \in SUBSET (1..k)
      OBVIOUS
    <3>3. h[s] = inspect(g[s \ {m}], rows[m])
      BY <2>1
    <3> HIDE DEF h, m
    <3> QED
      BY <1>2, <2>1, <3>1, <3>2, <3>3
  <2>2. CASE m \notin s
    <3>1. s \in SUBSET (1..k) /\ s \ {Max(s)} \in SUBSET (1..k)
      <4>1. \A e \in 1..m : e # m => e \in 1..k
        OBVIOUS
      <4> QED
        BY <2>2, <4>1
    <3>2. h[s] = g[s] /\ h[s \ {Max(s)}] = g[s \ {Max(s)}]
      BY <1>2, <3>1
    <3>3. g[s] = IF s = {} THEN p ELSE inspect(g[s \ {Max(s)}], rows[Max(s)])
      BY <3>1 DEF Folds
    <3> HIDE DEF h
    <3> QED
      BY <3>2, <3>3
  <2> QED
    BY <2>1, <2>2
<1>4. h = [s \in SUBSET (1..m) |-> h[s]]
  OBVIOUS
<1> HIDE DEF h
<1>5. Folds(h, p, rows, m)
  BY <1>3, <1>4 DEF Folds
<1> QED
  BY <1>5

\* The recursion has a solution over any number of rows.
LEMMA FoldsExist ==
  ASSUME NEW p, NEW rows, NEW n \in Nat
  PROVE  \E g : Folds(g, p, rows, n)
<1> DEFINE S == {k \in Nat : \E g : Folds(g, p, rows, k)}
<1>1. 0 \in S
  <2>1. 1..0 = {} /\ SUBSET {} = {{}}
    OBVIOUS
  <2>2. Folds([s \in {{}} |-> p], p, rows, 0)
    BY <2>1 DEF Folds
  <2> QED
    BY <2>2
<1>2. \A k \in Nat : k \in S => k + 1 \in S
  BY OneMoreRow
<1> HIDE DEF S
<1>3. n \in S
  BY <1>1, <1>2, NatInductionOfSets
<1> QED
  BY <1>3 DEF S

\* f[k] is what the first k of n rows leave.
InTurn(f, p, rows, n) ==
  /\ f[0] = p
  /\ \A k \in 1..n : f[k] = inspect(f[k - 1], rows[k])
  /\ FoldLeft(inspect, p, rows) = f[n]

\* So an answer of n rows leaves what n steps leave, in its order.
LEMMA RowByRow ==
  ASSUME NEW p, NEW rows, NEW n \in Nat, DOMAIN rows = 1..n
  PROVE  \E f : InTurn(f, p, rows, n)
<1> DEFINE g == CHOOSE h : Folds(h, p, rows, n)
           f == [k \in 0..n |-> g[1..k]]
<1>1. Folds(g, p, rows, n)
  BY FoldsExist
<1>2. FoldLeft(inspect, p, rows) = g[1..n]
  BY DEF FoldLeft, MapThenFoldSet, Folds
<1> HIDE DEF g
<1>3. f[0] = p
  <2>1. 1..0 = {} /\ {} \in SUBSET (1..n)
    OBVIOUS
  <2> QED
    BY <1>1, <2>1 DEF Folds
<1>4. ASSUME NEW k \in 1..n PROVE f[k] = inspect(f[k - 1], rows[k])
  <2>1. /\ 1..k \in SUBSET (1..n) /\ k \in 1..k /\ (1..k) \ {k} = 1..(k - 1)
        /\ k - 1 \in 0..n /\ k \in 0..n
    <3>1. \A e \in 1..k : e \in 1..n
      OBVIOUS
    <3>2. \A e : e \in (1..k) \ {k} <=> e \in 1..(k - 1)
      OBVIOUS
    <3>3. k \in 1..k /\ k - 1 \in 0..n /\ k \in 0..n
      OBVIOUS
    <3> QED
      BY <3>1, <3>2, <3>3
  <2>2. Max(1..k) = k
    BY MaxIs
  <2>3. g[1..k] = inspect(g[1..(k - 1)], rows[k])
    BY <1>1, <2>1, <2>2 DEF Folds
  <2> QED
    BY <2>1, <2>3
<1>5. f[n] = g[1..n]
  OBVIOUS
<1> HIDE DEF f
<1> QED
  BY <1>2, <1>3, <1>4, <1>5 DEF InTurn
-----------------------------------------------------------------------------
(***************************************************************************)
(* The trackers.  A milestone of a tracked id that is not claimed yet is   *)
(* one the id may still be counted for: with it the counts stay below the  *)
(* sightings.  A key that is dropped takes its claims with it, and is      *)
(* sighted anew before it can claim again.                                 *)
(***************************************************************************)
Milestones == {"running", "terminal"}

PollRecord ==
  [items : [Kinds -> Seq(Ids)], emitted : [Ids -> SUBSET Milestones],
   observed : [Ids -> [Outcomes -> Nat]], sighted : [Ids -> Nat]]

In(s, i) == \E n \in DOMAIN s : s[n] = i

\* A tracker's Map: each key once, of the tracker's kind, within the cap.
Tracks(s, k) ==
  /\ s \in Seq({i \in Ids : kind[i] = k}) /\ Len(s) <= MAX_POLL_ITEMS
  /\ \A m, n \in DOMAIN s : s[m] = s[n] => m = n

Unclaimed(p, i, m) == IF InTracker(p, i) /\ m \notin p.emitted[i] THEN 1 ELSE 0

EndedIn(p, i) ==
  p.observed[i]["success"] + p.observed[i]["failed"]
    + p.observed[i]["stopped"] + p.observed[i]["expired"]

Claims(p, i) ==
  /\ ~InTracker(p, i) => p.emitted[i] = {}
  /\ p.observed[i]["running"] + Unclaimed(p, i, "running") <= p.sighted[i]
  /\ EndedIn(p, i) + Unclaimed(p, i, "terminal") <= p.sighted[i]
  /\ \A o \in Outcomes : p.observed[i][o] > 0 => Happened(i, o)

PollInv(p) ==
  /\ p \in PollRecord
  /\ \A k \in Kinds : Tracks(p.items[k], k)
  /\ \A i \in Ids : Claims(p, i)

\* The oldest key goes.
LEMMA DropOldest ==
  ASSUME NEW k, NEW s, Tracks(s, k), Len(s) > 0
  PROVE  /\ Tracks(Tail(s), k) /\ Len(Tail(s)) = Len(s) - 1
         /\ Head(s) \in Ids /\ kind[Head(s)] = k
         /\ \A i : In(Tail(s), i) <=> In(s, i) /\ i # Head(s)
<1> DEFINE t == Tail(s)
           K == {i \in Ids : kind[i] = k}
<1>1. /\ s \in Seq(K) /\ Len(s) \in Nat /\ DOMAIN s = 1..Len(s) /\ Head(s) = s[1]
      /\ \A m, n \in 1..Len(s) : s[m] = s[n] => m = n
  BY DEF Tracks
<1>2. /\ t \in Seq(K) /\ Len(t) = Len(s) - 1 /\ DOMAIN t = 1..(Len(s) - 1)
      /\ \A n \in 1..(Len(s) - 1) : t[n] = s[n + 1]
  BY <1>1
<1>3. s[1] \in K
  BY <1>1
<1> HIDE DEF t, K
<1>4. \A m, n \in DOMAIN t : t[m] = t[n] => m = n
  BY <1>1, <1>2
<1>5. Len(t) <= MAX_POLL_ITEMS
  BY <1>1, <1>2, PollTrackerAssumption DEF Tracks
<1>6. ASSUME NEW i PROVE In(t, i) <=> In(s, i) /\ i # s[1]
  <2>1. ASSUME In(t, i) PROVE In(s, i) /\ i # s[1]
    <3>1. PICK n \in 1..(Len(s) - 1) : t[n] = i
      BY <1>2, <2>1 DEF In
    <3>2. n + 1 \in 1..Len(s) /\ 1 \in 1..Len(s) /\ n + 1 # 1 /\ s[n + 1] = i
      BY <1>1, <1>2, <3>1
    <3> QED
      BY <1>1, <3>2 DEF In
  <2>2. ASSUME In(s, i), i # s[1] PROVE In(t, i)
    <3>1. PICK n \in 1..Len(s) : s[n] = i
      BY <1>1, <2>2 DEF In
    <3>2. n - 1 \in 1..(Len(s) - 1) /\ n - 1 + 1 = n
      BY <1>1, <2>2, <3>1
    <3>3. t[n - 1] = i
      BY <1>2, <3>1, <3>2
    <3> QED
      BY <1>2, <3>2, <3>3 DEF In
  <2> QED
    BY <2>1, <2>2
<1> QED
  BY <1>1, <1>2, <1>3, <1>4, <1>5, <1>6 DEF t, K, Tracks

\* A key that is not there is inserted last.
LEMMA InsertLast ==
  ASSUME NEW i \in Ids, NEW s, Tracks(s, kind[i]), ~In(s, i), Len(s) < MAX_POLL_ITEMS
  PROVE  /\ Tracks(Append(s, i), kind[i])
         /\ \A j : In(Append(s, i), j) <=> In(s, j) \/ j = i
<1> DEFINE t == Append(s, i)
           K == {j \in Ids : kind[j] = kind[i]}
<1>1. /\ s \in Seq(K) /\ Len(s) \in Nat /\ DOMAIN s = 1..Len(s) /\ i \in K
      /\ \A m, n \in 1..Len(s) : s[m] = s[n] => m = n
  BY DEF Tracks
<1>2. /\ t \in Seq(K) /\ Len(t) = Len(s) + 1 /\ DOMAIN t = 1..(Len(s) + 1)
      /\ t[Len(s) + 1] = i /\ \A n \in 1..Len(s) : t[n] = s[n]
  BY <1>1
<1> HIDE DEF t, K
<1>3. \A n \in 1..Len(s) : s[n] # i
  BY <1>1 DEF In
<1>4. \A m, n \in DOMAIN t : t[m] = t[n] => m = n
  BY <1>1, <1>2, <1>3
<1>5. Len(t) <= MAX_POLL_ITEMS
  BY <1>1, <1>2, PollTrackerAssumption
<1>6. \A j : In(t, j) <=> In(s, j) \/ j = i
  BY <1>1, <1>2 DEF In
<1> QED
  BY <1>2, <1>4, <1>5, <1>6 DEF t, K, Tracks

\* An id that a step does not touch.
LEMMA ClaimsStay ==
  ASSUME NEW p, NEW q, NEW i, Claims(p, i),
         q.emitted[i] = p.emitted[i], q.observed[i] = p.observed[i],
         q.sighted[i] = p.sighted[i], InTracker(q, i) <=> InTracker(p, i)
  PROVE  Claims(q, i)
BY DEF Claims, Unclaimed, EndedIn

\* The parts of a record of trackers, as numbers.
LEMMA PollNumbers ==
  ASSUME NEW p \in PollRecord, NEW i \in Ids
  PROVE  /\ p.sighted[i] \in Nat /\ EndedIn(p, i) \in Nat
         /\ \A o \in Outcomes : p.observed[i][o] \in Nat
         /\ \A m : Unclaimed(p, i, m) \in {0, 1}
<1>1. p.observed[i] \in [Outcomes -> Nat] /\ p.sighted[i] \in Nat
  BY DEF PollRecord
<1>2. \A o \in Outcomes : p.observed[i][o] \in Nat
  BY <1>1
<1>3. EndedIn(p, i) \in Nat
  BY <1>2 DEF EndedIn, Outcomes
<1> QED
  BY <1>1, <1>2, <1>3 DEF Unclaimed

\* q is p without h, the head of the sequence s in its tracker.
Without(q, p, k, s, h) ==
  /\ s = p.items[k] /\ Len(s) > 0 /\ h = Head(s)
  /\ q = [p EXCEPT !.items[k] = Tail(s), !.emitted[h] = {}]

\* The oldest key goes, with its claims: what it was counted for was sighted.
LEMMA Evicts ==
  ASSUME NEW p, PollInv(p), kind \in [Ids -> Kinds], NEW k \in Kinds,
         NEW s, NEW h, NEW q, Without(q, p, k, s, h)
  PROVE  /\ PollInv(q) /\ Len(q.items[k]) = Len(s) - 1
         /\ \A i : InTracker(q, i) /\ i \in Ids => InTracker(p, i)
<1>0. /\ s = p.items[k] /\ Len(s) > 0 /\ h = Head(s)
      /\ q = [p EXCEPT !.items[k] = Tail(s), !.emitted[h] = {}]
  BY DEF Without
<1>1. p \in PollRecord /\ Tracks(s, k)
  BY <1>0 DEF PollInv
<1>2. /\ Tracks(Tail(s), k) /\ Len(Tail(s)) = Len(s) - 1 /\ h \in Ids /\ kind[h] = k
      /\ \A i : In(Tail(s), i) <=> In(s, i) /\ i # h
  BY <1>0, <1>1, DropOldest
<1>3. p.items \in [Kinds -> Seq(Ids)] /\ p.emitted \in [Ids -> SUBSET Milestones]
  BY <1>1 DEF PollRecord
<1>4. q.items = [p.items EXCEPT ![k] = Tail(s)]
  BY <1>0, <1>1 DEF PollRecord
<1>5. q.emitted = [p.emitted EXCEPT ![h] = {}]
  BY <1>0, <1>1 DEF PollRecord
<1>6. q.observed = p.observed /\ q.sighted = p.sighted
  BY <1>0, <1>1 DEF PollRecord
<1>7. q = [items |-> q.items, emitted |-> q.emitted,
           observed |-> q.observed, sighted |-> q.sighted]
  BY <1>0, <1>1 DEF PollRecord
<1>8. q.items[k] = Tail(s) /\ \A l \in Kinds : l # k => q.items[l] = p.items[l]
  BY <1>0, <1>3, <1>4
<1>9. q \in PollRecord
  <2>1. Tail(s) \in Seq(Ids)
    <3>1. s \in Seq(Ids)
      BY <1>0, <1>3
    <3> QED
      BY <1>0, <3>1
  <2>2. q.items \in [Kinds -> Seq(Ids)]
    BY <1>3, <1>4, <2>1
  <2>3. q.emitted \in [Ids -> SUBSET Milestones]
    BY <1>3, <1>5
  <2>4. q.observed \in [Ids -> [Outcomes -> Nat]] /\ q.sighted \in [Ids -> Nat]
    BY <1>1, <1>6 DEF PollRecord
  <2> QED
    BY <1>7, <2>2, <2>3, <2>4 DEF PollRecord
<1>10. \A l \in Kinds : Tracks(q.items[l], l)
  BY <1>2, <1>8 DEF PollInv
<1>11. \A i \in Ids : InTracker(q, i) <=> InTracker(p, i) /\ i # h
  <2> SUFFICES ASSUME NEW i \in Ids PROVE InTracker(q, i) <=> InTracker(p, i) /\ i # h
    OBVIOUS
  <2>1. CASE kind[i] = k
    <3>1. (InTracker(q, i) <=> In(Tail(s), i)) /\ (InTracker(p, i) <=> In(s, i))
      BY <1>0, <1>8, <2>1 DEF InTracker, In
    <3> QED
      BY <1>2, <3>1
  <2>2. CASE kind[i] # k
    BY <1>2, <1>8, <2>2 DEF InTracker
  <2> QED
    BY <2>1, <2>2
<1>12. ASSUME NEW i \in Ids PROVE Claims(q, i)
  <2>1. Claims(p, i)
    BY DEF PollInv
  <2>2. CASE i = h
    <3>1. ~InTracker(q, i) /\ q.emitted[i] = {}
      BY <1>3, <1>5, <1>11, <2>2
    <3>2. /\ Unclaimed(q, i, "running") = 0 /\ Unclaimed(q, i, "terminal") = 0
          /\ EndedIn(q, i) = EndedIn(p, i)
      BY <1>6, <3>1 DEF Unclaimed, EndedIn
    <3>3. /\ p.sighted[i] \in Nat /\ EndedIn(p, i) \in Nat /\ p.observed[i]["running"] \in Nat
          /\ Unclaimed(p, i, "running") \in {0, 1} /\ Unclaimed(p, i, "terminal") \in {0, 1}
      BY <1>1, PollNumbers DEF Outcomes
    <3>4. /\ p.observed[i]["running"] + Unclaimed(p, i, "running") <= p.sighted[i]
          /\ EndedIn(p, i) + Unclaimed(p, i, "terminal") <= p.sighted[i]
          /\ \A o \in Outcomes : q.observed[i][o] > 0 => Happened(i, o)
      BY <1>6, <2>1 DEF Claims
    <3>5. /\ q.observed[i]["running"] + Unclaimed(q, i, "running") <= q.sighted[i]
          /\ EndedIn(q, i) + Unclaimed(q, i, "terminal") <= q.sighted[i]
      BY <1>6, <3>2, <3>3, <3>4
    <3> QED
      BY <3>1, <3>4, <3>5 DEF Claims
  <2>3. CASE i # h
    <3>1. q.emitted[i] = p.emitted[i]
      BY <1>3, <1>5, <2>3
    <3> QED
      BY <1>6, <1>11, <2>1, <2>3, <3>1, ClaimsStay
  <2> QED
    BY <2>2, <2>3
<1> QED
  BY <1>2, <1>8, <1>9, <1>10, <1>11, <1>12 DEF PollInv

\* makeRoom leaves room.
LEMMA RoomIsMade ==
  ASSUME NEW p, PollInv(p), kind \in [Ids -> Kinds], NEW k \in Kinds
  PROVE  /\ PollInv(makeRoom(p, k)) /\ Len(makeRoom(p, k).items[k]) < MAX_POLL_ITEMS
         /\ \A i \in Ids : InTracker(makeRoom(p, k), i) => InTracker(p, i)
<1>1. /\ MAX_POLL_ITEMS \in Nat \ {0} /\ Len(p.items[k]) \in Nat
      /\ Len(p.items[k]) <= MAX_POLL_ITEMS
  <2>1. Tracks(p.items[k], k)
    BY DEF PollInv
  <2> QED
    BY <2>1, PollTrackerAssumption DEF Tracks
<1>2. CASE ~(Len(p.items[k]) >= MAX_POLL_ITEMS)
  <2>1. makeRoom(p, k) = p
    BY <1>2 DEF makeRoom
  <2> QED
    BY <1>1, <1>2, <2>1
<1>3. CASE Len(p.items[k]) >= MAX_POLL_ITEMS
  <2> DEFINE s == p.items[k]
             h == Head(s)
             q == [p EXCEPT !.items[k] = Tail(s), !.emitted[h] = {}]
  <2>1. makeRoom(p, k) = q
    BY <1>3 DEF makeRoom, PollInv, PollRecord
  <2>2. Without(q, p, k, s, h) /\ s = p.items[k]
    BY <1>1, <1>3 DEF Without
  <2> HIDE DEF s, h, q
  <2>3. /\ PollInv(q) /\ Len(q.items[k]) = Len(s) - 1
        /\ \A i : InTracker(q, i) /\ i \in Ids => InTracker(p, i)
    BY <2>2, Evicts
  <2> QED
    BY <1>1, <2>1, <2>2, <2>3
<1> QED
  BY <1>2, <1>3

\* A key enters its tracker, with nothing claimed.
LEMMA Inserts ==
  ASSUME NEW p, PollInv(p), kind \in [Ids -> Kinds], NEW i \in Ids, ~InTracker(p, i),
         NEW k, k = kind[i], NEW s, s = p.items[k], Len(s) < MAX_POLL_ITEMS,
         NEW q, q = [p EXCEPT !.items[k] = Append(s, i), !.sighted[i] = @ + 1]
  PROVE  PollInv(q) /\ InTracker(q, i)
<1>1. p \in PollRecord /\ k \in Kinds /\ Tracks(s, k) /\ ~In(s, i)
  BY DEF PollInv, InTracker, In
<1>2. /\ Tracks(Append(s, i), k)
      /\ \A j : In(Append(s, i), j) <=> In(s, j) \/ j = i
  BY <1>1, InsertLast
<1>3. p.items \in [Kinds -> Seq(Ids)] /\ p.sighted \in [Ids -> Nat]
  BY <1>1 DEF PollRecord
<1>4. q.items = [p.items EXCEPT ![k] = Append(s, i)]
  BY <1>1 DEF PollRecord
<1>5. q.sighted = [p.sighted EXCEPT ![i] = @ + 1]
  BY <1>1 DEF PollRecord
<1>6. q.observed = p.observed /\ q.emitted = p.emitted
  BY <1>1 DEF PollRecord
<1>7. q = [items |-> q.items, emitted |-> q.emitted,
           observed |-> q.observed, sighted |-> q.sighted]
  BY <1>1 DEF PollRecord
<1>8. q.items[k] = Append(s, i) /\ \A l \in Kinds : l # k => q.items[l] = p.items[l]
  BY <1>1, <1>3, <1>4
<1>9. q \in PollRecord
  <2>1. Append(s, i) \in Seq(Ids)
    <3>1. s \in Seq(Ids)
      BY <1>1, <1>3
    <3> QED
      BY <3>1
  <2>2. q.items \in [Kinds -> Seq(Ids)]
    BY <1>3, <1>4, <2>1
  <2>3. q.sighted \in [Ids -> Nat]
    BY <1>3, <1>5
  <2>4. q.observed \in [Ids -> [Outcomes -> Nat]] /\ q.emitted \in [Ids -> SUBSET Milestones]
    BY <1>1, <1>6 DEF PollRecord
  <2> QED
    BY <1>7, <2>2, <2>3, <2>4 DEF PollRecord
<1>10. \A l \in Kinds : Tracks(q.items[l], l)
  BY <1>2, <1>8 DEF PollInv
<1>11. \A j \in Ids : InTracker(q, j) <=> InTracker(p, j) \/ j = i
  <2> SUFFICES ASSUME NEW j \in Ids PROVE InTracker(q, j) <=> InTracker(p, j) \/ j = i
    OBVIOUS
  <2>1. CASE kind[j] = k
    BY <1>2, <1>8, <2>1 DEF InTracker, In
  <2>2. CASE kind[j] # k
    BY <1>2, <1>8, <2>2 DEF InTracker
  <2> QED
    BY <2>1, <2>2
<1>12. ASSUME NEW j \in Ids PROVE Claims(q, j)
  <2>1. Claims(p, j)
    BY DEF PollInv
  <2>2. CASE j = i
    <3>1. InTracker(q, j) /\ ~InTracker(p, j) /\ q.emitted[j] = {}
      BY <1>6, <1>11, <2>1, <2>2 DEF Claims
    <3>2. /\ \A m : Unclaimed(q, j, m) = 1 /\ Unclaimed(p, j, m) = 0
          /\ EndedIn(q, j) = EndedIn(p, j)
      BY <1>6, <3>1 DEF Unclaimed, EndedIn
    <3>3. /\ p.sighted[j] \in Nat /\ EndedIn(p, j) \in Nat /\ p.observed[j]["running"] \in Nat
          /\ q.sighted[j] = p.sighted[j] + 1
      BY <1>1, <1>3, <1>5, <2>2, PollNumbers DEF Outcomes
    <3>4. /\ p.observed[j]["running"] + Unclaimed(p, j, "running") <= p.sighted[j]
          /\ EndedIn(p, j) + Unclaimed(p, j, "terminal") <= p.sighted[j]
          /\ \A o \in Outcomes : q.observed[j][o] > 0 => Happened(j, o)
      BY <1>6, <2>1 DEF Claims
    <3>5. /\ q.observed[j]["running"] + Unclaimed(q, j, "running") <= q.sighted[j]
          /\ EndedIn(q, j) + Unclaimed(q, j, "terminal") <= q.sighted[j]
      BY <1>6, <3>2, <3>3, <3>4
    <3> QED
      BY <3>1, <3>4, <3>5 DEF Claims
  <2>3. CASE j # i
    <3>1. q.sighted[j] = p.sighted[j]
      BY <1>3, <1>5, <2>3
    <3> QED
      BY <1>6, <1>11, <2>1, <2>3, <3>1, ClaimsStay
  <2> QED
    BY <2>2, <2>3
<1> QED
  BY <1>9, <1>10, <1>11, <1>12 DEF PollInv

\* poll: what was polled is tracked.
LEMMA PollKeeps ==
  ASSUME NEW p, PollInv(p), kind \in [Ids -> Kinds], NEW i \in Ids
  PROVE  PollInv(poll(p, i)) /\ InTracker(poll(p, i), i)
<1>1. CASE InTracker(p, i)
  BY <1>1 DEF poll
<1>2. CASE ~InTracker(p, i)
  <2> DEFINE r == makeRoom(p, kind[i])
  <2>1. /\ PollInv(r) /\ Len(r.items[kind[i]]) < MAX_POLL_ITEMS /\ ~InTracker(r, i)
        /\ kind[i] \in Kinds
    BY <1>2, RoomIsMade
  <2>2. poll(p, i) = [r EXCEPT !.items[kind[i]] = Append(@, i), !.sighted[i] = @ + 1]
    BY <1>2 DEF poll
  <2> HIDE DEF r
  <2>3. poll(p, i) = [r EXCEPT !.items[kind[i]] = Append(r.items[kind[i]], i),
                               !.sighted[i] = @ + 1]
    BY <2>1, <2>2 DEF PollInv, PollRecord
  <2> QED
    BY <2>1, <2>3, Inserts
<1> QED
  BY <1>1, <1>2
\* An outcome is one of the id's own vocabulary.
LEMMA ClassifiedHappened ==
  ASSUME kind \in [Ids -> Kinds], NEW i \in Ids, NEW n, n \in been[i],
         NEW o, o = classify(i, n), o # Unclassified
  PROVE  o \in Outcomes /\ Happened(i, o) /\ (milestone(o) = "running" <=> o = "running")
<1>1. CASE kind[i] = "job"
  <2>1. \/ o = "success" /\ n \in {70, 71}
        \/ o = "failed" /\ n \in COMPUTE_FAILURES
    BY <1>1 DEF classify, classifyComputeJob
  <2> QED
    BY <1>1, <2>1 DEF Happened, Outcomes, milestone
<1>2. CASE kind[i] = "service"
  <2>1. \/ o = "running" /\ n = 40
        \/ o = "failed" /\ n \in TERMINAL_FAILURE_STATUSES
        \/ o = "stopped" /\ n = 70
        \/ o = "expired" /\ n = 75
    BY <1>2 DEF classify, classifyServiceJob
  <2> QED
    BY <1>2, <2>1 DEF Happened, Outcomes, milestone
<1> QED
  BY <1>1, <1>2 DEF Kinds

\* q is p with the outcome o counted for i, whose milestone m is claimed.
Counted(q, p, i, o, m) ==
  /\ m = milestone(o) /\ m \notin p.emitted[i]
  /\ q = [p EXCEPT !.emitted[i] = @ \cup {m}, !.observed[i][o] = @ + 1]

\* What is counted was still to be claimed.
LEMMA Counts ==
  ASSUME NEW p, PollInv(p), NEW i \in Ids, InTracker(p, i),
         NEW o \in Outcomes, Happened(i, o),
         NEW m, NEW q, Counted(q, p, i, o, m)
  PROVE  PollInv(q)
<1>1. /\ m = milestone(o) /\ m \notin p.emitted[i]
      /\ q = [p EXCEPT !.emitted[i] = @ \cup {m}, !.observed[i][o] = @ + 1]
  BY DEF Counted
<1>2. p \in PollRecord /\ m \in Milestones
  BY <1>1 DEF PollInv, milestone, Milestones
<1>3. p.emitted \in [Ids -> SUBSET Milestones] /\ p.observed \in [Ids -> [Outcomes -> Nat]]
  BY <1>2 DEF PollRecord
<1>4. q.items = p.items /\ q.sighted = p.sighted
  BY <1>1, <1>2 DEF PollRecord
<1>5. q.emitted = [p.emitted EXCEPT ![i] = @ \cup {m}]
  BY <1>1, <1>2 DEF PollRecord
<1>6. q.observed = [p.observed EXCEPT ![i] =
                     [p.observed[i] EXCEPT ![o] = p.observed[i][o] + 1]]
  BY <1>1, <1>2 DEF PollRecord
<1>7. q = [items |-> q.items, emitted |-> q.emitted,
           observed |-> q.observed, sighted |-> q.sighted]
  BY <1>1, <1>2 DEF PollRecord
<1>8. /\ q.observed[i] = [p.observed[i] EXCEPT ![o] = p.observed[i][o] + 1]
      /\ p.observed[i] \in [Outcomes -> Nat]
      /\ q.emitted[i] = p.emitted[i] \cup {m}
  BY <1>3, <1>5, <1>6
<1>9. q \in PollRecord
  <2>1. q.observed[i] \in [Outcomes -> Nat]
    BY <1>8
  <2>2. q.observed \in [Ids -> [Outcomes -> Nat]]
    BY <1>3, <1>6, <1>8, <2>1
  <2>3. q.emitted \in [Ids -> SUBSET Milestones]
    BY <1>2, <1>3, <1>5
  <2>4. q.items \in [Kinds -> Seq(Ids)] /\ q.sighted \in [Ids -> Nat]
    BY <1>2, <1>4 DEF PollRecord
  <2> QED
    BY <1>7, <2>2, <2>3, <2>4 DEF PollRecord
<1>10. \A k \in Kinds : Tracks(q.items[k], k)
  BY <1>4 DEF PollInv
<1>11. \A j \in Ids : InTracker(q, j) <=> InTracker(p, j)
  BY <1>4 DEF InTracker
<1>12. Claims(q, i)
  <2>1. /\ p.observed[i]["running"] + Unclaimed(p, i, "running") <= p.sighted[i]
        /\ EndedIn(p, i) + Unclaimed(p, i, "terminal") <= p.sighted[i]
        /\ \A x \in Outcomes : p.observed[i][x] > 0 => Happened(i, x)
    BY DEF PollInv, Claims
  <2>2. /\ p.sighted[i] \in Nat /\ EndedIn(p, i) \in Nat
        /\ \A x \in Outcomes : p.observed[i][x] \in Nat
        /\ \A y : Unclaimed(p, i, y) \in {0, 1}
    BY <1>2, PollNumbers
  <2>3. Unclaimed(p, i, m) = 1 /\ Unclaimed(q, i, m) = 0
    BY <1>1, <1>8 DEF Unclaimed
  <2>4. \A y : y # m => Unclaimed(q, i, y) = Unclaimed(p, i, y)
    BY <1>8, <1>11 DEF Unclaimed
  <2>5. \A x \in Outcomes : q.observed[i][x] = p.observed[i][x] + (IF x = o THEN 1 ELSE 0)
    BY <1>8, <2>2
  <2>6. \A x \in Outcomes : q.observed[i][x] > 0 => Happened(i, x)
    BY <2>1, <2>2, <2>5
  <2>7. /\ q.observed[i]["running"] + Unclaimed(q, i, "running") <= q.sighted[i]
        /\ EndedIn(q, i) + Unclaimed(q, i, "terminal") <= q.sighted[i]
    <3>1. CASE o = "running"
      <4>1. m = "running"
        BY <1>1, <3>1 DEF milestone
      <4>2. EndedIn(q, i) = EndedIn(p, i)
        BY <2>2, <2>5, <3>1 DEF EndedIn, Outcomes
      <4>3. Unclaimed(q, i, "terminal") = Unclaimed(p, i, "terminal")
        BY <2>4, <4>1
      <4>4. q.observed[i]["running"] = p.observed[i]["running"] + 1
        BY <2>5, <3>1
      <4> QED
        BY <1>4, <2>1, <2>2, <2>3, <4>1, <4>2, <4>3, <4>4 DEF Outcomes
    <3>2. CASE o # "running"
      <4>1. m = "terminal"
        BY <1>1, <3>2 DEF milestone
      <4>2. EndedIn(q, i) = EndedIn(p, i) + 1
        BY <2>2, <2>5, <3>2 DEF EndedIn, Outcomes
      <4>3. Unclaimed(q, i, "running") = Unclaimed(p, i, "running")
        BY <2>4, <4>1
      <4>4. q.observed[i]["running"] = p.observed[i]["running"]
        BY <2>2, <2>5, <3>2 DEF Outcomes
      <4> QED
        BY <1>4, <2>1, <2>2, <2>3, <4>1, <4>2, <4>3, <4>4
    <3> QED
      BY <3>1, <3>2
  <2> QED
    BY <1>11, <2>6, <2>7 DEF Claims
<1>13. ASSUME NEW j \in Ids, j # i PROVE Claims(q, j)
  <2>1. q.emitted[j] = p.emitted[j] /\ q.observed[j] = p.observed[j]
    BY <1>3, <1>5, <1>6, <1>13
  <2> QED
    BY <1>4, <1>11, <2>1, ClaimsStay DEF PollInv
<1> QED
  BY <1>9, <1>10, <1>12, <1>13 DEF PollInv

\* One row: it shows a status the id has been in.
LEMMA InspectKeeps ==
  ASSUME NEW p, PollInv(p), kind \in [Ids -> Kinds], NEW j, j.id \in Ids,
         j.status = Absent \/ j.status \in been[j.id]
  PROVE  PollInv(inspect(p, j))
<1>1. CASE j.status = Absent
  BY <1>1 DEF inspect
<1>2. CASE j.status # Absent
  <2> DEFINE i == j.id
             n == j.status
             r == poll(p, i)
             o == classify(i, n)
             m == milestone(o)
             q == [r EXCEPT !.emitted[i] = @ \cup {m}, !.observed[i][o] = @ + 1]
  <2>1. PollInv(r) /\ InTracker(r, i) /\ i \in Ids /\ n \in been[i]
    BY <1>2, PollKeeps
  <2>2. inspect(p, j) = IF o = Unclassified \/ m \in r.emitted[i] THEN r ELSE q
    BY <1>2 DEF inspect, claim
  <2>3. m \notin r.emitted[i] => Counted(q, r, i, o, m)
    BY DEF Counted
  <2>4. o # Unclassified => o \in Outcomes /\ Happened(i, o)
    BY <2>1, ClassifiedHappened
  <2> HIDE DEF i, n, r, o, m, q
  <2> QED
    BY <2>1, <2>2, <2>3, <2>4, Counts
<1> QED
  BY <1>1, <1>2

\* An answer: its rows show statuses their ids have been in.
LEMMA InspectResultKeeps ==
  ASSUME NEW p, PollInv(p), kind \in [Ids -> Kinds], NEW rows, NEW n \in Nat,
         DOMAIN rows = 1..n,
         \A k \in 1..n : /\ rows[k].id \in Ids
                         /\ rows[k].status = Absent \/ rows[k].status \in been[rows[k].id]
  PROVE  PollInv(FoldLeft(inspect, p, rows))
<1>0. PICK f : InTurn(f, p, rows, n)
  BY RowByRow
<1>1. /\ f[0] = p
      /\ \A k \in 1..n : f[k] = inspect(f[k - 1], rows[k])
      /\ FoldLeft(inspect, p, rows) = f[n]
  BY <1>0 DEF InTurn
<1> DEFINE S == {k \in Nat : k <= n => PollInv(f[k])}
<1>2. 0 \in S
  BY <1>1
<1>3. ASSUME NEW k \in Nat, k \in S PROVE k + 1 \in S
  <2>1. CASE k + 1 <= n
    <3>1. PollInv(f[k]) /\ k + 1 \in 1..n /\ k + 1 - 1 = k
      BY <1>3, <2>1
    <3>2. f[k + 1] = inspect(f[k], rows[k + 1])
      BY <1>1, <3>1
    <3> QED
      BY <3>1, <3>2, InspectKeeps
  <2>2. CASE ~(k + 1 <= n)
    BY <2>2
  <2> QED
    BY <2>1, <2>2
<1> HIDE DEF S
<1>4. n \in S
  BY <1>2, <1>3, NatInductionOfSets
<1> QED
  BY <1>1, <1>4 DEF S-----------------------------------------------------------------------------
(***************************************************************************)
(* What is observed happened: a reply shows a status the id was in when it *)
(* was sent, however late it is inspected, and what an id has been in only *)
(* grows.                                                                  *)
(***************************************************************************)
SeenInv ==
  /\ been \in [Ids -> SUBSET Statuses]
  /\ \A i \in Ids : status[i] \in been[i]
  /\ \A c \in Calls, i \in Ids : current[c][i] = Absent \/ current[c][i] \in been[i]

ObservedInv == SeenInv /\ PollInv(polls)

\* Nothing was observed.
LEMMA InitObserved == SyncInit => ObservedInv
<1> SUFFICES ASSUME SyncInit PROVE ObservedInv
  OBVIOUS
<1>1. status \in [Ids -> InitialStatuses] /\ been = [i \in Ids |-> {status[i]}]
  BY DEF SyncInit, Init
<1>2. SeenInv
  BY <1>1, ServiceStatusAssumption DEF SyncInit, Init, SeenInv
<1>3. /\ kind \in [Ids -> Kinds]
      /\ polls = [items |-> [k \in Kinds |-> <<>>], emitted |-> [i \in Ids |-> {}],
                  observed |-> [i \in Ids |-> [o \in Outcomes |-> 0]],
                  sighted |-> [i \in Ids |-> 0]]
  BY PollTrackerAssumption DEF SyncInit, Init, PollsInit
<1>4. polls \in PollRecord
  <2>1. polls.items \in [Kinds -> Seq(Ids)]
    BY <1>3
  <2>2. /\ polls.emitted \in [Ids -> SUBSET Milestones]
        /\ polls.observed \in [Ids -> [Outcomes -> Nat]] /\ polls.sighted \in [Ids -> Nat]
    BY <1>3
  <2> QED
    BY <1>3, <2>1, <2>2 DEF PollRecord
<1>5. \A k \in Kinds : polls.items[k] = <<>>
  BY <1>3
<1>6. \A k \in Kinds : Tracks(polls.items[k], k)
  <2>1. Len(<< >>) = 0 /\ DOMAIN << >> = {} /\ MAX_POLL_ITEMS \in Nat
    BY PollTrackerAssumption
  <2>2. ASSUME NEW k \in Kinds PROVE << >> \in Seq({i \in Ids : kind[i] = k})
    OBVIOUS
  <2>3. ASSUME NEW k \in Kinds PROVE Tracks(<< >>, k)
    BY <2>1, <2>2 DEF Tracks
  <2> QED
    BY <1>5, <2>3
<1>7. ASSUME NEW i \in Ids PROVE Claims(polls, i)
  <2>1. ~InTracker(polls, i)
    <3>1. polls.items[kind[i]] = <<>> /\ DOMAIN << >> = {}
      BY <1>3, <1>5
    <3> QED
      BY <3>1 DEF InTracker
  <2>2. /\ polls.emitted[i] = {} /\ polls.sighted[i] = 0
        /\ \A o \in Outcomes : polls.observed[i][o] = 0
    BY <1>3
  <2>3. EndedIn(polls, i) = 0
    BY <2>2 DEF EndedIn, Outcomes
  <2>4. \A m : Unclaimed(polls, i, m) = 0
    BY <2>1 DEF Unclaimed
  <2> QED
    BY <2>1, <2>2, <2>3, <2>4 DEF Claims, Outcomes
<1> QED
  BY <1>2, <1>4, <1>6, <1>7 DEF ObservedInv, PollInv

\* What an id has been in only grows.
LEMMA BeenGrows ==
  ASSUME been \in [Ids -> SUBSET Statuses], status \in [Ids -> Statuses],
         \A i \in Ids : status[i] \in been[i],
         NEW i \in Ids, NEW lifecycle \in SUBSET (Statuses \X Statuses),
         NodeMoves(i, lifecycle)
  PROVE  /\ been' \in [Ids -> SUBSET Statuses]
         /\ \A j \in Ids : been[j] \subseteq been'[j] /\ status'[j] \in been'[j]
<1>1. PICK n \in {step[2] : step \in {s \in lifecycle : s[1] = status[i]}} :
        /\ status' = [status EXCEPT ![i] = n]
        /\ been' = [been EXCEPT ![i] = @ \cup {n}]
  BY DEF NodeMoves
<1>2. PICK s \in lifecycle : s[2] = n
  OBVIOUS
<1>3. s \in Statuses \X Statuses
  OBVIOUS
<1>4. n \in Statuses
  BY <1>2, <1>3
<1> QED
  BY <1>1, <1>4

\* What happened stays so.
LEMMA HappenedStays ==
  ASSUME NEW i \in Ids, NEW o \in Outcomes, Happened(i, o), kind' = kind,
         been[i] \subseteq been'[i]
  PROVE  Happened(i, o)'
BY DEF Happened, Outcomes

\* Trackers that were not touched.
LEMMA TrackersStay ==
  ASSUME PollInv(polls'), kind' = kind, \A i \in Ids : been[i] \subseteq been'[i]
  PROVE  PollInv(polls)'
<1>1. \A k \in Kinds : Tracks(polls.items[k], k)'
  BY DEF PollInv, Tracks
<1>2. ASSUME NEW i \in Ids PROVE Claims(polls, i)'
  <2>1. Claims(polls', i)
    BY DEF PollInv
  <2>2. \A o \in Outcomes : Happened(i, o) => Happened(i, o)'
    BY HappenedStays
  <2> QED
    BY <2>1, <2>2 DEF Claims, Unclaimed, EndedIn, InTracker
<1>3. (polls \in PollRecord)'
  BY DEF PollInv
<1> QED
  BY <1>1, <1>2, <1>3 DEF PollInv

\* The node moves: nothing that was seen is unseen.
LEMMA MoveKeepsObserved ==
  ASSUME ObservedInv, status \in [Ids -> Statuses], NEW i \in Ids,
         NEW lifecycle \in SUBSET (Statuses \X Statuses), NodeMoves(i, lifecycle),
         UNCHANGED <<current, kind, polls>>
  PROVE  ObservedInv'
<1>1. /\ been' \in [Ids -> SUBSET Statuses]
      /\ \A j \in Ids : been[j] \subseteq been'[j] /\ status'[j] \in been'[j]
  BY BeenGrows DEF ObservedInv, SeenInv
<1>2. SeenInv'
  BY <1>1 DEF ObservedInv, SeenInv
<1>3. PollInv(polls)'
  BY <1>1, TrackersStay DEF ObservedInv
<1> QED
  BY <1>2, <1>3 DEF ObservedInv

\* A reply shows what the node has, and a call's answer is inspected.
LEMMA StepKeepsObserved ==
  ASSUME ObservedInv, CallTypes, status \in [Ids -> Statuses], kind \in KindChoices,
         NEW c \in Calls,
         \/ Ask(c) \/ Reply(c) \/ RequestFails(c) \/ StartSleep(c) \/ Wake(c) \/ Answer(c)
  PROVE  ObservedInv'
<1>1. kind' = kind /\ been' = been /\ status' = status
  BY DEF Ask, AskService, AskJob, Reply, RequestFails, StartSleep, Wake, Answer, node
<1>2. CASE Reply(c)
  <2>1. /\ current' = [current EXCEPT ![c] =
                         [i \in Ids |-> IF i \in Asked(c) THEN status[i] ELSE Absent]]
        /\ polls' = polls
    BY <1>2 DEF Reply
  <2>2. \A d \in Calls, i \in Ids :
          current'[d][i] = current[d][i] \/ current'[d][i] \in {Absent, status[i]}
    BY <2>1 DEF CallTypes
  <2> QED
    BY <1>1, <2>1, <2>2, TrackersStay DEF ObservedInv, SeenInv
<1>3. CASE Answer(c)
  <2>1. polls' = FoldLeft(inspect, polls, Listed(c)) /\ current' = current
    BY <1>3 DEF Answer, inspectResult
  <2> DEFINE rows == Listed(c)
             n == Len(Listing)
  <2>2. n \in Nat /\ DOMAIN rows = 1..n /\ \A k \in 1..n : Listing[k] \in Ids
    BY ServiceStatusAssumption DEF Listed
  <2>3. \A k \in 1..n : /\ rows[k].id = Listing[k]
                        /\ rows[k].status = current[c][Listing[k]]
    BY <2>2 DEF Listed
  <2>4. \A k \in 1..n : /\ rows[k].id \in Ids
                        /\ rows[k].status = Absent \/ rows[k].status \in been[rows[k].id]
    BY <2>2, <2>3 DEF ObservedInv, SeenInv
  <2>5. kind \in [Ids -> Kinds]
    BY PollTrackerAssumption
  <2> HIDE DEF n
  <2>6. PollInv(FoldLeft(inspect, polls, rows))
    <3> HIDE DEF rows
    <3> QED
      BY <2>2, <2>4, <2>5, InspectResultKeeps DEF ObservedInv
  <2>7. PollInv(polls')
    BY <2>1, <2>6
  <2> QED
    BY <1>1, <2>1, <2>7, TrackersStay DEF ObservedInv, SeenInv
<1>4. CASE Ask(c) \/ RequestFails(c) \/ StartSleep(c) \/ Wake(c)
  <2>1. current' = current /\ polls' = polls
    BY <1>4 DEF Ask, AskService, AskJob, RequestFails, StartSleep, Wake
  <2> QED
    BY <1>1, <2>1, TrackersStay DEF ObservedInv, SeenInv
<1> QED
  BY <1>2, <1>3, <1>4

\* Every step keeps what was seen and observed.
LEMMA NextKeepsObserved ==
  kind \in KindChoices /\ SyncInv /\ WaitInv /\ ObservedInv /\ [Polling \/ Syncing]_allVars
    => ObservedInv'
<1> SUFFICES ASSUME kind \in KindChoices, SyncInv, WaitInv, ObservedInv,
                    [Polling \/ Syncing]_allVars
             PROVE  ObservedInv'
  OBVIOUS
<1>1. status \in [Ids -> Statuses] /\ CallTypes
  BY DEF SyncInv, SyncTypes, WaitInv
<1>2. ASSUME NEW i \in Ids, NEW lifecycle \in SUBSET (Statuses \X Statuses),
             NodeMoves(i, lifecycle), UNCHANGED <<current, kind, polls>>
      PROVE  ObservedInv'
  BY <1>1, <1>2, MoveKeepsObserved
<1>3. CASE UNCHANGED <<node, current, kind, polls>>
  BY <1>3, TrackersStay DEF ObservedInv, SeenInv, node
<1>4. CASE Polling
  <2>1. ASSUME NEW i \in Ids, NodeMoves(i, Lifecycle[kind[i]]),
               UNCHANGED <<current, kind, polls>>
        PROVE  ObservedInv'
    <3>1. Lifecycle[kind[i]] \in SUBSET (Statuses \X Statuses)
      BY PollTrackerAssumption, ServiceStatusAssumption
    <3> QED
      BY <1>2, <2>1, <3>1
  <2>2. CASE \E i \in Ids :
               /\ NodeMoves(i, Lifecycle[kind[i]])
               /\ UNCHANGED <<pc, target, waiting, waitTimeout, current, waited,
                              timedOut, kind, polls>>
    BY <2>1, <2>2
  <2>3. CASE \E c \in Calls :
               \/ Ask(c) \/ Reply(c) \/ RequestFails(c)
               \/ StartSleep(c) \/ Wake(c) \/ Answer(c)
    BY <1>1, <2>3, StepKeepsObserved
  <2> QED
    BY <1>4, <2>2, <2>3 DEF Polling, Next
<1>5. CASE Syncing
  <2>1. UNCHANGED <<current, kind, polls>>
    BY <1>5 DEF Syncing, callVars
  <2>2. CASE UNCHANGED node
    BY <1>3, <2>1, <2>2
  <2>3. ASSUME NEW i \in Ids, ServiceChanges(i) PROVE ObservedInv'
    <3>1. SyncLifecycle \in SUBSET (Statuses \X Statuses)
      BY ServiceSyncAssumption
    <3> QED
      BY <1>2, <2>1, <2>3, <3>1 DEF ServiceChanges
  <2> QED
    BY <1>5, <2>2, <2>3 DEF Syncing, Request, PageFails, TakePage, Tick, SendPage
<1> QED
  BY <1>3, <1>4, <1>5 DEF allVars, vars
\* What the tool wrapper counts as observed happened and is counted once for
\* each sighting, for any number of ids, any cap of the trackers, any order of
\* the node's list and any overlap of the calls.
THEOREM ObservedIsTrue == SyncSpec => []ObservationsAreTrue
<1>1. ObservedInv => ObservationsAreTrue
  <2> SUFFICES ASSUME ObservedInv PROVE ObservationsAreTrue
    OBVIOUS
  <2>1. polls \in PollRecord /\ \A i \in Ids : Claims(polls, i)
    BY DEF ObservedInv, PollInv
  <2>2. \A i \in Ids, o \in Outcomes : polls.observed[i][o] > 0 => Happened(i, o)
    BY <2>1 DEF Claims
  <2>3. ASSUME NEW i \in Ids
        PROVE  polls.observed[i]["running"] <= polls.sighted[i] /\ Ended(i) <= polls.sighted[i]
    <3>1. /\ polls.observed[i]["running"] + Unclaimed(polls, i, "running") <= polls.sighted[i]
          /\ EndedIn(polls, i) + Unclaimed(polls, i, "terminal") <= polls.sighted[i]
      BY <2>1 DEF Claims
    <3>2. /\ polls.sighted[i] \in Nat /\ EndedIn(polls, i) \in Nat
          /\ polls.observed[i]["running"] \in Nat
          /\ Unclaimed(polls, i, "running") \in {0, 1}
          /\ Unclaimed(polls, i, "terminal") \in {0, 1}
      BY <2>1, PollNumbers DEF Outcomes
    <3>3. Ended(i) = EndedIn(polls, i)
      BY DEF Ended, EndedIn
    <3> QED
      BY <3>1, <3>2, <3>3
  <2> QED
    BY <2>2, <2>3 DEF ObservationsAreTrue, MilestonePerSighting
<1> QED
  BY <1>1, InitSync, InitWaits, InitObserved, KindsStay, NextKeepsSync, NextKeepsWaits,
     NextKeepsObserved, PTL DEF SyncSpec
-----------------------------------------------------------------------------
(***************************************************************************)
(* Types: what is left are the clocks.                                     *)
(***************************************************************************)
ClockTypes ==
  /\ clock \in 1..MaxClock
  /\ updatedAt \in [Ids -> 0..clock]
  /\ \A i \in DOMAIN page :
       i \in Ids /\ page[i] \in [status : Statuses, updatedAt : 0..clock]

\* No row has a time the clock has not reached.
LEMMA NextKeepsClocks ==
  SyncInv /\ ClockTypes /\ [Polling \/ Syncing]_allVars => ClockTypes'
<1> SUFFICES ASSUME SyncInv, ClockTypes, [Polling \/ Syncing]_allVars PROVE ClockTypes'
  OBVIOUS
<1>1. status \in [Ids -> Statuses] /\ clock \in Nat
  BY DEF SyncInv, SyncTypes
<1>2. CASE UNCHANGED <<clock, updatedAt, page>>
  BY <1>2 DEF ClockTypes
<1>3. CASE Tick
  <2>1. /\ clock' \in 1..MaxClock /\ 0..clock \subseteq 0..clock'
        /\ UNCHANGED <<updatedAt, page>>
    BY <1>1, <1>3, ServiceSyncAssumption DEF Tick, ClockTypes
  <2> QED
    BY <2>1 DEF ClockTypes
<1>4. ASSUME NEW i \in Ids, ServiceChanges(i) PROVE ClockTypes'
  <2>1. clock \in 0..clock
    BY <1>1
  <2> QED
    BY <1>4, <2>1 DEF ServiceChanges, ClockTypes
<1>5. ASSUME NEW first \in FirstPages, SendPage(first) PROVE ClockTypes'
  <2>1. Rows(first) \subseteq Ids
    BY DEF Rows
  <2>2. /\ page' = [i \in Rows(first) |-> [status |-> status[i], updatedAt |-> updatedAt[i]]]
        /\ UNCHANGED <<clock, updatedAt>>
    BY <1>5 DEF SendPage
  <2> QED
    BY <1>1, <2>1, <2>2 DEF ClockTypes
<1>6. CASE TakePage
  BY <1>6 DEF TakePage, NoPage, ClockTypes
<1>7. CASE Polling \/ Request \/ PageFails \/ UNCHANGED allVars
  BY <1>2, <1>7 DEF Polling, Request, PageFails, allVars, syncVars
<1> QED
  BY <1>3, <1>4, <1>5, <1>6, <1>7 DEF Syncing

\* Every variable of the status calls, their trackers and the sync holds a value
\* of its kind: both trackers keep within their cap and hold a key once.
THEOREM FollowTypeCorrect == SyncSpec => []FollowTypeOK
<1>1. SyncInit => ClockTypes
  BY ServiceSyncAssumption DEF SyncInit, NoPage, ClockTypes
<1>2. kind \in KindChoices /\ SyncInv /\ WaitInv /\ ObservedInv /\ ClockTypes => FollowTypeOK
  <2> SUFFICES ASSUME kind \in KindChoices, SyncInv, WaitInv, ObservedInv, ClockTypes
               PROVE  FollowTypeOK
    OBVIOUS
  <2>1. PollsTypeOK
    BY DEF ObservedInv, PollInv, PollRecord, Tracks, Milestones, PollsTypeOK
  <2>2. TypeOK
    BY <2>1 DEF SyncInv, SyncTypes, WaitInv, CallTypes, ObservedInv, SeenInv, TypeOK
  <2> QED
    BY <2>2 DEF SyncInv, SyncTypes, ClockTypes, FollowTypeOK
<1> QED
  BY <1>1, <1>2, InitSync, InitWaits, InitObserved, KindsStay, NextKeepsSync,
     NextKeepsWaits, NextKeepsObserved, NextKeepsClocks, PTL DEF SyncSpec
=============================================================================
