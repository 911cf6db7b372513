------------------------------ MODULE Sessions ------------------------------
(***************************************************************************)
(* The sessions of the HTTP server: mcpHandler in index.ts, the tracker in *)
(* telemetry/sessionTracker.ts and the tool wrapper's use of it.  Requests *)
(* of a session are admitted by a lookup in `transports` and dispatched    *)
(* after an await, so that a call, an initialized notification and the     *)
(* DELETE that closes the session overtake each other; a client may send   *)
(* any of them twice.                                                      *)
(***************************************************************************)
EXTENDS UserWindows, SequencesExt

CONSTANTS
  MaxSessions,           \* bound: sessions initialized
  Clients,               \* client names, each at one address
  ClientsOf,             \* bound: which of them may open the n-th session
  UserOf,                \* deriveUserId of that address and name
  NoClient,              \* an id not drawn yet
  MAX_TRACKED_SESSIONS,  \* cap on tracked sessions
  MaxRequests            \* bound: HTTP requests with a session id

ASSUME SessionsAssumption ==
  /\ MaxSessions \in Nat
  /\ NoClient \notin Clients
  /\ ClientsOf \in [1..MaxSessions -> SUBSET Clients]
  /\ UserOf \in [Clients -> Users \cup {NoUser}]
  /\ MAX_TRACKED_SESSIONS \in Nat \ {0}
  /\ MaxRequests \in Nat

VARIABLES
  transports,  \* ids of the open transports
  client,      \* the client name of each id, for good
  pending,     \* admitted requests, not dispatched yet
  requests,    \* requests sent so far
  rejected,    \* mcp.transport.rejected, reason session_not_found
  sessions,    \* the tracked ids, oldest insertion first
  toolCalls,   \* toolCalls of each tracked session
  metrics,     \* the mcp.session(s) instruments by client name
  evicted      \* history: sessions dropped at the cap, with calls made or without

web == <<transports, client, pending, requests, rejected>>
tracker == <<sessions, toolCalls, metrics>>
vars == <<web, tracker, windows, evicted>>

\* UUIDs are interchangeable: they are drawn in order.
SessionIds == 1..MaxSessions

Requests == {"initialized", "call", "delete"}
Instruments == {"active", "started", "duration", "empty", "firstCall"}

\* Of a session dropped: whether it had made a call.
Fates == {"busy", "idle"}
Fate(i) == IF toolCalls[i] > 0 THEN "busy" ELSE "idle"

Tracked(i) == \E n \in DOMAIN sessions : sessions[n] = i

\* Instruments are added to under the session's client name.
Add(m, instrument, i, n) == [m EXCEPT ![instrument][client[i]] = @ + n]

-----------------------------------------------------------------------------
Init ==
  /\ transports = {}
  /\ client = [i \in SessionIds |-> NoClient]
  /\ pending = [i \in SessionIds |-> {}]
  /\ requests = 0
  /\ rejected = 0
  /\ sessions = <<>>
  /\ toolCalls = [i \in SessionIds |-> 0]
  /\ metrics = [x \in Instruments |-> [k \in Clients |-> 0]]
  /\ WindowsInit
  /\ evicted = [x \in Fates |-> [k \in Clients |-> 0]]

-----------------------------------------------------------------------------
(***************************************************************************)
(* HTTP requests.                                                          *)
(***************************************************************************)
\* POST initialize: a transport under a fresh id, not tracked yet.
Initialize(i, k) ==
  /\ client[i] = NoClient
  /\ \A j \in 1..(i - 1) : client[j] # NoClient
  /\ client' = [client EXCEPT ![i] = k]
  /\ transports' = transports \cup {i}
  /\ UNCHANGED <<pending, requests, rejected, tracker, windows, evicted>>

\* A request that names a session: its transport is looked up, and the rest
\* of the handler runs later.
Admit(i, r) ==
  /\ client[i] # NoClient
  /\ requests < MaxRequests
  /\ requests' = requests + 1
  /\ \/ /\ i \in transports /\ r \notin pending[i]
        /\ pending' = [pending EXCEPT ![i] = @ \cup {r}]
        /\ UNCHANGED rejected
     \/ /\ i \notin transports
        /\ rejected' = rejected + 1
        /\ UNCHANGED pending
  /\ UNCHANGED <<transports, client, tracker, windows, evicted>>

Dispatch(i, r) ==
  /\ r \in pending[i]
  /\ pending' = [pending EXCEPT ![i] = @ \ {r}]
  /\ UNCHANGED <<client, requests, rejected>>

-----------------------------------------------------------------------------
(***************************************************************************)
(* The tracker.                                                            *)
(***************************************************************************)
\* Faulty variant: one session more than the cap.
FullBeyondCap == Len(sessions) > MAX_TRACKED_SESSIONS
Full == Len(sessions) >= MAX_TRACKED_SESSIONS

\* Faulty variant: the newest session makes room.
Newest == sessions[Len(sessions)]
Oldest == Head(sessions)

\* Of a tracked id.
Without(i) == RemoveAt(sessions, CHOOSE n \in DOMAIN sessions : sessions[n] = i)

\* Faulty variant: a dropped session stays on the gauge.
DropKeepsGauge(i) == metrics
Drop(i) == Add(metrics, "active", i, -1)

Track(i, others, m) ==
  /\ sessions' = Append(others, i)
  /\ toolCalls' = [toolCalls EXCEPT ![i] = 0]
  /\ metrics' = Add(Add(m, "active", i, 1), "started", i, 1)
  /\ recordUser(UserOf[client[i]])

\* startSession: nothing for a session that is tracked.  At the cap the oldest
\* insertion makes room, off the gauge but not into the histograms.  Only a
\* session that is new counts its user.
StartSession(i) ==
  \/ Tracked(i) /\ UNCHANGED <<tracker, windows, evicted>>
  \/ ~Tracked(i) /\ ~Full /\ Track(i, sessions, metrics) /\ UNCHANGED evicted
  \/ /\ ~Tracked(i) /\ Full
     /\ Track(i, Without(Oldest), Drop(Oldest))
     /\ evicted' = [evicted EXCEPT ![Fate(Oldest)][client[Oldest]] = @ + 1]

\* Faulty variant: the end of a session that is not tracked is recorded too.
EndAnySession(i) ==
  LET busy == IF toolCalls[i] = 0 THEN 1 ELSE 0
  IN /\ sessions' = IF Tracked(i) THEN Without(i) ELSE sessions
     /\ metrics' = Add(Add(Add(metrics, "active", i, -1), "duration", i, 1),
                       "empty", i, busy)
     /\ UNCHANGED toolCalls

\* endSession: idempotent.
EndSession(i) ==
  \/ ~Tracked(i) /\ UNCHANGED tracker
  \/ /\ Tracked(i)
     /\ sessions' = Without(i)
     /\ metrics' = Add(Add(Add(metrics, "active", i, -1), "duration", i, 1),
                       "empty", i, IF toolCalls[i] = 0 THEN 1 ELSE 0)
     /\ UNCHANGED toolCalls

\* The tool wrapper's getSession(id)?.recordToolUse().
RecordToolUse(i) ==
  \/ ~Tracked(i) /\ UNCHANGED tracker
  \/ /\ Tracked(i)
     /\ toolCalls' = [toolCalls EXCEPT ![i] = @ + 1]
     /\ metrics' = Add(metrics, "firstCall", i, IF toolCalls[i] = 0 THEN 1 ELSE 0)
     /\ UNCHANGED sessions

-----------------------------------------------------------------------------
(***************************************************************************)
(* Dispatched requests.                                                    *)
(***************************************************************************)
OnInitialized(i) ==
  /\ Dispatch(i, "initialized")
  /\ StartSession(i)
  /\ UNCHANGED transports

ToolCall(i) ==
  /\ Dispatch(i, "call")
  /\ RecordToolUse(i)
  /\ UNCHANGED <<transports, windows, evicted>>

\* transport.onclose, at the DELETE that closes the session, or once more.
OnClose(i) ==
  /\ Dispatch(i, "delete")
  /\ transports' = transports \ {i}
  /\ EndSession(i)
  /\ UNCHANGED <<windows, evicted>>

Next ==
  \E i \in SessionIds :
    \/ \E k \in ClientsOf[i] : Initialize(i, k)
    \/ \E r \in Requests : Admit(i, r)
    \/ OnInitialized(i) \/ ToolCall(i) \/ OnClose(i)

Spec == Init /\ [][Next]_vars

-----------------------------------------------------------------------------
(***************************************************************************)
(* Properties.                                                             *)
(***************************************************************************)
Drawn == {i \in SessionIds : client[i] # NoClient}

\* Every variable holds a value of its kind, and the Map holds a key once.
TypeOK ==
  /\ client \in [SessionIds -> Clients \cup {NoClient}]
  /\ WindowsTypeOK
  /\ transports \subseteq Drawn
  /\ pending \in [SessionIds -> SUBSET Requests]
  /\ requests \in 0..MaxRequests /\ rejected \in 0..MaxRequests
  /\ sessions \in Seq(Drawn)
  /\ \A m, n \in DOMAIN sessions : sessions[m] = sessions[n] => m = n
  /\ toolCalls \in [SessionIds -> Nat]
  /\ metrics \in [Instruments -> [Clients -> Nat]]
  /\ evicted \in [Fates -> [Clients -> Nat]]

\* A long-lived server tracks no more sessions than the cap, whatever leaks.
CapHolds == Len(sessions) <= MAX_TRACKED_SESSIONS

TrackedOf(k) == {i \in SessionIds : Tracked(i) /\ client[i] = k}
CallersOf(k) == {i \in TrackedOf(k) : toolCalls[i] > 0}

\* The gauge of open sessions is, per client name, the number tracked.
GaugeIsTracked == \A k \in Clients : metrics["active"][k] = Cardinality(TrackedOf(k))

\* What started is tracked, in the histograms, or was dropped at the cap.
StartedIsAccountedFor ==
  \A k \in Clients :
    metrics["started"][k] =
      Cardinality(TrackedOf(k)) + metrics["duration"][k]
        + evicted["busy"][k] + evicted["idle"][k]

\* time_to_first_call is the complement of empty.
EmptyOrActivated ==
  \A k \in Clients :
    metrics["empty"][k] + metrics["firstCall"][k] =
      metrics["duration"][k] + Cardinality(CallersOf(k)) + evicted["busy"][k]

\* The session metrics never drift, through evictions, double closes and late
\* notifications: no session is lost or retired twice, the gauge is what is
\* tracked, and a retired session is empty or has a first call, never both.
SessionsAddUp == GaugeIsTracked /\ StartedIsAccountedFor /\ EmptyOrActivated

\* An open session is forgotten only at the cap, and only the one inserted
\* longest ago.
ForgetsTheOldest ==
  [][\A i \in SessionIds :
       Tracked(i) /\ ~Tracked(i)' =>
         \/ i \notin transports'
         \/ i = sessions[1] /\ Len(sessions) = MAX_TRACKED_SESSIONS]_vars
=============================================================================
