---------------------------- MODULE ServiceStatus ----------------------------
(***************************************************************************)
(* Calls of serviceStatus (tools/serviceTools.ts), with and without        *)
(* waitForRunning, and of computeStatus (tools/p2pProviderTools.ts), for   *)
(* one id or for all of the caller's, against services and jobs that the   *)
(* node moves on its own.  A reply tells the statuses of when the node     *)
(* sent it; replies of overlapping calls arrive in any order.  Times are   *)
(* in seconds.                                                             *)
(***************************************************************************)
EXTENDS PollTracker

CONSTANTS
  MaxCalls,                      \* bound: status calls
  Listing,                       \* the order in which the node lists the ids
  InitialStatuses,               \* statuses an id may start from
  Lifecycle,                     \* the node's status changes by kind, as pairs
  WaitChoices,                   \* what waitForRunning may be
  WaitTimeouts,                  \* what waitTimeout may be, or NoTimeout
  NoTimeout, Nothing,
  MAX_WAIT_FOR_RUNNING_SECONDS,
  WAIT_POLL_INTERVAL             \* WAIT_POLL_INTERVAL_MS, in seconds

ASSUME ServiceStatusAssumption ==
  /\ MaxCalls \in Nat
  /\ Listing \in Seq(Ids)
  /\ InitialStatuses \subseteq Statuses
  /\ Lifecycle \in [Kinds -> SUBSET (Statuses \X Statuses)]
  /\ WaitChoices \subseteq BOOLEAN
  /\ WaitTimeouts \subseteq (Nat \ {0}) \cup {NoTimeout} /\ NoTimeout \notin Nat
  /\ Nothing \notin Ids \cup Kinds
  /\ MAX_WAIT_FOR_RUNNING_SECONDS \in Nat
  /\ WAIT_POLL_INTERVAL \in Nat \ {0}
  /\ MAX_WAIT_FOR_RUNNING_SECONDS % WAIT_POLL_INTERVAL = 0

VARIABLES
  status,      \* each id's status at the node
  pc,          \* where each call stands
  target,      \* the id it asks about, or the kind it lists all of
  waiting,     \* waitForRunning
  waitTimeout, \* its argument
  current,     \* the statuses in the last reply
  waited,      \* waitedMs
  timedOut,    \* waitTimedOut
  been         \* history: statuses each id has been in

node == <<status, been>>
vars == <<node, pc, target, waiting, waitTimeout, current, waited, timedOut,
          kind, polls>>

\* Calls are interchangeable: they begin in order.
Calls == 1..MaxCalls
PCs == {"idle", "asking", "replied", "sleeping", "answered", "failed"}

-----------------------------------------------------------------------------
isServiceTerminal(n) == n \in TERMINAL_FAILURE_STATUSES \cup SERVICE_END_STATUSES

\* The wait loop's test; an unlisted service is not settled.
settled(n) == n = 40 \/ isServiceTerminal(n)

\* Faulty variant: the caller's figure is not clamped.
BudgetUnclamped(timeout) ==
  IF timeout = NoTimeout THEN MAX_WAIT_FOR_RUNNING_SECONDS ELSE timeout

Budget(timeout) ==
  IF timeout = NoTimeout \/ timeout > MAX_WAIT_FOR_RUNNING_SECONDS
  THEN MAX_WAIT_FOR_RUNNING_SECONDS ELSE timeout

\* The ids a call asks about.
Asked(c) == IF target[c] \in Ids THEN {target[c]} ELSE {i \in Ids : kind[i] = target[c]}

\* Only serviceStatus waits, and only with a serviceId.
Waits(c) == waiting[c] /\ target[c] \in Ids

-----------------------------------------------------------------------------
Init ==
  /\ PollsInit
  /\ status \in [Ids -> InitialStatuses]
  /\ been = [i \in Ids |-> {status[i]}]
  /\ pc = [c \in Calls |-> "idle"]
  /\ target = [c \in Calls |-> Nothing]
  /\ waiting = [c \in Calls |-> FALSE]
  /\ waitTimeout = [c \in Calls |-> NoTimeout]
  /\ current = [c \in Calls |-> [i \in Ids |-> Absent]]
  /\ waited = [c \in Calls |-> 0]
  /\ timedOut = [c \in Calls |-> FALSE]

Move(c, from, to) == pc[c] = from /\ pc' = [pc EXCEPT ![c] = to]

-----------------------------------------------------------------------------
(***************************************************************************)
(* A call.                                                                 *)
(***************************************************************************)
\* serviceStatus, about one service or all of the caller's.
AskService(c, t, wait, timeout) ==
  /\ IF t \in Ids THEN kind[t] = "service" ELSE t = "service"
  /\ Move(c, "idle", "asking")
  /\ target' = [target EXCEPT ![c] = t]
  /\ waiting' = [waiting EXCEPT ![c] = wait]
  /\ waitTimeout' = [waitTimeout EXCEPT ![c] = timeout]
  /\ UNCHANGED <<node, current, waited, timedOut, kind, polls>>

\* computeStatus, about one job or all of the caller's.
AskJob(c, t) ==
  /\ IF t \in Ids THEN kind[t] = "job" ELSE t = "job"
  /\ Move(c, "idle", "asking")
  /\ target' = [target EXCEPT ![c] = t]
  /\ UNCHANGED <<node, waiting, waitTimeout, current, waited, timedOut, kind, polls>>

\* The node answers with the statuses of now.
Reply(c) ==
  /\ Move(c, "asking", "replied")
  /\ current' = [current EXCEPT ![c] =
                   [i \in Ids |-> IF i \in Asked(c) THEN status[i] ELSE Absent]]
  /\ UNCHANGED <<node, target, waiting, waitTimeout, waited, timedOut, kind, polls>>

\* The request times out: an answer without a payload, which leaves no metric.
RequestFails(c) ==
  /\ Move(c, "asking", "failed")
  /\ UNCHANGED <<node, target, waiting, waitTimeout, current, waited,
                 timedOut, kind, polls>>

Settled(c) == \A i \in Asked(c) : settled(current[c][i])

KeepsWaiting(c) == Waits(c) /\ ~Settled(c) /\ waited[c] < Budget(waitTimeout[c])

StartSleep(c) ==
  /\ Move(c, "replied", "sleeping")
  /\ KeepsWaiting(c)
  /\ UNCHANGED <<node, target, waiting, waitTimeout, current, waited,
                 timedOut, kind, polls>>

\* Faulty variant: the time slept is not added up.
WakeUncounted(c) ==
  /\ Move(c, "sleeping", "asking")
  /\ UNCHANGED <<node, target, waiting, waitTimeout, current, waited,
                 timedOut, kind, polls>>

Wake(c) ==
  /\ Move(c, "sleeping", "asking")
  /\ waited' = [waited EXCEPT ![c] = @ + WAIT_POLL_INTERVAL]
  /\ UNCHANGED <<node, target, waiting, waitTimeout, current, timedOut, kind, polls>>

\* The jobs of an answer, in the node's order.
Listed(c) ==
  [n \in DOMAIN Listing |-> [id |-> Listing[n], status |-> current[c][Listing[n]]]]

\* The handler returns.
Returns(c) ==
  /\ Move(c, "replied", "answered")
  /\ ~KeepsWaiting(c)
  /\ timedOut' = [timedOut EXCEPT ![c] = Waits(c) /\ ~Settled(c)]

\* The handler returns, and the tool wrapper inspects what it returned.
Answer(c) ==
  /\ Returns(c)
  /\ inspectResult(Listed(c))
  /\ UNCHANGED <<node, target, waiting, waitTimeout, current, waited, kind>>

\* The node moves a service or a job along (external).
NodeMoves(i, lifecycle) ==
  \E n \in {step[2] : step \in {s \in lifecycle : s[1] = status[i]}} :
    /\ status' = [status EXCEPT ![i] = n]
    /\ been' = [been EXCEPT ![i] = @ \cup {n}]

-----------------------------------------------------------------------------
\* A timeout is read only where there is a wait.
Ask(c) ==
  /\ \A d \in 1..(c - 1) : pc[d] # "idle"
  /\ \E t \in Ids \cup Kinds :
       \/ \E wait \in WaitChoices :
            \E timeout \in (IF wait /\ t \in Ids THEN WaitTimeouts ELSE {NoTimeout}) :
              AskService(c, t, wait, timeout)
       \/ AskJob(c, t)

Next ==
  \/ \E c \in Calls : \/ Ask(c) \/ Reply(c) \/ RequestFails(c)
                       \/ StartSleep(c) \/ Wake(c) \/ Answer(c)
  \/ \E i \in Ids :
       /\ NodeMoves(i, Lifecycle[kind[i]])
       /\ UNCHANGED <<pc, target, waiting, waitTimeout, current, waited,
                      timedOut, kind, polls>>

Spec == Init /\ [][Next]_vars

\* Timers fire, a status request is answered or aborted by its timeout, and a
\* handler that has its reply goes on.  Nothing makes a service settle.
Progress(c) ==
  Reply(c) \/ RequestFails(c) \/ StartSleep(c) \/ Wake(c) \/ Returns(c)

Answered == \A c \in Calls : WF_pc(Progress(c))

FairSpec == Spec /\ Answered

-----------------------------------------------------------------------------
(***************************************************************************)
(* Properties.                                                             *)
(***************************************************************************)
\* Every variable holds a value of its kind.
TypeOK ==
  /\ PollsTypeOK
  /\ status \in [Ids -> Statuses] /\ been \in [Ids -> SUBSET Statuses]
  /\ pc \in [Calls -> PCs]
  /\ target \in [Calls -> Ids \cup Kinds \cup {Nothing}]
  /\ waiting \in [Calls -> BOOLEAN]
  /\ waitTimeout \in [Calls -> WaitTimeouts \cup {NoTimeout}]
  /\ current \in [Calls -> [Ids -> Statuses]]
  /\ waited \in [Calls -> Nat]
  /\ timedOut \in [Calls -> BOOLEAN]

\* The counted wait never exceeds the hard cap, a whole number of poll intervals;
\* the caller's own figure it may exceed by less than one interval.
WaitIsBounded(c) ==
  /\ waited[c] <= MAX_WAIT_FOR_RUNNING_SECONDS
  /\ waitTimeout[c] # NoTimeout => waited[c] < waitTimeout[c] + WAIT_POLL_INTERVAL

\* 45 Restarting: the comment on the wait (serviceTools.ts:893-894) calls it settled
\* enough to report, the test below it does not.
Restarting(c) == \E i \in Asked(c) : current[c][i] = 45

\* A wait stays within the cap and does not give up early, and its answer claims
\* neither too much nor too little: the service settled and the answer shows it
\* settled, or it says that the budget is used up.  What an answer that shows the
\* service restarting should claim is left open.
WaitEndsForAReason ==
  \A c \in Calls :
    /\ WaitIsBounded(c)
    /\ pc[c] = "answered" /\ Waits(c) /\ ~Restarting(c) =>
         IF timedOut[c]
         THEN ~Settled(c) /\ waited[c] >= Budget(waitTimeout[c])
         ELSE Settled(c)

\* An outcome is of the id's own vocabulary, and the id was in that status:
\* 70 is a job's success and a service's stop.
Happened(i, outcome) ==
  LET of == [running |-> {40}, success |-> {70, 71}, stopped |-> {70}, expired |-> {75},
             failed |-> IF kind[i] = "job" THEN COMPUTE_FAILURES
                        ELSE TERMINAL_FAILURE_STATUSES]
  IN /\ been[i] \cap of[outcome] # {}
     /\ outcome = "success" => kind[i] = "job"
     /\ outcome \in {"running", "stopped", "expired"} => kind[i] = "service"

\* What was counted as observed happened, and is counted once per sighting: a
\* stale or reordered reply, a list, an eviction between two answers or between
\* two rows of one never makes up an outcome or counts one twice.
ObservationsAreTrue ==
  /\ MilestonePerSighting
  /\ \A i \in Ids, o \in Outcomes : polls.observed[i][o] > 0 => Happened(i, o)

\* Every call is answered, also about a service that never settles.
EveryCallEnds == \A c \in Calls : pc[c] # "idle" ~> pc[c] \in {"answered", "failed"}
=============================================================================
