---------------------------- MODULE PollTracker -----------------------------
(***************************************************************************)
(* What inspectResult (telemetry/inspectResult.ts) makes of the answers of *)
(* serviceStatus and computeStatus: a bounded tracker for each kind, which *)
(* remembers the milestones it already counted for an id, and the          *)
(* instruments mcp.service.observed and mcp.compute.jobs.observed.  An     *)
(* answer may list several ids, inspected in its order.  Poll counts and   *)
(* observed durations are left out.                                        *)
(***************************************************************************)
EXTENDS Integers, SequencesExt

CONSTANTS
  Ids,            \* serviceIds and jobIds
  KindChoices,    \* which of them are services and which are compute jobs
  MAX_POLL_ITEMS  \* PollTracker.max

Kinds == {"service", "job"}

ASSUME PollTrackerAssumption ==
  /\ KindChoices \subseteq [Ids -> Kinds]
  /\ MAX_POLL_ITEMS \in Nat \ {0}

VARIABLES
  kind,   \* what each id is
  polls   \* both trackers and their instruments

\* An id the reply does not list.
Absent == 0

TERMINAL_FAILURE_STATUSES == {12, 14, 15, 99}
SERVICE_END_STATUSES == {70, 75}
ServiceStatuses ==
  {10, 11, 13, 20, 30, 40, 45, 50}
    \cup TERMINAL_FAILURE_STATUSES \cup SERVICE_END_STATUSES

\* The jobs whose statusText holds one of COMPUTE_FAILURE_KEYWORDS.
COMPUTE_FAILURES == {11, 13, 32, 41, 61, 62}
ComputeStatuses == {1, 10, 20, 40, 50, 70, 71} \cup COMPUTE_FAILURES
Statuses == {Absent} \cup ServiceStatuses \cup ComputeStatuses

Outcomes == {"running", "success", "failed", "stopped", "expired"}
Unclassified == "none"

-----------------------------------------------------------------------------
classifyServiceJob(n) ==
  IF n = 40 THEN "running"
  ELSE IF n \in TERMINAL_FAILURE_STATUSES THEN "failed"
  ELSE IF n = 70 THEN "stopped"
  ELSE IF n = 75 THEN "expired"
  ELSE Unclassified

classifyComputeJob(n) ==
  IF n \in {70, 71} THEN "success"
  ELSE IF n \in COMPUTE_FAILURES THEN "failed"
  ELSE Unclassified

\* Faulty variant: one vocabulary for both kinds.
classifyAlike(i, n) ==
  IF classifyServiceJob(n) # Unclassified THEN classifyServiceJob(n)
  ELSE classifyComputeJob(n)

classify(i, n) ==
  IF kind[i] = "job" THEN classifyComputeJob(n) ELSE classifyServiceJob(n)

milestone(outcome) == IF outcome = "running" THEN "running" ELSE "terminal"

-----------------------------------------------------------------------------
\* items: the tracked ids of each kind, oldest insertion first.  emitted: the
\* milestones claimed for a tracked id.  sighted, a history: how often an id
\* entered its tracker.
PollsInit ==
  /\ kind \in KindChoices
  /\ polls = [items |-> [k \in Kinds |-> <<>>],
              emitted |-> [i \in Ids |-> {}],
              observed |-> [i \in Ids |-> [o \in Outcomes |-> 0]],
              sighted |-> [i \in Ids |-> 0]]

InTracker(p, i) == \E n \in DOMAIN p.items[kind[i]] : p.items[kind[i]][n] = i

\* Faulty variant: the oldest is dropped only once the cap has been passed.
makeRoomLate(p, k) ==
  IF Len(p.items[k]) > MAX_POLL_ITEMS
  THEN [p EXCEPT !.items[k] = Tail(@), !.emitted[Head(p.items[k])] = {}] ELSE p

\* At the cap the oldest insertion is forgotten with its milestones.
makeRoom(p, k) ==
  IF Len(p.items[k]) >= MAX_POLL_ITEMS
  THEN [p EXCEPT !.items[k] = Tail(@), !.emitted[Head(p.items[k])] = {}] ELSE p

poll(p, i) ==
  IF InTracker(p, i) THEN p
  ELSE [makeRoom(p, kind[i]) EXCEPT !.items[kind[i]] = Append(@, i),
                                    !.sighted[i] = @ + 1]

\* An outcome is counted when its milestone is claimed for the first time.
claim(p, i, n) ==
  LET outcome == classify(i, n)
  IN IF outcome = Unclassified \/ milestone(outcome) \in p.emitted[i] THEN p
     ELSE [p EXCEPT !.emitted[i] = @ \cup {milestone(outcome)},
                    !.observed[i][outcome] = @ + 1]

\* What one row of an answer does; an id that is not listed has none.
inspect(p, j) ==
  IF j.status = Absent THEN p ELSE claim(poll(p, j.id), j.id, j.status)

\* inspectResult on an answer, a sequence of ids with their statuses.
inspectResult(jobs) == polls' = FoldLeft(inspect, polls, jobs)

-----------------------------------------------------------------------------
\* Both trackers hold a key once, and no more keys than the cap.
PollsTypeOK ==
  /\ kind \in KindChoices
  /\ \A k \in Kinds :
       /\ polls.items[k] \in Seq({i \in Ids : kind[i] = k})
       /\ Len(polls.items[k]) <= MAX_POLL_ITEMS
       /\ \A m, n \in DOMAIN polls.items[k] :
            polls.items[k][m] = polls.items[k][n] => m = n
  /\ polls.emitted \in [Ids -> SUBSET {"running", "terminal"}]
  /\ polls.observed \in [Ids -> [Outcomes -> Nat]]
  /\ polls.sighted \in [Ids -> Nat]

Ended(i) ==
  LET o == polls.observed[i]
  IN o["success"] + o["failed"] + o["stopped"] + o["expired"]

\* However often and in whatever order clients poll, an id is counted at most
\* once as running and once as ended for each time it entered its tracker.
MilestonePerSighting ==
  \A i \in Ids : /\ polls.observed[i]["running"] <= polls.sighted[i]
                 /\ Ended(i) <= polls.sighted[i]
=============================================================================
