---------------------------- MODULE Provisioning ----------------------------
(***************************************************************************)
(* What evaluateEscrowReadiness (tools/escrowPreflight.ts) promises about  *)
(* its provisioning targets: a payer who follows the advice is ready, and  *)
(* a payer who is ready can start parallelJobs jobs side by side, set once *)
(* and reused.  One payer, one node; the jobs all ask the same price and   *)
(* lock it whole, up front, at a node whose claimDurationTimeout src/ does *)
(* not know.                                                               *)
(***************************************************************************)
EXTENDS EscrowReadiness

CONSTANTS
  Requirements,           \* what preflights are asked about
  Durations,              \* of the jobs started, in seconds
  ClaimDurationTimeouts,  \* settings a node may have, in seconds
  InitialFunds,           \* funds the escrow may hold at first
  InitialAuthorizations,  \* authorizations the payer may have given before
  MaxJobs                 \* bound: jobs of this payer running at once

\* The buffer is taken to dwarf "any plausible setting" of a node's timeout; and
\* what is locked is locked by some job.
ASSUME ProvisioningAssumption ==
  /\ Requirements \subseteq Requirement
  /\ Durations \subseteq Nat
  /\ ClaimDurationTimeouts \subseteq 0..LOCK_DURATION_BUFFER_SECONDS
  /\ InitialFunds \subseteq Nat
  /\ InitialAuthorizations \subseteq Authorization
  /\ \A a \in InitialAuthorizations : a.currentLocks = 0 => a.currentLockedAmount = 0
  /\ MaxJobs \in Nat

VARIABLES
  req,      \* the requirement at hand
  funds,    \* the payer's available escrow funds
  auth,     \* the payee's authorization
  answer,   \* the last preflight's result
  running,  \* jobs started since that preflight and still holding their lock
  quiet     \* since then nothing else took from the escrow

vars == <<req, funds, auth, answer, running, quiet>>

Reasons == BlockReasons \cup {"none"}

\* Faulty variant: reports the slots this job would leave, not those in use.
EvaluateSlotsLeft(r, available, a) ==
  [given      |-> TRUE,
   ready      |-> ready(r, available, a),
   canStart   |-> canStartThisJob(r, available, a),
   reason     |-> IF canStartThisJob(r, available, a) THEN "none"
                  ELSE reason(r, available, a),
   shortfalls |-> shortfalls(r, available, a),
   locks      |-> FreeSlots(a) - 1]

\* The fields of an answer that this module is about.
Evaluate(r, available, a) ==
  [given      |-> TRUE,
   ready      |-> ready(r, available, a),
   canStart   |-> canStartThisJob(r, available, a),
   reason     |-> IF canStartThisJob(r, available, a) THEN "none"
                  ELSE reason(r, available, a),
   shortfalls |-> shortfalls(r, available, a),
   locks      |-> a.currentLocks]

NoAnswer ==
  [given |-> FALSE, ready |-> FALSE, canStart |-> FALSE, reason |-> "none",
   shortfalls |-> {}, locks |-> 0]

Init ==
  /\ req \in Requirements
  /\ funds \in InitialFunds
  /\ auth \in InitialAuthorizations
  /\ answer = NoAnswer
  /\ running = 0
  /\ quiet = FALSE

Preflight ==
  /\ answer' = Evaluate(req, funds, auth)
  /\ running' = 0
  /\ quiet' = TRUE
  /\ UNCHANGED <<req, funds, auth>>

\* action.instructions: deposit, and authorize at least the targets.
FollowInstructions ==
  /\ answer.given /\ ~answer.ready
  /\ funds' = Larger(funds, requiredMaxLockedAmount(req))
  /\ auth' = Reauthorized(auth,
       [maxLockedAmount |-> Larger(auth.maxLockedAmount, Targets(req).maxLockedAmount),
        maxLockSeconds  |-> Larger(auth.maxLockSeconds, Targets(req).maxLockSeconds),
        maxLockCounts   |-> Larger(auth.maxLockCounts, Targets(req).maxLockCounts)])
  /\ UNCHANGED <<req, answer, running, quiet>>

LockSeconds(d, timeout) == d + timeout

\* The node locks one more job (external).
StartJob(d, timeout) ==
  /\ running < MaxJobs
  /\ LockAccepted(funds, auth, req.amount, LockSeconds(d, timeout))
  /\ funds' = funds - req.amount
  /\ auth' = WithLock(auth, req.amount)
  /\ running' = running + 1
  /\ UNCHANGED <<req, answer, quiet>>

\* A job started since the preflight ends; the node claims what it cost.
EndJob(cost) ==
  /\ running > 0
  /\ funds' = funds + req.amount - cost
  /\ auth' = WithoutLock(auth, req.amount)
  /\ running' = running - 1
  /\ quiet' = (quiet /\ cost = 0)
  /\ UNCHANGED <<req, answer>>

Next ==
  \/ Preflight \/ FollowInstructions
  \/ \E d \in Durations, timeout \in ClaimDurationTimeouts : StartJob(d, timeout)
  \/ \E cost \in 0..req.amount : EndJob(cost)

Spec == Init /\ [][Next]_vars

-----------------------------------------------------------------------------
(***************************************************************************)
(* Properties.                                                             *)
(***************************************************************************)
\* Every variable holds a value of its kind.
TypeOK ==
  /\ req \in Requirements
  /\ funds \in Nat
  /\ auth \in Authorization
  /\ answer \in [given : BOOLEAN, ready : BOOLEAN, canStart : BOOLEAN,
                reason : Reasons,
                shortfalls : SUBSET {"funds", "authorization", "maxLockedAmount",
                  "maxLockSeconds", "maxLockCounts", "headroom", "lockSlot"},
                locks : Nat]
  /\ running \in 0..MaxJobs
  /\ quiet \in BOOLEAN

\* The verdict and its explanation are drawn separately and agree: ready exactly
\* when nothing is listed as missing.
ReadyMeansNoShortfall ==
  answer.given => (answer.ready <=> answer.shortfalls = {})

\* The reason of a block points at a shortfall that explains it.
ReasonIsAShortfall ==
  /\ answer.reason = "insufficient_funds" => "funds" \in answer.shortfalls
  /\ answer.reason = "missing_authorization" => "authorization" \in answer.shortfalls
  /\ answer.reason = "authorization_limits" =>
       answer.shortfalls \ {"funds", "authorization"} # {}

\* The three lists of comparisons in one answer agree.
AnswersAgree == ReadyMeansNoShortfall /\ ReasonIsAShortfall

\* "Set once and reused": after ready with no lock in use, parallelJobs jobs
\* run side by side -- also ones as long as the environment allows, on a node
\* that raised claimDurationTimeout -- and a slot given back can be used again.
ParallelJobsCovered ==
  answer.ready /\ answer.locks = 0 /\ quiet /\ running < req.parallelJobs =>
    \A d \in Durations, timeout \in ClaimDurationTimeouts :
      d <= req.maxJobDuration =>
        LockAccepted(funds, auth, req.amount, LockSeconds(d, timeout))

\* The advice takes: whoever followed it is ready, unless earlier jobs still
\* hold their locks.
AdviceTakes ==
  [][FollowInstructions /\ auth.currentLocks = 0 /\ auth.currentLockedAmount = 0
       => ready(req, funds', auth')]_vars
=============================================================================
