-------------------------- MODULE EscrowReadiness ---------------------------
(***************************************************************************)
(* The pure half of tools/escrowPreflight.ts: given the funds and the      *)
(* authorization read from the chain, can the node lock this job, and is   *)
(* the payer provisioned to the recommended targets?                       *)
(*                                                                         *)
(* A requirement is what one preflight is asked about:                     *)
(*   amount, minLockSeconds   the payment object, raw token units          *)
(*   maxJobDuration           seconds                                      *)
(*   parallelJobs             jobs the authorization is sized for          *)
(***************************************************************************)
EXTENDS EscrowContract

LOCK_DURATION_BUFFER_SECONDS == 86400
DEFAULT_PARALLEL_JOBS == 3
DEFAULT_CLAIM_DURATION_TIMEOUT_SECONDS == 3600

Requirement ==
  [amount : Nat, minLockSeconds : Nat, maxJobDuration : Nat,
   parallelJobs : Nat \ {0}]

Larger(a, b) == IF a >= b THEN a ELSE b

\* ceil(0.25 * d), in integers.
QuarterRoundedUp(d) == (d + 3) \div 4

serviceMinLockSeconds(d) ==
  d + Larger(DEFAULT_CLAIM_DURATION_TIMEOUT_SECONDS, QuarterRoundedUp(d))

(***************************************************************************)
(* Per-job feasibility, the blocking condition.                            *)
(***************************************************************************)
\* Faulty variants: the lock slot is not checked; the last slot is not usable.
canStartWithoutSlot(req, available, auth) ==
  /\ available >= req.amount
  /\ auth.exists
  /\ Headroom(auth) >= req.amount
  /\ auth.maxLockSeconds >= req.minLockSeconds

canStartBelowLastSlot(req, available, auth) ==
  /\ canStartWithoutSlot(req, available, auth)
  /\ auth.currentLocks + 1 < auth.maxLockCounts

canStartThisJob(req, available, auth) ==
  /\ available >= req.amount
  /\ auth.exists
  /\ Headroom(auth) >= req.amount
  /\ auth.maxLockSeconds >= req.minLockSeconds
  /\ auth.currentLocks + 1 <= auth.maxLockCounts

\* The reason of a verdict that blocks.
BlockReasons ==
  {"insufficient_funds", "missing_authorization", "authorization_limits"}

reason(req, available, auth) ==
  IF available < req.amount THEN "insufficient_funds"
  ELSE IF ~auth.exists THEN "missing_authorization"
  ELSE "authorization_limits"

(***************************************************************************)
(* Provisioning targets, set once and reused.                              *)
(***************************************************************************)
\* Faulty variants: sized for one job; the padded duration replaces the quote.
requiredForOneJob(req) == req.amount

requiredSecondsUnquoted(req) == req.maxJobDuration + LOCK_DURATION_BUFFER_SECONDS

requiredMaxLockedAmount(req) == req.amount * req.parallelJobs

requiredMaxLockSeconds(req) ==
  Larger(req.maxJobDuration + LOCK_DURATION_BUFFER_SECONDS, req.minLockSeconds)

Targets(req) ==
  [maxLockedAmount |-> requiredMaxLockedAmount(req),
   maxLockSeconds  |-> requiredMaxLockSeconds(req),
   maxLockCounts   |-> req.parallelJobs]

fundsOk(req, available) == available >= requiredMaxLockedAmount(req)
authAmountOk(req, auth) == auth.maxLockedAmount >= requiredMaxLockedAmount(req)
authSecondsOk(req, auth) == auth.maxLockSeconds >= requiredMaxLockSeconds(req)
authCountsOk(req, auth) == auth.maxLockCounts >= req.parallelJobs

\* Faulty variant: provisioned to the targets, whatever is locked already.
readyByTargets(req, available, auth) ==
  /\ fundsOk(req, available)
  /\ auth.exists /\ authAmountOk(req, auth)
  /\ authSecondsOk(req, auth) /\ authCountsOk(req, auth)

ready(req, available, auth) ==
  /\ canStartThisJob(req, available, auth)
  /\ fundsOk(req, available)
  /\ auth.exists /\ authAmountOk(req, auth)
  /\ authSecondsOk(req, auth) /\ authCountsOk(req, auth)

\* What the answer lists as missing, one name per message.
shortfalls(req, available, auth) ==
  {s \in {"funds", "authorization", "maxLockedAmount", "maxLockSeconds",
          "maxLockCounts", "headroom", "lockSlot"} :
     \/ s = "funds" /\ ~fundsOk(req, available)
     \/ s = "authorization" /\ ~auth.exists
     \/ /\ auth.exists
        /\ \/ s = "maxLockedAmount" /\ ~authAmountOk(req, auth)
           \/ s = "maxLockSeconds" /\ ~authSecondsOk(req, auth)
           \/ s = "maxLockCounts" /\ ~authCountsOk(req, auth)
           \/ s = "headroom" /\ Headroom(auth) < req.amount
           \/ s = "lockSlot" /\ auth.currentLocks + 1 > auth.maxLockCounts}
=============================================================================
