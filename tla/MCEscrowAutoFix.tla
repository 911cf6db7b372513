-------------------------- MODULE MCEscrowAutoFix ---------------------------
(* Two escrow_preflight calls for one payer, in any overlap.                *)
EXTENDS EscrowAutoFix, TLC

Ask(amount, parallel, duration, fix) ==
  [req |-> [amount |-> amount, minLockSeconds |-> serviceMinLockSeconds(duration),
            maxJobDuration |-> duration, parallelJobs |-> parallel],
   fix |-> fix]

\* One job or two in parallel, an expensive one, and one without a key.
MCAsks == {Ask(1, 2, 60, TRUE), Ask(2, 1, 60, TRUE), Ask(1, 1, 60, FALSE)}

MCNoAuthorization == NoAuthorization

\* Below the targets in slots, resp. in seconds; enough for a single job.
MCLimits ==
  {[maxLockedAmount |-> 2, maxLockSeconds |-> 100000, maxLockCounts |-> 1],
   [maxLockedAmount |-> 3, maxLockSeconds |-> 3660, maxLockCounts |-> 2]}

CallSymmetry == Permutations(Calls)
=============================================================================
