--------------------------- MODULE MCProvisioning ---------------------------
(* Requirements whose minLockSeconds is below and above the target derived  *)
(* from maxJobDuration, for one job, and for two in parallel.               *)
EXTENDS Provisioning

Req(amount, minLock, duration, parallel) ==
  [amount |-> amount, minLockSeconds |-> minLock, maxJobDuration |-> duration,
   parallelJobs |-> parallel]

MCRequirements ==
  {Req(1, 3660, 60, 1), Req(1, 3660, 60, 2), Req(2, 90000, 600, 2),
   Req(2, 3660, 600, 3)}

Auth(amount, locked, seconds, counts, locks) ==
  [exists |-> TRUE, maxLockedAmount |-> amount, currentLockedAmount |-> locked,
   maxLockSeconds |-> seconds, maxLockCounts |-> counts, currentLocks |-> locks]

\* None, too small ones, one at a target, and ones with earlier locks that leave
\* room, no headroom or no slot.
MCAuthorizations ==
  {NoAuthorization, Auth(1, 0, 3660, 1, 0), Auth(2, 0, 86460, 2, 0),
   Auth(6, 0, 90000, 3, 0), Auth(4, 1, 90000, 3, 1), Auth(4, 4, 90000, 3, 1),
   Auth(9, 2, 90000, 2, 2)}
=============================================================================
