---------------------------- MODULE MCPaidStart -----------------------------
(* Two calls that compete for the escrow of one payer.                      *)
EXTENDS PaidStart

Job(k, a, d, g) == [kind |-> k, amount |-> a, duration |-> d, gated |-> g]

\* Three kinds of gated job and one that bypasses the gate.  With a node that
\* asks 7200 s more than the duration, a service of 60 s outgrows the padding
\* (3660 s) and one of 40000 s does not (50000 s).
MCJobs == {Job("compute", 2, 60, TRUE), Job("compute", 1, 60, FALSE),
           Job("service", 1, 60, TRUE), Job("extend", 1, 40000, TRUE)}

Auth(amount, seconds, counts) ==
  [exists |-> TRUE, maxLockedAmount |-> amount, currentLockedAmount |-> 0,
   maxLockSeconds |-> seconds, maxLockCounts |-> counts, currentLocks |-> 0]

MCAuthorization == Auth(3, 5000, 2)

MCLimits == {[maxLockedAmount |-> 3, maxLockSeconds |-> 50000, maxLockCounts |-> 1],
             [maxLockedAmount |-> 1, maxLockSeconds |-> 7260, maxLockCounts |-> 2]}
=============================================================================
