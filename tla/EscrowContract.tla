--------------------------- MODULE EscrowContract ---------------------------
(***************************************************************************)
(* The on-chain Escrow contract as src/ uses it, for one payer, one payee  *)
(* and one token: the payer's available funds and the authorization the    *)
(* payer gave the payee.  External code: what is modelled is the reading   *)
(* escrowPreflight.ts makes of it (getUserFunds, getAuthorizations), the   *)
(* validation of createLock it mirrors, and the transactions auto-fix      *)
(* sends.                                                                  *)
(***************************************************************************)
EXTENDS Integers

\* EscrowAuthorizationView and its absence: `exists` is the `parsed !== null`
\* of evaluateEscrowReadiness; a missing authorization has no room at all.
Authorization ==
  [exists : BOOLEAN, maxLockedAmount : Nat, currentLockedAmount : Nat,
   maxLockSeconds : Nat, maxLockCounts : Nat, currentLocks : Nat]

NoAuthorization ==
  [exists |-> FALSE, maxLockedAmount |-> 0, currentLockedAmount |-> 0,
   maxLockSeconds |-> 0, maxLockCounts |-> 0, currentLocks |-> 0]

\* The limits a payer chooses in authorize().
Limits == [maxLockedAmount : Nat, maxLockSeconds : Nat, maxLockCounts : Nat]

Headroom(auth) == auth.maxLockedAmount - auth.currentLockedAmount
FreeSlots(auth) == auth.maxLockCounts - auth.currentLocks

\* What createLock, sent by the payee, requires of the chain.
LockAccepted(funds, auth, amount, lockSeconds) ==
  /\ funds >= amount
  /\ auth.exists
  /\ auth.currentLockedAmount + amount <= auth.maxLockedAmount
  /\ lockSeconds <= auth.maxLockSeconds
  /\ auth.currentLocks < auth.maxLockCounts

\* The authorization after a lock of `amount` is created, and after it is
\* claimed or cancelled.
WithLock(auth, amount) ==
  [auth EXCEPT !.currentLockedAmount = @ + amount, !.currentLocks = @ + 1]

WithoutLock(auth, amount) ==
  [auth EXCEPT !.currentLockedAmount = @ - amount, !.currentLocks = @ - 1]

\* The contract's authorize(): new limits, the locks in use are kept.
Reauthorized(auth, limits) ==
  [auth EXCEPT !.exists = TRUE,
               !.maxLockedAmount = limits.maxLockedAmount,
               !.maxLockSeconds = limits.maxLockSeconds,
               !.maxLockCounts = limits.maxLockCounts]

\* Authorization a leaves a new lock at least the room b leaves it.
AtLeast(a, b) ==
  /\ b.exists => a.exists
  /\ Headroom(a) >= Headroom(b)
  /\ a.maxLockSeconds >= b.maxLockSeconds
  /\ FreeSlots(a) >= FreeSlots(b)
=============================================================================
