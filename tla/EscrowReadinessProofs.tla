----------------------- MODULE EscrowReadinessProofs ------------------------
(***************************************************************************)
(* Facts about one evaluation of an escrow: when it says that a job can    *)
(* start, how that compares with what the contract does, and that the      *)
(* verdict fits its explanation.  evaluateEscrowReadiness decides `ready`, *)
(* `reason` and `shortfalls` by three separate lists of comparisons; that  *)
(* they agree rests on the targets being no lower than what one job needs. *)
(***************************************************************************)
EXTENDS EscrowReadiness, FiniteSets, FiniteSetTheorems, TLAPS

\* What the chain may hold: locks in use are not bounded from below.
ChainAuthorization ==
  [exists : BOOLEAN, maxLockedAmount : Nat, currentLockedAmount : Int,
   maxLockSeconds : Nat, maxLockCounts : Nat, currentLocks : Int]

-----------------------------------------------------------------------------
(***************************************************************************)
(* The authorization.                                                      *)
(***************************************************************************)
\* A lock that comes or goes keeps the authorization an authorization.
LEMMA LocksKeepType ==
  ASSUME NEW a \in ChainAuthorization, NEW amount \in Nat
  PROVE  /\ WithLock(a, amount) \in ChainAuthorization
         /\ WithoutLock(a, amount) \in ChainAuthorization
<1>1. ASSUME NEW x \in Int, NEW y \in Int
      PROVE  [a EXCEPT !.currentLockedAmount = x, !.currentLocks = y]
               \in ChainAuthorization
  <2>1. [a EXCEPT !.currentLockedAmount = x] \in ChainAuthorization
    BY DEF ChainAuthorization
  <2>2. \A b \in ChainAuthorization :
          [b EXCEPT !.currentLocks = y] \in ChainAuthorization
    BY DEF ChainAuthorization
  <2> QED
    BY <2>1, <2>2
<1>2. /\ a.currentLockedAmount + amount \in Int
      /\ a.currentLockedAmount - amount \in Int
      /\ a.currentLocks + 1 \in Int /\ a.currentLocks - 1 \in Int
  BY DEF ChainAuthorization
<1> QED
  BY <1>1, <1>2 DEF WithLock, WithoutLock

\* New limits keep the authorization an authorization.
LEMMA ReauthorizedKeepsType ==
  ASSUME NEW a \in ChainAuthorization, NEW l \in Limits
  PROVE  Reauthorized(a, l) \in ChainAuthorization
<1>1. [a EXCEPT !.exists = TRUE] \in ChainAuthorization
  BY DEF ChainAuthorization
<1>2. \A b \in ChainAuthorization :
        /\ [b EXCEPT !.maxLockedAmount = l.maxLockedAmount] \in ChainAuthorization
        /\ [b EXCEPT !.maxLockSeconds = l.maxLockSeconds] \in ChainAuthorization
        /\ [b EXCEPT !.maxLockCounts = l.maxLockCounts] \in ChainAuthorization
  BY DEF ChainAuthorization, Limits
<1> QED
  BY <1>1, <1>2 DEF Reauthorized

-----------------------------------------------------------------------------
(***************************************************************************)
(* The gate's test against the contract's.                                 *)
(***************************************************************************)
\* More funds and an authorization with at least the room start the same job.
LEMMA CanStartMonotone ==
  ASSUME NEW req \in Requirement,
         NEW f1 \in Nat, NEW f2 \in Nat, f2 >= f1,
         NEW a1 \in ChainAuthorization, NEW a2 \in ChainAuthorization,
         AtLeast(a2, a1),
         canStartThisJob(req, f1, a1)
  PROVE  canStartThisJob(req, f2, a2)
BY DEF ChainAuthorization, Requirement, AtLeast, canStartThisJob, Headroom,
       FreeSlots

\* A job that can start is locked by the contract when the node asks for no
\* longer a lock than the gate did.
LEMMA CanStartIsAccepted ==
  ASSUME NEW req \in Requirement, NEW f \in Nat,
         NEW a \in ChainAuthorization, NEW s \in Nat,
         s <= req.minLockSeconds,
         canStartThisJob(req, f, a)
  PROVE  LockAccepted(f, a, req.amount, s)
BY DEF ChainAuthorization, Requirement, canStartThisJob, LockAccepted, Headroom

\* And a lock the contract accepts can start when the gate asks for no longer
\* a lock than the node does.
LEMMA AcceptedCanStart ==
  ASSUME NEW req \in Requirement, NEW f \in Nat,
         NEW a \in ChainAuthorization, NEW s \in Nat,
         req.minLockSeconds <= s,
         LockAccepted(f, a, req.amount, s)
  PROVE  canStartThisJob(req, f, a)
BY DEF ChainAuthorization, Requirement, canStartThisJob, LockAccepted, Headroom

-----------------------------------------------------------------------------
(***************************************************************************)
(* The targets, and the explanation of a verdict.                          *)
(***************************************************************************)
\* The targets of a requirement cover the one job it is about: parallelJobs
\* jobs cost at least what one does, and lock for at least minLockSeconds.
LEMMA TargetsCoverTheJob ==
  ASSUME NEW r \in Requirement
  PROVE  /\ requiredMaxLockedAmount(r) \in Nat
         /\ requiredMaxLockedAmount(r) >= r.amount
         /\ requiredMaxLockSeconds(r) \in Nat
         /\ requiredMaxLockSeconds(r) >= r.minLockSeconds
<1> DEFINE a == r.amount
           p == r.parallelJobs
<1>1. a \in Nat /\ p \in Nat /\ p >= 1
  BY DEF Requirement
<1>2. a * p \in Nat /\ a * p >= a
  <2> HIDE DEF a, p
  <2>1. a * p = a + a * (p - 1)
    BY <1>1
  <2>2. p - 1 \in Nat
    BY <1>1
  <2>3. \A x, y \in Nat : x * y \in Nat
    OBVIOUS
  <2>4. a * (p - 1) \in Nat
    BY <1>1, <2>2, <2>3
  <2> QED
    BY <1>1, <2>1, <2>3, <2>4
<1>3. /\ requiredMaxLockSeconds(r) \in Nat
      /\ requiredMaxLockSeconds(r) >= r.minLockSeconds
  BY DEF requiredMaxLockSeconds, Larger, Requirement, LOCK_DURATION_BUFFER_SECONDS
<1> QED
  BY <1>2, <1>3 DEF requiredMaxLockedAmount

\* Verdict and explanation of one evaluation: ready exactly when nothing is
\* missing.
LEMMA ReadyIsNoShortfall ==
  ASSUME NEW r \in Requirement, NEW f \in Int, NEW x \in ChainAuthorization
  PROVE  ready(r, f, x) <=> shortfalls(r, f, x) = {}
<1> DEFINE listed(s) == s \in shortfalls(r, f, x)
<1>1. /\ listed("funds") <=> ~fundsOk(r, f)
      /\ listed("authorization") <=> ~x.exists
      /\ listed("maxLockedAmount") <=> x.exists /\ ~authAmountOk(r, x)
      /\ listed("maxLockSeconds") <=> x.exists /\ ~authSecondsOk(r, x)
      /\ listed("maxLockCounts") <=> x.exists /\ ~authCountsOk(r, x)
      /\ listed("headroom") <=> x.exists /\ Headroom(x) < r.amount
      /\ listed("lockSlot") <=> x.exists /\ x.currentLocks + 1 > x.maxLockCounts
  BY DEF shortfalls
<1>2. shortfalls(r, f, x) = {} <=>
        ~ \/ listed("funds") \/ listed("authorization") \/ listed("maxLockedAmount")
          \/ listed("maxLockSeconds") \/ listed("maxLockCounts")
          \/ listed("headroom") \/ listed("lockSlot")
  BY DEF shortfalls
<1>3. /\ requiredMaxLockedAmount(r) \in Nat
      /\ requiredMaxLockedAmount(r) >= r.amount
      /\ requiredMaxLockSeconds(r) \in Nat
      /\ requiredMaxLockSeconds(r) >= r.minLockSeconds
      /\ r.amount \in Nat /\ r.minLockSeconds \in Nat
  BY TargetsCoverTheJob DEF Requirement
<1>4. ASSUME fundsOk(r, f), x.exists, authSecondsOk(r, x),
             ~(Headroom(x) < r.amount), ~(x.currentLocks + 1 > x.maxLockCounts)
      PROVE  canStartThisJob(r, f, x)
  BY <1>3, <1>4 DEF canStartThisJob, fundsOk, authSecondsOk, Headroom,
                    ChainAuthorization
<1>5. ASSUME canStartThisJob(r, f, x)
      PROVE  /\ x.exists
             /\ ~(Headroom(x) < r.amount)
             /\ ~(x.currentLocks + 1 > x.maxLockCounts)
  BY <1>3, <1>5 DEF canStartThisJob, Headroom, ChainAuthorization
<1> HIDE DEF listed
<1> QED
  BY <1>1, <1>2, <1>4, <1>5 DEF ready

\* The reason given for a job that cannot start is among its shortfalls.
LEMMA ReasonIsListed ==
  ASSUME NEW r \in Requirement, NEW f \in Int, NEW x \in ChainAuthorization,
         ~canStartThisJob(r, f, x)
  PROVE  /\ reason(r, f, x) = "insufficient_funds" =>
              "funds" \in shortfalls(r, f, x)
         /\ reason(r, f, x) = "missing_authorization" =>
              "authorization" \in shortfalls(r, f, x)
         /\ reason(r, f, x) = "authorization_limits" =>
              shortfalls(r, f, x) \ {"funds", "authorization"} # {}
<1>1. /\ requiredMaxLockedAmount(r) \in Nat
      /\ requiredMaxLockedAmount(r) >= r.amount
      /\ requiredMaxLockSeconds(r) \in Nat
      /\ requiredMaxLockSeconds(r) >= r.minLockSeconds
      /\ r.amount \in Nat /\ r.minLockSeconds \in Nat
  BY TargetsCoverTheJob DEF Requirement
<1>2. CASE f < r.amount
  <2>1. ~fundsOk(r, f)
    BY <1>1, <1>2 DEF fundsOk
  <2>2. "funds" \in shortfalls(r, f, x)
    BY <2>1 DEF shortfalls
  <2> QED
    BY <1>2, <2>2 DEF reason
<1>3. CASE ~(f < r.amount) /\ ~x.exists
  BY <1>3 DEF reason, shortfalls
<1>4. CASE ~(f < r.amount) /\ x.exists
  <2>1. \/ Headroom(x) < r.amount
        \/ ~authSecondsOk(r, x)
        \/ x.currentLocks + 1 > x.maxLockCounts
    BY <1>1, <1>4 DEF canStartThisJob, authSecondsOk, Headroom, ChainAuthorization
  <2>2. \E s \in {"headroom", "maxLockSeconds", "lockSlot"} : s \in shortfalls(r, f, x)
    BY <1>4, <2>1 DEF shortfalls
  <2> QED
    BY <1>4, <2>2 DEF reason
<1> QED
  BY <1>2, <1>3, <1>4

-----------------------------------------------------------------------------
(***************************************************************************)
(* Counting, for the modules whose counters are about sets of calls.       *)
(***************************************************************************)
\* Sets that differ in one element at most.
LEMMA OneMore ==
  ASSUME NEW C, IsFiniteSet(C), NEW S \in SUBSET C, NEW T \in SUBSET C,
         NEW c \in C, S \ {c} = T \ {c}
  PROVE  /\ Cardinality(S) \in Nat /\ Cardinality(T) \in Nat
         /\ (c \in S <=> c \in T) => Cardinality(T) = Cardinality(S)
         /\ c \in T /\ c \notin S => Cardinality(T) = Cardinality(S) + 1
         /\ c \in S /\ c \notin T => Cardinality(T) = Cardinality(S) - 1
<1>1. IsFiniteSet(S) /\ IsFiniteSet(T)
  BY FS_Subset
<1>2. Cardinality(S) \in Nat /\ Cardinality(T) \in Nat
  BY <1>1, FS_CardinalityType
<1>3. ASSUME c \in S <=> c \in T PROVE S = T
  BY <1>3
<1>4. ASSUME c \in T, c \notin S PROVE Cardinality(T) = Cardinality(S) + 1
  <2>1. T = S \cup {c}
    BY <1>4
  <2> QED
    BY <1>1, <1>4, <2>1, FS_AddElement
<1>5. ASSUME c \in S, c \notin T PROVE Cardinality(T) = Cardinality(S) - 1
  <2>1. S = T \cup {c}
    BY <1>5
  <2>2. Cardinality(S) = Cardinality(T) + 1
    BY <1>1, <1>5, <2>1, FS_AddElement
  <2> QED
    BY <1>2, <2>2
<1> QED
  BY <1>2, <1>3, <1>4, <1>5
=============================================================================
