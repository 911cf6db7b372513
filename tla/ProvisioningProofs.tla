------------------------- MODULE ProvisioningProofs -------------------------
(***************************************************************************)
(* A payer that provisions what it was told can pay.  What it was told is  *)
(* a preflight: its explanation fits its verdict, for every requirement    *)
(* and whatever the chain holds, although evaluateEscrowReadiness decides  *)
(* `ready`, `reason` and `shortfalls` by three separate lists of           *)
(* comparisons.  Or it is the quote of a service: the gate and the node    *)
(* compute it again, from what they hold by then.                          *)
(***************************************************************************)
EXTENDS Provisioning, ServiceBilling, EscrowReadinessProofs

-----------------------------------------------------------------------------
(***************************************************************************)
(* The answers.                                                            *)
(***************************************************************************)
\* The chain holds numbers, and an answer is one evaluation of some chain.
AnswersAreEvaluations ==
  /\ req \in Requirement
  /\ funds \in Int
  /\ auth \in ChainAuthorization
  /\ running \in Int
  /\ \/ answer = NoAnswer
     \/ \E f \in Int, x \in ChainAuthorization : answer = Evaluate(req, f, x)

\* The invariant holds at first, of the authorizations a payer may have.
LEMMA InitAnswers == Init => AnswersAreEvaluations
BY ProvisioningAssumption
DEF Init, AnswersAreEvaluations, ChainAuthorization, Authorization

\* Preflights, advice followed, and jobs that start and end keep it.
LEMMA NextAnswers == AnswersAreEvaluations /\ [Next]_vars => AnswersAreEvaluations'
<1> SUFFICES ASSUME AnswersAreEvaluations, [Next]_vars
             PROVE  AnswersAreEvaluations'
  OBVIOUS
<1> USE DEF AnswersAreEvaluations
<1>0. req.amount \in Nat
  BY DEF Requirement
<1>1. CASE Preflight
  BY <1>1 DEF Preflight
<1>2. CASE FollowInstructions
  <2>1. /\ requiredMaxLockedAmount(req) \in Nat
        /\ requiredMaxLockSeconds(req) \in Nat
        /\ req.parallelJobs \in Nat
    BY TargetsCoverTheJob DEF Requirement
  <2>2. funds' \in Int /\ auth' \in ChainAuthorization
    <3> DEFINE limits ==
          [maxLockedAmount |-> Larger(auth.maxLockedAmount, Targets(req).maxLockedAmount),
           maxLockSeconds  |-> Larger(auth.maxLockSeconds, Targets(req).maxLockSeconds),
           maxLockCounts   |-> Larger(auth.maxLockCounts, Targets(req).maxLockCounts)]
    <3>1. limits \in Limits
      BY <2>1 DEF Limits, Targets, Larger, ChainAuthorization
    <3>2. auth' = Reauthorized(auth, limits)
      BY <1>2 DEF FollowInstructions
    <3>3. funds' \in Int
      BY <1>2, <2>1 DEF FollowInstructions, Larger
    <3> QED
      BY <3>1, <3>2, <3>3, ReauthorizedKeepsType
  <2> QED
    BY <1>2, <2>2 DEF FollowInstructions
<1>3. ASSUME NEW d \in Durations, NEW timeout \in ClaimDurationTimeouts,
             StartJob(d, timeout)
      PROVE  AnswersAreEvaluations'
  <2>1. funds' \in Int /\ auth' \in ChainAuthorization /\ running' \in Int
    BY <1>0, <1>3, LocksKeepType DEF StartJob
  <2> QED
    BY <1>3, <2>1 DEF StartJob
<1>4. ASSUME NEW cost \in 0..req.amount, EndJob(cost)
      PROVE  AnswersAreEvaluations'
  <2>1. funds' \in Int /\ auth' \in ChainAuthorization /\ running' \in Int
    BY <1>0, <1>4, LocksKeepType DEF EndJob
  <2> QED
    BY <1>4, <2>1 DEF EndJob
<1>5. CASE UNCHANGED vars
  BY <1>5 DEF vars
<1> QED
  BY <1>1, <1>2, <1>3, <1>4, <1>5 DEF Next

\* Every answer ever given is one evaluation.
THEOREM EveryAnswerIsAnEvaluation == Spec => []AnswersAreEvaluations
BY InitAnswers, NextAnswers, PTL DEF Spec

\* A preflight never reports ready with something listed as missing, nor not
\* ready with nothing listed.
THEOREM ReadyMeansNothingMissing == Spec => []ReadyMeansNoShortfall
<1>1. AnswersAreEvaluations => ReadyMeansNoShortfall
  <2> SUFFICES ASSUME AnswersAreEvaluations, answer.given
               PROVE  answer.ready <=> answer.shortfalls = {}
    BY DEF ReadyMeansNoShortfall
  <2>1. PICK f \in Int, x \in ChainAuthorization : answer = Evaluate(req, f, x)
    BY DEF AnswersAreEvaluations, NoAnswer
  <2>2. /\ answer.ready = ready(req, f, x)
        /\ answer.shortfalls = shortfalls(req, f, x)
    BY <2>1 DEF Evaluate
  <2> QED
    BY <2>2, ReadyIsNoShortfall DEF AnswersAreEvaluations
<1> QED
  BY <1>1, EveryAnswerIsAnEvaluation, PTL

\* The reason of a block is never one the answer does not explain.
THEOREM ReasonsAreExplained == Spec => []ReasonIsAShortfall
<1>1. AnswersAreEvaluations => ReasonIsAShortfall
  <2> SUFFICES ASSUME AnswersAreEvaluations PROVE ReasonIsAShortfall
    OBVIOUS
  <2>1. CASE answer = NoAnswer
    BY <2>1 DEF NoAnswer, ReasonIsAShortfall
  <2>2. ASSUME NEW f \in Int, NEW x \in ChainAuthorization,
               answer = Evaluate(req, f, x)
        PROVE  ReasonIsAShortfall
    <3>1. /\ answer.reason = IF canStartThisJob(req, f, x) THEN "none"
                             ELSE reason(req, f, x)
          /\ answer.shortfalls = shortfalls(req, f, x)
      BY <2>2 DEF Evaluate
    <3>2. CASE canStartThisJob(req, f, x)
      BY <3>1, <3>2 DEF ReasonIsAShortfall
    <3>3. CASE ~canStartThisJob(req, f, x)
      BY <3>1, <3>3, ReasonIsListed DEF ReasonIsAShortfall, AnswersAreEvaluations
    <3> QED
      BY <3>2, <3>3
  <2> QED
    BY <2>1, <2>2 DEF AnswersAreEvaluations
<1> QED
  BY <1>1, EveryAnswerIsAnEvaluation, PTL

\* Verdict, reason and list of an answer agree.
THEOREM AnswersAgreeAlways == Spec => []AnswersAgree
<1>1. ReadyMeansNoShortfall /\ ReasonIsAShortfall => AnswersAgree
  BY DEF AnswersAgree
<1> QED
  BY <1>1, ReadyMeansNothingMissing, ReasonsAreExplained, PTL

-----------------------------------------------------------------------------
(***************************************************************************)
(* Set once and reused.                                                    *)
(***************************************************************************)
\* One more job of the running ones costs one amount more, and as long as
\* they are fewer than p no more than p jobs do.
LEMMA OneMoreJob ==
  ASSUME NEW a \in Nat, NEW k \in Nat
  PROVE  /\ k * a \in Nat
         /\ (k + 1) * a = k * a + a
         /\ \A p \in Nat : k < p => (k + 1) * a <= a * p
<1>1. \A x, y \in Nat : x * y \in Nat
  OBVIOUS
<1>2. (k + 1) * a = k * a + a
  OBVIOUS
<1>3. ASSUME NEW p \in Nat, k < p PROVE (k + 1) * a <= a * p
  <2>1. a * p = (k + 1) * a + (p - (k + 1)) * a
    BY <1>3
  <2>2. p - (k + 1) \in Nat
    BY <1>3
  <2>3. (p - (k + 1)) * a \in Nat /\ (k + 1) * a \in Nat
    BY <1>1, <2>2
  <2> QED
    BY <2>1, <2>3
<1> QED
  BY <1>1, <1>2, <1>3

\* What the running jobs hold is part of what is locked, and all of it when
\* theirs are the only locks.
LocksAccountedFor ==
  /\ running \in Nat
  /\ funds \in Nat
  /\ auth.currentLocks >= running
  /\ auth.currentLockedAmount >= running * req.amount
  /\ auth.currentLocks = running => auth.currentLockedAmount = running * req.amount

\* The targets are met by what is in the escrow or held by the jobs since.
CoveredFromNowOn ==
  /\ auth.exists
  /\ auth.currentLocks = running
  /\ funds + running * req.amount >= requiredMaxLockedAmount(req)
  /\ auth.maxLockedAmount >= requiredMaxLockedAmount(req)
  /\ auth.maxLockSeconds >= requiredMaxLockSeconds(req)
  /\ auth.maxLockCounts >= req.parallelJobs

\* A ready answer given without locks in use stays good.
Provisioned == answer.ready /\ answer.locks = 0 /\ quiet => CoveredFromNowOn

PInv == AnswersAreEvaluations /\ LocksAccountedFor /\ Provisioned

\* At first nothing runs, and no answer was given.
LEMMA InitPInv == Init => PInv
<1> SUFFICES ASSUME Init PROVE PInv
  OBVIOUS
<1>1. AnswersAreEvaluations
  BY InitAnswers
<1>2. req.amount \in Nat /\ 0 * req.amount = 0
  BY <1>1 DEF AnswersAreEvaluations, Requirement
<1>3. LocksAccountedFor
  BY <1>2, ProvisioningAssumption DEF Init, LocksAccountedFor, Authorization
<1>4. Provisioned
  BY DEF Init, Provisioned, NoAnswer
<1> QED
  BY <1>1, <1>3, <1>4 DEF PInv

\* Jobs that start and end move amounts between the escrow and their locks; a
\* preflight starts counting anew.
LEMMA NextPInv == PInv /\ [Next]_vars => PInv'
<1> SUFFICES ASSUME PInv, [Next]_vars PROVE PInv'
  OBVIOUS
<1> USE DEF PInv
<1>1. AnswersAreEvaluations'
  BY NextAnswers
<1>2. /\ req \in Requirement /\ req.amount \in Nat
      /\ auth \in ChainAuthorization /\ funds \in Nat /\ running \in Nat
      /\ running * req.amount \in Nat
      /\ (running + 1) * req.amount = running * req.amount + req.amount
      /\ requiredMaxLockedAmount(req) \in Nat
      /\ requiredMaxLockSeconds(req) \in Nat
  BY OneMoreJob, TargetsCoverTheJob DEF AnswersAreEvaluations, LocksAccountedFor, Requirement
<1>3. CASE Preflight
  <2>1. 0 * req.amount = 0
    BY <1>2
  <2>2. LocksAccountedFor'
    BY <1>2, <1>3, <2>1 DEF Preflight, LocksAccountedFor, ChainAuthorization
  <2>3. answer' = Evaluate(req, funds, auth) /\ UNCHANGED <<req, funds, auth>>
        /\ running' = 0
    BY <1>3 DEF Preflight
  <2>4. answer'.ready = ready(req, funds, auth) /\ answer'.locks = auth.currentLocks
    BY <2>3 DEF Evaluate
  <2>5. Provisioned'
    <3> SUFFICES ASSUME answer'.ready, answer'.locks = 0
                 PROVE  CoveredFromNowOn'
      BY DEF Provisioned
    <3>1. /\ auth.exists /\ auth.currentLocks = 0
          /\ funds >= requiredMaxLockedAmount(req)
          /\ auth.maxLockedAmount >= requiredMaxLockedAmount(req)
          /\ auth.maxLockSeconds >= requiredMaxLockSeconds(req)
          /\ auth.maxLockCounts >= req.parallelJobs
      BY <2>4 DEF ready, fundsOk, authAmountOk, authSecondsOk, authCountsOk
    <3>2. funds + 0 * req.amount = funds
      BY <1>2, <2>1
    <3> QED
      BY <2>3, <3>1, <3>2 DEF CoveredFromNowOn
  <2> QED
    BY <1>1, <2>2, <2>5
<1>4. CASE FollowInstructions
  <2>1. /\ ~answer.ready /\ UNCHANGED <<req, answer, running, quiet>>
        /\ funds' \in Nat
        /\ auth'.currentLocks = auth.currentLocks
        /\ auth'.currentLockedAmount = auth.currentLockedAmount
    BY <1>2, <1>4 DEF FollowInstructions, Larger, Reauthorized, ChainAuthorization
  <2> QED
    BY <1>1, <2>1 DEF LocksAccountedFor, Provisioned
<1>5. ASSUME NEW d \in Durations, NEW timeout \in ClaimDurationTimeouts,
             StartJob(d, timeout)
      PROVE  PInv'
  <2>1. /\ UNCHANGED <<req, answer, quiet>>
        /\ funds' = funds - req.amount /\ funds >= req.amount
        /\ running' = running + 1
        /\ auth'.exists = auth.exists
        /\ auth'.maxLockedAmount = auth.maxLockedAmount
        /\ auth'.maxLockSeconds = auth.maxLockSeconds
        /\ auth'.maxLockCounts = auth.maxLockCounts
        /\ auth'.currentLocks = auth.currentLocks + 1
        /\ auth'.currentLockedAmount = auth.currentLockedAmount + req.amount
    BY <1>2, <1>5 DEF StartJob, LockAccepted, WithLock, ChainAuthorization
  <2>2. running' * req.amount = running * req.amount + req.amount
    BY <1>2, <2>1
  <2>3. LocksAccountedFor'
    BY <1>2, <2>1, <2>2 DEF LocksAccountedFor, ChainAuthorization
  <2>4. Provisioned'
    BY <1>2, <2>1, <2>2 DEF Provisioned, CoveredFromNowOn, ChainAuthorization
  <2> QED
    BY <1>1, <2>3, <2>4
<1>6. ASSUME NEW cost \in 0..req.amount, EndJob(cost)
      PROVE  PInv'
  <2>1. /\ UNCHANGED <<req, answer>> /\ quiet' = (quiet /\ cost = 0)
        /\ funds' = funds + req.amount - cost /\ cost \in Nat /\ cost <= req.amount
        /\ running' = running - 1 /\ running > 0
        /\ auth'.exists = auth.exists
        /\ auth'.maxLockedAmount = auth.maxLockedAmount
        /\ auth'.maxLockSeconds = auth.maxLockSeconds
        /\ auth'.maxLockCounts = auth.maxLockCounts
        /\ auth'.currentLocks = auth.currentLocks - 1
        /\ auth'.currentLockedAmount = auth.currentLockedAmount - req.amount
    BY <1>2, <1>6 DEF EndJob, WithoutLock, ChainAuthorization
  <2>2. running - 1 \in Nat
    BY <1>2, <2>1
  <2>3. /\ (running - 1) * req.amount \in Nat
        /\ ((running - 1) + 1) * req.amount = (running - 1) * req.amount + req.amount
    BY <1>2, <2>2, OneMoreJob
  <2>4. running' * req.amount + req.amount = running * req.amount
        /\ running' * req.amount \in Nat /\ running' \in Nat
    BY <1>2, <2>1, <2>2, <2>3
  <2>5. LocksAccountedFor'
    BY <1>2, <2>1, <2>4 DEF LocksAccountedFor, ChainAuthorization
  <2>6. Provisioned'
    <3> SUFFICES ASSUME answer'.ready, answer'.locks = 0, quiet'
                 PROVE  CoveredFromNowOn'
      BY DEF Provisioned
    <3>1. cost = 0 /\ CoveredFromNowOn
      BY <2>1 DEF Provisioned
    <3>2. funds' + running' * req.amount = funds + running * req.amount
      BY <1>2, <2>1, <2>4, <3>1
    <3>3. auth'.currentLocks = running'
      BY <1>2, <2>1, <3>1 DEF CoveredFromNowOn
    <3> QED
      BY <2>1, <3>1, <3>2, <3>3 DEF CoveredFromNowOn
  <2> QED
    BY <1>1, <2>5, <2>6
<1>7. CASE UNCHANGED vars
  BY <1>1, <1>7 DEF vars, LocksAccountedFor, Provisioned, CoveredFromNowOn
<1> QED
  BY <1>3, <1>4, <1>5, <1>6, <1>7 DEF Next

\* The facts above, of every state.
THEOREM PInvHolds == Spec => []PInv
BY InitPInv, NextPInv, PTL DEF Spec

\* Set once and reused: whoever was ready with no lock in use starts
\* parallelJobs jobs side by side, whatever their durations up to the
\* environment's and whatever the node's timeout up to the buffer.
THEOREM TargetsAreEnough == Spec => []ParallelJobsCovered
<1>1. PInv => ParallelJobsCovered
  <2> SUFFICES ASSUME PInv,
                      answer.ready, answer.locks = 0, quiet,
                      running < req.parallelJobs,
                      NEW d \in Durations, NEW timeout \in ClaimDurationTimeouts,
                      d <= req.maxJobDuration
               PROVE  LockAccepted(funds, auth, req.amount, LockSeconds(d, timeout))
    BY DEF ParallelJobsCovered
  <2>1. /\ req.amount \in Nat /\ req.parallelJobs \in Nat
        /\ req.maxJobDuration \in Nat /\ req.minLockSeconds \in Nat
        /\ auth \in ChainAuthorization /\ funds \in Nat /\ running \in Nat
    BY DEF PInv, AnswersAreEvaluations, LocksAccountedFor, Requirement
  <2>2. /\ running * req.amount \in Nat
        /\ running * req.amount + req.amount <= requiredMaxLockedAmount(req)
    BY <2>1, OneMoreJob DEF requiredMaxLockedAmount
  <2>3. /\ auth.exists /\ auth.currentLocks = running
        /\ auth.currentLockedAmount = running * req.amount
        /\ funds + running * req.amount >= requiredMaxLockedAmount(req)
        /\ auth.maxLockedAmount >= requiredMaxLockedAmount(req)
        /\ auth.maxLockSeconds >= requiredMaxLockSeconds(req)
        /\ auth.maxLockCounts >= req.parallelJobs
    BY DEF PInv, Provisioned, CoveredFromNowOn, LocksAccountedFor
  <2>4. LockSeconds(d, timeout) <= requiredMaxLockSeconds(req)
    <3>1. d \in Nat /\ timeout \in 0..LOCK_DURATION_BUFFER_SECONDS
      BY ProvisioningAssumption
    <3> QED
      BY <2>1, <3>1
      DEF LockSeconds, requiredMaxLockSeconds, Larger, LOCK_DURATION_BUFFER_SECONDS
  <2>5. requiredMaxLockedAmount(req) \in Nat /\ requiredMaxLockSeconds(req) \in Nat
        /\ LockSeconds(d, timeout) \in Nat
    BY <2>1, TargetsCoverTheJob, ProvisioningAssumption
    DEF PInv, AnswersAreEvaluations, LockSeconds
  <2> QED
    BY <2>1, <2>2, <2>3, <2>4, <2>5 DEF LockAccepted, ChainAuthorization
<1> QED
  BY <1>1, PInvHolds, PTL

-----------------------------------------------------------------------------
(***************************************************************************)
(* The advice, and the types.                                              *)
(***************************************************************************)
\* Following the instructions makes a payer ready whose authorization holds no
\* lock: raising each limit to its target and depositing the difference is all
\* that can be asked of the payer.
THEOREM AdviceIsEnough == Spec => AdviceTakes
<1>1. ASSUME PInv, FollowInstructions,
             auth.currentLocks = 0, auth.currentLockedAmount = 0
      PROVE  ready(req, funds', auth')
  <2>1. /\ auth \in ChainAuthorization /\ funds \in Nat
        /\ req.amount \in Nat /\ req.parallelJobs \in Nat \ {0}
        /\ requiredMaxLockedAmount(req) \in Nat
        /\ requiredMaxLockSeconds(req) \in Nat
        /\ requiredMaxLockedAmount(req) >= req.amount
        /\ requiredMaxLockSeconds(req) >= req.minLockSeconds
        /\ req.minLockSeconds \in Nat
    BY <1>1, TargetsCoverTheJob
    DEF PInv, AnswersAreEvaluations, LocksAccountedFor, Requirement
  <2>2. /\ funds' >= requiredMaxLockedAmount(req) /\ funds' \in Nat
        /\ auth'.exists
        /\ auth'.maxLockedAmount >= requiredMaxLockedAmount(req)
        /\ auth'.maxLockSeconds >= requiredMaxLockSeconds(req)
        /\ auth'.maxLockCounts >= req.parallelJobs
        /\ auth'.maxLockedAmount \in Nat /\ auth'.maxLockSeconds \in Nat
        /\ auth'.maxLockCounts \in Nat
        /\ auth'.currentLocks = 0 /\ auth'.currentLockedAmount = 0
    BY <1>1, <2>1
    DEF FollowInstructions, Larger, Targets, Reauthorized, ChainAuthorization
  <2> QED
    BY <2>1, <2>2
    DEF ready, canStartThisJob, Headroom, fundsOk, authAmountOk, authSecondsOk,
        authCountsOk
<1>2. PInv /\ [Next]_vars =>
        [FollowInstructions /\ auth.currentLocks = 0 /\ auth.currentLockedAmount = 0
           => ready(req, funds', auth')]_vars
  BY <1>1
<1> QED
  BY <1>2, PInvHolds, PTL DEF Spec, AdviceTakes

\* What an evaluation of the chain as it is looks like.
LEMMA EvaluateType ==
  ASSUME NEW f \in Nat, NEW a \in Authorization, NEW r \in Requirement
  PROVE  Evaluate(r, f, a) \in
           [given : BOOLEAN, ready : BOOLEAN, canStart : BOOLEAN, reason : Reasons,
            shortfalls : SUBSET {"funds", "authorization", "maxLockedAmount",
              "maxLockSeconds", "maxLockCounts", "headroom", "lockSlot"},
            locks : Nat]
<1>1. ready(r, f, a) \in BOOLEAN /\ canStartThisJob(r, f, a) \in BOOLEAN
  BY DEF ready, canStartThisJob
<1>2. shortfalls(r, f, a) \in SUBSET {"funds", "authorization", "maxLockedAmount",
        "maxLockSeconds", "maxLockCounts", "headroom", "lockSlot"}
  BY DEF shortfalls
<1>3. (IF canStartThisJob(r, f, a) THEN "none" ELSE reason(r, f, a)) \in Reasons
  BY DEF reason, Reasons, BlockReasons
<1>4. a.currentLocks \in Nat
  BY DEF Authorization
<1> QED
  BY <1>1, <1>2, <1>3, <1>4 DEF Evaluate

\* Every variable stays of its kind: no lock is given back that was not taken,
\* and neither funds nor amounts locked fall below zero.
THEOREM TypeCorrect == Spec => []TypeOK
<1>1. Init => TypeOK
  <2> SUFFICES ASSUME Init PROVE TypeOK
    OBVIOUS
  <2>1. req \in Requirements /\ funds \in Nat /\ auth \in Authorization
    BY ProvisioningAssumption DEF Init
  <2>2. answer = NoAnswer /\ "none" \in Reasons
    BY DEF Init, Reasons
  <2>3. running = 0 /\ MaxJobs \in Nat
    BY ProvisioningAssumption DEF Init
  <2>4. running \in 0..MaxJobs
    BY <2>3
  <2>5. quiet \in BOOLEAN
    BY DEF Init
  <2> QED
    BY <2>1, <2>2, <2>4, <2>5 DEF TypeOK, NoAnswer
<1>2. TypeOK /\ PInv /\ PInv' /\ [Next]_vars => TypeOK'
  <2> SUFFICES ASSUME TypeOK, PInv, PInv', [Next]_vars PROVE TypeOK'
    OBVIOUS
  <2>1. funds' \in Nat /\ running' \in Nat /\ auth' \in Authorization
    <3>1. /\ auth' \in ChainAuthorization /\ funds' \in Nat
          /\ running' \in Nat /\ req'.amount \in Nat
          /\ auth'.currentLocks >= running'
          /\ auth'.currentLockedAmount >= running' * req'.amount
      BY DEF PInv, AnswersAreEvaluations, LocksAccountedFor, Requirement
    <3>2. running' * req'.amount \in Nat
      BY <3>1, OneMoreJob
    <3>3. auth'.currentLocks \in Nat /\ auth'.currentLockedAmount \in Nat
      BY <3>1, <3>2 DEF ChainAuthorization
    <3> QED
      BY <3>1, <3>3 DEF ChainAuthorization, Authorization
  <2>2. req' \in Requirements
    BY DEF TypeOK, Next, vars, Preflight, FollowInstructions, StartJob, EndJob
  <2>3. quiet' \in BOOLEAN
    BY DEF TypeOK, Next, vars, Preflight, FollowInstructions, StartJob, EndJob
  <2>4. running' <= MaxJobs
    BY <2>1, ProvisioningAssumption
    DEF TypeOK, Next, vars, Preflight, FollowInstructions, StartJob, EndJob
  <2>5. CASE Preflight
    <3>1. answer' = Evaluate(req, funds, auth)
      BY <2>5 DEF Preflight
    <3>2. answer' \in
           [given : BOOLEAN, ready : BOOLEAN, canStart : BOOLEAN, reason : Reasons,
            shortfalls : SUBSET {"funds", "authorization", "maxLockedAmount",
              "maxLockSeconds", "maxLockCounts", "headroom", "lockSlot"},
            locks : Nat]
      BY <3>1, EvaluateType DEF TypeOK, PInv, AnswersAreEvaluations
    <3> QED
      BY <2>1, <2>2, <2>3, <2>4, <3>2, ProvisioningAssumption DEF TypeOK
  <2>6. CASE answer' = answer
    BY <2>1, <2>2, <2>3, <2>4, <2>6, ProvisioningAssumption DEF TypeOK
  <2> QED
    BY <2>5, <2>6 DEF Next, vars, FollowInstructions, StartJob, EndJob
<1> QED
  BY <1>1, <1>2, PInvHolds, PTL DEF Spec

-----------------------------------------------------------------------------
(***************************************************************************)
(* Costs.  A cost is a sum over a set of resources, taken in an order that *)
(* the definition leaves open; what counts of it is that each resource     *)
(* adds its share.                                                         *)
(***************************************************************************)
\* f is the sum of v over each subset of D.
Adds(f, v, D) ==
  /\ f \in [SUBSET D -> Nat] /\ f[{}] = 0
  /\ \A t \in SUBSET D : \A x \in t : f[t] = v[x] + f[t \ {x}]

\* None of the sets of B is a proper subset of s.
Smallest(s, B) == s \in B /\ \A t \in B : t \subseteq s => t = s

\* A family of subsets of a finite set has a smallest member: how a sum is
\* followed without an induction theorem.
LEMMA SmallestSet ==
  ASSUME NEW D, IsFiniteSet(D), NEW B \in SUBSET (SUBSET D), B # {}
  PROVE  \E s : Smallest(s, B)
<1>1. B \subseteq FiniteSubsetsOf(D)
  <2>1. \A s \in SUBSET D : IsFiniteSet(s)
    BY FS_Subset
  <2> QED
    BY <2>1 DEF FiniteSubsetsOf
<1>2. PICK s \in B : \A t \in B : ~(<<t, s>> \in StrictSubsetOrdering(D))
  BY <1>1, FS_StrictSubsetOrderingWellFounded, WFMin
<1>3. ASSUME NEW t \in B, t \subseteq s, t # s PROVE FALSE
  BY <1>1, <1>2, <1>3 DEF StrictSubsetOrdering, FiniteSubsetsOf
<1> QED
  BY <1>3 DEF Smallest

\* The sums over D, of those over D without x.
LEMMA OneMoreSummand ==
  ASSUME NEW D, NEW x \in D, NEW v, \A i \in D : v[i] \in Nat, NEW f, Adds(f, v, D \ {x})
  PROVE  \E g : Adds(g, v, D)
<1> DEFINE C == D \ {x}
           g == [t \in SUBSET D |-> IF x \in t THEN v[x] + f[t \ {x}] ELSE f[t]]
<1>1. /\ f \in [SUBSET C -> Nat] /\ f[{}] = 0
      /\ \A t \in SUBSET C : \A y \in t : f[t] = v[y] + f[t \ {y}]
  BY DEF Adds
<1>2. \A t \in SUBSET D : t \ {x} \in SUBSET C /\ (x \notin t => t \in SUBSET C)
  OBVIOUS
<1> HIDE DEF C
<1>3. g \in [SUBSET D -> Nat]
  <2>1. ASSUME NEW t \in SUBSET D PROVE (IF x \in t THEN v[x] + f[t \ {x}] ELSE f[t]) \in Nat
    BY <1>1, <1>2
  <2> QED
    BY <2>1
<1>4. g[{}] = 0
  BY <1>1
<1>5. ASSUME NEW t \in SUBSET D, NEW y \in t PROVE g[t] = v[y] + g[t \ {y}]
  <2>1. t \ {y} \in SUBSET D
    OBVIOUS
  <2>2. CASE y = x
    BY <2>1, <2>2
  <2>3. CASE y # x /\ x \notin t
    <3>1. f[t] = v[y] + f[t \ {y}]
      BY <1>1, <1>2, <2>3
    <3> QED
      BY <2>1, <2>3, <3>1
  <2>4. CASE y # x /\ x \in t
    <3>1. /\ y \in t \ {x} /\ t \ {x} \in SUBSET C
          /\ (t \ {x}) \ {y} = (t \ {y}) \ {x} /\ (t \ {x}) \ {y} \in SUBSET C
      BY <1>2, <2>4
    <3>2. f[t \ {x}] = v[y] + f[(t \ {y}) \ {x}]
      BY <1>1, <3>1
    <3>3. /\ g[t] = v[x] + f[t \ {x}]
          /\ g[t \ {y}] = v[x] + f[(t \ {y}) \ {x}]
      BY <2>1, <2>4
    <3>4. f[(t \ {y}) \ {x}] \in Nat /\ f[t \ {x}] \in Nat
      BY <1>1, <3>1
    <3>5. v[x] \in Nat /\ v[y] \in Nat
      OBVIOUS
    <3> QED
      BY <3>2, <3>3, <3>4, <3>5
  <2> QED
    BY <2>2, <2>3, <2>4
<1> HIDE DEF g
<1> QED
  BY <1>3, <1>4, <1>5 DEF Adds

\* Every finite set of resources has its sums.
LEMMA SumsExist ==
  ASSUME NEW D, IsFiniteSet(D), NEW v, \A i \in D : v[i] \in Nat
  PROVE  \E f : Adds(f, v, D)
<1> DEFINE B == {s \in SUBSET D : ~ \E f : Adds(f, v, s)}
<1> SUFFICES ASSUME B # {} PROVE FALSE
  OBVIOUS
<1>0. B \in SUBSET (SUBSET D)
  OBVIOUS
<1>1. PICK s \in B : \A t \in B : t \subseteq s => t = s
  <2> HIDE DEF B
  <2> QED
    BY <1>0, SmallestSet DEF Smallest
<1>2. s # {}
  <2>1. SUBSET {} = {{}}
    OBVIOUS
  <2>2. Adds([t \in {{}} |-> 0], v, {})
    BY <2>1 DEF Adds
  <2> QED
    BY <1>1, <2>2
<1>3. PICK x \in s : TRUE
  BY <1>2
<1>4. \E f : Adds(f, v, s \ {x})
  BY <1>1, <1>3
<1>5. \A i \in s : v[i] \in Nat
  BY <1>1
<1> QED
  BY <1>1, <1>3, <1>4, <1>5, OneMoreSummand

\* The sum over a superset whose other members add nothing.
LEMMA SameSum ==
  ASSUME NEW D, NEW E, IsFiniteSet(E), D \subseteq E, NEW v, NEW w, NEW f, NEW g,
         Adds(f, v, D), Adds(g, w, E),
         \A i \in D : w[i] = v[i], \A i \in E \ D : w[i] = 0
  PROVE  g[E] = f[D]
<1> DEFINE B == {t \in SUBSET E : g[t] # f[t \cap D]}
<1>1. /\ f \in [SUBSET D -> Nat] /\ f[{}] = 0
      /\ \A t \in SUBSET D : \A x \in t : f[t] = v[x] + f[t \ {x}]
  BY DEF Adds
<1>2. /\ g \in [SUBSET E -> Nat] /\ g[{}] = 0
      /\ \A t \in SUBSET E : \A x \in t : g[t] = w[x] + g[t \ {x}]
  BY DEF Adds
<1>3. B = {}
  <2> SUFFICES ASSUME B # {} PROVE FALSE
    OBVIOUS
  <2>0. B \in SUBSET (SUBSET E)
    OBVIOUS
  <2>1. PICK t \in B : \A u \in B : u \subseteq t => u = t
    <3> HIDE DEF B
    <3> QED
      BY <2>0, SmallestSet DEF Smallest
  <2>2. t # {}
    BY <1>1, <1>2, <2>1
  <2>3. PICK x \in t : TRUE
    BY <2>2
  <2>4. g[t] = w[x] + g[t \ {x}] /\ g[t] \in Nat /\ g[t \ {x}] \in Nat
    BY <1>2, <2>1
  <2>5. t \ {x} \in SUBSET E /\ g[t \ {x}] = f[(t \ {x}) \cap D]
    BY <2>1
  <2>6. CASE x \in D
    <3>1. x \in t \cap D /\ t \cap D \in SUBSET D /\ (t \ {x}) \cap D = (t \cap D) \ {x}
      BY <2>6
    <3>2. f[t \cap D] = v[x] + f[(t \cap D) \ {x}]
      BY <1>1, <3>1
    <3>3. w[x] = v[x]
      BY <2>6
    <3> QED
      BY <2>1, <2>4, <2>5, <3>1, <3>2, <3>3
  <2>7. CASE x \notin D
    <3>1. (t \ {x}) \cap D = t \cap D
      BY <2>7
    <3>2. w[x] = 0
      BY <2>1, <2>7
    <3> QED
      BY <2>1, <2>4, <2>5, <3>1, <3>2
  <2> QED
    BY <2>6, <2>7
<1>4. E \in SUBSET E /\ E \cap D = D
  OBVIOUS
<1> QED
  BY <1>3, <1>4

\* A resource's share of the costs of a minute.
Share(e, r) == [i \in DOMAIN r |-> Price(e, i) * r[i]]

\* A cost is such a sum.
LEMMA PerMinuteAdds ==
  ASSUME NEW e, NEW r, IsFiniteSet(DOMAIN r), \A i \in DOMAIN r : Share(e, r)[i] \in Nat
  PROVE  \E f : Adds(f, Share(e, r), DOMAIN r) /\ PerMinute(e, r) = f[DOMAIN r]
<1> DEFINE D == DOMAIN r
           v == Share(e, r)
           Pick(s) == CHOOSE x \in s : TRUE
           Iterates(g) == g = [s \in SUBSET D |->
                                 IF s = {} THEN 0
                                 ELSE Price(e, Pick(s)) * r[Pick(s)] + g[s \ {Pick(s)}]]
           g == CHOOSE h : Iterates(h)
<1>1. PerMinute(e, r) = g[D]
  BY DEF PerMinute, MapThenSumSet, MapThenFoldSet
<1>2. \A s \in SUBSET D : s # {} => Pick(s) \in s
  OBVIOUS
<1>3. \A i \in D : v[i] = Price(e, i) * r[i] /\ v[i] \in Nat
  BY DEF Share
<1>4. PICK f : Adds(f, v, D)
  <2> HIDE DEF v, D
  <2> QED
    BY <1>3, SumsExist DEF D
<1> HIDE DEF v, D, Pick
<1>5. Iterates(f)
  <2>1. ASSUME NEW s \in SUBSET D
        PROVE  f[s] = IF s = {} THEN 0
                      ELSE Price(e, Pick(s)) * r[Pick(s)] + f[s \ {Pick(s)}]
    BY <1>2, <1>3, <1>4 DEF Adds
  <2>2. f = [s \in SUBSET D |-> f[s]]
    BY <1>4 DEF Adds
  <2> QED
    BY <2>1, <2>2
<1> HIDE DEF Iterates
<1>6. Iterates(g)
  BY <1>5
<1> HIDE DEF g
<1>7. \A s \in SUBSET D : g[s] = f[s]
  <2> DEFINE B == {s \in SUBSET D : g[s] # f[s]}
  <2> SUFFICES ASSUME B # {} PROVE FALSE
    OBVIOUS
  <2>0. B \in SUBSET (SUBSET D) /\ IsFiniteSet(D)
    BY DEF D
  <2>1. PICK s \in B : \A t \in B : t \subseteq s => t = s
    <3> HIDE DEF B
    <3> QED
      BY <2>0, SmallestSet DEF Smallest
  <2>2. s # {}
    BY <1>5, <1>6, <2>1 DEF Iterates
  <2>3. Pick(s) \in s /\ s \ {Pick(s)} \in SUBSET D /\ s \ {Pick(s)} # s
    BY <1>2, <2>1, <2>2
  <2>4. g[s \ {Pick(s)}] = f[s \ {Pick(s)}]
    BY <2>1, <2>3
  <2>5. /\ g[s] = Price(e, Pick(s)) * r[Pick(s)] + g[s \ {Pick(s)}]
        /\ f[s] = Price(e, Pick(s)) * r[Pick(s)] + f[s \ {Pick(s)}]
    BY <1>5, <1>6, <2>1, <2>2 DEF Iterates
  <2> QED
    BY <2>1, <2>4, <2>5
<1>8. g[D] = f[D]
  BY <1>7
<1> QED
  BY <1>1, <1>4, <1>8 DEF v, D

\* What a minute costs is a number.
LEMMA PerMinuteIsNat ==
  ASSUME NEW e \in Envs, NEW r, Amounts(r)
  PROVE  /\ IsFiniteSet(DOMAIN r) /\ PerMinute(e, r) \in Nat
         /\ \A i \in DOMAIN r : Price(e, i) \in Nat /\ Share(e, r)[i] \in Nat
<1>1. IsFiniteSet(DOMAIN r)
  BY FS_Subset, ServiceBillingAssumption DEF Amounts
<1>2. \A i : Price(e, i) \in Nat
  BY ServiceBillingAssumption DEF Price
<1>3. \A i \in DOMAIN r : Share(e, r)[i] \in Nat
  <2>1. \A x, y \in Nat : x * y \in Nat
    OBVIOUS
  <2> QED
    BY <1>2, <2>1 DEF Amounts, Share
<1>4. PICK f : Adds(f, Share(e, r), DOMAIN r) /\ PerMinute(e, r) = f[DOMAIN r]
  BY <1>1, <1>3, PerMinuteAdds
<1>5. f[DOMAIN r] \in Nat
  BY <1>4 DEF Adds
<1> QED
  BY <1>1, <1>2, <1>3, <1>4, <1>5

\* Resources that are free, or of which there is nothing, cost nothing more.
LEMMA PerMinuteSame ==
  ASSUME NEW e \in Envs, NEW r, Amounts(r), NEW q, Amounts(q),
         DOMAIN r \subseteq DOMAIN q, \A i \in DOMAIN r : q[i] = r[i],
         \A i \in DOMAIN q \ DOMAIN r : q[i] = 0 \/ Price(e, i) = 0
  PROVE  PerMinute(e, q) = PerMinute(e, r)
<1>1. PICK f : Adds(f, Share(e, r), DOMAIN r) /\ PerMinute(e, r) = f[DOMAIN r]
  BY PerMinuteIsNat, PerMinuteAdds
<1>2. PICK g : Adds(g, Share(e, q), DOMAIN q) /\ PerMinute(e, q) = g[DOMAIN q]
  BY PerMinuteIsNat, PerMinuteAdds
<1>3. \A i \in DOMAIN r : Share(e, q)[i] = Share(e, r)[i]
  BY DEF Share
<1>4. \A i \in DOMAIN q \ DOMAIN r : Share(e, q)[i] = 0
  <2>1. \A n \in Nat : n * 0 = 0 /\ 0 * n = 0
    OBVIOUS
  <2>2. \A i \in DOMAIN q : Price(e, i) \in Nat /\ q[i] \in Nat
    BY PerMinuteIsNat DEF Amounts
  <2> QED
    BY <2>1, <2>2 DEF Share
<1>5. IsFiniteSet(DOMAIN q)
  BY PerMinuteIsNat
<1> QED
  BY <1>1, <1>2, <1>3, <1>4, <1>5, SameSum

\* No resources cost nothing.
LEMMA PerMinuteOfNothing ==
  ASSUME NEW e \in Envs, NEW r, DOMAIN r = {}
  PROVE  PerMinute(e, r) = 0
<1>1. Amounts(r)
  BY DEF Amounts
<1>2. PICK f : Adds(f, Share(e, r), DOMAIN r) /\ PerMinute(e, r) = f[DOMAIN r]
  BY <1>1, PerMinuteIsNat, PerMinuteAdds
<1> QED
  BY <1>2 DEF Adds

-----------------------------------------------------------------------------
(***************************************************************************)
(* Rounding.  The unit of a cost's last figure is a recursive function on  *)
(* the numbers; that there is one takes an induction over them.            *)
(***************************************************************************)
\* A set of numbers that holds 0, and a successor with each, holds all: the
\* first number it misses would have no predecessor in it.
LEMMA NumbersInSteps ==
  ASSUME NEW S, 0 \in S, \A n \in Nat : n \in S => n + 1 \in S
  PROVE  Nat \subseteq S
<1> SUFFICES ASSUME NEW m \in Nat, m \notin S PROVE FALSE
  OBVIOUS
<1> DEFINE T == {0..n : n \in Nat \ S}
<1>1. T \subseteq FiniteSubsetsOf(Nat) /\ T # {}
  <2>1. \A n \in Nat : 0..n \in SUBSET Nat /\ IsFiniteSet(0..n)
    BY FS_Interval
  <2> QED
    BY <2>1 DEF FiniteSubsetsOf
<1>2. PICK x \in T : \A y \in T : ~(<<y, x>> \in StrictSubsetOrdering(Nat))
  <2> HIDE DEF T
  <2> QED
    BY <1>1, FS_StrictSubsetOrderingWellFounded, WFMin
<1>3. PICK n \in Nat : n \notin S /\ x = 0..n
  BY DEF T
<1>4. n - 1 \in Nat /\ n - 1 \notin S
  BY <1>3
<1>5. 0..(n - 1) \in T
  BY <1>4
<1>6. 0..(n - 1) \subseteq Nat /\ 0..(n - 1) \subseteq x /\ x # 0..(n - 1) /\ x \subseteq Nat
  BY <1>3, <1>4
<1>7. <<0..(n - 1), x>> \in StrictSubsetOrdering(Nat)
  BY <1>6 DEF StrictSubsetOrdering
<1> QED
  BY <1>2, <1>5, <1>7

\* g gives the unit of the last figure of each cost of D.
Units(g, D) ==
  /\ g \in [D -> Nat \ {0}]
  /\ \A c \in D : g[c] = IF c < Precision THEN 1 ELSE 10 * g[c \div 10]

\* There are units for the costs up to any.
LEMMA UnitsUpTo == \A n \in Nat : \E g : Units(g, 0..n)
<1> DEFINE S == {n \in Nat : \E g : Units(g, 0..n)}
<1>1. 0 \in S
  <2>1. Units([c \in 0..0 |-> 1], 0..0)
    BY ServiceBillingAssumption DEF Units
  <2> QED
    BY <2>1
<1>2. ASSUME NEW n \in Nat, n \in S PROVE n + 1 \in S
  <2>1. PICK g : Units(g, 0..n)
    BY <1>2
  <2> DEFINE m == n + 1
             unit == IF m < Precision THEN 1 ELSE 10 * g[m \div 10]
             h == [c \in 0..m |-> IF c = m THEN unit ELSE g[c]]
  <2>2. m \div 10 \in 0..n /\ m \div 10 # m
    OBVIOUS
  <2>3. unit \in Nat \ {0}
    BY <2>1, <2>2 DEF Units
  <2>4. \A c \in 0..m : c = m \/ (c \in 0..n /\ c # m)
    OBVIOUS
  <2>5. \A c \in 0..n : c \in 0..m /\ c # m /\ c \div 10 \in 0..n
    OBVIOUS
  <2>6. \A c \in 0..n : g[c] \in Nat \ {0}
    BY <2>1 DEF Units
  <2>7. m \in 0..m
    OBVIOUS
  <2>8. h[m] = unit /\ \A c \in 0..n : h[c] = g[c]
    BY <2>5, <2>7
  <2>9. unit = IF m < Precision THEN 1 ELSE 10 * h[m \div 10]
    BY <2>2, <2>8
  <2>10. h \in [0..m -> Nat \ {0}]
    <3> HIDE DEF unit, m
    <3> QED
      BY <2>3, <2>4, <2>6
  <2>11. ASSUME NEW c \in 0..m
         PROVE  h[c] = IF c < Precision THEN 1 ELSE 10 * h[c \div 10]
    <3>1. CASE c = m
      BY <2>8, <2>9, <3>1
    <3>2. CASE c \in 0..n
      <4>1. g[c] = IF c < Precision THEN 1 ELSE 10 * g[c \div 10]
        BY <2>1, <3>2 DEF Units
      <4>2. h[c] = g[c] /\ h[c \div 10] = g[c \div 10]
        BY <2>5, <2>8, <3>2
      <4> HIDE DEF h
      <4> QED
        BY <4>1, <4>2
    <3> QED
      BY <2>4, <3>1, <3>2
  <2> HIDE DEF h
  <2>12. Units(h, 0..m)
    BY <2>10, <2>11 DEF Units
  <2> QED
    BY <2>12
<1> HIDE DEF S
<1>3. Nat \subseteq S
  BY <1>1, <1>2, NumbersInSteps
<1> QED
  BY <1>3 DEF S

\* What is said of the units of a cost is the same wherever it is said.
LEMMA SameUnits ==
  ASSUME NEW m \in Nat, NEW n \in Nat, NEW g, NEW h, Units(g, 0..m), Units(h, 0..n)
  PROVE  \A c \in Nat : c <= m /\ c <= n => g[c] = h[c]
<1> DEFINE S == {k \in Nat : \A c \in 0..k : c <= m /\ c <= n => g[c] = h[c]}
<1>1. ASSUME NEW c \in Nat, c <= m, c <= n, c # 0 => g[c \div 10] = h[c \div 10]
      PROVE  g[c] = h[c]
  <2>1. c \in 0..m /\ c \in 0..n
    BY <1>1
  <2>2. /\ g[c] = IF c < Precision THEN 1 ELSE 10 * g[c \div 10]
        /\ h[c] = IF c < Precision THEN 1 ELSE 10 * h[c \div 10]
    BY <2>1 DEF Units
  <2>3. c = 0 => c < Precision
    BY ServiceBillingAssumption
  <2> QED
    BY <1>1, <2>2, <2>3
<1>2. 0 \in S
  BY <1>1
<1>3. ASSUME NEW k \in Nat, k \in S PROVE k + 1 \in S
  <2>1. ASSUME NEW c \in 0..(k + 1), c <= m, c <= n PROVE g[c] = h[c]
    <3>1. c \in Nat /\ (c # 0 => c \div 10 \in 0..k /\ c \div 10 <= m /\ c \div 10 <= n)
      BY <2>1
    <3> QED
      BY <1>1, <1>3, <2>1, <3>1
  <2> QED
    BY <2>1
<1> HIDE DEF S
<1>4. Nat \subseteq S
  BY <1>2, <1>3, NumbersInSteps
<1> QED
  BY <1>4 DEF S

\* Every cost has a last figure.
LEMMA LastFigures == Units(lastFigure, Nat)
<1> DEFINE upTo(n) == CHOOSE g : Units(g, 0..n)
           f == [c \in Nat |-> upTo(c)[c]]
           Recurs(g) == g = [c \in Nat |-> IF c < Precision THEN 1 ELSE 10 * g[c \div 10]]
<1>1. \A n \in Nat : Units(upTo(n), 0..n)
  BY UnitsUpTo
<1> HIDE DEF upTo
<1>2. ASSUME NEW c \in Nat
      PROVE  f[c] \in Nat \ {0} /\ f[c] = IF c < Precision THEN 1 ELSE 10 * f[c \div 10]
  <2> DEFINE t == c \div 10
  <2>1. t \in Nat /\ t <= c /\ c \in 0..c
    OBVIOUS
  <2>2. /\ upTo(c)[c] \in Nat \ {0}
        /\ upTo(c)[c] = IF c < Precision THEN 1 ELSE 10 * upTo(c)[t]
    BY <1>1, <2>1 DEF Units
  <2> HIDE DEF t
  <2>3. Units(upTo(c), 0..c) /\ Units(upTo(t), 0..t) /\ t <= t
    BY <1>1, <2>1
  <2>4. upTo(c)[t] = upTo(t)[t]
    BY <2>1, <2>3, SameUnits
  <2> QED
    BY <2>1, <2>2, <2>4 DEF t
<1>3. f = [c \in Nat |-> f[c]]
  OBVIOUS
<1> HIDE DEF f
<1>4. Recurs(f)
  BY <1>2, <1>3
<1>5. lastFigure = CHOOSE g : Recurs(g)
  BY DEF lastFigure
<1> HIDE DEF Recurs
<1>6. Recurs(lastFigure)
  BY <1>4, <1>5
<1>7. \A c \in Nat :
        lastFigure[c] = IF c < Precision THEN 1 ELSE 10 * lastFigure[c \div 10]
  BY <1>6 DEF Recurs
<1> DEFINE S == {n \in Nat : \A c \in 0..n : lastFigure[c] \in Nat \ {0}}
<1>8. ASSUME NEW c \in Nat, c # 0 => lastFigure[c \div 10] \in Nat \ {0}
      PROVE  lastFigure[c] \in Nat \ {0}
  <2>1. c = 0 => c < Precision
    BY ServiceBillingAssumption
  <2>2. lastFigure[c] = IF c < Precision THEN 1 ELSE 10 * lastFigure[c \div 10]
    BY <1>7
  <2> QED
    BY <1>8, <2>1, <2>2
<1>9. 0 \in S
  BY <1>8
<1>10. ASSUME NEW n \in Nat, n \in S PROVE n + 1 \in S
  <2>1. ASSUME NEW c \in 0..(n + 1) PROVE lastFigure[c] \in Nat \ {0}
    <3>1. c \in Nat /\ (c # 0 => c \div 10 \in 0..n)
      OBVIOUS
    <3> QED
      BY <1>8, <1>10, <3>1
  <2> QED
    BY <2>1
<1> HIDE DEF S
<1>11. Nat \subseteq S
  BY <1>9, <1>10, NumbersInSteps
<1>12. ASSUME NEW c \in Nat PROVE lastFigure[c] \in Nat \ {0}
  <2>1. c \in 0..c
    OBVIOUS
  <2> QED
    BY <1>11, <2>1 DEF S
<1>13. lastFigure = [c \in Nat |-> lastFigure[c]]
  BY <1>6, <1>7 DEF Recurs
<1> QED
  BY <1>7, <1>12, <1>13 DEF Units

\* The division of what is no more is no more.
LEMMA Quotients ==
  ASSUME NEW k \in Nat \ {0}, NEW x \in Nat, NEW y \in Nat, x <= y
  PROVE  x \div k \in Nat /\ x \div k <= y \div k
<1> DEFINE m == x \div k
           n == y \div k
<1>1. m \in Int /\ n \in Int /\ m >= 0
  <2>1. m \in Int /\ n \in Int
    OBVIOUS
  <2>2. ASSUME m <= -1 PROVE FALSE
    BY <2>1, <2>2
  <2> QED
    BY <2>1, <2>2
<1>2. x = k * m + (x % k) /\ y = k * n + (y % k)
  OBVIOUS
<1>3. x % k \in 0..(k - 1) /\ y % k \in 0..(k - 1)
  OBVIOUS
<1> HIDE DEF m, n
<1>4. ASSUME m >= n + 1 PROVE FALSE
  <2>1. k * m \in Int /\ k * n \in Int /\ k * (n + 1) = k * n + k
    BY <1>1
  <2>2. k * (n + 1) <= k * m
    BY <1>1, <1>4
  <2> QED
    BY <1>2, <1>3, <2>1, <2>2
<1> QED
  BY <1>1, <1>4 DEF m, n

\* A cost to so many figures is a number, and nothing costs nothing.
LEMMA Figures ==
  /\ \A c \in Nat : toPrecision(c) \in Nat
  /\ toPrecision(0) = 0
<1>1. ASSUME NEW c \in Nat PROVE toPrecision(c) \in Nat
  <2> DEFINE u == lastFigure[c]
             q == (2 * c + u) \div (2 * u)
  <2>1. u \in Nat \ {0}
    BY LastFigures DEF Units
  <2> HIDE DEF u
  <2>2. 2 * u \in Nat \ {0} /\ 2 * c + u \in Nat /\ 2 * c + u <= 2 * c + u
    BY <2>1
  <2>3. q \in Nat
    BY <2>2, Quotients
  <2> HIDE DEF q
  <2>4. q * u \in Nat
    BY <2>1, <2>3
  <2> QED
    BY <2>4 DEF toPrecision, q, u
<1>2. toPrecision(0) = 0
  <2>1. 0 < Precision
    BY ServiceBillingAssumption
  <2>2. lastFigure[0] = 1
    BY <2>1, LastFigures DEF Units
  <2> QED
    BY <2>2 DEF toPrecision
<1> QED
  BY <1>1, <1>2

\* A raw amount is a number, and nothing costs nothing.  One that dropped no
\* figure covers what costs no more, rounded either way.
LEMMA Rounding ==
  /\ \A c \in Nat : toRawAmount(c) \in Nat
  /\ toRawAmount(0) = 0
  /\ \A c, d \in Nat :
       c <= d /\ ~(toPrecision(d) < d) =>
         /\ c \div Grain <= toRawAmount(d)
         /\ (c + Grain - 1) \div Grain <= toRawAmount(d)
<1>1. Grain \in Nat \ {0}
  BY ServiceBillingAssumption
<1>2. ASSUME NEW c \in Nat PROVE toRawAmount(c) \in Nat
  <2>1. toPrecision(c) + Grain - 1 \in Nat
    BY <1>1, Figures
  <2> QED
    BY <1>1, <2>1, Quotients DEF toRawAmount
<1>3. toRawAmount(0) = 0
  BY <1>1, Figures DEF toRawAmount
<1>4. ASSUME NEW c \in Nat, NEW d \in Nat, c <= d, ~(toPrecision(d) < d)
      PROVE  /\ c \div Grain <= toRawAmount(d)
             /\ (c + Grain - 1) \div Grain <= toRawAmount(d)
  <2> DEFINE p == toPrecision(d)
  <2>1. p \in Nat /\ d <= p
    BY <1>4, Figures
  <2> HIDE DEF p
  <2>2. /\ c + Grain - 1 \in Nat /\ p + Grain - 1 \in Nat
        /\ c <= p + Grain - 1 /\ c + Grain - 1 <= p + Grain - 1
    BY <1>1, <1>4, <2>1
  <2> QED
    BY <1>1, <2>2, Quotients DEF toRawAmount, p
<1> QED
  BY <1>2, <1>3, <1>4

\* The minutes: a longer duration is billed no fewer.
LEMMA Minutes ==
  ASSUME NEW m \in Nat, NEW n \in Nat, m <= n, NEW p \in Nat
  PROVE  /\ (m + 59) \div 60 \in Nat /\ p * ((m + 59) \div 60) \in Nat
         /\ p * ((m + 59) \div 60) <= p * ((n + 59) \div 60)
<1>1. /\ (m + 59) \div 60 \in Nat /\ (n + 59) \div 60 \in Nat
      /\ (m + 59) \div 60 <= (n + 59) \div 60
  OBVIOUS
<1>2. \A x, y \in Nat : x <= y => p * x \in Nat /\ p * x <= p * y
  OBVIOUS
<1> QED
  BY <1>1, <1>2

\* The resources a request is resolved to.
LEMMA ResolvedAmounts ==
  ASSUME NEW e \in Envs, NEW r, Amounts(r)
  PROVE  Amounts(resolveServiceResources(r, e))
BY ServiceBillingAssumption DEF Amounts, resolveServiceResources

\* An estimate is a number, and rounds to one.
LEMMA EstimateIsNat ==
  ASSUME NEW e \in Envs, NEW r, Amounts(r), NEW d \in Nat
  PROVE  /\ estimateServiceCost(e, r, d) \in Nat
         /\ toRawAmount(estimateServiceCost(e, r, d)) \in Nat
<1>1. Raised(d, e.minServiceDuration) \in Nat
  BY ServiceBillingAssumption DEF Raised
<1>2. PerMinute(e, r) \in Nat
  BY PerMinuteIsNat
<1>3. estimateServiceCost(e, r, d) \in Nat
  BY <1>1, <1>2, Minutes DEF estimateServiceCost, minutesBilled
<1> QED
  BY <1>3, Rounding
-----------------------------------------------------------------------------
(***************************************************************************)
(* The invariant.  As long as the environment stays, the quote is of the   *)
(* environment that is there, the gate sees it, and the caller has what    *)
(* the quote said.                                                         *)
(***************************************************************************)
\* The resources the quote and the gate of a start are about.
Resolved(e) == resolveServiceResources(request.resources, e)

QuoteSaid ==
  pc \in {"quoted", "provisioned", "gating", "submitted"} /\ ~changed =>
    /\ quote.raw = toRawAmount(estimateServiceCost(env, Resolved(env), request.duration))
    /\ quote.warned <=> resourceMinimumWarnings(env, Resolved(env)) # {}

EligibleSaid ==
  pc # "idle" /\ kind = "start" /\ ~changed => eligible = Eligible(env, request.resources)

\* What is asked to be extended is what is stored.
ExtendsStored == kind = "extend" => request.resources = stored

Backed == pc \in {"provisioned", "gating", "submitted"} => authorized = quote.raw

SeenAndSent ==
  /\ pc \in {"gating", "submitted"} => Admits(seen) /\ (changed \/ seen = env)
  /\ pc = "submitted" => sent = GateResources

BillingInv ==
  /\ BillingTypeOK
  /\ QuoteSaid /\ EligibleSaid /\ ExtendsStored /\ Backed /\ SeenAndSent
  /\ QuoteCoversBill /\ GateAgreesWithQuote /\ AdmittedIsAccepted

\* Nothing was planned.
LEMMA InitBilling == BillingInit => BillingInv
<1> SUFFICES ASSUME BillingInit PROVE BillingInv
  OBVIOUS
<1>1. Amounts(NoResources)
  BY DEF Amounts, NoResources
<1>2. BillingTypeOK
  <2>1. /\ request \in Requests
        /\ Amounts(request.resources) /\ request.duration \in Nat
    BY ServiceBillingAssumption DEF BillingInit, Amounts
  <2>2. request.verbatim \in BOOLEAN
    BY <2>1, ServiceBillingAssumption, Zenon
  <2>3. quote.raw \in Nat /\ quote.warned \in BOOLEAN
    BY DEF BillingInit
  <2>4. changes \in 0..MaxChanges /\ extends \in 0..MaxExtends /\ authorized \in Nat
    BY ServiceBillingAssumption DEF BillingInit
  <2>5. env \in Envs /\ seen \in Envs /\ changed \in BOOLEAN /\ eligible \in BOOLEAN
    BY DEF BillingInit
  <2>6. Amounts(sent) /\ Amounts(stored)
    BY <1>1 DEF BillingInit
  <2>7. pc \in PCs /\ kind \in {"start", "extend"} /\ rejection \in Rejections \cup {NoReason}
    BY DEF BillingInit, PCs
  <2> QED
    BY <2>1, <2>2, <2>3, <2>4, <2>5, <2>6, <2>7, Zenon DEF BillingTypeOK
<1> QED
  BY <1>2 DEF BillingInit, BillingInv, QuoteSaid, EligibleSaid, ExtendsStored, Backed,
     SeenAndSent, QuoteCoversBill, GateAgreesWithQuote, AdmittedIsAccepted

\* The node holds amounts.
LEMMA NodeAmounts ==
  ASSUME BillingTypeOK
  PROVE  /\ Amounts(NodeResources)
         /\ kind # "extend" =>
              /\ DOMAIN NodeResources = DOMAIN sent \cup DOMAIN env.min
              /\ \A i \in DOMAIN NodeResources :
                   NodeResources[i] = Raised(IF i \in DOMAIN sent THEN sent[i] ELSE 0,
                                             IF i \in DOMAIN env.min THEN env.min[i] ELSE 0)
<1>1. /\ Amounts(sent) /\ Amounts(stored) /\ env \in Envs
      /\ DOMAIN env.min \subseteq Ids /\ \A i \in DOMAIN env.min : env.min[i] \in Nat
  BY ServiceBillingAssumption DEF BillingTypeOK
<1>2. CASE kind = "extend"
  BY <1>1, <1>2 DEF NodeResources
<1>3. CASE kind # "extend"
  <2>1. NodeResources = [i \in DOMAIN sent \cup DOMAIN env.min |->
                           Raised(IF i \in DOMAIN sent THEN sent[i] ELSE 0,
                                  IF i \in DOMAIN env.min THEN env.min[i] ELSE 0)]
    BY <1>3 DEF NodeResources
  <2> QED
    BY <1>1, <1>3, <2>1 DEF Amounts, Raised
<1> QED
  BY <1>2, <1>3
\* What a gate asks of a caller that provisioned the quote is there.
LEMMA GateIsBacked ==
  ASSUME BillingInv, pc = "gating", ~changed
  PROVE  GatePasses
<1> DEFINE d == request.duration
           asked == estimateServiceCost(env, Resolved(env), d)
<1>1. /\ env \in Envs /\ d \in Nat /\ Amounts(request.resources) /\ Amounts(stored)
      /\ kind \in {"start", "extend"}
  BY DEF BillingInv, BillingTypeOK
<1>2. seen = env /\ authorized = toRawAmount(asked)
  BY DEF BillingInv, SeenAndSent, Backed, QuoteSaid
<1>3. Amounts(Resolved(env)) /\ asked \in Nat /\ toRawAmount(asked) \in Nat
  BY <1>1, ResolvedAmounts, EstimateIsNat DEF Resolved
<1> HIDE DEF d
<1>4. ASSUME GateResources = Resolved(env) PROVE GatePasses
  <2>1. GateAmount = toRawAmount(asked)
    BY <1>2, <1>4 DEF GateAmount, d
  <2> QED
    BY <1>2, <1>3, <2>1 DEF GatePasses
<1>5. CASE kind = "start"
  BY <1>2, <1>4, <1>5 DEF GateResources, Resolved
<1>6. CASE kind = "extend"
  <2>1. GateResources = stored /\ request.resources = stored
    BY <1>6 DEF BillingInv, ExtendsStored, GateResources
  <2>2. CASE DOMAIN stored # {}
    BY <1>4, <2>1, <2>2 DEF Resolved, resolveServiceResources
  <2>3. CASE DOMAIN stored = {}
    <3>1. minutesBilled(env, d) \in Int
      BY <1>1, ServiceBillingAssumption DEF minutesBilled, Raised
    <3>2. estimateServiceCost(env, stored, d) = 0
      BY <1>1, <2>3, <3>1, PerMinuteOfNothing DEF estimateServiceCost
    <3>3. GateAmount = toRawAmount(0)
      BY <1>2, <2>1, <3>2 DEF GateAmount, d
    <3> HIDE DEF asked
    <3>4. toRawAmount(0) <= toRawAmount(asked)
      BY <1>3, Rounding
    <3> QED
      BY <1>2, <3>3, <3>4 DEF GatePasses
  <2> QED
    BY <2>2, <2>3
<1> QED
  BY <1>1, <1>5, <1>6

\* What was checked before is not what the node rejects a start for.
LEMMA NodeFindsItSo ==
  ASSUME BillingInv, pc = "submitted", kind = "start", ~changed,
         NEW why \in Rejections, NEW remaining \in Remaining,
         Rejects(why, remaining)
  PROVE  /\ why \notin {"disabled", "tooLong"}
         /\ eligible /\ request.verbatim => why # "unpriced"
         /\ eligible /\ DOMAIN request.resources # {} /\ ~NodeRaises => why # "full"
<1>1. /\ BillingTypeOK /\ seen = env /\ Admits(env) /\ sent = Resolved(env)
      /\ eligible = Eligible(env, request.resources)
  BY DEF BillingInv, SeenAndSent, EligibleSaid, GateResources, Resolved
<1>2. why # "disabled"
  BY <1>1 DEF Admits, Rejects
<1>3. why # "tooLong"
  <2>1. request.duration \in Nat /\ env.maxServiceDuration \in Nat \cup {NoMax}
    BY <1>1, ServiceBillingAssumption DEF BillingTypeOK
  <2>2. env.maxServiceDuration # NoMax => request.duration <= env.maxServiceDuration
    BY <1>1, <2>1 DEF Admits, Exceeds
  <2>3. ASSUME why = "tooLong"
        PROVE  /\ env.maxServiceDuration # NoMax
               /\ Window(remaining) > env.maxServiceDuration
    BY <2>3, Zenon DEF Rejects, Exceeds
  <2>4. Window(remaining) = request.duration
    BY <2>1 DEF Window
  <2> QED
    BY <2>1, <2>2, <2>3, <2>4
<1>4. ASSUME eligible, request.verbatim, why = "unpriced" PROVE FALSE
  BY <1>1, <1>4 DEF Eligible, Rejects
<1>5. ASSUME eligible, DOMAIN request.resources # {}, ~NodeRaises, why = "full" PROVE FALSE
  <2>1. sent = request.resources /\ ~resourceShortfall(env, request.resources)
    BY <1>1, <1>5 DEF Eligible, Resolved, resolveServiceResources
  <2>2. resourceShortfall(env, NodeResources)
    BY <1>5 DEF Rejects
  <2>3. PICK i \in DOMAIN NodeResources : availableFor(env, i) < NodeResources[i]
    BY <2>2 DEF resourceShortfall
  <2>4. Amounts(NodeResources) /\ Amounts(sent) /\ availableFor(env, i) \in Nat
    BY <1>1, NodeAmounts, ServiceBillingAssumption DEF BillingTypeOK, availableFor
  <2>5. NodeResources[i] \in Nat /\ (i \in DOMAIN sent => sent[i] \in Nat)
    BY <2>4 DEF Amounts
  <2>6. ~(NodeResources[i] > (IF i \in DOMAIN sent THEN sent[i] ELSE 0))
    BY <1>5 DEF NodeRaises
  <2>7. CASE i \in DOMAIN sent
    <3>1. ~(availableFor(env, i) < sent[i])
      BY <2>1, <2>7 DEF resourceShortfall
    <3> QED
      BY <2>3, <2>4, <2>5, <2>6, <2>7, <3>1
  <2>8. CASE i \notin DOMAIN sent
    BY <2>3, <2>4, <2>5, <2>6, <2>8
  <2> QED
    BY <2>7, <2>8
<1> QED
  BY <1>2, <1>3, <1>4, <1>5

\* A start: nothing was raised and nothing priced was added.
LEMMA NodePricesTheSame ==
  ASSUME BillingInv, pc = "submitted", kind = "start", ~changed, ~quote.warned, ~NodeAdds
  PROVE  PerMinute(env, NodeResources) = PerMinute(env, Resolved(env))
<1> DEFINE R == Resolved(env)
<1>1. BillingTypeOK /\ env \in Envs /\ sent = R /\ Amounts(R)
  BY DEF BillingInv, BillingTypeOK, SeenAndSent, GateResources, Resolved
<1>2. resourceMinimumWarnings(env, R) = {}
  BY DEF BillingInv, QuoteSaid
<1>3. /\ Amounts(NodeResources)
      /\ DOMAIN NodeResources = DOMAIN R \cup DOMAIN env.min
      /\ \A i \in DOMAIN NodeResources :
           NodeResources[i] = Raised(IF i \in DOMAIN R THEN R[i] ELSE 0,
                                     IF i \in DOMAIN env.min THEN env.min[i] ELSE 0)
  BY <1>1, NodeAmounts
<1> HIDE DEF R
<1>4. ASSUME NEW i \in DOMAIN R PROVE NodeResources[i] = R[i]
  <2>1. R[i] \in Nat /\ i \in DOMAIN NodeResources
    BY <1>1, <1>3 DEF Amounts
  <2>2. CASE i \in DOMAIN env.min
    <3>1. env.min[i] \in Nat /\ ~(R[i] < env.min[i])
      BY <1>1, <1>2, <2>2, ServiceBillingAssumption DEF resourceMinimumWarnings
    <3> QED
      BY <1>3, <2>1, <2>2, <3>1 DEF Raised
  <2>3. CASE i \notin DOMAIN env.min
    BY <1>3, <2>1, <2>3 DEF Raised
  <2> QED
    BY <2>2, <2>3
<1>5. ASSUME NEW i \in DOMAIN NodeResources \ DOMAIN R
      PROVE  NodeResources[i] = 0 \/ Price(env, i) = 0
  <2>1. ~(NodeResources[i] > 0 /\ Price(env, i) > 0)
    BY <1>1, <1>5 DEF NodeAdds
  <2>2. NodeResources[i] \in Nat /\ Price(env, i) \in Nat
    BY <1>1, <1>3, PerMinuteIsNat DEF Amounts
  <2> QED
    BY <2>1, <2>2
<1> QED
  BY <1>1, <1>3, <1>4, <1>5, PerMinuteSame DEF R

\* What the node bills is within what the quote said.
LEMMA BillIsBacked ==
  ASSUME BillingInv, pc = "submitted", ~changed, ~quote.warned, ~NodeAdds,
         ~FiguresDropped, NEW bill \in NodeBills
  PROVE  bill <= authorized
<1> DEFINE most == Raised(request.duration, env.minServiceDuration)
           minutes(s) == (s + 59) \div 60
           p == PerMinute(env, NodeResources)
           q == PerMinute(env, Resolved(env))
<1>1. /\ BillingTypeOK /\ env \in Envs /\ request.duration \in Nat
      /\ Amounts(request.resources) /\ Amounts(stored) /\ kind \in {"start", "extend"}
  BY DEF BillingInv, BillingTypeOK
<1>2. authorized = toRawAmount(q * minutes(most))
  BY DEF BillingInv, Backed, QuoteSaid, estimateServiceCost, minutesBilled
<1>3. p \in Nat /\ q \in Nat
  BY <1>1, NodeAmounts, ResolvedAmounts, PerMinuteIsNat DEF Resolved
<1>4. p <= q
  <2>1. CASE kind = "start"
    BY <1>3, <2>1, NodePricesTheSame
  <2>2. CASE kind = "extend"
    <3>1. NodeResources = stored /\ request.resources = stored
      BY <2>2 DEF BillingInv, ExtendsStored, NodeResources
    <3>2. CASE DOMAIN stored # {}
      BY <1>3, <3>1, <3>2 DEF Resolved, resolveServiceResources
    <3>3. CASE DOMAIN stored = {}
      BY <1>1, <1>3, <3>1, <3>3, PerMinuteOfNothing
    <3> QED
      BY <3>2, <3>3
  <2> QED
    BY <1>1, <2>1, <2>2
<1>5. env.minServiceDuration \in Nat
  BY <1>1, ServiceBillingAssumption
<1>6. most \in Nat /\ \A s \in NodeSeconds : s \in Nat /\ s <= most
  BY <1>1, <1>5 DEF NodeSeconds, Raised
<1>7. PICK s \in NodeSeconds :
        bill \in {(p * minutes(s)) \div Grain, (p * minutes(s) + Grain - 1) \div Grain}
  BY DEF NodeBills
<1> HIDE DEF p, q, most
<1>8. /\ p * minutes(s) \in Nat /\ q * minutes(most) \in Nat
      /\ p * minutes(s) <= q * minutes(most)
  <2>1. /\ minutes(s) \in Nat /\ p * minutes(s) \in Nat
        /\ p * minutes(s) <= p * minutes(most)
    BY <1>3, <1>6, Minutes
  <2>2. minutes(most) \in Nat /\ q * minutes(most) \in Nat
    BY <1>3, <1>6, Minutes
  <2>3. \A n \in Nat : p * n \in Nat /\ q * n \in Nat /\ p * n <= q * n
    BY <1>3, <1>4
  <2> QED
    BY <2>1, <2>2, <2>3
<1> DEFINE c == p * minutes(s)
           d == q * minutes(most)
<1> HIDE DEF c, d
<1>9. c \in Nat /\ d \in Nat /\ c <= d
  BY <1>8 DEF c, d
<1>10. ~(toPrecision(d) < d)
  BY DEF FiguresDropped, estimateServiceCost, minutesBilled, Resolved, d, q, most
<1>11. (c + Grain - 1) \div Grain <= toRawAmount(d) /\ c \div Grain <= toRawAmount(d)
  BY <1>9, <1>10, Rounding
<1>12. authorized = toRawAmount(d) /\ bill \in {c \div Grain, (c + Grain - 1) \div Grain}
  BY <1>2, <1>7 DEF c, d
<1> QED
  BY <1>11, <1>12

\* A bill is a whole number.
LEMMA BillsAreWhole ==
  ASSUME BillingTypeOK, NEW bill \in NodeBills
  PROVE  bill \in Nat
<1>1. /\ env \in Envs /\ env.minServiceDuration \in Nat /\ request.duration \in Nat
  BY ServiceBillingAssumption DEF BillingTypeOK
<1>2. \A s \in NodeSeconds : s \in Nat
  BY <1>1 DEF NodeSeconds, Raised
<1>3. PerMinute(env, NodeResources) \in Nat
  BY <1>1, NodeAmounts, PerMinuteIsNat
<1>4. PICK s \in NodeSeconds :
        LET c == PerMinute(env, NodeResources) * ((s + 59) \div 60)
        IN bill \in {c \div Grain, (c + Grain - 1) \div Grain}
  BY DEF NodeBills
<1> DEFINE c == PerMinute(env, NodeResources) * ((s + 59) \div 60)
<1>5. c \in Nat
  BY <1>2, <1>3, Minutes
<1> HIDE DEF c
<1>6. (c + Grain - 1) \div Grain \in Nat /\ c \div Grain \in Nat
  <2>1. Grain \in Nat \ {0} /\ c + Grain - 1 \in Nat
    BY <1>5, ServiceBillingAssumption
  <2> QED
    BY <1>5, <2>1, Quotients
<1> QED
  BY <1>4, <1>6 DEF c
\* Each step keeps the kinds.
LEMMA BillingKinds ==
  ASSUME BillingTypeOK, [BillingNext]_billingVars
  PROVE  BillingTypeOK'
<1>1. CASE UNCHANGED billingVars
  BY <1>1 DEF billingVars, operator, plan, call, BillingTypeOK, Amounts
<1>2. CASE FindEnvironments
  <2>1. Eligible(env, request.resources) \in BOOLEAN
    BY ServiceBillingAssumption DEF BillingTypeOK, Eligible
  <2> QED
    BY <1>2, <2>1 DEF FindEnvironments, Move, call, PCs, BillingTypeOK, Amounts
<1>3. CASE Quote
  <2>1. quote'.raw \in Nat /\ quote'.warned \in BOOLEAN
    <3>1. CASE UNCHANGED quote
      BY <3>1 DEF BillingTypeOK
    <3>2. CASE ~UNCHANGED quote
      <4> DEFINE R == Resolved(env)
                 raw == toRawAmount(estimateServiceCost(env, R, request.duration))
                 warned == resourceMinimumWarnings(env, R) # {}
      <4>1. quote' = [raw |-> raw, warned |-> warned]
        BY <1>3, <3>2 DEF Quote, Resolved
      <4>2. raw \in Nat
        BY ResolvedAmounts, EstimateIsNat DEF BillingTypeOK, Resolved
      <4>3. warned \in BOOLEAN
        OBVIOUS
      <4> HIDE DEF raw, warned
      <4>4. quote'.raw = raw /\ quote'.warned = warned
        BY <4>1, Zenon
      <4> QED
        BY <4>2, <4>3, <4>4
    <3> QED
      BY <3>1, <3>2
  <2>2. pc' \in PCs
    BY <1>3 DEF Quote, Move, PCs
  <2>3. UNCHANGED <<env, changes, changed, kind, request, extends, eligible, authorized,
                    seen, sent, stored, rejection>>
    BY <1>3 DEF Quote, operator, call
  <2> QED
    BY <2>1, <2>2, <2>3 DEF BillingTypeOK, Amounts
<1>4. CASE Provision
  BY <1>4 DEF Provision, Move, operator, call, PCs, BillingTypeOK, Amounts
<1>5. CASE FindEnvironment
  BY <1>5 DEF FindEnvironment, Move, operator, plan, PCs, BillingTypeOK, Amounts
<1>6. CASE Gate
  <2>1. Amounts(GateResources)
    BY ResolvedAmounts DEF BillingTypeOK, GateResources
  <2>2. Amounts(sent')
    BY <1>6, <2>1 DEF Gate, BillingTypeOK, Amounts
  <2> QED
    BY <1>6, <2>2 DEF Gate, Move, operator, plan, PCs, BillingTypeOK, Amounts
<1>7. CASE NodeRejects
  BY <1>7 DEF NodeRejects, Move, operator, plan, call, PCs, BillingTypeOK, Amounts
<1>8. CASE NodeBillsAndLocks
  <2>1. Amounts(stored')
    BY <1>8, NodeAmounts DEF NodeBillsAndLocks, BillingTypeOK, Amounts
  <2> QED
    BY <1>8, <2>1 DEF NodeBillsAndLocks, Move, operator, plan, call, PCs, BillingTypeOK,
       Amounts
<1>9. CASE AskToExtend
  <2>1. PICK d \in Extensions :
          request' = [resources |-> stored, duration |-> d, verbatim |-> request.verbatim]
    BY <1>9 DEF AskToExtend
  <2>2. /\ request'.resources = stored /\ request'.duration = d
        /\ request'.verbatim = request.verbatim
    BY <2>1, Zenon
  <2>3. d \in Nat /\ extends' \in 0..MaxExtends
    BY <1>9, ServiceBillingAssumption DEF AskToExtend, BillingTypeOK
  <2>4. /\ Amounts(request'.resources) /\ request'.duration \in Nat
        /\ request'.verbatim \in BOOLEAN
    BY <2>2, <2>3 DEF BillingTypeOK
  <2>5. /\ UNCHANGED <<env, changes, eligible, quote, authorized, seen, sent, stored, rejection>>
        /\ pc' = "found" /\ kind' = "extend" /\ changed' = FALSE
    BY <1>9 DEF AskToExtend, Move, call
  <2> QED
    BY <2>3, <2>4, <2>5 DEF PCs, BillingTypeOK, Amounts
<1>10. CASE Reconfigure
  BY <1>10, ServiceBillingAssumption
     DEF Reconfigure, plan, call, BillingTypeOK, Amounts
<1> QED
  BY <1>1, <1>2, <1>3, <1>4, <1>5, <1>6, <1>7, <1>8, <1>9, <1>10 DEF BillingNext

\* Each step keeps the invariant.
LEMMA BillingStep ==
  ASSUME BillingInv, [BillingNext]_billingVars
  PROVE  BillingInv'
<1>0. BillingTypeOK'
  BY BillingKinds DEF BillingInv
<1> USE DEF Move
<1>1. CASE UNCHANGED billingVars
  <2>1. /\ GateResources' = GateResources /\ NodeResources' = NodeResources
        /\ NodeAdds' = NodeAdds /\ NodeRaises' = NodeRaises
        /\ FiguresDropped' = FiguresDropped
    BY <1>1 DEF billingVars, operator, plan, call, GateResources, NodeResources, NodeAdds,
       NodeRaises, FiguresDropped
  <2> QED
    BY <1>0, <1>1, <2>1 DEF billingVars, operator, plan, call, BillingInv, QuoteSaid,
       EligibleSaid, ExtendsStored, Backed, SeenAndSent, Admits, Resolved,
       QuoteCoversBill, GateAgreesWithQuote, AdmittedIsAccepted
<1>2. CASE FindEnvironments
  BY <1>0, <1>2 DEF FindEnvironments, call, BillingInv, QuoteSaid, EligibleSaid,
     ExtendsStored, Backed, SeenAndSent, QuoteCoversBill, GateAgreesWithQuote,
     AdmittedIsAccepted
<1>3. CASE Quote
  <2>1. /\ UNCHANGED <<env, changes, changed, kind, request, extends, eligible, authorized,
                       seen, sent, stored, rejection>>
        /\ pc = "found" /\ pc' \in {"unpriced", "quoted"}
    BY <1>3 DEF Quote, operator, call
  <2>2. QuoteSaid'
    <3>1. CASE pc' = "quoted"
      <4> DEFINE raw == toRawAmount(estimateServiceCost(env, Resolved(env), request.duration))
                 warned == resourceMinimumWarnings(env, Resolved(env)) # {}
      <4>1. quote' = [raw |-> raw, warned |-> warned]
        BY <1>3, <3>1 DEF Quote, Resolved
      <4>2. raw' = raw /\ warned' = warned
        BY <2>1 DEF Resolved
      <4>3. quote'.raw = raw /\ quote'.warned = warned
        <5> HIDE DEF raw, warned
        <5> QED
          BY <4>1, Zenon
      <4> QED
        BY <4>2, <4>3 DEF QuoteSaid
    <3> QED
      BY <2>1, <3>1 DEF QuoteSaid
  <2> QED
    BY <1>0, <2>1, <2>2 DEF BillingInv, EligibleSaid, ExtendsStored, Backed, SeenAndSent,
       QuoteCoversBill, GateAgreesWithQuote, AdmittedIsAccepted
<1>4. CASE Provision
  BY <1>0, <1>4 DEF Provision, operator, call, BillingInv, QuoteSaid, EligibleSaid,
     ExtendsStored, Backed, SeenAndSent, Resolved, QuoteCoversBill, GateAgreesWithQuote,
     AdmittedIsAccepted
<1>5. CASE FindEnvironment
  <2>1. /\ UNCHANGED <<env, changed, kind, request, eligible, quote, authorized, stored>>
        /\ pc = "provisioned" /\ pc' \in {"gating", "refused"} /\ seen' = env
        /\ pc' = "gating" => Admits(env)
    BY <1>5 DEF FindEnvironment, operator, plan
  <2>2. SeenAndSent'
    BY <2>1 DEF SeenAndSent, Admits
  <2> QED
    BY <1>0, <2>1, <2>2 DEF BillingInv, QuoteSaid, EligibleSaid, ExtendsStored, Backed,
       Resolved, QuoteCoversBill, GateAgreesWithQuote, AdmittedIsAccepted
<1>6. CASE Gate
  <2>1. /\ UNCHANGED <<env, changed, kind, request, eligible, quote, authorized, seen, stored>>
        /\ pc = "gating" /\ pc' \in {"submitted", "blocked"}
    BY <1>6 DEF Gate, operator, plan
  <2>2. GateAgreesWithQuote'
    BY <1>6, <2>1, GateIsBacked DEF Gate, GateAgreesWithQuote
  <2>3. SeenAndSent'
    BY <1>6, <2>1 DEF Gate, BillingInv, SeenAndSent, Admits, GateResources
  <2> QED
    BY <1>0, <2>1, <2>2, <2>3 DEF BillingInv, QuoteSaid, EligibleSaid, ExtendsStored,
       Backed, Resolved, QuoteCoversBill, AdmittedIsAccepted
<1>7. CASE NodeRejects
  <2>1. /\ UNCHANGED <<env, changed, kind, request, eligible, quote, authorized, seen, sent, stored>>
        /\ pc = "submitted" /\ pc' = "rejected"
    BY <1>7 DEF NodeRejects, operator, plan, call
  <2>2. PICK remaining \in Remaining :
          rejection' \in Rejections /\ Rejects(rejection', remaining)
    BY <1>7 DEF NodeRejects
  <2>3. NodeRaises' = NodeRaises
    BY <2>1 DEF NodeRaises, NodeResources
  <2>4. AdmittedIsAccepted'
    BY <2>1, <2>2, <2>3, NodeFindsItSo DEF AdmittedIsAccepted
  <2> QED
    BY <1>0, <2>1, <2>4 DEF BillingInv, QuoteSaid, EligibleSaid, ExtendsStored, Backed,
       SeenAndSent, QuoteCoversBill, GateAgreesWithQuote
<1>8. CASE NodeBillsAndLocks
  <2>1. /\ UNCHANGED <<env, changed, kind, request, eligible, quote, authorized, seen, sent>>
        /\ pc = "submitted" /\ pc' \in {"running", "lockFailed"}
        /\ pc' = "running" => stored' = NodeResources
        /\ pc' = "lockFailed" => UNCHANGED stored
    BY <1>8 DEF NodeBillsAndLocks, operator, plan, call
  <2>2. ExtendsStored'
    BY <2>1 DEF BillingInv, ExtendsStored, NodeResources
  <2>3. QuoteCoversBill'
    <3> SUFFICES ASSUME pc' = "lockFailed", ~changed, ~quote.warned, ~FiguresDropped'
                 PROVE  NodeAdds'
      BY <2>1 DEF QuoteCoversBill
    <3>1. NodeAdds' = NodeAdds /\ FiguresDropped' = FiguresDropped
      BY <2>1 DEF NodeAdds, NodeResources, FiguresDropped
    <3>2. PICK bill \in NodeBills : bill > authorized
      BY <1>8 DEF NodeBillsAndLocks
    <3>3. authorized \in Nat /\ bill \in Int
      BY BillsAreWhole DEF BillingInv, BillingTypeOK
    <3> QED
      BY <2>1, <3>1, <3>2, <3>3, BillIsBacked
  <2> QED
    BY <1>0, <2>1, <2>2, <2>3 DEF BillingInv, QuoteSaid, EligibleSaid, Backed,
       SeenAndSent, GateAgreesWithQuote, AdmittedIsAccepted
<1>9. CASE AskToExtend
  <2>1. PICK d \in Extensions :
          request' = [resources |-> stored, duration |-> d, verbatim |-> request.verbatim]
    BY <1>9 DEF AskToExtend
  <2>2. request'.resources = stored
    BY <2>1
  <2>3. stored' = stored /\ pc' = "found" /\ kind' = "extend"
    BY <1>9 DEF AskToExtend
  <2> QED
    BY <1>0, <2>2, <2>3 DEF BillingInv, QuoteSaid, EligibleSaid, ExtendsStored, Backed,
       SeenAndSent, QuoteCoversBill, GateAgreesWithQuote, AdmittedIsAccepted
<1>10. CASE Reconfigure
  <2>1. /\ UNCHANGED <<pc, kind, request, authorized, quote, seen, sent, stored>>
        /\ changed' = TRUE
    BY <1>10 DEF Reconfigure, plan, call
  <2>2. SeenAndSent'
    BY <2>1 DEF BillingInv, SeenAndSent, Admits, GateResources
  <2> QED
    BY <1>0, <2>1, <2>2 DEF BillingInv, QuoteSaid, EligibleSaid, ExtendsStored, Backed,
       QuoteCoversBill, GateAgreesWithQuote, AdmittedIsAccepted
<1> QED
  BY <1>1, <1>2, <1>3, <1>4, <1>5, <1>6, <1>7, <1>8, <1>9, <1>10 DEF BillingNext

\* So the invariant holds always.
LEMMA BillingAlways == BillingSpec => []BillingInv
BY InitBilling, BillingStep, PTL DEF BillingSpec

\* Amounts asked for, quoted, authorized, sent and stored are whole and of known
\* resources, whatever environments, requests and prices there are.
THEOREM BillingTypeCorrect == BillingSpec => []BillingTypeOK
<1>1. BillingInv => BillingTypeOK
  BY DEF BillingInv
<1> QED
  BY <1>1, BillingAlways, PTL

\* estimateServiceCost against the node's bill: who provisions the quote can pay,
\* unless the environment changed, a minimum was warned of, the node adds a
\* priced resource, or the quote dropped figures and came out below the cost.
THEOREM QuoteIsEnough == BillingSpec => []QuoteCoversBill
<1>1. BillingInv => QuoteCoversBill
  BY DEF BillingInv
<1> QED
  BY <1>1, BillingAlways, PTL

\* estimateServiceCost against the gate of serviceStart and serviceExtend: who
\* provisions the quote is not blocked, unless the environment changed.
THEOREM GateAgrees == BillingSpec => []GateAgreesWithQuote
<1>1. BillingInv => GateAgreesWithQuote
  BY DEF BillingInv
<1> QED
  BY <1>1, BillingAlways, PTL

\* findServiceEnvironments and serviceStart against the node: what was checked
\* here is not refused there while the environment stays, a cap the node does not
\* advertise apart.
THEOREM AdmittedStays == BillingSpec => []AdmittedIsAccepted
<1>1. BillingInv => AdmittedIsAccepted
  BY DEF BillingInv
<1> QED
  BY <1>1, BillingAlways, PTL
=============================================================================
