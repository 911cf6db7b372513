------------------------ MODULE EscrowAutoFixProofs -------------------------
(***************************************************************************)
(* Auto-fix is sound, for any number of overlapping calls, anything they   *)
(* are asked, and any number of steps of the rest of the world.            *)
(*                                                                         *)
(* The argument is that of the gate, twice: what was read before an await  *)
(* bounds what is there after it as far as `worse` and `better` say that   *)
(* nothing moved, and a verdict is monotone in what is there.              *)
(***************************************************************************)
EXTENDS EscrowAutoFix, EscrowReadinessProofs

-----------------------------------------------------------------------------
(***************************************************************************)
(* Readiness and the authorization.                                        *)
(***************************************************************************)
\* A step of the chain moves the limits of an authorization or its locks,
\* never both.
OneWay(a, b) ==
  \/ b.maxLockedAmount = a.maxLockedAmount /\ b.maxLockCounts = a.maxLockCounts
  \/ b.currentLockedAmount = a.currentLockedAmount /\ b.currentLocks = a.currentLocks

\* Who is ready stays ready while funds and room do not shrink.  The targets
\* are about limits, which the room alone does not bound: hence OneWay.
LEMMA ReadyMonotone ==
  ASSUME NEW req \in Requirement,
         NEW f1 \in Nat, NEW f2 \in Nat, f2 >= f1,
         NEW a1 \in ChainAuthorization, NEW a2 \in ChainAuthorization,
         AtLeast(a2, a1), OneWay(a1, a2),
         ready(req, f1, a1)
  PROVE  ready(req, f2, a2)
<1>1. canStartThisJob(req, f2, a2)
  BY CanStartMonotone DEF ready
<1>2. requiredMaxLockedAmount(req) \in Nat /\ requiredMaxLockSeconds(req) \in Nat
      /\ req.parallelJobs \in Nat
  BY TargetsCoverTheJob DEF Requirement
<1>3. fundsOk(req, f2) /\ a2.exists /\ authSecondsOk(req, a2)
  BY <1>2 DEF ready, fundsOk, authSecondsOk, AtLeast, ChainAuthorization
<1>4. authAmountOk(req, a2) /\ authCountsOk(req, a2)
  BY <1>2 DEF ready, authAmountOk, authCountsOk, AtLeast, OneWay, Headroom,
              FreeSlots, ChainAuthorization
<1> QED
  BY <1>1, <1>3, <1>4 DEF ready

\* More funds alone keep the payer ready.
LEMMA ReadyMonotoneInFunds ==
  ASSUME NEW req \in Requirement,
         NEW f1 \in Nat, NEW f2 \in Nat, f2 >= f1, NEW a \in ChainAuthorization,
         ready(req, f1, a)
  PROVE  ready(req, f2, a)
BY ReadyMonotone DEF AtLeast, OneWay, Headroom, FreeSlots, ChainAuthorization

\* Who is ready has funds for the target.
LEMMA ReadyIsFunded ==
  ASSUME NEW req \in Requirement, NEW f \in Nat, NEW a \in ChainAuthorization,
         ready(req, f, a)
  PROVE  f >= requiredMaxLockedAmount(req)
BY DEF ready, fundsOk

\* And with such funds, the authorization alone decides.
LEMMA FundedIsReady ==
  ASSUME NEW req \in Requirement,
         NEW f1 \in Nat, NEW f2 \in Nat, NEW a \in ChainAuthorization,
         ready(req, f1, a), f2 >= requiredMaxLockedAmount(req)
  PROVE  ready(req, f2, a)
<1>1. /\ requiredMaxLockedAmount(req) \in Nat
      /\ requiredMaxLockedAmount(req) >= req.amount /\ req.amount \in Nat
  BY TargetsCoverTheJob DEF Requirement
<1> QED
  BY <1>1 DEF ready, fundsOk, canStartThisJob

\* The authorization that auto-fix makes where there was none is ready for the
\* job, and for parallelJobs of it.
LEMMA FreshAuthorizationIsReady ==
  ASSUME NEW req \in Requirement, NEW f \in Nat, f >= requiredMaxLockedAmount(req)
  PROVE  ready(req, f, Reauthorized(NoAuthorization, Targets(req)))
<1> DEFINE a == Reauthorized(NoAuthorization, Targets(req))
<1>1. /\ requiredMaxLockedAmount(req) \in Nat /\ requiredMaxLockSeconds(req) \in Nat
      /\ requiredMaxLockedAmount(req) >= req.amount
      /\ requiredMaxLockSeconds(req) >= req.minLockSeconds
      /\ req.amount \in Nat /\ req.minLockSeconds \in Nat
      /\ req.parallelJobs \in Nat /\ req.parallelJobs >= 1
  BY TargetsCoverTheJob DEF Requirement
<1>2. /\ a.exists /\ a.currentLockedAmount = 0 /\ a.currentLocks = 0
      /\ a.maxLockedAmount = requiredMaxLockedAmount(req)
      /\ a.maxLockSeconds = requiredMaxLockSeconds(req)
      /\ a.maxLockCounts = req.parallelJobs
  BY DEF Reauthorized, NoAuthorization, Targets
<1> HIDE DEF a
<1>3. ready(req, f, a)
  BY <1>1, <1>2 DEF ready, canStartThisJob, Headroom, fundsOk, authAmountOk,
                    authSecondsOk, authCountsOk
<1> QED
  BY <1>3 DEF a

\* The targets are limits.
LEMMA TargetsAreLimits == \A req \in Requirement : Targets(req) \in Limits
BY TargetsCoverTheJob DEF Targets, Limits, Requirement
-----------------------------------------------------------------------------
(***************************************************************************)
(* The inductive invariant.                                                *)
(***************************************************************************)
\* Where a call stands says what it was asked, did and said.
Places(c) ==
  /\ pc[c] = "idle" => ask[c] = NoAsk
  /\ pc[c] \notin {"idle", "answered"} => ask[c] \in Asks
  /\ reply[c] \in {"ready", "notReady"} => ask[c] \in Asks
  /\ pc[c] # "answered" => reply[c] = "none"
  /\ pc[c] \in {"idle", "readFunds", "readAuth", "decimals", "depositing"} =>
       actions[c] = {}
  /\ pc[c] = "authorizing" => actions[c] \subseteq {"deposit"}
  /\ "authorize" \in actions[c] => ask[c] \in Asks
  /\ pc[c] \in {"recheckFunds", "recheckAuth"} => fixed[c]
  /\ fixed[c] => pc[c] \in {"recheckFunds", "recheckAuth", "answered"}

\* Between the awaits: which way the funds moved since a call read them, and
\* what it found missing.
FundsBound(c) ==
  /\ pc[c] \in {"readAuth", "decimals", "depositing", "recheckAuth"} /\ ~worse[c] =>
       seenFunds[c] <= funds
  /\ pc[c] \in {"readAuth", "decimals", "depositing"} /\ ~better[c] =>
       funds <= seenFunds[c]
  /\ pc[c] = "depositing" => seenFunds[c] < Target(c)
  /\ pc[c] = "authorizing" /\ ~worse[c] => Target(c) <= funds

\* A verdict outlives its reads, and so does an authorization of one's own.
VerdictHolds(c) ==
  /\ reply[c] = "ready" /\ ~worse[c] => ready(Req(c), funds, auth)
  /\ "authorize" \in actions[c] /\ ~worse[c] => ready(Req(c), funds, auth)
  /\ "authorize" \in actions[c] /\ ~worse[c] /\ pc[c] = "recheckAuth" =>
       Target(c) <= seenFunds[c]
  /\ "authorize" \in actions[c] /\ reply[c] = "notReady" => worse[c]

CallInv(c) == Places(c) /\ FundsBound(c) /\ VerdictHolds(c)

\* Without an authorization there are no locks.
NothingUnauthorized == ~auth.exists => auth = NoAuthorization

AInv == TypeOK /\ NothingUnauthorized /\ \A c \in Calls : CallInv(c)

\* Nobody has read anything yet: the invariant starts true.
LEMMA InitAInv == Init => AInv
<1> SUFFICES ASSUME Init PROVE AInv
  OBVIOUS
<1> USE EscrowAutoFixAssumption DEF Init
<1>1. TypeOK
  BY DEF TypeOK, PCs, AuthSeen, Replies, Outcomes, Authorization
<1>2. NothingUnauthorized
  BY DEF NothingUnauthorized
<1>3. \A c \in Calls : CallInv(c)
  BY DEF CallInv, Places, FundsBound, VerdictHolds
<1> QED
  BY <1>1, <1>2, <1>3 DEF AInv

\* What a call is asked is a requirement, and its target an amount.
LEMMA AskedIsRequirement ==
  ASSUME NEW c \in Calls, ask[c] \in Asks
  PROVE  /\ Req(c) \in Requirement /\ Target(c) \in Nat
         /\ ask[c].fix \in BOOLEAN /\ ask[c] # NoAsk
<1>1. ask[c] \in [req : Requirement, fix : BOOLEAN] /\ ask[c] # NoAsk
  BY EscrowAutoFixAssumption
<1>2. Req(c) \in Requirement
  BY <1>1 DEF Req
<1> QED
  BY <1>1, <1>2, TargetsCoverTheJob DEF Target

-----------------------------------------------------------------------------
(***************************************************************************)
(* What a step of anyone does to the other calls.                          *)
(***************************************************************************)
\* The escrow moves, and d notes which way, or nothing moves.
Noted(d) ==
  /\ ~worse'[d] => ~worse[d] /\ funds <= funds' /\ AtLeast(auth', auth)
  /\ ~better'[d] => ~better[d] /\ funds' <= funds

ChainOK ==
  /\ funds' \in Nat /\ auth' \in ChainAuthorization
  /\ OneWay(auth, auth')

Untouched(d) ==
  /\ pc'[d] = pc[d] /\ ask'[d] = ask[d] /\ seenFunds'[d] = seenFunds[d]
  /\ actions'[d] = actions[d] /\ fixed'[d] = fixed[d] /\ reply'[d] = reply[d]

\* A call that does not step keeps its invariant.
LEMMA OthersKeepCallInv ==
  ASSUME AInv, ChainOK, NEW d \in Calls, Untouched(d), Noted(d)
  PROVE  CallInv(d)'
<1>1. CallInv(d) /\ funds \in Nat /\ auth \in ChainAuthorization /\ seenFunds[d] \in Nat
  BY DEF AInv, TypeOK, ChainAuthorization
<1>2. Req(d)' = Req(d) /\ Target(d)' = Target(d)
  BY DEF Untouched, Req, Target
<1>3. Places(d)'
  BY <1>1 DEF CallInv, Places, Untouched
<1>4. FundsBound(d)'
  <2>1. ASSUME pc[d] = "authorizing" PROVE Target(d) \in Nat
    BY <1>1, <2>1, AskedIsRequirement DEF CallInv, Places
  <2> QED
    BY <1>1, <1>2, <2>1 DEF CallInv, FundsBound, Untouched, Noted, ChainOK
<1>5. ASSUME ask[d] \in Asks, ~worse'[d], ready(Req(d), funds, auth)
      PROVE  ready(Req(d), funds', auth')
  <2>1. funds <= funds' /\ AtLeast(auth', auth)
    BY <1>5 DEF Noted
  <2> QED
    BY <1>1, <1>5, <2>1, AskedIsRequirement, ReadyMonotone DEF ChainOK
<1>6. VerdictHolds(d)'
  BY <1>1, <1>2, <1>5 DEF CallInv, Places, VerdictHolds, Untouched, Noted
<1> QED
  BY <1>3, <1>4, <1>6 DEF CallInv
\* What Observe writes down is what Noted asks for.
LEMMA ObserveNotes ==
  ASSUME Observe, funds \in Nat, funds' \in Nat PROVE \A d \in Calls : Noted(d)
<1> SUFFICES ASSUME NEW d \in Calls PROVE Noted(d)
  OBVIOUS
<1>1. worse'[d] = (worse[d] \/ funds' < funds \/ ~AtLeast(auth', auth))
  BY DEF Observe
<1>2. better'[d] = (better[d] \/ funds' > funds \/ ~AtLeast(auth, auth'))
  BY DEF Observe
<1>3. (~(funds' < funds) => funds <= funds') /\ (~(funds' > funds) => funds' <= funds)
  OBVIOUS
<1> QED
  BY <1>1, <1>2, <1>3, Zenon DEF Noted

\* A step that leaves the chain alone.
LEMMA QuietStep ==
  ASSUME TypeOK, UNCHANGED <<funds, auth>>
  PROVE  /\ ChainOK
         /\ \A d \in Calls : worse'[d] = worse[d] /\ better'[d] = better[d] => Noted(d)
BY DEF TypeOK, ChainOK, Noted, OneWay, AtLeast, Headroom, FreeSlots, ChainAuthorization

\* The steps of a call that leave the chain alone.
LEMMA CallKeepsOthers ==
  ASSUME AInv, ChainOK, TypeOK', NothingUnauthorized', NEW c \in Calls, CallInv(c)',
         \A d \in Calls \ {c} : Untouched(d) /\ Noted(d)
  PROVE  AInv'
BY OthersKeepCallInv DEF AInv

-----------------------------------------------------------------------------
(***************************************************************************)
(* Everyone else's steps.                                                  *)
(***************************************************************************)
LEMMA WorldKeepsAInv == AInv /\ WorldStep => AInv'
<1> SUFFICES ASSUME AInv, WorldStep PROVE AInv'
  OBVIOUS
<1>1. /\ TypeOK /\ auth \in ChainAuthorization /\ funds \in Nat /\ purse \in Nat
      /\ NothingUnauthorized
  BY DEF AInv, TypeOK, ChainAuthorization
<1>2. LockSize \in Nat /\ LockSize > 0 /\ PayerLimits \subseteq Limits
  BY EscrowAutoFixAssumption
<1>3. WorldActs /\ Observe
  BY DEF WorldStep, LockElsewhere, ReleaseElsewhere, PayerMoves, PayerAuthorizes
<1>4. /\ funds' \in Nat /\ purse' \in Nat /\ auth' \in ChainAuthorization
      /\ OneWay(auth, auth') /\ NothingUnauthorized'
  <2>1. CASE LockElsewhere
    <3>1. auth.exists /\ funds >= LockSize /\ auth' = WithLock(auth, LockSize)
          /\ funds' = funds - LockSize /\ purse' = purse
      BY <2>1 DEF LockElsewhere, LockAccepted
    <3>2. auth' \in ChainAuthorization
      BY <1>1, <1>2, <3>1, LocksKeepType
    <3>3. /\ auth'.exists = auth.exists /\ auth'.maxLockedAmount = auth.maxLockedAmount
          /\ auth'.maxLockCounts = auth.maxLockCounts
      BY <1>1, <3>1 DEF WithLock, ChainAuthorization
    <3> QED
      BY <1>1, <1>2, <3>1, <3>2, <3>3 DEF OneWay, NothingUnauthorized
  <2>2. CASE ReleaseElsewhere
    <3>1. auth.currentLocks > 0 /\ auth' = WithoutLock(auth, LockSize)
          /\ funds' \in {funds, funds + LockSize} /\ purse' = purse
      BY <2>2 DEF ReleaseElsewhere
    <3>2. auth' \in ChainAuthorization
      BY <1>1, <1>2, <3>1, LocksKeepType
    <3>3. /\ auth'.exists = auth.exists /\ auth'.maxLockedAmount = auth.maxLockedAmount
          /\ auth'.maxLockCounts = auth.maxLockCounts
      BY <1>1, <3>1 DEF WithoutLock, ChainAuthorization
    <3>4. auth.exists
      BY <1>1, <3>1 DEF NothingUnauthorized, NoAuthorization
    <3> QED
      BY <1>1, <1>2, <3>1, <3>2, <3>3, <3>4 DEF OneWay, NothingUnauthorized
  <2>3. CASE \E amount \in {-1, 1} : PayerMoves(amount)
    BY <1>1, <2>3 DEF PayerMoves, OneWay, NothingUnauthorized
  <2>4. CASE \E limits \in PayerLimits : PayerAuthorizes(limits)
    <3>1. PICK l \in Limits : auth' = Reauthorized(auth, l) /\ UNCHANGED <<funds, purse>>
      BY <1>2, <2>4 DEF PayerAuthorizes
    <3>2. auth' \in ChainAuthorization
      BY <1>1, <3>1, ReauthorizedKeepsType
    <3>3. /\ auth'.exists /\ auth'.currentLocks = auth.currentLocks
          /\ auth'.currentLockedAmount = auth.currentLockedAmount
      BY <1>1, <3>1 DEF Reauthorized, ChainAuthorization
    <3> QED
      BY <1>1, <3>1, <3>2, <3>3 DEF OneWay, NothingUnauthorized
  <2> QED
    BY <2>1, <2>2, <2>3, <2>4 DEF WorldStep
<1>5. TypeOK'
  BY <1>1, <1>3, <1>4, EscrowAutoFixAssumption
  DEF TypeOK, WorldActs, Observe, ChainAuthorization
<1>6. \A d \in Calls : Untouched(d) /\ Noted(d)
  BY <1>1, <1>3, <1>4, ObserveNotes DEF WorldActs, Untouched
<1> QED
  BY <1>4, <1>5, <1>6, OthersKeepCallInv DEF AInv, ChainOK
-----------------------------------------------------------------------------
(***************************************************************************)
(* A call's own steps that leave the chain alone.                          *)
(***************************************************************************)
\* It suffices to look at the call itself, if others see nothing of its step.
LEMMA QuietCallStep ==
  ASSUME AInv, NEW c \in Calls, TypeOK', CallInv(c)', UNCHANGED <<funds, auth>>,
         \A d \in Calls \ {c} :
           Untouched(d) /\ worse'[d] = worse[d] /\ better'[d] = better[d]
  PROVE  AInv'
<1>1. ChainOK /\ \A d \in Calls \ {c} : Noted(d)
  BY QuietStep DEF AInv
<1>2. NothingUnauthorized'
  BY DEF AInv, NothingUnauthorized
<1> QED
  BY <1>1, <1>2, CallKeepsOthers

\* The verdict of a call is about the funds and the authorization it saw.
LEMMA BeginKeepsAInv ==
  ASSUME AInv, NEW c \in Calls,
         RejectArguments(c) \/ \E a \in Asks : Begin(c, a)
  PROVE  AInv'
<1> USE DEF AInv, TypeOK, RejectArguments, Begin, Answer, Move, history, chain
<1>1. TypeOK'
  BY DEF PCs, Replies
<1>2. \A d \in Calls \ {c} :
        Untouched(d) /\ worse'[d] = worse[d] /\ better'[d] = better[d]
  BY DEF Untouched
<1>3. UNCHANGED <<funds, auth>>
  OBVIOUS
<1>4. CallInv(c)'
  BY DEF CallInv, Places, FundsBound, VerdictHolds
<1> QED
  BY <1>1, <1>2, <1>3, <1>4, QuietCallStep

\* A preflight is counted once, under its caller.
LEMMA CountKeepsType ==
  ASSUME TypeOK, NEW c \in Calls, CountPreflight(c)
  PROVE  preflights' \in [{"tool", "tool_recheck"} -> Nat]
BY DEF TypeOK, CountPreflight, CallerOf

\* An error says nothing of the chain.
LEMMA ErrorsKeepAInv ==
  ASSUME AInv, NEW c \in Calls, ReadFails(c) \/ FixFails(c)
  PROVE  AInv'
<1> USE DEF AInv, TypeOK, ReadFails, FixFails, Answer, Move, history, chain
<1>1. TypeOK'
  <2>1. preflights' \in [{"tool", "tool_recheck"} -> Nat]
    BY CountKeepsType
  <2>2. pc' \in [Calls -> PCs] /\ reply' \in [Calls -> Replies]
    BY DEF PCs, Replies
  <2> QED
    BY <2>1, <2>2
<1>2. \A d \in Calls \ {c} :
        Untouched(d) /\ worse'[d] = worse[d] /\ better'[d] = better[d]
  BY DEF Untouched
<1>3. UNCHANGED <<funds, auth>>
  OBVIOUS
<1>4. CallInv(c)'
  <2>1. /\ pc'[c] = "answered" /\ reply'[c] = "error" /\ actions' = actions
        /\ ask' = ask /\ worse' = worse /\ fixed' = fixed
        /\ pc[c] \notin {"idle", "answered"}
    OBVIOUS
  <2>2. CallInv(c)
    OBVIOUS
  <2> QED
    BY <2>1, <2>2, <1>3 DEF CallInv, Places, FundsBound, VerdictHolds, Req, Target
<1> QED
  BY <1>1, <1>2, <1>3, <1>4, QuietCallStep

\* The first read of a call keeps the invariant.
LEMMA ReadFundsKeepsAInv ==
  ASSUME AInv, NEW c \in Calls, ReadFunds(c)
  PROVE  AInv'
<1>1. TypeOK /\ CallInv(c) /\ funds \in Nat /\ auth \in ChainAuthorization
  BY DEF AInv, TypeOK, ChainAuthorization
<1>2. TypeOK'
  BY <1>1 DEF TypeOK, ReadFunds, Move, history, chain, PCs
<1>3. /\ \A d \in Calls \ {c} :
           Untouched(d) /\ worse'[d] = worse[d] /\ better'[d] = better[d]
      /\ UNCHANGED <<funds, auth>>
  BY <1>1 DEF TypeOK, Untouched, ReadFunds, Move, history, chain
<1>4. /\ ask' = ask /\ actions' = actions /\ fixed' = fixed /\ reply' = reply
      /\ seenFunds'[c] = funds /\ Req(c)' = Req(c) /\ Target(c)' = Target(c)
  BY <1>1 DEF TypeOK, ReadFunds, chain, Req, Target
<1>5. Places(c) /\ ask[c] \in Asks /\ reply[c] = "none"
  BY <1>1 DEF CallInv, Places, ReadFunds, Move
<1>6. CASE pc[c] = "readFunds" /\ pc'[c] = "readAuth"
  <2>1. actions[c] = {}
    BY <1>5, <1>6 DEF Places
  <2> QED
    BY <1>1, <1>2, <1>3, <1>4, <1>5, <1>6, <2>1, QuietCallStep
    DEF CallInv, Places, FundsBound, VerdictHolds
<1>7. CASE pc[c] = "recheckFunds" /\ pc'[c] = "recheckAuth" /\ worse' = worse
  <2>1. ASSUME "authorize" \in actions[c], ~worse[c] PROVE Target(c) <= funds
    BY <1>1, <1>5, <2>1, AskedIsRequirement, ReadyIsFunded
    DEF CallInv, VerdictHolds, Target
  <2>2. Places(c)'
    BY <1>4, <1>5, <1>7 DEF Places
  <2>3. FundsBound(c)'
    BY <1>1, <1>3, <1>4, <1>7 DEF FundsBound
  <2>4. VerdictHolds(c)'
    BY <1>1, <1>3, <1>4, <1>5, <1>7, <2>1 DEF CallInv, VerdictHolds
  <2> QED
    BY <1>2, <1>3, <2>2, <2>3, <2>4, QuietCallStep DEF CallInv
<1> QED
  BY <1>1, <1>6, <1>7 DEF ReadFunds, Move, TypeOK, history
\* The first verdict: funds did not fall since they were read, or it was noted.
LEMMA CheckKeepsAInv ==
  ASSUME AInv, NEW c \in Calls, Check(c)
  PROVE  AInv'
<1>1. TypeOK /\ CallInv(c) /\ funds \in Nat /\ auth \in ChainAuthorization
      /\ seenFunds[c] \in Nat
  BY DEF AInv, TypeOK, ChainAuthorization
<1>2. preflights' \in [{"tool", "tool_recheck"} -> Nat]
  BY <1>1, CountKeepsType DEF Check
<1>3. TypeOK'
  BY <1>1, <1>2
  DEF TypeOK, Check, Answer, Move, Verdict, history, chain, PCs, Replies, AuthSeen
<1>4. /\ \A d \in Calls \ {c} :
           Untouched(d) /\ worse'[d] = worse[d] /\ better'[d] = better[d]
      /\ UNCHANGED <<funds, auth>>
  BY <1>1 DEF TypeOK, Untouched, Check, Answer, Move, history, chain
<1>5. /\ ask' = ask /\ actions' = actions /\ fixed' = fixed /\ seenFunds' = seenFunds
      /\ worse' = worse /\ better' = better
      /\ Req(c)' = Req(c) /\ Target(c)' = Target(c)
  BY DEF Check, chain, history, Req, Target
<1>6. /\ pc[c] = "readAuth" /\ actions[c] = {} /\ ask[c] \in Asks /\ ~fixed[c]
      /\ reply[c] = "none" /\ Places(c)
  BY <1>1 DEF CallInv, Places, Check
<1>7. CASE pc'[c] = "decimals" /\ reply' = reply
  BY <1>1, <1>3, <1>4, <1>5, <1>6, <1>7, QuietCallStep
  DEF CallInv, Places, FundsBound, VerdictHolds
<1>8. CASE pc'[c] = "answered" /\ reply'[c] = Verdict(c)
  <2>1. ASSUME reply'[c] = "ready", ~worse[c] PROVE ready(Req(c), funds, auth)
    <3>1. seenFunds[c] <= funds /\ ready(Req(c), seenFunds[c], auth)
      BY <1>1, <1>6, <1>8, <2>1 DEF CallInv, FundsBound, Verdict, VerdictIsReady
    <3> QED
      BY <1>1, <1>6, <3>1, AskedIsRequirement, ReadyMonotoneInFunds
  <2>2. Places(c)'
    BY <1>5, <1>6, <1>8 DEF Places
  <2>3. FundsBound(c)'
    BY <1>8 DEF FundsBound
  <2>4. VerdictHolds(c)'
    BY <1>4, <1>5, <1>6, <1>8, <2>1 DEF VerdictHolds
  <2> QED
    BY <1>3, <1>4, <2>2, <2>3, <2>4, QuietCallStep DEF CallInv
<1> QED
  BY <1>1, <1>7, <1>8 DEF Check, Answer, Move, TypeOK

\* The second verdict: what the call authorized itself is there, or it was noted.
LEMMA RecheckKeepsAInv ==
  ASSUME AInv, NEW c \in Calls, Recheck(c)
  PROVE  AInv'
<1>1. TypeOK /\ CallInv(c) /\ funds \in Nat /\ auth \in ChainAuthorization
      /\ seenFunds[c] \in Nat
  BY DEF AInv, TypeOK, ChainAuthorization
<1>2. preflights' \in [{"tool", "tool_recheck"} -> Nat]
  BY <1>1, CountKeepsType DEF Recheck
<1>3. TypeOK'
  BY <1>1, <1>2 DEF TypeOK, Recheck, Answer, Move, Verdict, history, chain, PCs, Replies
<1>4. /\ \A d \in Calls \ {c} :
           Untouched(d) /\ worse'[d] = worse[d] /\ better'[d] = better[d]
      /\ UNCHANGED <<funds, auth>>
  BY <1>1 DEF TypeOK, Untouched, Recheck, Answer, Move, history, chain
<1>5. /\ ask' = ask /\ actions' = actions /\ fixed' = fixed /\ worse' = worse
      /\ Req(c)' = Req(c)
  BY DEF Recheck, chain, history, Req
<1>6. /\ pc[c] = "recheckAuth" /\ pc'[c] = "answered" /\ reply'[c] = Verdict(c)
      /\ ask[c] \in Asks
  BY <1>1 DEF TypeOK, CallInv, Places, Recheck, Answer, Move
<1>7. ASSUME reply'[c] = "ready", ~worse[c] PROVE ready(Req(c), funds, auth)
  <2>1. seenFunds[c] <= funds /\ ready(Req(c), seenFunds[c], auth)
    BY <1>1, <1>6, <1>7 DEF CallInv, FundsBound, Verdict, VerdictIsReady
  <2> QED
    BY <1>1, <1>6, <2>1, AskedIsRequirement, ReadyMonotoneInFunds
<1>8. ASSUME "authorize" \in actions[c], ~worse[c] PROVE reply'[c] = "ready"
  <2>1. Target(c) <= seenFunds[c] /\ ready(Req(c), funds, auth)
    BY <1>1, <1>6, <1>8 DEF CallInv, VerdictHolds
  <2>2. ready(Req(c), seenFunds[c], auth)
    BY <1>1, <1>6, <2>1, AskedIsRequirement, FundedIsReady DEF Target
  <2> QED
    BY <1>6, <2>2 DEF Verdict, VerdictIsReady
<1>9. Places(c)'
  BY <1>1, <1>5, <1>6 DEF CallInv, Places
<1>10. VerdictHolds(c)'
  BY <1>1, <1>4, <1>5, <1>6, <1>7, <1>8 DEF CallInv, VerdictHolds
<1> QED
  BY <1>3, <1>4, <1>6, <1>9, <1>10, QuietCallStep DEF CallInv, FundsBound
-----------------------------------------------------------------------------
(***************************************************************************)
(* The fix.                                                                *)
(***************************************************************************)
\* Outcomes are added up.
LEMMA RecordKeepsType ==
  ASSUME TypeOK, NEW done \in SUBSET Outcomes, RecordAutoFix(done)
  PROVE  fixes' \in [Outcomes -> Nat]
BY DEF TypeOK, RecordAutoFix

\* What follows the deposit, or its absence.
LEMMA AfterDepositTypes ==
  ASSUME TypeOK, NEW c \in Calls, NEW from, NEW done \in {{}, {"deposit"}},
         AfterDeposit(c, from, done)
  PROVE  /\ pc' \in [Calls -> PCs] /\ actions' \in [Calls -> SUBSET Outcomes]
         /\ fixed' \in [Calls -> BOOLEAN] /\ fixes' \in [Outcomes -> Nat]
         /\ pc[c] = from
         /\ \/ pc'[c] = "authorizing" /\ actions'[c] = done /\ fixed' = fixed
            \/ /\ pc'[c] = "recheckFunds" /\ actions'[c] = done \cup {"noop"}
               /\ fixed'[c]
         /\ \A d \in Calls \ {c} :
              pc'[d] = pc[d] /\ actions'[d] = actions[d] /\ fixed'[d] = fixed[d]
<1>1. done \cup {"noop"} \in SUBSET Outcomes /\ done \in SUBSET Outcomes
  BY DEF Outcomes
<1>2. CASE seenAuth[c] # "absent"
  <2>1. Finish(c, from, done \cup {"noop"})
    BY <1>2 DEF AfterDeposit
  <2>2. fixes' \in [Outcomes -> Nat]
    BY <1>1, <2>1, RecordKeepsType DEF Finish
  <2> QED
    BY <1>1, <2>1, <2>2 DEF TypeOK, Finish, Move, PCs
<1>3. CASE ~(seenAuth[c] # "absent")
  BY <1>1, <1>3 DEF AfterDeposit, TypeOK, Move, PCs
<1> QED
  BY <1>2, <1>3

\* Nothing missing, nothing deposited.
LEMMA ReadDecimalsKeepsAInv ==
  ASSUME AInv, NEW c \in Calls, ReadDecimals(c)
  PROVE  AInv'
<1>1. TypeOK /\ CallInv(c) /\ funds \in Nat /\ seenFunds[c] \in Nat
  BY DEF AInv, TypeOK
<1>2. /\ ask' = ask /\ seenFunds' = seenFunds /\ seenAuth' = seenAuth /\ reply' = reply
      /\ worse' = worse /\ better' = better /\ UNCHANGED <<funds, auth, purse>>
      /\ UNCHANGED <<preflights, mined, worldSteps>>
      /\ Req(c)' = Req(c) /\ Target(c)' = Target(c)
  BY DEF ReadDecimals, chain, history, Req, Target
<1>3. pc[c] = "decimals" /\ actions[c] = {} /\ ask[c] \in Asks /\ reply[c] = "none"
      /\ ~fixed[c]
  BY <1>1 DEF CallInv, Places, ReadDecimals
<1>4. Target(c) \in Nat
  BY <1>3, AskedIsRequirement
<1>5. CASE seenFunds[c] < Target(c)
  <2>1. Move(c, "decimals", "depositing") /\ UNCHANGED <<actions, fixed, fixes>>
    BY <1>5 DEF ReadDecimals
  <2>2. TypeOK'
    BY <1>1, <1>2, <2>1 DEF TypeOK, Move, PCs
  <2>3. \A d \in Calls \ {c} : Untouched(d)
    BY <1>1, <1>2, <2>1 DEF TypeOK, Untouched, Move
  <2>4. CallInv(c)'
    BY <1>1, <1>2, <1>3, <1>5, <2>1
    DEF TypeOK, Move, CallInv, Places, FundsBound, VerdictHolds
  <2> QED
    BY <1>2, <2>2, <2>3, <2>4, QuietCallStep
<1>6. CASE ~(seenFunds[c] < Target(c))
  <2>1. AfterDeposit(c, "decimals", {})
    BY <1>6 DEF ReadDecimals
  <2>2. TypeOK'
    BY <1>1, <1>2, <2>1, AfterDepositTypes DEF TypeOK
  <2>3. \A d \in Calls \ {c} : Untouched(d)
    BY <1>1, <1>2, <2>1, AfterDepositTypes DEF Untouched
  <2>4. Target(c) <= funds \/ worse[c]
    BY <1>1, <1>3, <1>4, <1>6 DEF CallInv, FundsBound
  <2>5. \/ pc'[c] = "authorizing" /\ actions'[c] = {} /\ fixed' = fixed
        \/ pc'[c] = "recheckFunds" /\ actions'[c] = {"noop"} /\ fixed'[c]
    BY <1>1, <2>1, AfterDepositTypes
  <2>6. CallInv(c)'
    BY <1>2, <1>3, <2>4, <2>5 DEF CallInv, Places, FundsBound, VerdictHolds
  <2> QED
    BY <1>2, <2>2, <2>3, <2>6, QuietCallStep
<1> QED
  BY <1>5, <1>6

\* A deposit, confirmed or not, is of what was missing, and the chain is whole.
LEMMA DepositTxMoves ==
  ASSUME AInv, NEW c \in Calls, pc[c] = "depositing", DepositTx(c)
  PROVE  /\ ChainOK /\ NothingUnauthorized' /\ \A d \in Calls : Noted(d)
         /\ funds' \in Nat /\ purse' \in Nat /\ auth' = auth
         /\ mined' \in [{"deposit", "authorize"} -> Nat]
         /\ worse' \in [Calls -> BOOLEAN] /\ better' \in [Calls -> BOOLEAN]
         /\ ask[c] \in Asks /\ Target(c) \in Nat /\ seenFunds[c] < Target(c)
         /\ funds' = funds + (Target(c) - seenFunds[c])
         /\ ~worse[c] => Target(c) <= funds'
         /\ ~worse'[c] => ~worse[c]
<1>1. TypeOK /\ CallInv(c) /\ funds \in Nat /\ purse \in Nat /\ seenFunds[c] \in Nat
      /\ auth \in ChainAuthorization
  BY DEF AInv, TypeOK, ChainAuthorization
<1>2. ask[c] \in Asks /\ seenFunds[c] < Target(c)
  BY <1>1 DEF CallInv, Places, FundsBound
<1>3. Target(c) \in Nat
  BY <1>2, AskedIsRequirement
<1>4. /\ funds' = funds + (Target(c) - seenFunds[c])
      /\ purse' = purse - (Target(c) - seenFunds[c])
      /\ Target(c) - seenFunds[c] <= purse
      /\ auth' = auth /\ Observe /\ mined' = [mined EXCEPT !["deposit"] = @ + 1]
  BY DEF DepositTx, Mine
<1>5. funds' \in Nat /\ purse' \in Nat
  BY <1>1, <1>2, <1>3, <1>4
<1>6. ~worse[c] => Target(c) <= funds'
  BY <1>1, <1>2, <1>3, <1>4 DEF CallInv, FundsBound
<1>7. mined' \in [{"deposit", "authorize"} -> Nat]
  BY <1>1, <1>4 DEF TypeOK
<1>8. ChainOK /\ NothingUnauthorized'
  BY <1>1, <1>4, <1>5 DEF ChainOK, OneWay, AInv, NothingUnauthorized
<1>9. \A d \in Calls : Noted(d)
  BY <1>1, <1>4, <1>5, ObserveNotes
<1>10. worse' \in [Calls -> BOOLEAN] /\ better' \in [Calls -> BOOLEAN]
  BY <1>4 DEF Observe
<1> QED
  BY <1>2, <1>3, <1>4, <1>5, <1>6, <1>7, <1>8, <1>9, <1>10 DEF Noted
\* The deposit brings the funds to the target, unless something was taken.
LEMMA DepositKeepsAInv ==
  ASSUME AInv, NEW c \in Calls, Deposit(c) \/ DepositUnconfirmed(c)
  PROVE  AInv'
<1>1. TypeOK /\ CallInv(c)
  BY DEF AInv
<1>2. pc[c] = "depositing" /\ DepositTx(c)
  BY DEF Deposit, DepositUnconfirmed, Answer, Move
<1>3. /\ ask' = ask /\ seenFunds' = seenFunds /\ seenAuth' = seenAuth
      /\ preflights' = preflights /\ worldSteps' = worldSteps
      /\ Req(c)' = Req(c) /\ Target(c)' = Target(c)
  BY DEF Deposit, DepositUnconfirmed, Req, Target
<1>4. actions[c] = {} /\ reply[c] = "none" /\ ~fixed[c]
  BY <1>1, <1>2 DEF CallInv, Places
<1>5. /\ ChainOK /\ NothingUnauthorized' /\ \A d \in Calls : Noted(d)
      /\ funds' \in Nat /\ purse' \in Nat /\ auth' = auth
      /\ mined' \in [{"deposit", "authorize"} -> Nat]
      /\ worse' \in [Calls -> BOOLEAN] /\ better' \in [Calls -> BOOLEAN]
      /\ ask[c] \in Asks
      /\ ~worse'[c] => Target(c) <= funds'
  BY <1>2, DepositTxMoves
<1>6. CASE Deposit(c)
  <2>1. AfterDeposit(c, "depositing", {"deposit"}) /\ reply' = reply
    BY <1>6 DEF Deposit
  <2>2. TypeOK'
    BY <1>1, <1>3, <1>5, <2>1, AfterDepositTypes DEF TypeOK
  <2>3. \A d \in Calls \ {c} : Untouched(d)
    BY <1>1, <1>3, <2>1, AfterDepositTypes DEF Untouched
  <2>4. \/ pc'[c] = "authorizing" /\ actions'[c] = {"deposit"} /\ fixed' = fixed
        \/ pc'[c] = "recheckFunds" /\ actions'[c] = {"deposit", "noop"} /\ fixed'[c]
    <3>1. {"deposit"} \cup {"noop"} = {"deposit", "noop"}
      OBVIOUS
    <3> QED
      BY <1>1, <2>1, <3>1, AfterDepositTypes
  <2>5. CallInv(c)'
    BY <1>3, <1>4, <1>5, <2>1, <2>4 DEF CallInv, Places, FundsBound, VerdictHolds
  <2> QED
    BY <1>5, <2>2, <2>3, <2>5, CallKeepsOthers
<1>7. CASE DepositUnconfirmed(c)
  <2>1. /\ Answer(c, "depositing", "error")
        /\ actions' = actions /\ fixed' = fixed /\ fixes' = fixes
    BY <1>7 DEF DepositUnconfirmed
  <2>2. TypeOK'
    BY <1>1, <1>3, <1>5, <2>1 DEF TypeOK, Answer, Move, PCs, Replies
  <2>3. \A d \in Calls \ {c} : Untouched(d)
    BY <1>1, <1>3, <2>1 DEF TypeOK, Untouched, Answer, Move
  <2>4. pc'[c] = "answered" /\ reply'[c] = "error"
    BY <1>1, <2>1 DEF TypeOK, Answer, Move
  <2>5. CallInv(c)'
    BY <1>3, <1>4, <1>5, <2>1, <2>4 DEF CallInv, Places, FundsBound, VerdictHolds
  <2> QED
    BY <1>5, <2>2, <2>3, <2>5, CallKeepsOthers
<1> QED
  BY <1>6, <1>7

\* An authorization, confirmed or not, is made where there was none, to the
\* targets, and who made it is ready if the funds are still there.
LEMMA AuthorizeTxMoves ==
  ASSUME AInv, NEW c \in Calls, pc[c] = "authorizing", AuthorizeTx(c)
  PROVE  /\ ChainOK /\ NothingUnauthorized' /\ \A d \in Calls : Noted(d)
         /\ UNCHANGED <<funds, purse>> /\ auth' \in ChainAuthorization
         /\ mined' \in [{"deposit", "authorize"} -> Nat]
         /\ worse' \in [Calls -> BOOLEAN] /\ better' \in [Calls -> BOOLEAN]
         /\ ask[c] \in Asks
         /\ ~worse'[c] => ready(Req(c), funds, auth')
<1>1. TypeOK /\ CallInv(c) /\ funds \in Nat /\ auth \in ChainAuthorization
      /\ NothingUnauthorized
  BY DEF AInv, TypeOK, ChainAuthorization
<1>2. ask[c] \in Asks
  BY <1>1 DEF CallInv, Places
<1>3. Req(c) \in Requirement /\ Target(c) \in Nat
  BY <1>2, AskedIsRequirement
<1>4. /\ ~auth.exists /\ auth' = Reauthorized(auth, Targets(Req(c)))
      /\ UNCHANGED <<funds, purse>> /\ Observe
      /\ mined' = [mined EXCEPT !["authorize"] = @ + 1]
  BY DEF AuthorizeTx, Mine
<1>5. auth = NoAuthorization
  BY <1>1, <1>4 DEF NothingUnauthorized
<1>6. auth' \in ChainAuthorization
  BY <1>1, <1>3, <1>4, TargetsAreLimits, ReauthorizedKeepsType
<1>7. /\ auth'.exists /\ auth'.currentLocks = auth.currentLocks
      /\ auth'.currentLockedAmount = auth.currentLockedAmount
  BY <1>1, <1>4 DEF Reauthorized, ChainAuthorization
<1>8. ChainOK /\ NothingUnauthorized'
  BY <1>1, <1>4, <1>6, <1>7 DEF ChainOK, OneWay, NothingUnauthorized
<1>9. \A d \in Calls : Noted(d)
  BY <1>1, <1>4, ObserveNotes
<1>10. mined' \in [{"deposit", "authorize"} -> Nat]
  BY <1>1, <1>4 DEF TypeOK
<1>11. ASSUME ~worse'[c] PROVE ready(Req(c), funds, auth')
  <2>1. Target(c) <= funds
    BY <1>1, <1>9, <1>11 DEF CallInv, FundsBound, Noted
  <2> QED
    BY <1>1, <1>3, <1>4, <1>5, <2>1, FreshAuthorizationIsReady DEF Target
<1>12. worse' \in [Calls -> BOOLEAN] /\ better' \in [Calls -> BOOLEAN]
  BY <1>4 DEF Observe
<1> QED
  BY <1>2, <1>4, <1>6, <1>8, <1>9, <1>10, <1>11, <1>12

\* A fix ends with an authorization of the call's own, or with somebody else's.
LEMMA AuthorizeKeepsAInv ==
  ASSUME AInv, NEW c \in Calls, Authorize(c) \/ AuthorizeUnconfirmed(c)
  PROVE  AInv'
<1>1. TypeOK /\ CallInv(c) /\ pc[c] = "authorizing" /\ NothingUnauthorized
  BY DEF AInv, Authorize, AuthorizeUnconfirmed, Finish, Answer, Move
<1>2. /\ ask' = ask /\ seenFunds' = seenFunds /\ seenAuth' = seenAuth
      /\ preflights' = preflights /\ worldSteps' = worldSteps
      /\ Req(c)' = Req(c) /\ Target(c)' = Target(c)
  BY DEF Authorize, AuthorizeUnconfirmed, Req, Target
<1>3. /\ ask[c] \in Asks /\ reply[c] = "none" /\ ~fixed[c]
      /\ actions[c] \in SUBSET {"deposit"}
  BY <1>1 DEF CallInv, Places
<1>4. ASSUME NEW done \in SUBSET Outcomes, Finish(c, "authorizing", done), reply' = reply
      PROVE  /\ pc' \in [Calls -> PCs] /\ actions' \in [Calls -> SUBSET Outcomes]
             /\ fixed' \in [Calls -> BOOLEAN] /\ fixes' \in [Outcomes -> Nat]
             /\ pc'[c] = "recheckFunds" /\ actions'[c] = done /\ fixed'[c]
             /\ \A d \in Calls \ {c} : Untouched(d)
  <2>1. fixes' \in [Outcomes -> Nat]
    BY <1>1, <1>4, RecordKeepsType DEF Finish
  <2> QED
    BY <1>1, <1>2, <1>4, <2>1 DEF TypeOK, Finish, Move, PCs, Untouched
<1>5. actions[c] \cup {"authorize"} \in SUBSET Outcomes
      /\ actions[c] \cup {"noop"} \in SUBSET Outcomes
  BY <1>3 DEF Outcomes
<1>6. CASE Authorize(c) /\ AuthorizeTx(c)
           /\ Finish(c, "authorizing", actions[c] \cup {"authorize"})
  <2>1. reply' = reply
    BY <1>6 DEF Authorize
  <2>2. ChainOK /\ NothingUnauthorized' /\ \A d \in Calls : Noted(d)
    BY <1>1, <1>6, AuthorizeTxMoves
  <2>3. TypeOK'
    BY <1>1, <1>2, <1>4, <1>5, <1>6, <2>1, AuthorizeTxMoves
    DEF TypeOK, ChainAuthorization
  <2>4. ~worse'[c] => ready(Req(c)', funds', auth')
    BY <1>1, <1>2, <1>6, AuthorizeTxMoves
  <2>5. CallInv(c)'
    BY <1>2, <1>3, <1>4, <1>5, <1>6, <2>1, <2>4
    DEF CallInv, Places, FundsBound, VerdictHolds
  <2> QED
    BY <1>4, <1>5, <1>6, <2>1, <2>2, <2>3, <2>5, CallKeepsOthers
<1>7. CASE /\ Authorize(c) /\ Finish(c, "authorizing", actions[c] \cup {"noop"})
           /\ UNCHANGED <<chain, mined, history>>
  <2>1. reply' = reply /\ UNCHANGED <<funds, auth, purse, mined, worse, better>>
    BY <1>7 DEF Authorize, chain, history
  <2>2. TypeOK'
    BY <1>1, <1>2, <1>4, <1>5, <1>7, <2>1 DEF TypeOK
  <2>3. "authorize" \notin actions'[c]
    BY <1>3, <1>4, <1>5, <1>7, <2>1
  <2>4. CallInv(c)'
    BY <1>2, <1>3, <1>4, <1>5, <1>7, <2>1, <2>3
    DEF CallInv, Places, FundsBound, VerdictHolds
  <2> QED
    BY <1>4, <1>5, <1>7, <2>1, <2>2, <2>4, QuietCallStep
<1>8. CASE AuthorizeUnconfirmed(c)
  <2>1. /\ Answer(c, "authorizing", "error") /\ AuthorizeTx(c)
        /\ actions' = actions /\ fixed' = fixed /\ fixes' = fixes
    BY <1>8 DEF AuthorizeUnconfirmed
  <2>2. ChainOK /\ NothingUnauthorized' /\ \A d \in Calls : Noted(d)
    BY <1>1, <2>1, AuthorizeTxMoves
  <2>3. pc' \in [Calls -> PCs] /\ reply' \in [Calls -> Replies]
        /\ pc'[c] = "answered" /\ reply'[c] = "error"
    BY <1>1, <2>1 DEF TypeOK, Answer, Move, PCs, Replies
  <2>4. TypeOK'
    BY <1>1, <1>2, <2>1, <2>3, AuthorizeTxMoves DEF TypeOK, ChainAuthorization
  <2>5. \A d \in Calls \ {c} : Untouched(d)
    BY <1>1, <1>2, <2>1 DEF TypeOK, Untouched, Answer, Move
  <2>6. CallInv(c)'
    BY <1>2, <1>3, <2>1, <2>3 DEF CallInv, Places, FundsBound, VerdictHolds
  <2> QED
    BY <2>2, <2>4, <2>5, <2>6, CallKeepsOthers
<1> QED
  BY <1>6, <1>7, <1>8 DEF Authorize

-----------------------------------------------------------------------------
\* Every step keeps the invariant.
LEMMA NextAInv == AInv /\ [Next]_vars => AInv'
<1> SUFFICES ASSUME AInv, [Next]_vars PROVE AInv'
  OBVIOUS
<1>1. CASE WorldStep
  BY <1>1, WorldKeepsAInv
<1>2. ASSUME NEW c \in Calls, CallStep(c) PROVE AInv'
  BY <1>2, BeginKeepsAInv, ErrorsKeepAInv, ReadFundsKeepsAInv, CheckKeepsAInv,
     RecheckKeepsAInv, ReadDecimalsKeepsAInv, DepositKeepsAInv, AuthorizeKeepsAInv
  DEF CallStep
<1>3. CASE UNCHANGED vars
  BY <1>3 DEF vars, AInv, TypeOK, NothingUnauthorized, CallInv, Places, FundsBound,
              VerdictHolds, Req, Target
<1> QED
  BY <1>1, <1>2, <1>3 DEF Next

\* So it holds always.
LEMMA AInvHolds == Spec => []AInv
BY InitAInv, NextAInv, PTL DEF Spec

\* Calls, escrow and counters hold values of their kinds.
THEOREM TypeCorrect == Spec => []TypeOK
<1>1. AInv => TypeOK
  BY DEF AInv
<1> QED
  BY <1>1, AInvHolds, PTL

\* A ready that escrow_preflight reported stays true until something goes down.
THEOREM ReadyAnswersHold == Spec => []ReadyAnswerHolds
<1>1. AInv => ReadyAnswerHolds
  BY DEF AInv, CallInv, VerdictHolds, ReadyAnswerHolds
<1> QED
  BY <1>1, AInvHolds, PTL

\* Whose own authorize() was mined is told ready, unless something went down.
THEOREM FixesTake == Spec => []AutoFixLeavesReady
<1>1. AInv => AutoFixLeavesReady
  BY DEF AInv, CallInv, VerdictHolds, AutoFixLeavesReady
<1> QED
  BY <1>1, AInvHolds, PTL
-----------------------------------------------------------------------------
(***************************************************************************)
(* The deposit.                                                            *)
(***************************************************************************)
\* A call that deposited found less than the target, and if nobody moved the
\* escrow meanwhile, left exactly the target.
LEMMA DepositStep ==
  ASSUME AInv, [Next]_vars, NEW c \in Calls,
         pc[c] = "depositing", pc'[c] # "depositing",
         mined'["deposit"] # mined["deposit"], ~worse[c], ~better[c]
  PROVE  funds < Target(c) /\ funds' = Target(c)
<1>1. TypeOK /\ CallInv(c)
  BY DEF AInv
<1>2. funds \in Nat /\ seenFunds[c] \in Nat /\ seenFunds[c] = funds
      /\ ask[c] \in Asks /\ seenFunds[c] < Target(c)
  BY <1>1 DEF TypeOK, CallInv, Places, FundsBound
<1>3. Target(c) \in Nat
  BY <1>2, AskedIsRequirement
<1>4. CASE Deposit(c) \/ DepositUnconfirmed(c)
  <2>1. DepositTx(c)
    BY <1>4 DEF Deposit, DepositUnconfirmed
  <2>2. funds' = funds + (Target(c) - seenFunds[c])
    BY <2>1 DEF DepositTx
  <2> QED
    BY <1>2, <1>3, <2>2
<1>5. CASE CallStep(c) /\ ~Deposit(c) /\ ~DepositUnconfirmed(c)
  BY <1>1, <1>5
  DEF CallStep, RejectArguments, Begin, ReadFunds, ReadFails, Check, Recheck,
      ReadDecimals, FixFails, Authorize, AuthorizeUnconfirmed, Finish, Answer, Move
<1>6. ASSUME NEW d \in Calls \ {c}, CallStep(d) PROVE FALSE
  <2>1. \A from, to : Move(d, from, to) => pc'[c] = pc[c]
    BY <1>1 DEF Move, TypeOK
  <2>2. \A from, what : Answer(d, from, what) => pc'[c] = pc[c]
    BY <2>1 DEF Answer
  <2>3. \A from, done : AfterDeposit(d, from, done) => pc'[c] = pc[c]
    BY <2>1 DEF AfterDeposit, Finish
  <2> QED
    BY <1>6, <2>1, <2>2, <2>3
    DEF CallStep, RejectArguments, Begin, ReadFunds, ReadFails, Check, Recheck,
        ReadDecimals, FixFails, Deposit, DepositUnconfirmed, Authorize,
        AuthorizeUnconfirmed, Finish
<1>7. ~WorldStep /\ vars' # vars
  BY DEF WorldStep, LockElsewhere, ReleaseElsewhere, PayerMoves, PayerAuthorizes,
         WorldActs, vars
<1> QED
  BY <1>4, <1>5, <1>6, <1>7 DEF Next

\* Every deposit, retried or not, is the shortfall.
THEOREM DepositsAreShortfalls == Spec => DepositIsTheShortfall
<1> DEFINE Step == \A c \in Calls :
                     /\ pc[c] = "depositing" /\ pc'[c] # "depositing"
                     /\ mined'["deposit"] # mined["deposit"]
                     /\ ~worse[c] /\ ~better[c]
                     => funds < Target(c) /\ funds' = Target(c)
<1>1. AInv /\ [Next]_vars => [Step]_vars
  BY DepositStep
<1> QED
  BY <1>1, AInvHolds, PTL DEF Spec, DepositIsTheShortfall
-----------------------------------------------------------------------------
(***************************************************************************)
(* The counters.                                                           *)
(***************************************************************************)
PreflightedCalls == {c \in Calls : Preflighted(c)}
RecheckedCalls == {c \in Calls : Rechecked(c)}

\* Calls that deposited, and whose fix is not recorded yet.
Unrecorded == {c \in Calls : pc[c] = "authorizing" /\ "deposit" \in actions[c]}

\* What was mined is recorded, or will be by a call under way, or never.
CInv ==
  /\ preflights["tool"] = Cardinality(PreflightedCalls)
  /\ preflights["tool_recheck"] = Cardinality(RecheckedCalls)
  /\ fixes["deposit"] + Cardinality(Unrecorded) <= mined["deposit"]
  /\ fixes["authorize"] <= mined["authorize"]

\* A call's step moves that call only.
LEMMA OthersUntouched ==
  ASSUME TypeOK, NEW c \in Calls, CallStep(c), NEW d \in Calls \ {c}
  PROVE  Untouched(d)
<1>1. \A from, to : Move(c, from, to) => pc'[d] = pc[d]
  BY DEF Move, TypeOK
<1>2. \A from, what : Answer(c, from, what) => pc'[d] = pc[d] /\ reply'[d] = reply[d]
  BY <1>1 DEF Answer, TypeOK
<1>3. \A from, done : Finish(c, from, done) =>
        pc'[d] = pc[d] /\ actions'[d] = actions[d] /\ fixed'[d] = fixed[d]
  BY <1>1 DEF Finish, TypeOK
<1>4. \A from, done : AfterDeposit(c, from, done) =>
        pc'[d] = pc[d] /\ actions'[d] = actions[d] /\ fixed'[d] = fixed[d]
  BY <1>1, <1>3 DEF AfterDeposit, TypeOK
<1>5. CASE RejectArguments(c) \/ \E a \in Asks : Begin(c, a)
  BY <1>1, <1>2, <1>5 DEF RejectArguments, Begin, Untouched, TypeOK
<1>6. CASE ReadFunds(c)
  BY <1>1, <1>6 DEF ReadFunds, Untouched, TypeOK
<1>7. CASE ReadFails(c) \/ Check(c) \/ Recheck(c) \/ FixFails(c)
  BY <1>1, <1>2, <1>7 DEF ReadFails, Check, Recheck, FixFails, Untouched
<1>8. CASE ReadDecimals(c) \/ Deposit(c) \/ Authorize(c)
  BY <1>1, <1>3, <1>4, <1>8 DEF ReadDecimals, Deposit, Authorize, Untouched
<1>9. CASE DepositUnconfirmed(c) \/ AuthorizeUnconfirmed(c)
  BY <1>2, <1>9 DEF DepositUnconfirmed, AuthorizeUnconfirmed, Untouched
<1> QED
  BY <1>5, <1>6, <1>7, <1>8, <1>9 DEF CallStep

\* How a step of c moves the three sets.
LEMMA SetsMove ==
  ASSUME TypeOK, NEW c \in Calls, CallStep(c)
  PROVE  /\ PreflightedCalls' \ {c} = PreflightedCalls \ {c}
         /\ RecheckedCalls' \ {c} = RecheckedCalls \ {c}
         /\ Unrecorded' \ {c} = Unrecorded \ {c}
<1>1. \A d \in Calls \ {c} :
        /\ pc'[d] = pc[d] /\ ask'[d] = ask[d]
        /\ actions'[d] = actions[d] /\ fixed'[d] = fixed[d]
  BY OthersUntouched DEF Untouched
<1> QED
  BY <1>1 DEF PreflightedCalls, RecheckedCalls, Unrecorded, Preflighted, Rechecked

\* Recording a fix counts each outcome in it once.
LEMMA RecordCounts ==
  ASSUME TypeOK, NEW done, RecordAutoFix(done), NEW o \in Outcomes
  PROVE  fixes[o] \in Nat /\ fixes'[o] = IF o \in done THEN fixes[o] + 1 ELSE fixes[o]
BY DEF TypeOK, RecordAutoFix
One(b) == IF b THEN 1 ELSE 0

\* The counters follow the sets if the step of one call counts what it does.
LEMMA CountsFollow ==
  ASSUME AInv, CInv, NEW c \in Calls, CallStep(c), TypeOK',
         Preflighted(c) => Preflighted(c)', Rechecked(c) => Rechecked(c)',
         preflights'["tool"] =
           preflights["tool"] + One(Preflighted(c)' /\ ~Preflighted(c)),
         preflights'["tool_recheck"] =
           preflights["tool_recheck"] + One(Rechecked(c)' /\ ~Rechecked(c)),
         fixes'["deposit"] + One(c \in Unrecorded') + mined["deposit"]
           <= fixes["deposit"] + One(c \in Unrecorded) + mined'["deposit"],
         fixes'["authorize"] <= mined'["authorize"]
  PROVE  CInv'
<1>1. TypeOK
  BY DEF AInv
<1>2. /\ Cardinality(PreflightedCalls') =
           Cardinality(PreflightedCalls) + One(Preflighted(c)' /\ ~Preflighted(c))
      /\ Cardinality(PreflightedCalls) \in Nat
  <2>1. PreflightedCalls \in SUBSET Calls /\ PreflightedCalls' \in SUBSET Calls
        /\ (c \in PreflightedCalls <=> Preflighted(c))
        /\ (c \in PreflightedCalls' <=> Preflighted(c)')
    BY DEF PreflightedCalls
  <2> QED
    BY <1>1, <2>1, SetsMove, EscrowAutoFixAssumption, OneMore DEF One
<1>3. /\ Cardinality(RecheckedCalls') =
           Cardinality(RecheckedCalls) + One(Rechecked(c)' /\ ~Rechecked(c))
      /\ Cardinality(RecheckedCalls) \in Nat
  <2>1. RecheckedCalls \in SUBSET Calls /\ RecheckedCalls' \in SUBSET Calls
        /\ (c \in RecheckedCalls <=> Rechecked(c))
        /\ (c \in RecheckedCalls' <=> Rechecked(c)')
    BY DEF RecheckedCalls
  <2> QED
    BY <1>1, <2>1, SetsMove, EscrowAutoFixAssumption, OneMore DEF One
<1>4. /\ Cardinality(Unrecorded') + One(c \in Unrecorded) =
           Cardinality(Unrecorded) + One(c \in Unrecorded')
      /\ Cardinality(Unrecorded) \in Nat /\ Cardinality(Unrecorded') \in Nat
  <2>1. Unrecorded \in SUBSET Calls /\ Unrecorded' \in SUBSET Calls
    BY DEF Unrecorded
  <2> QED
    BY <1>1, <2>1, SetsMove, EscrowAutoFixAssumption, OneMore DEF One
<1>5. /\ mined["deposit"] \in Nat /\ mined'["deposit"] \in Nat
      /\ fixes["deposit"] \in Nat /\ fixes'["deposit"] \in Nat
      /\ One(c \in Unrecorded) \in Nat /\ One(c \in Unrecorded') \in Nat
  BY <1>1 DEF TypeOK, Outcomes, One
<1> HIDE DEF One
<1>6. fixes'["deposit"] + Cardinality(Unrecorded') <= mined'["deposit"]
  BY <1>4, <1>5 DEF CInv
<1> QED
  BY <1>2, <1>3, <1>6 DEF CInv

\* Steps that count nothing, mine what they do not record, or give up.
LEMMA SilentStepsCount ==
  ASSUME AInv, CInv, NEW c \in Calls, CallStep(c), TypeOK',
         \/ RejectArguments(c) \/ (\E a \in Asks : Begin(c, a)) \/ ReadFunds(c)
         \/ FixFails(c) \/ DepositUnconfirmed(c) \/ AuthorizeUnconfirmed(c)
  PROVE  CInv'
<1>1. TypeOK /\ Places(c)
  BY DEF AInv, CallInv
<1>2. /\ preflights' = preflights /\ fixes' = fixes /\ actions' = actions /\ fixed' = fixed
      /\ pc'[c] # "authorizing"
  BY <1>1 DEF TypeOK, RejectArguments, Begin, ReadFunds, FixFails, DepositUnconfirmed,
              AuthorizeUnconfirmed, Answer, Move
<1>3. \A k \in {"deposit", "authorize"} : mined'[k] \in Nat /\ mined[k] <= mined'[k]
  BY <1>1 DEF TypeOK, RejectArguments, Begin, ReadFunds, FixFails, DepositUnconfirmed,
              AuthorizeUnconfirmed, DepositTx, AuthorizeTx, Mine
<1>4. Preflighted(c)' <=> Preflighted(c)
  BY <1>1, EscrowAutoFixAssumption
  DEF TypeOK, Places, Preflighted, RejectArguments, Begin, ReadFunds, FixFails,
      DepositUnconfirmed, AuthorizeUnconfirmed, Answer, Move
<1>5. ~Rechecked(c)' /\ ~Rechecked(c)
  BY <1>1, <1>2
  DEF TypeOK, Places, Rechecked, RejectArguments, Begin, ReadFunds, FixFails,
      DepositUnconfirmed, AuthorizeUnconfirmed, Answer, Move
<1>6. One(FALSE) = 0 /\ One(c \in Unrecorded) \in {0, 1} /\ c \notin Unrecorded'
  BY <1>2 DEF One, Unrecorded
<1>7. /\ fixes["deposit"] \in Nat /\ mined["deposit"] \in Nat
      /\ fixes["authorize"] \in Nat /\ mined["authorize"] \in Nat
      /\ preflights["tool"] \in Nat /\ preflights["tool_recheck"] \in Nat
  BY <1>1 DEF TypeOK, Outcomes
<1>8. /\ One(Preflighted(c)' /\ ~Preflighted(c)) = 0
      /\ One(Rechecked(c)' /\ ~Rechecked(c)) = 0
      /\ One(c \in Unrecorded') = 0
  BY <1>4, <1>5, <1>6 DEF One
<1>9. fixes'["authorize"] <= mined'["authorize"]
  BY <1>2, <1>3, <1>7 DEF CInv
<1> QED
  BY <1>2, <1>3, <1>4, <1>5, <1>6, <1>7, <1>8, <1>9, CountsFollow

\* A preflight that ends, or fails, is counted under its caller.
LEMMA PreflightsCount ==
  ASSUME AInv, CInv, NEW c \in Calls, CallStep(c), TypeOK',
         ReadFails(c) \/ Check(c) \/ Recheck(c)
  PROVE  CInv'
<1>1. TypeOK /\ Places(c)
  BY DEF AInv, CallInv
<1>2. /\ fixes' = fixes /\ mined' = mined /\ fixed' = fixed /\ ask' = ask
      /\ CountPreflight(c)
      /\ pc'[c] \in {"answered", "decimals"}
      /\ pc[c] \in {"readFunds", "readAuth", "recheckFunds", "recheckAuth"}
      /\ pc[c] \in {"recheckFunds", "recheckAuth"} => pc'[c] = "answered"
  BY <1>1 DEF TypeOK, ReadFails, Check, Recheck, Answer, Move
<1>3. c \notin Unrecorded /\ c \notin Unrecorded'
  BY <1>2 DEF Unrecorded
<1>4. ask[c] # NoAsk
  BY <1>1, <1>2, EscrowAutoFixAssumption DEF Places
<1>5. /\ preflights["tool"] \in Nat /\ preflights["tool_recheck"] \in Nat
      /\ fixes["deposit"] \in Nat /\ mined["deposit"] \in Nat
  BY <1>1 DEF TypeOK, Outcomes
<1>6. CASE pc[c] \in {"readFunds", "readAuth"}
  <2>1. /\ preflights'["tool"] = preflights["tool"] + 1
        /\ preflights'["tool_recheck"] = preflights["tool_recheck"]
    BY <1>1, <1>2, <1>6 DEF TypeOK, CountPreflight, CallerOf
  <2>2. Preflighted(c)' /\ ~Preflighted(c) /\ ~Rechecked(c) /\ ~Rechecked(c)'
    BY <1>1, <1>2, <1>4, <1>6 DEF Preflighted, Rechecked, Places
  <2>3. /\ One(Preflighted(c)' /\ ~Preflighted(c)) = 1
        /\ One(Rechecked(c)' /\ ~Rechecked(c)) = 0
        /\ One(c \in Unrecorded) = 0 /\ One(c \in Unrecorded') = 0
    BY <1>3, <2>2 DEF One
  <2> QED
    BY <1>2, <1>5, <2>1, <2>2, <2>3, CountsFollow DEF CInv
<1>7. CASE pc[c] \in {"recheckFunds", "recheckAuth"}
  <2>1. /\ preflights'["tool"] = preflights["tool"]
        /\ preflights'["tool_recheck"] = preflights["tool_recheck"] + 1
    BY <1>1, <1>2, <1>7 DEF TypeOK, CountPreflight, CallerOf
  <2>2. Preflighted(c)' /\ Preflighted(c) /\ ~Rechecked(c) /\ Rechecked(c)'
    BY <1>1, <1>2, <1>4, <1>7 DEF Preflighted, Rechecked, Places
  <2>3. /\ One(Preflighted(c)' /\ ~Preflighted(c)) = 0
        /\ One(Rechecked(c)' /\ ~Rechecked(c)) = 1
        /\ One(c \in Unrecorded) = 0 /\ One(c \in Unrecorded') = 0
    BY <1>3, <2>2 DEF One
  <2> QED
    BY <1>2, <1>5, <2>1, <2>2, <2>3, CountsFollow DEF CInv
<1> QED
  BY <1>2, <1>6, <1>7
\* The steps of a fix: what they mined is recorded now, or owed until the end.
LEMMA FixStepsCount ==
  ASSUME AInv, CInv, NEW c \in Calls, CallStep(c), TypeOK',
         ReadDecimals(c) \/ Deposit(c) \/ Authorize(c)
  PROVE  CInv'
<1>1. TypeOK /\ Places(c)
  BY DEF AInv, CallInv
<1>2. /\ fixes["deposit"] \in Nat /\ mined["deposit"] \in Nat
      /\ fixes["authorize"] \in Nat /\ mined["authorize"] \in Nat
      /\ preflights["tool"] \in Nat /\ preflights["tool_recheck"] \in Nat
      /\ "deposit" \in Outcomes /\ "authorize" \in Outcomes
  BY <1>1 DEF TypeOK, Outcomes
<1>3. /\ preflights' = preflights /\ ask' = ask
      /\ pc[c] \in {"decimals", "depositing", "authorizing"}
      /\ pc'[c] \in {"depositing", "authorizing", "recheckFunds"}
  BY <1>1 DEF TypeOK, ReadDecimals, Deposit, Authorize, AfterDeposit, Finish, Move
<1>4. /\ Preflighted(c)' <=> Preflighted(c)
      /\ ~Rechecked(c) /\ ~Rechecked(c)'
  BY <1>3 DEF Preflighted, Rechecked
<1>5. /\ One(Preflighted(c)' /\ ~Preflighted(c)) = 0
      /\ One(Rechecked(c)' /\ ~Rechecked(c)) = 0
  BY <1>4 DEF One
<1>6. SUFFICES /\ fixes'["deposit"] + One(c \in Unrecorded') + mined["deposit"]
                    <= fixes["deposit"] + One(c \in Unrecorded) + mined'["deposit"]
               /\ fixes'["authorize"] <= mined'["authorize"]
  BY <1>2, <1>3, <1>4, <1>5, CountsFollow
<1>7. fixes["authorize"] <= mined["authorize"]
  BY DEF CInv
<1>8. ASSUME NEW from, NEW done \in {{}, {"deposit"}}, AfterDeposit(c, from, done)
      PROVE  /\ fixes'["deposit"] + One(c \in Unrecorded') =
                  fixes["deposit"] + One("deposit" \in done)
             /\ fixes'["authorize"] = fixes["authorize"]
  <2>1. CASE seenAuth[c] # "absent"
    <3>1. Finish(c, from, done \cup {"noop"})
      BY <1>8, <2>1 DEF AfterDeposit
    <3>2. RecordAutoFix(done \cup {"noop"}) /\ pc'[c] = "recheckFunds"
      BY <1>1, <3>1 DEF Finish, Move, TypeOK
    <3>3. c \notin Unrecorded'
      BY <3>2 DEF Unrecorded
    <3>4. ("deposit" \in done \cup {"noop"} <=> "deposit" \in done)
          /\ "authorize" \notin done \cup {"noop"}
      BY <1>8
    <3> QED
      BY <1>1, <1>2, <3>2, <3>3, <3>4, RecordCounts DEF One
  <2>2. CASE ~(seenAuth[c] # "absent")
    <3>1. pc'[c] = "authorizing" /\ actions'[c] = done /\ fixes' = fixes
      BY <1>1, <1>8, <2>2 DEF AfterDeposit, Move, TypeOK
    <3>2. c \in Unrecorded' <=> "deposit" \in done
      BY <3>1 DEF Unrecorded
    <3> QED
      BY <1>2, <3>1, <3>2 DEF One
  <2> QED
    BY <2>1, <2>2
<1>9. CASE ReadDecimals(c)
  <2>1. mined' = mined /\ pc[c] = "decimals" /\ One(c \in Unrecorded) = 0
    BY <1>9 DEF ReadDecimals, Unrecorded, One
  <2>2. CASE AfterDeposit(c, "decimals", {})
    BY <1>2, <1>7, <1>8, <2>1, <2>2 DEF One
  <2>3. CASE Move(c, "decimals", "depositing") /\ UNCHANGED <<actions, fixed, fixes>>
    <3>1. One(c \in Unrecorded') = 0
      BY <1>1, <2>3 DEF Unrecorded, One, Move, TypeOK
    <3> QED
      BY <1>2, <1>7, <2>1, <2>3, <3>1
  <2> QED
    BY <1>9, <2>2, <2>3 DEF ReadDecimals
<1>10. CASE Deposit(c)
  <2>1. /\ pc[c] = "depositing" /\ One(c \in Unrecorded) = 0
        /\ AfterDeposit(c, "depositing", {"deposit"}) /\ Mine("deposit")
    BY <1>10 DEF Deposit, DepositTx, Unrecorded, One
  <2>2. mined'["deposit"] = mined["deposit"] + 1 /\ mined'["authorize"] = mined["authorize"]
    BY <1>1, <2>1 DEF Mine, TypeOK
  <2> QED
    BY <1>2, <1>7, <1>8, <2>1, <2>2 DEF One
<1>11. CASE Authorize(c)
  <2>1. /\ pc[c] = "authorizing" /\ actions[c] \subseteq {"deposit"}
        /\ One(c \in Unrecorded) = One("deposit" \in actions[c])
    BY <1>1, <1>11 DEF Authorize, Finish, Move, Places, Unrecorded, One
  <2>2. ASSUME NEW k \in {"authorize", "noop"},
               Finish(c, "authorizing", actions[c] \cup {k})
        PROVE  /\ fixes'["deposit"] + One(c \in Unrecorded') =
                    fixes["deposit"] + One(c \in Unrecorded)
               /\ fixes'["authorize"] = fixes["authorize"] + One(k = "authorize")
    <3>1. RecordAutoFix(actions[c] \cup {k}) /\ pc'[c] = "recheckFunds"
      BY <1>1, <2>2 DEF Finish, Move, TypeOK
    <3>2. ("deposit" \in actions[c] \cup {k} <=> "deposit" \in actions[c])
          /\ ("authorize" \in actions[c] \cup {k} <=> k = "authorize")
      BY <2>1
    <3>3. One(c \in Unrecorded') = 0
      BY <3>1 DEF Unrecorded, One
    <3> QED
      BY <1>1, <1>2, <2>1, <3>1, <3>2, <3>3, RecordCounts DEF One
  <2>3. CASE AuthorizeTx(c) /\ Finish(c, "authorizing", actions[c] \cup {"authorize"})
    <3>1. mined'["deposit"] = mined["deposit"] /\ mined'["authorize"] = mined["authorize"] + 1
      BY <1>1, <2>3 DEF AuthorizeTx, Mine, TypeOK
    <3>2. One("authorize" = "authorize") = 1 /\ One(c \in Unrecorded) \in Nat
      BY DEF One
    <3> QED
      BY <1>2, <1>7, <2>2, <2>3, <3>1, <3>2
  <2>4. CASE Finish(c, "authorizing", actions[c] \cup {"noop"}) /\ mined' = mined
    <3>1. One("noop" = "authorize") = 0 /\ One(c \in Unrecorded) \in Nat
      BY DEF One
    <3> QED
      BY <1>2, <1>7, <2>2, <2>4, <3>1
  <2> QED
    BY <1>11, <2>3, <2>4 DEF Authorize
<1> QED
  BY <1>9, <1>10, <1>11

\* No other step counts or mines.
LEMMA NextCInv == AInv /\ AInv' /\ CInv /\ [Next]_vars => CInv'
<1> SUFFICES ASSUME AInv, AInv', CInv, [Next]_vars PROVE CInv'
  OBVIOUS
<1>1. TypeOK'
  BY DEF AInv
<1>2. ASSUME NEW c \in Calls, CallStep(c) PROVE CInv'
  BY <1>1, <1>2, SilentStepsCount, PreflightsCount, FixStepsCount DEF CallStep
<1>3. CASE WorldStep \/ UNCHANGED vars
  <2>1. UNCHANGED <<pc, ask, actions, fixed, preflights, fixes, mined>>
    BY <1>3 DEF WorldStep, LockElsewhere, ReleaseElsewhere, PayerMoves,
                PayerAuthorizes, WorldActs, vars
  <2> QED
    BY <2>1 DEF CInv, PreflightedCalls, RecheckedCalls, Unrecorded, Preflighted, Rechecked
<1> QED
  BY <1>2, <1>3 DEF Next

\* mcp.escrow.preflight counts every preflight once, and mcp.escrow.autofix
\* claims no transaction that was not mined.
THEOREM CountersAreTrue == Spec => []CountersTellTheTruth
<1>1. Init => CInv
  <2> SUFFICES ASSUME Init PROVE CInv
    OBVIOUS
  <2>1. PreflightedCalls = {} /\ RecheckedCalls = {} /\ Unrecorded = {}
    BY DEF Init, PreflightedCalls, RecheckedCalls, Unrecorded, Preflighted, Rechecked
  <2> QED
    BY <2>1, FS_EmptySet DEF Init, CInv, Outcomes
<1>2. AInv /\ CInv => CountersTellTheTruth
  <2> SUFFICES ASSUME AInv, CInv PROVE CountersTellTheTruth
    OBVIOUS
  <2>1. Cardinality(Unrecorded) \in Nat
    BY EscrowAutoFixAssumption, FS_Subset, FS_CardinalityType DEF Unrecorded
  <2>2. fixes["deposit"] \in Nat /\ mined["deposit"] \in Nat
    BY DEF AInv, TypeOK, Outcomes
  <2> QED
    BY <2>1, <2>2 DEF CInv, CountersTellTheTruth, CallsThat, PreflightedCalls, RecheckedCalls
<1> QED
  BY <1>1, <1>2, NextCInv, AInvHolds, PTL DEF Spec
=============================================================================
