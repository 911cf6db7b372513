-------------------------- MODULE PaidStartProofs ---------------------------
(***************************************************************************)
(* The escrow gate is sound, for any number of calls, any jobs and any     *)
(* moves of the payer and the node.                                        *)
(*                                                                         *)
(* The argument is monotonicity: whether a job can start only depends on   *)
(* the room the chain leaves, and every step that changes the chain notes  *)
(* in `worse` and `better` which way the room moved.  So a verdict drawn   *)
(* from one read is still true of the present chain, up to that note.      *)
(*                                                                         *)
(* From the same invariant follow the refinement of PaidCalls and the      *)
(* account the counters give of the gates.                                 *)
(***************************************************************************)
EXTENDS PaidStart, EscrowReadinessProofs

-----------------------------------------------------------------------------
(***************************************************************************)
(* What the gate asks.                                                     *)
(***************************************************************************)
\* What the gate asks about a job is a requirement, and the node's figure is a
\* number of seconds.
LEMMA RequirementOfJob ==
  ASSUME NEW j \in Jobs
  PROVE  /\ GateRequirement(j) \in Requirement
         /\ GateRequirement(j).amount = j.amount
         /\ GateRequirement(j).minLockSeconds = GateMinLockSeconds(j)
         /\ NodeMinLockSeconds(j) \in Nat
         /\ j.amount \in Nat
         /\ j.kind \in {"compute", "service", "extend"}
<1>1. j \in [kind : {"compute", "service", "extend"}, amount : Nat,
             duration : Nat, gated : BOOLEAN]
  BY PaidStartAssumption
<1>2. NodeMinLockSeconds(j) \in Nat
  BY <1>1, PaidStartAssumption DEF NodeMinLockSeconds
<1>3. serviceMinLockSeconds(j.duration) \in Nat
  BY <1>1 DEF serviceMinLockSeconds, Larger, QuarterRoundedUp,
              DEFAULT_CLAIM_DURATION_TIMEOUT_SECONDS
<1>4. GateMinLockSeconds(j) \in Nat
  BY <1>2, <1>3 DEF GateMinLockSeconds
<1> QED
  BY <1>1, <1>2, <1>4 DEF GateRequirement, Requirement, DEFAULT_PARALLEL_JOBS

-----------------------------------------------------------------------------
(***************************************************************************)
(* The inductive invariant.                                                *)
(***************************************************************************)
Verdict(c, f) == canStartThisJob(GateRequirement(job[c]), f, auth)

\* A call has a job from its first step on, unless it was refused at once.
JobKnown ==
  \A c \in Calls :
    pc[c] \notin {"idle", "answered"} \/ node[c] # "none" \/ gate[c] # "none"
      => job[c] \in Jobs

\* Gate, node and reply follow the call's place: the gate is undecided until
\* the call is forwarded or refused, and nothing else sends it to the node.
Phases ==
  \A c \in Calls :
    /\ pc[c] \notin {"submitted", "answered"} => gate[c] = "none"
    /\ pc[c] # "answered" => reply[c] = "none"
    /\ node[c] = "none" <=> gate[c] \in {"none", "block"}
    /\ reply[c] = "blocked" => gate[c] = "block"

\* Between the two awaits: which way the funds moved since they were read.
ReadsBound ==
  \A c \in Calls :
    pc[c] = "readAuth" =>
      /\ ~worse[c] => seenFunds[c] <= funds
      /\ ~better[c] => funds <= seenFunds[c]

\* A verdict outlives its read.
PassHolds ==
  \A c \in Calls :
    gate[c] = "pass" /\ ~worse[c] /\ node[c] \in {"sent", "accepted"}
      => Verdict(c, funds)

BlockHolds ==
  \A c \in Calls : gate[c] = "block" /\ ~better[c] => ~Verdict(c, funds)

IInv ==
  /\ TypeOK /\ JobKnown /\ Phases /\ ReadsBound
  /\ PassHolds /\ BlockHolds /\ PassedStartLocks

\* Before any call the escrow is read by nobody: the invariant starts true.
LEMMA InitIInv == Init => IInv
<1> SUFFICES ASSUME Init PROVE IInv
  OBVIOUS
<1> USE DEF Init
<1>1. TypeOK
  BY PaidStartAssumption
  DEF TypeOK, PCs, GateResults, Replies, NodeStates, Authorization
<1>2. JobKnown /\ Phases /\ ReadsBound /\ PassHolds /\ BlockHolds
      /\ PassedStartLocks
  BY DEF JobKnown, Phases, ReadsBound, PassHolds, BlockHolds, PassedStartLocks
<1> QED
  BY <1>1, <1>2 DEF IInv

-----------------------------------------------------------------------------
(***************************************************************************)
(* Steps that move the chain: locks, and the payer by hand.                *)
(***************************************************************************)
\* What such a step leaves alone, and how far the node gets.
ChainMoves ==
  /\ Observe
  /\ funds' \in Nat /\ auth' \in ChainAuthorization
  /\ payerSteps' \in 0..MaxPayerSteps
  /\ UNCHANGED <<pc, job, seenFunds, gate, reply, metric>>
  /\ node' \in [Calls -> NodeStates]
  /\ \A c \in Calls :
       \/ node'[c] = node[c]
       \/ node[c] # "none" /\ node'[c] \in {"held", "released"}

\* Whatever moves the chain keeps every verdict true, up to what it notes in
\* `worse` and `better`.
LEMMA ChainMovesKeepIInv == IInv /\ ChainMoves => IInv'
<1> SUFFICES ASSUME IInv, ChainMoves PROVE IInv'
  OBVIOUS
<1> USE DEF IInv, ChainMoves
<1>1. TypeOK'
  BY DEF TypeOK, Observe, ChainAuthorization
<1>2. JobKnown' /\ Phases' /\ PassedStartLocks'
  <2>1. JobKnown'
    BY DEF JobKnown
  <2>2. Phases'
    BY DEF Phases
  <2>3. ASSUME NEW c \in Calls, gate'[c] = "pass", node'[c] = "refused"
        PROVE  worse'[c] \/ ~PaddingCovers(job'[c])
    BY <2>3 DEF PassedStartLocks, Observe
  <2> QED
    BY <2>1, <2>2, <2>3 DEF PassedStartLocks
<1>3. ASSUME NEW c \in Calls
      PROVE  /\ ~worse'[c] =>
                  ~worse[c] /\ funds' >= funds /\ AtLeast(auth', auth)
             /\ ~better'[c] =>
                  ~better[c] /\ funds' <= funds /\ AtLeast(auth, auth')
  <2>1. /\ ~worse'[c] =>
             ~worse[c] /\ ~(funds' < funds) /\ AtLeast(auth', auth)
        /\ ~better'[c] =>
             ~better[c] /\ ~(funds' > funds) /\ AtLeast(auth, auth')
    BY Zenon DEF Observe
  <2>2. funds \in Nat /\ funds' \in Nat
    BY DEF TypeOK
  <2>3. (~(funds' < funds) => funds' >= funds)
        /\ (~(funds' > funds) => funds' <= funds)
    BY <2>2
  <2> QED
    BY <2>1, <2>3, Zenon
<1>4. ReadsBound'
  BY <1>3 DEF ReadsBound, TypeOK
<1>5. auth \in ChainAuthorization /\ funds \in Nat
  BY DEF TypeOK, ChainAuthorization
<1>6. ASSUME NEW c \in Calls, gate[c] # "none"
      PROVE  GateRequirement(job[c]) \in Requirement
  BY <1>6, RequirementOfJob DEF JobKnown
<1>7. PassHolds'
  <2> SUFFICES ASSUME NEW c \in Calls, gate[c] = "pass", ~worse'[c],
                      node'[c] \in {"sent", "accepted"}
               PROVE  canStartThisJob(GateRequirement(job[c]), funds', auth')
    BY DEF PassHolds, Verdict
  <2>1. canStartThisJob(GateRequirement(job[c]), funds, auth)
    BY <1>3 DEF PassHolds, Verdict
  <2> QED
    BY <2>1, <1>3, <1>5, <1>6, CanStartMonotone
<1>8. BlockHolds'
  <2> SUFFICES ASSUME NEW c \in Calls, gate[c] = "block", ~better'[c],
                      canStartThisJob(GateRequirement(job[c]), funds', auth')
               PROVE  FALSE
    BY DEF BlockHolds, Verdict
  <2>1. canStartThisJob(GateRequirement(job[c]), funds, auth)
    BY <1>3, <1>5, <1>6, CanStartMonotone
  <2> QED
    BY <2>1, <1>3 DEF BlockHolds, Verdict
<1> QED
  BY <1>1, <1>2, <1>4, <1>7, <1>8

\* The node's locks and releases and the payer's steps are all such moves.
LEMMA ChainSteps ==
  ASSUME TypeOK, JobKnown, Phases,
         \/ PayerStep
         \/ \E c \in Calls : CreateLock(c) \/ ReleaseLock(c)
  PROVE  ChainMoves
<1>0. auth \in ChainAuthorization /\ funds \in Nat
  BY DEF TypeOK, ChainAuthorization
<1>1. ASSUME NEW c \in Calls, CreateLock(c)
      PROVE  ChainMoves
  <2>1. job[c] \in Jobs
    BY <1>1 DEF CreateLock, AboutToLock, JobKnown
  <2>2. job[c].amount \in Nat
    BY <2>1, RequirementOfJob
  <2>3. funds' \in Nat
    BY <1>0, <1>1, <2>2 DEF CreateLock, EscrowAccepts, LockAccepted
  <2>4. auth' \in ChainAuthorization
    BY <1>0, <1>1, <2>2, LocksKeepType DEF CreateLock
  <2> QED
    BY <1>1, <2>3, <2>4
    DEF CreateLock, AboutToLock, NodeMoves, NodeStates, ChainMoves, TypeOK
<1>2. ASSUME NEW c \in Calls, ReleaseLock(c)
      PROVE  ChainMoves
  <2>1. job[c] \in Jobs
    BY <1>2 DEF ReleaseLock, JobKnown
  <2>2. job[c].amount \in Nat
    BY <2>1, RequirementOfJob
  <2>3. funds' \in Nat
    BY <1>0, <1>2, <2>2 DEF ReleaseLock
  <2>4. auth' \in ChainAuthorization
    BY <1>0, <1>2, <2>2, LocksKeepType DEF ReleaseLock
  <2> QED
    BY <1>2, <2>3, <2>4 DEF ReleaseLock, NodeMoves, NodeStates, ChainMoves, TypeOK
<1>3. ASSUME Deposit \/ Withdraw
      PROVE  ChainMoves
  BY <1>0, <1>3, PaidStartAssumption
  DEF Deposit, Withdraw, PayerActs, ChainMoves, TypeOK
<1>4. ASSUME NEW limits \in PayerLimits, Authorize(limits)
      PROVE  ChainMoves
  <2>1. auth' \in ChainAuthorization
    BY <1>0, <1>4, PaidStartAssumption
    DEF Authorize, Reauthorized, Limits, ChainAuthorization
  <2> QED
    BY <1>0, <1>4, <2>1, PaidStartAssumption
    DEF Authorize, PayerActs, ChainMoves, TypeOK
<1> QED
  BY <1>1, <1>2, <1>3, <1>4 DEF PayerStep

-----------------------------------------------------------------------------
(***************************************************************************)
(* Steps that leave the chain alone.                                       *)
(***************************************************************************)
\* A call on its way to the two escrow reads has no verdict to keep.
LEMMA BeforeTheReads ==
  ASSUME IInv, NEW c \in Calls,
         \/ RejectArguments(c)
         \/ \E j \in Jobs : BeginCompute(c, j) \/ BeginService(c, j)
         \/ Locate(c) \/ LocateFails(c)
         \/ QuoteIsNone(c) \/ QuoteIsMalformed(c) \/ Quote(c)
  PROVE  IInv'
<1> USE DEF IInv, Move, Answer, Forward, chain, history
<1>1. CASE RejectArguments(c)
  BY <1>1 DEF RejectArguments, TypeOK, PCs, Replies, JobKnown, Phases,
     ReadsBound, PassHolds, BlockHolds, PassedStartLocks, Verdict
<1>2. ASSUME NEW j \in Jobs, BeginCompute(c, j)
      PROVE  IInv'
  BY <1>2 DEF BeginCompute, TypeOK, PCs, GateResults, NodeStates, JobKnown,
     Phases, ReadsBound, PassHolds, BlockHolds, PassedStartLocks, Verdict
<1>3. ASSUME NEW j \in Jobs, BeginService(c, j)
      PROVE  IInv'
  BY <1>3 DEF BeginService, TypeOK, PCs, JobKnown,
     Phases, ReadsBound, PassHolds, BlockHolds, PassedStartLocks, Verdict
<1>4. CASE Locate(c)
  BY <1>4 DEF Locate, TypeOK, PCs, GateResults, NodeStates, JobKnown,
     Phases, ReadsBound, PassHolds, BlockHolds, PassedStartLocks, Verdict
<1>5. CASE LocateFails(c)
  BY <1>5 DEF LocateFails, TypeOK, PCs, GateResults, NodeStates, Replies,
     JobKnown, Phases, ReadsBound, PassHolds, BlockHolds, PassedStartLocks,
     Verdict
<1>6. CASE QuoteIsNone(c) \/ QuoteIsMalformed(c)
  BY <1>6 DEF QuoteIsNone, QuoteIsMalformed, TypeOK, PCs, GateResults,
     NodeStates, JobKnown, Phases, ReadsBound, PassHolds, BlockHolds,
     PassedStartLocks, Verdict
<1>7. CASE Quote(c)
  BY <1>7 DEF Quote, TypeOK, PCs, JobKnown, Phases, ReadsBound, PassHolds,
     BlockHolds, PassedStartLocks, Verdict
<1> QED
  BY <1>1, <1>2, <1>3, <1>4, <1>5, <1>6, <1>7

\* Counting a verdict keeps the counter a counter.
LEMMA CountKeepsType ==
  ASSUME TypeOK, NEW r \in MetricResults, Count(r)
  PROVE  metric' \in [MetricResults -> Nat]
BY DEF Count, TypeOK

\* The two escrow reads, and the verdict drawn from them, keep the invariant.
LEMMA AtTheReads ==
  ASSUME IInv, NEW c \in Calls,
         \/ ReadFunds(c) \/ ReadFails(c) \/ EvaluationThrows(c)
         \/ ReadAuthorization(c)
  PROVE  IInv'
<1> USE DEF IInv, Move, Answer, Forward, chain, history
<1>1. CASE ReadFunds(c)
  <2>1. TypeOK' /\ JobKnown' /\ Phases'
    BY <1>1 DEF ReadFunds, TypeOK, PCs, JobKnown, Phases
  <2>2. ReadsBound'
    BY <1>1 DEF ReadFunds, TypeOK, ReadsBound
  <2>3. PassHolds' /\ BlockHolds' /\ PassedStartLocks'
    BY <1>1 DEF ReadFunds, TypeOK, Phases, PassHolds, BlockHolds,
       PassedStartLocks, Verdict
  <2> QED
    BY <2>1, <2>2, <2>3
<1>2. CASE ReadFails(c) \/ EvaluationThrows(c)
  <2> USE <1>2 DEF ReadFails, EvaluationThrows
  <2>0. metric' \in [MetricResults -> Nat]
    BY CountKeepsType DEF MetricResults, TypeOK
  <2>1. TypeOK'
    BY <2>0 DEF TypeOK, PCs, GateResults, NodeStates
  <2>2. JobKnown' /\ Phases' /\ ReadsBound'
    BY DEF TypeOK, JobKnown, Phases, ReadsBound
  <2>3. PassHolds' /\ BlockHolds' /\ PassedStartLocks'
    BY DEF TypeOK, PassHolds, BlockHolds, PassedStartLocks, Verdict
  <2> QED
    BY <2>1, <2>2, <2>3
<1>3. CASE ReadAuthorization(c)
  <2> DEFINE req == GateRequirement(job[c])
  <2>1. pc[c] = "readAuth" /\ job[c] \in Jobs
    BY <1>3 DEF ReadAuthorization, JobKnown
  <2>2. req \in Requirement
    BY <2>1, RequirementOfJob
  <2>3. auth \in ChainAuthorization /\ funds \in Nat /\ seenFunds[c] \in Nat
    BY DEF TypeOK, ChainAuthorization
  <2>4. AtLeast(auth, auth)
    BY DEF AtLeast, TypeOK, Headroom, FreeSlots
  <2>5. ~worse[c] /\ canStartThisJob(req, seenFunds[c], auth) => Verdict(c, funds)
    BY <2>1, <2>2, <2>3, <2>4, CanStartMonotone DEF ReadsBound, Verdict
  <2>6. ~better[c] /\ Verdict(c, funds) => canStartThisJob(req, seenFunds[c], auth)
    BY <2>1, <2>2, <2>3, <2>4, CanStartMonotone DEF ReadsBound, Verdict
  <2>7. reason(req, seenFunds[c], auth) \in MetricResults
    BY DEF reason, MetricResults, BlockReasons
  <2>8. TypeOK'
    <3>1. "ready" \in MetricResults
      BY DEF MetricResults
    <3>2. metric' \in [MetricResults -> Nat]
      BY <1>3, <2>7, <3>1, CountKeepsType DEF ReadAuthorization
    <3> QED
      BY <1>3, <3>2 DEF ReadAuthorization, TypeOK, PCs, GateResults, NodeStates,
         Replies
  <2>9. JobKnown' /\ Phases' /\ ReadsBound' /\ PassedStartLocks'
    BY <1>3, <2>1 DEF ReadAuthorization, TypeOK, JobKnown, Phases, ReadsBound,
       PassedStartLocks
  <2>10. PassHolds'
    BY <1>3, <2>5 DEF ReadAuthorization, TypeOK, PassHolds, Verdict
  <2>11. BlockHolds'
    BY <1>3, <2>6 DEF ReadAuthorization, TypeOK, BlockHolds, Verdict
  <2> QED
    BY <2>8, <2>9, <2>10, <2>11
<1> QED
  BY <1>1, <1>2, <1>3

\* What the node does short of locking, and what the caller learns of it.
LEMMA AtTheNode ==
  ASSUME IInv, NEW c \in Calls,
         \/ LoseRequest(c) \/ AcceptService(c) \/ CreateLockReverts(c)
         \/ ReceiveAnswer(c) \/ CallFails(c)
  PROVE  IInv'
<1> USE DEF IInv, Move, Answer, NodeMoves, chain, history
<1>1. CASE LoseRequest(c) \/ AcceptService(c)
  BY <1>1 DEF LoseRequest, AcceptService, TypeOK, NodeStates, JobKnown, Phases,
     ReadsBound, PassHolds, BlockHolds, PassedStartLocks, Verdict
<1>2. CASE ReceiveAnswer(c) \/ CallFails(c)
  BY <1>2 DEF ReceiveAnswer, NodeAnswer, CallFails, TypeOK, PCs, Replies,
     JobKnown, Phases, ReadsBound, PassHolds, BlockHolds, PassedStartLocks,
     Verdict
<1>3. CASE CreateLockReverts(c)
  <2>1. node[c] \in {"sent", "accepted"} /\ job[c] \in Jobs
    BY <1>3 DEF CreateLockReverts, AboutToLock, JobKnown
  <2>2. gate[c] = "pass" => worse[c] \/ ~PaddingCovers(job[c])
    <3> SUFFICES ASSUME gate[c] = "pass", ~worse[c], PaddingCovers(job[c])
                 PROVE  EscrowAccepts(job[c])
      BY <1>3 DEF CreateLockReverts
    <3>1. canStartThisJob(GateRequirement(job[c]), funds, auth)
      BY <2>1 DEF PassHolds, Verdict
    <3>2. auth \in ChainAuthorization /\ funds \in Nat
      BY DEF TypeOK, ChainAuthorization
    <3> QED
      BY <2>1, <3>1, <3>2, RequirementOfJob, CanStartIsAccepted
      DEF EscrowAccepts, PaddingCovers
  <2>3. TypeOK' /\ JobKnown' /\ Phases' /\ ReadsBound' /\ PassHolds' /\ BlockHolds'
    BY <1>3, <2>1 DEF CreateLockReverts, TypeOK, NodeStates, JobKnown, Phases,
       ReadsBound, PassHolds, BlockHolds, Verdict
  <2>4. PassedStartLocks'
    BY <1>3, <2>2 DEF CreateLockReverts, TypeOK, PassedStartLocks
  <2> QED
    BY <2>3, <2>4
<1> QED
  BY <1>1, <1>2, <1>3

\* No step of a call, the node or the payer breaks the invariant.
LEMMA NextKeepsIInv == IInv /\ [Next]_vars => IInv'
<1> SUFFICES ASSUME IInv, [Next]_vars PROVE IInv'
  OBVIOUS
<1>1. CASE UNCHANGED vars
  BY <1>1 DEF vars, IInv, TypeOK, JobKnown, Phases, ReadsBound, PassHolds,
     BlockHolds, PassedStartLocks, Verdict
<1>2. CASE PayerStep
  BY <1>2, ChainSteps, ChainMovesKeepIInv DEF IInv
<1>3. ASSUME NEW c \in Calls, CallStep(c)
      PROVE  IInv'
  BY <1>3, BeforeTheReads, AtTheReads, AtTheNode DEF CallStep
<1>4. ASSUME NEW c \in Calls, NodeStep(c)
      PROVE  IInv'
  BY <1>4, AtTheNode, ChainSteps, ChainMovesKeepIInv DEF NodeStep, IInv
<1> QED
  BY <1>1, <1>2, <1>3, <1>4 DEF Next

-----------------------------------------------------------------------------
(***************************************************************************)
(* The theorems.                                                           *)
(***************************************************************************)
\* Every reachable state of the gates satisfies the inductive invariant.
THEOREM IInvHolds == Spec => []IInv
BY InitIInv, NextKeepsIInv, PTL DEF Spec

\* Every variable of the gates keeps its type: funds never go below zero,
\* whichever calls, locks and withdrawals compete for them.
THEOREM TypeCorrect == Spec => []TypeOK
<1>1. IInv => TypeOK
  BY DEF IInv
<1> QED
  BY <1>1, IInvHolds, PTL

\* escrowPreflightGate and serviceEscrowGate are sound: a job they let through
\* is refused by the escrow only if funds or authorization went down since, or
\* the node's claimDurationTimeout outgrew the padding.
THEOREM PassedStartsLock == Spec => []PassedStartLocks
<1>1. IInv => PassedStartLocks
  BY DEF IInv
<1> QED
  BY <1>1, IInvHolds, PTL

\* The gates never block a job the escrow would have locked.
THEOREM BlocksAreJustified == Spec => []BlockedIsJustified
<1>1. IInv => BlockedIsJustified
  <2> SUFFICES ASSUME IInv, NEW c \in Calls, gate[c] = "block", ~better[c],
                      GateMinLockSeconds(job[c]) <= NodeMinLockSeconds(job[c]),
                      EscrowAccepts(job[c])
               PROVE  FALSE
    BY DEF BlockedIsJustified
  <2> USE DEF IInv
  <2>1. job[c] \in Jobs
    BY DEF JobKnown
  <2>2. auth \in ChainAuthorization /\ funds \in Nat
    BY DEF TypeOK, ChainAuthorization
  <2>3. Verdict(c, funds)
    BY <2>1, <2>2, RequirementOfJob, AcceptedCanStart DEF EscrowAccepts, Verdict
  <2> QED
    BY <2>3 DEF BlockHolds
<1> QED
  BY <1>1, IInvHolds, PTL

-----------------------------------------------------------------------------
(***************************************************************************)
(* The refinement.  The handlers of the paid calls implement PaidCalls:    *)
(* every step of PaidStart is, through the mapping at the end of that      *)
(* module, one step of the promise or none.  Most steps of a call are      *)
(* none: quotes, reads and counters are hidden.                            *)
(***************************************************************************)
\* A call that waits for the node has sent its request, and only a service is
\* accepted before it locks.
Places ==
  \A c \in Calls :
    /\ pc[c] = "submitted" => node[c] # "none"
    /\ node[c] = "accepted" => job[c].kind = "service"

\* Nothing is sent or accepted before any call began.
LEMMA InitPlaces == Init => Places
BY DEF Init, Places

\* The request leaves as the call is submitted, and a job is never exchanged.
LEMMA NextKeepsPlaces == IInv /\ Places /\ [Next]_vars => Places'
<1> SUFFICES ASSUME IInv, Places, [Next]_vars PROVE Places'
  OBVIOUS
<1> USE DEF IInv, TypeOK, Places, Move, Answer, Forward, NodeMoves
<1>1. CASE UNCHANGED vars
  BY <1>1 DEF vars
<1>2. CASE PayerStep
  BY <1>2 DEF PayerStep, Deposit, Withdraw, Authorize, PayerActs
<1>3. ASSUME NEW c \in Calls, CallStep(c)
      PROVE  Places'
  <2>1. CASE RejectArguments(c) \/ \E j \in Jobs : BeginCompute(c, j) \/ BeginService(c, j)
    BY <2>1 DEF RejectArguments, BeginCompute, BeginService, Phases
  <2>2. CASE Locate(c) \/ LocateFails(c)
    BY <2>2 DEF Locate, LocateFails
  <2>3. CASE QuoteIsNone(c) \/ QuoteIsMalformed(c) \/ Quote(c)
    BY <2>3 DEF QuoteIsNone, QuoteIsMalformed, Quote
  <2>4. CASE \/ ReadFunds(c) \/ ReadFails(c) \/ EvaluationThrows(c)
             \/ ReadAuthorization(c)
    BY <2>4 DEF ReadFunds, ReadFails, EvaluationThrows, ReadAuthorization
  <2>5. CASE ReceiveAnswer(c) \/ CallFails(c)
    BY <2>5 DEF ReceiveAnswer, CallFails
  <2> QED
    BY <1>3, <2>1, <2>2, <2>3, <2>4, <2>5 DEF CallStep
<1>4. ASSUME NEW c \in Calls, NodeStep(c)
      PROVE  Places'
  BY <1>4 DEF NodeStep, LoseRequest, AcceptService, CreateLock,
     CreateLockReverts, ReleaseLock
<1> QED
  BY <1>1, <1>2, <1>3, <1>4 DEF Next

-----------------------------------------------------------------------------
(***************************************************************************)
(* The mapping, step by step.                                              *)
(***************************************************************************)
\* The escrow starts in a state of the promise, with nothing sent or told.
LEMMA InitKeepsPromise == Init => Promise!Init
<1> SUFFICES ASSUME Init PROVE Promise!Init
  OBVIOUS
<1>1. funds \in Nat /\ auth.currentLockedAmount \in Nat
  BY PaidStartAssumption DEF Init, Authorization
<1> QED
  BY <1>1 DEF Promise!Init, Init, OrderOf, ToldCaller, LockOf

\* A step that touches neither escrow, requests nor answers is not seen.
LEMMA HiddenSteps ==
  ASSUME UNCHANGED <<chain, job, gate, reply, node>>
  PROVE  UNCHANGED Promise!vars
BY DEF chain, Promise!vars, OrderOf, ToldCaller, LockOf

\* What a gate, an argument check or a lookup refuses is refused by the promise.
LEMMA RefusalsAreRefusals ==
  ASSUME IInv, NEW c \in Calls, node[c] = "none", reply[c] = "none",
         UNCHANGED <<chain, job, node>>,
         \/ /\ reply' = [reply EXCEPT ![c] = "error"]
            /\ gate[c] = "none" /\ UNCHANGED gate
         \/ /\ reply' = [reply EXCEPT ![c] = "blocked"]
            /\ gate' = [gate EXCEPT ![c] = "block"]
  PROVE  Promise!Refuse(c)
<1> USE DEF IInv, TypeOK, Phases, chain
<1>1. [d \in Calls |-> ToldCaller(d)]' =
        [[d \in Calls |-> ToldCaller(d)] EXCEPT ![c] = "refused"]
  BY DEF ToldCaller
<1>2. ToldCaller(c) = "none" /\ LockOf(c) = "none"
  BY DEF ToldCaller, LockOf
<1> QED
  BY <1>1, <1>2
  DEF Promise!Refuse, Promise!Says, Promise!Untold, Promise!money, OrderOf, LockOf

\* A call that is forwarded sends one order, of the job it asks for.
LEMMA ForwardingSends ==
  ASSUME IInv, NEW c \in Calls, node[c] = "none", reply[c] = "none",
         NEW g \in GateResults \ {"none", "block"},
         job' = [job EXCEPT ![c] = job'[c]], job'[c] \in Jobs,
         gate' = [gate EXCEPT ![c] = g],
         node' = [node EXCEPT ![c] = "sent"],
         UNCHANGED <<chain, reply>>
  PROVE  Promise!Send(c)
<1> USE DEF IInv, TypeOK, Phases, chain
<1>1. [d \in Calls |-> LockOf(d)]' =
        [[d \in Calls |-> LockOf(d)] EXCEPT ![c] = "possible"]
  BY DEF LockOf
<1>2. [d \in Calls |-> OrderOf(d)]' =
        [[d \in Calls |-> OrderOf(d)] EXCEPT ![c] = OrderOf(c)']
  BY DEF OrderOf
<1>3. [d \in Calls |-> ToldCaller(d)]' = [d \in Calls |-> ToldCaller(d)]
  BY DEF ToldCaller
<1>4. OrderOf(c)' \in [price : Nat, background : BOOLEAN]
  BY PaidStartAssumption DEF OrderOf
<1>5. ToldCaller(c) = "none" /\ LockOf(c) = "none"
  BY DEF ToldCaller, LockOf
<1> QED
  BY <1>1, <1>2, <1>3, <1>4, <1>5
  DEF Promise!Send, Promise!Untold, Promise!Becomes, Promise!money,
      Promise!Orders

\* Up to its gate a call is hidden, refused, or sent.
LEMMA CallStepsKeepPromise ==
  ASSUME IInv, NEW c \in Calls,
         \/ RejectArguments(c)
         \/ \E j \in Jobs : BeginCompute(c, j) \/ BeginService(c, j)
         \/ Locate(c) \/ LocateFails(c)
         \/ QuoteIsNone(c) \/ QuoteIsMalformed(c) \/ Quote(c)
         \/ ReadFunds(c) \/ ReadFails(c) \/ EvaluationThrows(c)
         \/ ReadAuthorization(c)
  PROVE  Promise!Refuse(c) \/ Promise!Send(c) \/ UNCHANGED Promise!vars
<1> USE DEF Move, Answer, Forward, chain
<1>0. /\ job \in [Calls -> Jobs \cup {NoJob}]
      /\ pc[c] # "idle" /\ pc[c] # "answered" => job[c] \in Jobs
      /\ pc[c] \notin {"submitted", "answered"} =>
           node[c] = "none" /\ reply[c] = "none" /\ gate[c] = "none"
  BY DEF IInv, TypeOK, JobKnown, Phases
<1>1. CASE RejectArguments(c)
  BY <1>0, <1>1, RefusalsAreRefusals DEF RejectArguments
<1>2. ASSUME NEW j \in Jobs, BeginCompute(c, j)
      PROVE  Promise!Send(c) \/ UNCHANGED Promise!vars
  <2>1. job' = [job EXCEPT ![c] = job'[c]] /\ job'[c] \in Jobs
    BY <1>0, <1>2 DEF BeginCompute
  <2>2. CASE j.gated
    <3>1. [d \in Calls |-> OrderOf(d)]' = [d \in Calls |-> OrderOf(d)]
      BY <1>0, <1>2, <2>2 DEF BeginCompute, OrderOf
    <3>2. UNCHANGED <<chain, gate, reply, node>>
      BY <1>2, <2>2 DEF BeginCompute
    <3> QED
      BY <3>1, <3>2 DEF Promise!vars, ToldCaller, LockOf
  <2>3. CASE ~j.gated
    BY <1>0, <1>2, <2>1, <2>3, ForwardingSends DEF BeginCompute, GateResults
  <2> QED
    BY <2>2, <2>3
<1>3. ASSUME NEW j \in Jobs, BeginService(c, j)
      PROVE  UNCHANGED Promise!vars
  <2>1. [d \in Calls |-> OrderOf(d)]' = [d \in Calls |-> OrderOf(d)]
    BY <1>0, <1>3 DEF BeginService, OrderOf
  <2> QED
    BY <1>3, <2>1 DEF BeginService, Promise!vars, ToldCaller, LockOf
<1>4. CASE Locate(c)
  BY <1>0, <1>4, HiddenSteps, ForwardingSends DEF Locate, GateResults
<1>5. CASE LocateFails(c)
  BY <1>0, <1>5, RefusalsAreRefusals, ForwardingSends DEF LocateFails, GateResults
<1>6. CASE QuoteIsNone(c) \/ QuoteIsMalformed(c) \/ Quote(c)
  BY <1>0, <1>6, HiddenSteps, ForwardingSends
  DEF QuoteIsNone, QuoteIsMalformed, Quote, GateResults
<1>7. CASE ReadFunds(c) \/ ReadFails(c) \/ EvaluationThrows(c)
  BY <1>0, <1>7, HiddenSteps, ForwardingSends
  DEF ReadFunds, ReadFails, EvaluationThrows, GateResults
<1>8. CASE ReadAuthorization(c)
  BY <1>0, <1>8, RefusalsAreRefusals, ForwardingSends
  DEF ReadAuthorization, GateResults
<1> QED
  BY <1>1, <1>2, <1>3, <1>4, <1>5, <1>6, <1>7, <1>8

\* What the node does to a request is what the promise allows an order.
LEMMA NodeStepsKeepPromise ==
  ASSUME IInv, Places, NEW c \in Calls, NodeStep(c)
  PROVE  \/ Promise!Drop(c) \/ Promise!Lock(c) \/ Promise!Release(c)
         \/ UNCHANGED Promise!vars
<1> DEFINE orders == [d \in Calls |-> OrderOf(d)]
           tolds  == [d \in Calls |-> ToldCaller(d)]
           locks  == [d \in Calls |-> LockOf(d)]
<1> USE DEF IInv, TypeOK, NodeMoves, chain
<1>1. node[c] # "none" /\ UNCHANGED <<job, gate, reply>>
  BY DEF NodeStep, LoseRequest, AcceptService, CreateLock, AboutToLock,
     CreateLockReverts, ReleaseLock
<1>2. node' = [node EXCEPT ![c] = node'[c]] /\ node'[c] # "none"
  BY DEF NodeStep, LoseRequest, AcceptService, CreateLock,
     CreateLockReverts, ReleaseLock
<1>3. UNCHANGED orders /\ UNCHANGED tolds
  BY <1>1, <1>2 DEF OrderOf, ToldCaller
<1>4. locks' = [locks EXCEPT ![c] = LockOf(c)']
  BY <1>2 DEF LockOf
<1>5. orders[c].price = job[c].amount
  BY <1>1 DEF OrderOf
<1>6. CASE LoseRequest(c) \/ CreateLockReverts(c)
  <2>1. LockOf(c) = "possible" /\ LockOf(c)' = "off" /\ UNCHANGED chain
    BY <1>6 DEF LoseRequest, CreateLockReverts, AboutToLock, LockOf
  <2> QED
    BY <1>3, <1>4, <2>1 DEF Promise!Drop, Promise!Becomes, Promise!money
<1>7. CASE AcceptService(c)
  <2>1. LockOf(c)' = LockOf(c) /\ UNCHANGED chain
    BY <1>7 DEF AcceptService, LockOf
  <2>2. UNCHANGED locks
    BY <1>4, <2>1
  <2> QED
    BY <1>3, <2>1, <2>2 DEF Promise!vars
<1>8. CASE CreateLock(c)
  <2>1. LockOf(c) = "possible" /\ LockOf(c)' = "held"
    BY <1>8 DEF CreateLock, AboutToLock, LockOf
  <2>2. job[c].amount <= funds
    <3>1. job[c] \in Jobs
      BY <1>1 DEF JobKnown
    <3> QED
      BY <1>8, <3>1, RequirementOfJob DEF CreateLock, EscrowAccepts, LockAccepted
  <2>3. funds' = funds - job[c].amount
        /\ auth'.currentLockedAmount = auth.currentLockedAmount + job[c].amount
    BY <1>8 DEF CreateLock, WithLock
  <2> QED
    BY <1>3, <1>4, <1>5, <2>1, <2>2, <2>3 DEF Promise!Lock, Promise!Becomes
<1>9. CASE ReleaseLock(c)
  <2>1. LockOf(c) = "held" /\ LockOf(c)' = "released"
    BY <1>9 DEF ReleaseLock, LockOf
  <2>2. funds' \in {funds, funds + job[c].amount}
        /\ auth'.currentLockedAmount = auth.currentLockedAmount - job[c].amount
    BY <1>9 DEF ReleaseLock, WithoutLock
  <2> QED
    BY <1>3, <1>4, <1>5, <2>1, <2>2 DEF Promise!Release, Promise!Becomes
<1> QED
  BY <1>6, <1>7, <1>8, <1>9 DEF NodeStep

\* What the caller is told of a request that went out is true of its lock.
LEMMA AnswersKeepPromise ==
  ASSUME IInv, Places, NEW c \in Calls, ReceiveAnswer(c) \/ CallFails(c)
  PROVE  Promise!Tell(c)
<1> DEFINE tolds == [d \in Calls |-> ToldCaller(d)]
<1> USE DEF IInv, TypeOK, Phases, Places, Move, Answer, chain
<1>1. /\ pc[c] = "submitted" /\ UNCHANGED <<chain, job, gate, node>>
      /\ reply' = [reply EXCEPT ![c] = reply'[c]]
  BY DEF ReceiveAnswer, CallFails
<1>2. node[c] # "none" /\ gate[c] # "none" /\ reply[c] = "none"
  BY <1>1
<1>3. tolds' = [tolds EXCEPT ![c] = ToldCaller(c)'] /\ ToldCaller(c) = "none"
  <2>1. \A d \in Calls \ {c} : ToldCaller(d)' = ToldCaller(d)
    BY <1>1 DEF ToldCaller
  <2>2. ToldCaller(c) = "none"
    BY <1>2 DEF ToldCaller
  <2> QED
    BY <2>1, <2>2
<1>4. LockOf(c) # "none"
  BY <1>2 DEF LockOf
<1>5. UNCHANGED <<[d \in Calls |-> OrderOf(d)], [d \in Calls |-> LockOf(d)]>>
  BY <1>1 DEF OrderOf, LockOf
<1>6. \/ ToldCaller(c)' = "unsure"
      \/ ToldCaller(c)' = "started"
         /\ (OrderOf(c).background \/ LockOf(c) \in {"held", "released"})
      \/ ToldCaller(c)' = "failed" /\ LockOf(c) = "off"
  <2>1. CASE CallFails(c)
    BY <1>1, <1>2, <2>1 DEF CallFails, ToldCaller
  <2>2. CASE ReceiveAnswer(c)
    <3>1. ToldCaller(c)' = NodeAnswer(c)
          /\ node[c] \in {"accepted", "held", "released", "refused"}
      BY <1>1, <1>2, <2>2 DEF ReceiveAnswer, ToldCaller, NodeAnswer
    <3> QED
      BY <1>2, <3>1 DEF NodeAnswer, OrderOf, LockOf
  <2> QED
    BY <2>1, <2>2
<1> QED
  BY <1>1, <1>3, <1>4, <1>5, <1>6
  DEF Promise!Tell, Promise!Says, Promise!Untold, Promise!money

\* The payer moves what no lock holds.
LEMMA PayerStepsKeepPromise ==
  ASSUME IInv, PayerStep
  PROVE  Promise!MovesFunds
<1> USE DEF IInv, TypeOK, PayerStep, Deposit, Withdraw, Authorize, PayerActs
<1>1. funds' \in Nat /\ UNCHANGED <<job, gate, reply, node>>
  BY PaidStartAssumption
<1>2. auth'.currentLockedAmount = auth.currentLockedAmount
  BY DEF Reauthorized
<1> QED
  BY <1>1, <1>2 DEF Promise!MovesFunds, OrderOf, ToldCaller, LockOf

-----------------------------------------------------------------------------
(***************************************************************************)
(* The theorems.                                                           *)
(***************************************************************************)
\* computeStart, serviceStart and serviceExtend implement PaidCalls: a refused
\* caller's job never reaches the node, a job locks once and at its own price,
\* and an answer is true of the lock, for every interleaving.
THEOREM PromiseIsKept == Spec => KeepsPromise
<1>1. IInv /\ Places /\ [Next]_vars => [Promise!Next]_(Promise!vars)
  <2> SUFFICES ASSUME IInv, Places, [Next]_vars
               PROVE  [Promise!Next]_(Promise!vars)
    OBVIOUS
  <2>1. CASE UNCHANGED vars
    BY <2>1, HiddenSteps DEF vars, chain
  <2>2. CASE PayerStep
    BY <2>2, PayerStepsKeepPromise DEF Promise!Next
  <2>3. ASSUME NEW c \in Calls, CallStep(c)
        PROVE  [Promise!Next]_(Promise!vars)
    BY <2>3, CallStepsKeepPromise, AnswersKeepPromise
    DEF CallStep, Promise!Next, Promise!CallNext
  <2>4. ASSUME NEW c \in Calls, NodeStep(c)
        PROVE  [Promise!Next]_(Promise!vars)
    BY <2>4, NodeStepsKeepPromise DEF Promise!Next, Promise!CallNext
  <2> QED
    BY <2>1, <2>2, <2>3, <2>4 DEF Next
<1> QED
  BY <1>1, InitKeepsPromise, InitPlaces, NextKeepsPlaces, IInvHolds, PTL
  DEF Spec, KeepsPromise, Promise!Spec

\* Whoever implements the promise makes retries safe: "refused" and "failed"
\* are said of dead orders only, and a dead order stays dead.
LEMMA PromiseMakesRetriesSafe == Promise!Spec => []Promise!RetryIsSafe
<1> DEFINE Inv == Promise!TypeOK /\ Promise!RetryIsSafe
<1>1. Promise!Init => Inv
  BY DEF Promise!Init, Promise!TypeOK, Promise!Told, Promise!Locks, Promise!RetryIsSafe
<1>2. Inv /\ [Promise!Next]_(Promise!vars) => Inv'
  <2> SUFFICES ASSUME Inv, [Promise!Next]_(Promise!vars) PROVE Inv'
    OBVIOUS
  <2> USE DEF Promise!TypeOK, Promise!Told, Promise!Locks, Promise!RetryIsSafe,
              Promise!Untold, Promise!Says, Promise!Becomes
  <2>1. CASE UNCHANGED Promise!vars
    BY <2>1 DEF Promise!vars
  <2>2. CASE Promise!MovesFunds
    BY <2>2 DEF Promise!MovesFunds
  <2>3. ASSUME NEW c \in Calls, Promise!Refuse(c) \/ Promise!Tell(c)
        PROVE  Inv'
    BY <2>3 DEF Promise!Refuse, Promise!Tell
  <2>4. ASSUME NEW c \in Calls,
               Promise!Send(c) \/ Promise!Drop(c) \/ Promise!Lock(c) \/ Promise!Release(c)
        PROVE  Inv'
    BY <2>4 DEF Promise!Send, Promise!Drop, Promise!Lock, Promise!Release
  <2> QED
    BY <2>1, <2>2, <2>3, <2>4 DEF Promise!Next, Promise!CallNext
<1>3. Inv => Promise!RetryIsSafe
  OBVIOUS
<1> QED
  BY <1>1, <1>2, <1>3, PTL DEF Promise!Spec

\* So a caller told escrow_preflight_failed, or that the start failed, may
\* start again without paying twice.
THEOREM RetriesAreSafe == Spec => []Promise!RetryIsSafe
<1>1. Promise!Spec => []Promise!RetryIsSafe
  BY PromiseMakesRetriesSafe
<1> QED
  BY <1>1, PromiseIsKept, PTL DEF KeepsPromise

-----------------------------------------------------------------------------
(***************************************************************************)
(* The counters of the gates.                                              *)
(***************************************************************************)
Marked(f, what) == {c \in Calls : f[c] = what}

\* A step of a call marks nothing that is counted, or reports what it marks.
Silent(c) ==
  /\ metric' = metric
  /\ gate'[c] = gate[c] \/ (gate[c] = "none" /\ gate'[c] \notin {"pass", "unread"})
  /\ reply'[c] = reply[c] \/ (reply[c] = "none" /\ reply'[c] # "blocked")

Reports(c) ==
  /\ \A d \in Calls \ {c} : gate'[d] = gate[d] /\ reply'[d] = reply[d]
  /\ \/ Silent(c)
     \/ /\ Count("ready") /\ reply' = reply
        /\ gate[c] = "none" /\ gate'[c] = "pass"
     \/ /\ Count("error") /\ reply' = reply
        /\ gate[c] = "none" /\ gate'[c] = "unread"
     \/ /\ \E r \in BlockReasons : Count(r)
        /\ gate[c] = "none" /\ gate'[c] = "block"
        /\ reply[c] = "none" /\ reply'[c] = "blocked"

\* Every step of a call, its gate or its answer is such a step.
LEMMA CallsReport ==
  ASSUME IInv, NEW c \in Calls, CallStep(c)
  PROVE  Reports(c)
<1>1. TypeOK /\ Phases
  BY DEF IInv
<1>3. \A from, what : Answer(c, from, what) =>
        /\ pc[c] = from /\ reply'[c] = what
        /\ \A d \in Calls \ {c} : reply'[d] = reply[d]
  BY <1>1 DEF Answer, Move, TypeOK
<1>4. \A from, what : Forward(c, from, what) =>
        /\ pc[c] = from /\ gate'[c] = what
        /\ \A d \in Calls \ {c} : gate'[d] = gate[d]
  BY <1>1 DEF Forward, Move, TypeOK
<1>5. pc[c] \notin {"submitted", "answered"} => gate[c] = "none"
  BY <1>1 DEF Phases
<1>6. pc[c] # "answered" => reply[c] = "none"
  BY <1>1 DEF Phases
<1>7. CASE RejectArguments(c) \/ ReceiveAnswer(c) \/ CallFails(c)
  <2>1. PICK from \in {"idle", "submitted"}, what \in {"error", "started", "failed"} :
          Answer(c, from, what)
    BY <1>7 DEF RejectArguments, ReceiveAnswer, CallFails, NodeAnswer
  <2>2. gate' = gate /\ metric' = metric
    BY <1>7 DEF RejectArguments, ReceiveAnswer, CallFails
  <2> QED
    BY <1>3, <1>6, <2>1, <2>2 DEF Reports, Silent
<1>8. ASSUME NEW from \in {"idle", "locating", "quoting", "readAuth"},
             NEW what \in {"open", "malformed"},
             Forward(c, from, what), metric' = metric, reply' = reply
      PROVE  Reports(c)
  <2>1. gate[c] = "none" /\ gate'[c] = what
    BY <1>4, <1>5, <1>8
  <2> QED
    BY <1>4, <1>8, <2>1 DEF Reports, Silent
<1>9. ASSUME gate' = gate, metric' = metric, reply' = reply
      PROVE  Reports(c)
  BY <1>9 DEF Reports, Silent
<1>10. CASE \E j \in Jobs : BeginCompute(c, j) \/ BeginService(c, j)
  BY <1>8, <1>9, <1>10 DEF BeginCompute, BeginService
<1>11. CASE Locate(c)
  BY <1>8, <1>9, <1>11 DEF Locate
<1>12. CASE LocateFails(c)
  <2>1. CASE Answer(c, "locating", "error") /\ UNCHANGED <<gate, node>>
    <3>1. reply[c] = "none" /\ reply'[c] = "error" /\ metric' = metric
          /\ \A d \in Calls \ {c} : reply'[d] = reply[d]
      BY <1>3, <1>6, <1>12, <2>1 DEF LocateFails
    <3> QED
      BY <2>1, <3>1 DEF Reports, Silent
  <2>2. CASE Forward(c, "locating", "open") /\ reply' = reply
    BY <1>8, <1>12, <2>2 DEF LocateFails
  <2> QED
    BY <1>12, <2>1, <2>2 DEF LocateFails
<1>13. CASE QuoteIsNone(c) \/ QuoteIsMalformed(c) \/ EvaluationThrows(c)
  BY <1>8, <1>13 DEF QuoteIsNone, QuoteIsMalformed, EvaluationThrows
<1>14. CASE Quote(c) \/ ReadFunds(c)
  BY <1>9, <1>14 DEF Quote, ReadFunds
<1>15. CASE ReadFails(c)
  <2>1. PICK from \in {"readFunds", "readAuth"} : Forward(c, from, "unread")
    BY <1>15 DEF ReadFails
  <2>2. Count("error") /\ reply' = reply
    BY <1>15 DEF ReadFails
  <2> QED
    BY <1>4, <1>5, <2>1, <2>2 DEF Reports
<1>16. CASE ReadAuthorization(c)
  <2>1. CASE Forward(c, "readAuth", "pass") /\ Count("ready") /\ reply' = reply
    BY <1>4, <1>5, <2>1 DEF Reports
  <2>2. CASE /\ Answer(c, "readAuth", "blocked")
             /\ gate' = [gate EXCEPT ![c] = "block"]
             /\ Count(reason(GateRequirement(job[c]), seenFunds[c], auth))
    <3>1. reason(GateRequirement(job[c]), seenFunds[c], auth) \in BlockReasons
      BY DEF reason, BlockReasons
    <3>2. gate'[c] = "block" /\ \A d \in Calls \ {c} : gate'[d] = gate[d]
      BY <1>1, <2>2 DEF TypeOK
    <3> QED
      BY <1>3, <1>5, <1>6, <2>2, <3>1, <3>2 DEF Reports
  <2> QED
    BY <1>16, <2>1, <2>2 DEF ReadAuthorization
<1> QED
  BY <1>7, <1>10, <1>11, <1>12, <1>13, <1>14, <1>15, <1>16 DEF CallStep
\* Marking one call moves one count.
LEMMA MarkedMoves ==
  ASSUME NEW c \in Calls, NEW f, NEW g, NEW what,
         \A d \in Calls \ {c} : g[d] = f[d]
  PROVE  LET S == Marked(f, what)
             T == Marked(g, what)
         IN  /\ Cardinality(S) \in Nat /\ Cardinality(T) \in Nat
             /\ (f[c] = what <=> g[c] = what) => Cardinality(T) = Cardinality(S)
             /\ f[c] # what /\ g[c] = what => Cardinality(T) = Cardinality(S) + 1
<1> DEFINE S == Marked(f, what)
           T == Marked(g, what)
<1>1. /\ S \in SUBSET Calls /\ T \in SUBSET Calls /\ S \ {c} = T \ {c}
      /\ (c \in S <=> f[c] = what) /\ (c \in T <=> g[c] = what)
  BY DEF Marked
<1> HIDE DEF S, T
<1>2. /\ Cardinality(S) \in Nat /\ Cardinality(T) \in Nat
      /\ (c \in S <=> c \in T) => Cardinality(T) = Cardinality(S)
      /\ c \in T /\ c \notin S => Cardinality(T) = Cardinality(S) + 1
  BY <1>1, PaidStartAssumption, OneMore
<1> QED
  BY <1>1, <1>2 DEF S, T

\* The three counts, as sets of calls.
Counts ==
  /\ metric["ready"] = Cardinality(Marked(gate, "pass"))
  /\ metric["error"] = Cardinality(Marked(gate, "unread"))
  /\ metric["insufficient_funds"] + metric["missing_authorization"]
       + metric["authorization_limits"] = Cardinality(Marked(reply, "blocked"))

\* What is reported is what was marked.
LEMMA ReportsKeepCounts ==
  ASSUME TypeOK, Counts, NEW c \in Calls, Reports(c)
  PROVE  Counts'
<1>1. /\ metric["ready"] \in Nat /\ metric["error"] \in Nat
      /\ metric["insufficient_funds"] \in Nat /\ metric["missing_authorization"] \in Nat
      /\ metric["authorization_limits"] \in Nat
  BY DEF TypeOK, MetricResults, BlockReasons
<1>2. \A r, q \in MetricResults : Count(r) =>
        metric'[q] = IF q = r THEN metric[q] + 1 ELSE metric[q]
  BY DEF Count, TypeOK
<1>3. /\ {"ready", "error"} \subseteq MetricResults /\ BlockReasons \subseteq MetricResults
      /\ BlockReasons = {"insufficient_funds", "missing_authorization",
                         "authorization_limits"}
  BY DEF MetricResults, BlockReasons
<1> DEFINE Same(f, g, what) == f[c] = what <=> g[c] = what
<1>4. \A what : /\ Cardinality(Marked(gate, what)) \in Nat
                /\ Same(gate, gate', what) =>
                     Cardinality(Marked(gate', what)) = Cardinality(Marked(gate, what))
                /\ gate[c] # what /\ gate'[c] = what =>
                     Cardinality(Marked(gate', what)) = Cardinality(Marked(gate, what)) + 1
  BY MarkedMoves DEF Reports
<1>5. \A what : /\ Cardinality(Marked(reply, what)) \in Nat
                /\ Same(reply, reply', what) =>
                     Cardinality(Marked(reply', what)) = Cardinality(Marked(reply, what))
                /\ reply[c] # what /\ reply'[c] = what =>
                     Cardinality(Marked(reply', what)) = Cardinality(Marked(reply, what)) + 1
  BY MarkedMoves DEF Reports
<1>6. CASE Silent(c)
  <2>1. Same(gate, gate', "pass") /\ Same(gate, gate', "unread")
        /\ Same(reply, reply', "blocked")
    BY <1>6 DEF Silent
  <2> QED
    BY <1>4, <1>5, <1>6, <2>1 DEF Counts, Silent
<1>7. CASE Count("ready") /\ reply' = reply /\ gate[c] = "none" /\ gate'[c] = "pass"
  BY <1>1, <1>2, <1>3, <1>4, <1>7 DEF Counts
<1>8. CASE Count("error") /\ reply' = reply /\ gate[c] = "none" /\ gate'[c] = "unread"
  BY <1>1, <1>2, <1>3, <1>4, <1>8 DEF Counts
<1>9. ASSUME NEW r \in BlockReasons, Count(r), gate[c] = "none", gate'[c] = "block",
             reply[c] = "none", reply'[c] = "blocked"
      PROVE  Counts'
  <2>1. metric'["ready"] = metric["ready"] /\ metric'["error"] = metric["error"]
    BY <1>2, <1>3, <1>9
  <2>2. metric'["insufficient_funds"] + metric'["missing_authorization"]
          + metric'["authorization_limits"] =
        metric["insufficient_funds"] + metric["missing_authorization"]
          + metric["authorization_limits"] + 1
    BY <1>1, <1>2, <1>3, <1>9
  <2>3. /\ Cardinality(Marked(gate', "pass")) = Cardinality(Marked(gate, "pass"))
        /\ Cardinality(Marked(gate', "unread")) = Cardinality(Marked(gate, "unread"))
    BY <1>4, <1>9
  <2>4. Cardinality(Marked(reply', "blocked")) = Cardinality(Marked(reply, "blocked")) + 1
    BY <1>5, <1>9
  <2> QED
    BY <2>1, <2>2, <2>3, <2>4 DEF Counts
<1> QED
  BY <1>6, <1>7, <1>8, <1>9 DEF Reports

\* mcp.escrow.preflight is the account of the gates' verdicts, for any number
\* of calls; of payments that do not parse it may say either.
THEOREM CountsAreExact == Spec => []CountsAreVerdicts
<1>1. Init => Counts
  <2> SUFFICES ASSUME Init PROVE Counts
    OBVIOUS
  <2>1. Marked(gate, "pass") = {} /\ Marked(gate, "unread") = {}
        /\ Marked(reply, "blocked") = {}
    BY DEF Init, Marked
  <2> QED
    BY <2>1, FS_EmptySet DEF Init, Counts, MetricResults, BlockReasons
<1>2. IInv /\ Counts /\ [Next]_vars => Counts'
  <2> SUFFICES ASSUME IInv, Counts, [Next]_vars PROVE Counts'
    OBVIOUS
  <2>1. ASSUME NEW c \in Calls, CallStep(c) PROVE Counts'
    BY <2>1, CallsReport, ReportsKeepCounts DEF IInv
  <2>2. ASSUME UNCHANGED <<gate, reply, metric>> PROVE Counts'
    BY <2>2 DEF Counts, Marked
  <2>3. ASSUME NEW c \in Calls, NodeStep(c) PROVE Counts'
    BY <2>2, <2>3 DEF NodeStep, LoseRequest, AcceptService, CreateLock,
                      CreateLockReverts, ReleaseLock
  <2>4. CASE PayerStep \/ UNCHANGED vars
    BY <2>2, <2>4 DEF PayerStep, Deposit, Withdraw, Authorize, PayerActs, vars
  <2> QED
    BY <2>1, <2>3, <2>4 DEF Next
<1>3. Counts => CountsAreVerdicts
  <2> SUFFICES ASSUME Counts PROVE CountsAreVerdicts
    OBVIOUS
  <2> DEFINE unread == {c \in Calls : gate[c] \in {"unread"}}
             uncounted == {c \in Calls : gate[c] \in {"unread", "malformed"}}
  <2>1. \A f, what : {c \in Calls : f[c] \in {what}} = Marked(f, what)
    BY DEF Marked
  <2>2. IsFiniteSet(uncounted) /\ unread \in SUBSET uncounted
    BY FS_Subset, PaidStartAssumption
  <2> HIDE DEF unread, uncounted
  <2>3. Cardinality(unread) \in Nat /\ Cardinality(unread) <= Cardinality(uncounted)
    BY <2>2, FS_Subset, FS_CardinalityType
  <2>4. /\ CallsWith(gate, {"unread"}) = Cardinality(unread)
        /\ CallsWith(gate, {"unread", "malformed"}) = Cardinality(uncounted)
    BY DEF CallsWith, unread, uncounted
  <2>5. metric["error"] = Cardinality(unread)
    BY <2>1 DEF Counts, unread
  <2>6. /\ metric["error"] >= CallsWith(gate, {"unread"})
        /\ metric["error"] <= CallsWith(gate, {"unread", "malformed"})
    BY <2>3, <2>4, <2>5
  <2> QED
    BY <2>1, <2>6 DEF Counts, CountsAreVerdicts, CallsWith
<1> QED
  BY <1>1, <1>2, <1>3, IInvHolds, PTL DEF Spec
=============================================================================
