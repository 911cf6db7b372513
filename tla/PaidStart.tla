----------------------------- MODULE PaidStart ------------------------------
(***************************************************************************)
(* The paid calls -- computeStart, serviceStart, serviceExtend -- of       *)
(* several callers spending one payer's escrow with one node.  Every call  *)
(* runs the best-effort escrow gate (escrowPreflightGate in                *)
(* p2pProviderTools.ts, serviceEscrowGate in serviceTools.ts): it prices   *)
(* the job, reads the funds and the authorization in two separate awaits,  *)
(* and refuses the call or forwards it to the node.  The node locks the    *)
(* escrow later, on its own; meanwhile the payer and the other calls move  *)
(* the same funds.                                                         *)
(***************************************************************************)
EXTENDS EscrowReadiness, FiniteSets

CONSTANTS
  Calls,                 \* tool calls in flight
  Jobs,                  \* the jobs a call may ask for
  NoJob,                 \* a call that has not begun
  ClaimDurationTimeout,  \* the node's own setting, in seconds
  InitialFunds,          \* available escrow funds at the start
  InitialAuthorization,  \* the payee's authorization at the start
  PayerLimits,           \* authorizations the payer may switch to
  MaxFunds,              \* bound: top-ups stop here
  MaxPayerSteps          \* bound: escrow steps the payer takes by hand

\* gated: FALSE when the gate is bypassed -- no EVM registry,
\* skipEscrowPreflight, or an identity that names no payer.
ASSUME PaidStartAssumption ==
  /\ IsFiniteSet(Calls)
  /\ Jobs \subseteq [kind : {"compute", "service", "extend"},
                     amount : Nat, duration : Nat, gated : BOOLEAN]
  /\ NoJob \notin Jobs
  /\ ClaimDurationTimeout \in Nat
  /\ InitialFunds \in Nat
  /\ InitialAuthorization \in Authorization
  /\ PayerLimits \subseteq Limits
  /\ MaxFunds \in Nat /\ MaxPayerSteps \in Nat

VARIABLES
  funds,       \* the payer's available escrow funds
  auth,        \* the payee's authorization
  payerSteps,  \* escrow steps the payer took by hand
  pc,          \* where each call stands
  job,         \* what it asks for
  seenFunds,   \* funds the gate read, kept across the second await
  gate,        \* what the gate concluded
  reply,       \* what the caller was told
  node,        \* the request at the node, and its lock
  metric,      \* mcp.escrow.preflight by result
  worse, better  \* history: the chain moved against / for a call since its read

chain == <<funds, auth>>
history == <<worse, better>>
vars == <<funds, auth, payerSteps, pc, job, seenFunds, gate, reply, node,
          metric, worse, better>>

PCs == {"idle", "locating", "quoting", "readFunds", "readAuth", "submitted",
        "answered"}
GateResults == {"none", "open", "malformed", "unread", "pass", "block"}
Replies == {"none", "blocked", "error", "started", "failed"}
NodeStates == {"none", "sent", "lost", "accepted", "held", "refused", "released"}
MetricResults == {"ready", "error"} \cup BlockReasons

-----------------------------------------------------------------------------
(***************************************************************************)
(* Prices and lock durations.                                              *)
(***************************************************************************)
\* The node's own rule, quoted in escrowPreflight.ts: d + claimDurationTimeout.
NodeMinLockSeconds(j) == j.duration + ClaimDurationTimeout

\* What the gate assumes: initializeCompute quotes the node's figure; for a
\* service the gate pads the default.
GateMinLockSeconds(j) ==
  IF j.kind = "compute" THEN NodeMinLockSeconds(j)
  ELSE serviceMinLockSeconds(j.duration)

GateRequirement(j) ==
  [amount |-> j.amount, minLockSeconds |-> GateMinLockSeconds(j),
   maxJobDuration |-> j.duration, parallelJobs |-> DEFAULT_PARALLEL_JOBS]

-----------------------------------------------------------------------------
Init ==
  /\ funds = InitialFunds
  /\ auth = InitialAuthorization
  /\ payerSteps = 0
  /\ pc = [c \in Calls |-> "idle"]
  /\ job = [c \in Calls |-> NoJob]
  /\ seenFunds = [c \in Calls |-> 0]
  /\ gate = [c \in Calls |-> "none"]
  /\ reply = [c \in Calls |-> "none"]
  /\ node = [c \in Calls |-> "none"]
  /\ metric = [r \in MetricResults |-> 0]
  /\ worse = [c \in Calls |-> FALSE]
  /\ better = [c \in Calls |-> FALSE]

Move(c, from, to) == pc[c] = from /\ pc' = [pc EXCEPT ![c] = to]

Answer(c, from, what) ==
  Move(c, from, "answered") /\ reply' = [reply EXCEPT ![c] = what]

\* The gate came to g without refusing: the call goes to the node.
Forward(c, from, g) ==
  /\ Move(c, from, "submitted")
  /\ gate' = [gate EXCEPT ![c] = g]
  /\ node' = [node EXCEPT ![c] = "sent"]

Count(r) == metric' = [metric EXCEPT ![r] = @ + 1]

\* Every change of the chain is noted for every call.
Observe ==
  /\ worse' = [c \in Calls |->
                 worse[c] \/ funds' < funds \/ ~AtLeast(auth', auth)]
  /\ better' = [c \in Calls |->
                  better[c] \/ funds' > funds \/ ~AtLeast(auth, auth')]

-----------------------------------------------------------------------------
(***************************************************************************)
(* A call up to its gate.                                                  *)
(***************************************************************************)
\* resolveAuth, parseNodeTarget or an argument check refuses the call.
RejectArguments(c) ==
  /\ Answer(c, "idle", "error")
  /\ UNCHANGED <<chain, payerSteps, job, seenFunds, gate, node, metric, history>>

\* computeStart enters its gate at once: it prices the job, or skips the gate.
BeginCompute(c, j) ==
  /\ j.kind = "compute"
  /\ job' = [job EXCEPT ![c] = j]
  /\ IF j.gated
     THEN Move(c, "idle", "quoting") /\ UNCHANGED <<gate, node>>
     ELSE Forward(c, "idle", "open")
  /\ UNCHANGED <<chain, payerSteps, seenFunds, reply, metric, history>>

\* serviceStart fetches the environment first, serviceExtend the stored job
\* and its environment.
BeginService(c, j) ==
  /\ j.kind # "compute"
  /\ job' = [job EXCEPT ![c] = j]
  /\ Move(c, "idle", "locating")
  /\ UNCHANGED <<chain, payerSteps, seenFunds, gate, reply, node, metric, history>>

Locate(c) ==
  /\ pc[c] = "locating"
  /\ IF job[c].gated
     THEN Move(c, "locating", "quoting") /\ UNCHANGED <<gate, node>>
     ELSE Forward(c, "locating", "open")
  /\ UNCHANGED <<chain, payerSteps, job, seenFunds, reply, metric, history>>

\* serviceStart cannot go on without an environment that fits; serviceExtend
\* lets the node decide.
LocateFails(c) ==
  /\ pc[c] = "locating"
  /\ \/ /\ job[c].kind = "service"
        /\ Answer(c, "locating", "error")
        /\ UNCHANGED <<gate, node>>
     \/ /\ job[c].kind = "extend"
        /\ Forward(c, "locating", "open")
        /\ UNCHANGED reply
  /\ UNCHANGED <<chain, payerSteps, job, seenFunds, metric, history>>

-----------------------------------------------------------------------------
(***************************************************************************)
(* The gate: quote, read the funds, read the authorization, conclude.      *)
(***************************************************************************)
\* No payment to check: the quote failed, the job is free, the token has no
\* fee schedule, or the node names no escrow.  Best effort: go on.
QuoteIsNone(c) ==
  /\ Forward(c, "quoting", "open")
  /\ UNCHANGED <<chain, payerSteps, job, seenFunds, reply, metric, history>>

\* runEscrowPreflight throws before its try block: an address of the payment
\* does not parse, or the chain has no provider.  Nothing is counted.
QuoteIsMalformed(c) ==
  /\ Forward(c, "quoting", "malformed")
  /\ UNCHANGED <<chain, payerSteps, job, seenFunds, reply, metric, history>>

Quote(c) ==
  /\ Move(c, "quoting", "readFunds")
  /\ UNCHANGED <<chain, payerSteps, job, seenFunds, gate, reply, node, metric,
                 history>>

\* Faulty variant: the locked amount is taken off the available funds again.
ReadFundsLessLocked(c) ==
  /\ Move(c, "readFunds", "readAuth")
  /\ seenFunds' = [seenFunds EXCEPT ![c] = funds - auth.currentLockedAmount]
  /\ worse' = [worse EXCEPT ![c] = FALSE]
  /\ better' = [better EXCEPT ![c] = FALSE]
  /\ UNCHANGED <<chain, payerSteps, job, gate, reply, node, metric>>

\* getUserFunds answers; the call starts watching the chain.
ReadFunds(c) ==
  /\ Move(c, "readFunds", "readAuth")
  /\ seenFunds' = [seenFunds EXCEPT ![c] = funds]
  /\ worse' = [worse EXCEPT ![c] = FALSE]
  /\ better' = [better EXCEPT ![c] = FALSE]
  /\ UNCHANGED <<chain, payerSteps, job, gate, reply, node, metric>>

\* Faulty variant: the failure is swallowed without being counted.
ReadFailsUncounted(c) ==
  /\ \/ Forward(c, "readFunds", "unread")
     \/ Forward(c, "readAuth", "unread")
  /\ UNCHANGED <<chain, payerSteps, job, seenFunds, reply, metric, history>>

\* Either read fails: counted as an error, and the gate lets the call go on.
ReadFails(c) ==
  /\ \/ Forward(c, "readFunds", "unread")
     \/ Forward(c, "readAuth", "unread")
  /\ Count("error")
  /\ UNCHANGED <<chain, payerSteps, job, seenFunds, reply, history>>

\* BigInt() refuses an amount, a lock time or a duration that is no integer,
\* after both reads and outside the try block.
EvaluationThrows(c) ==
  /\ Forward(c, "readAuth", "malformed")
  /\ UNCHANGED <<chain, payerSteps, job, seenFunds, reply, metric, history>>

\* Faulty variant: the refusal is reported but the call goes on to the node.
ReadAuthorizationGoesOn(c) ==
  LET req == GateRequirement(job[c])
      passes == canStartThisJob(req, seenFunds[c], auth)
  IN /\ Forward(c, "readAuth", IF passes THEN "pass" ELSE "block")
     /\ reply' = [reply EXCEPT ![c] = IF passes THEN "none" ELSE "blocked"]
     /\ Count(IF passes THEN "ready" ELSE reason(req, seenFunds[c], auth))
     /\ UNCHANGED <<chain, payerSteps, job, seenFunds, history>>

\* getAuthorizations answers, and the verdict is drawn, counted and acted on
\* in the same turn: the funds are those of the earlier read.
ReadAuthorization(c) ==
  LET req == GateRequirement(job[c])
  IN /\ pc[c] = "readAuth"
     /\ \/ /\ canStartThisJob(req, seenFunds[c], auth)
           /\ Forward(c, "readAuth", "pass")
           /\ Count("ready")
           /\ UNCHANGED reply
        \/ /\ ~canStartThisJob(req, seenFunds[c], auth)
           /\ Answer(c, "readAuth", "blocked")
           /\ gate' = [gate EXCEPT ![c] = "block"]
           /\ Count(reason(req, seenFunds[c], auth))
           /\ UNCHANGED node
     /\ UNCHANGED <<chain, payerSteps, job, seenFunds, history>>

-----------------------------------------------------------------------------
(***************************************************************************)
(* The node, as the calls meet it (external), and what the caller learns.  *)
(***************************************************************************)
NodeMoves(c, to) == node' = [node EXCEPT ![c] = to]

\* The request never reaches the node.
LoseRequest(c) ==
  /\ node[c] = "sent" /\ NodeMoves(c, "lost")
  /\ UNCHANGED <<chain, payerSteps, pc, job, seenFunds, gate, reply, metric, history>>

\* SERVICE_START returns a serviceId at once and locks in the background.
AcceptService(c) ==
  /\ node[c] = "sent" /\ job[c].kind = "service" /\ NodeMoves(c, "accepted")
  /\ UNCHANGED <<chain, payerSteps, pc, job, seenFunds, gate, reply, metric, history>>

\* The node calls createLock: also long after the caller gave up.
AboutToLock(c) ==
  node[c] = "accepted" \/ (node[c] = "sent" /\ job[c].kind # "service")

EscrowAccepts(j) ==
  LockAccepted(funds, auth, j.amount, NodeMinLockSeconds(j))

CreateLock(c) ==
  /\ AboutToLock(c)
  /\ EscrowAccepts(job[c])
  /\ NodeMoves(c, "held")
  /\ funds' = funds - job[c].amount
  /\ auth' = WithLock(auth, job[c].amount)
  /\ Observe
  /\ UNCHANGED <<payerSteps, pc, job, seenFunds, gate, reply, metric>>

CreateLockReverts(c) ==
  /\ AboutToLock(c)
  /\ ~EscrowAccepts(job[c])
  /\ NodeMoves(c, "refused")
  /\ UNCHANGED <<chain, payerSteps, pc, job, seenFunds, gate, reply, metric, history>>

\* The lock ends: claimed in full, or returned to the payer.
ReleaseLock(c) ==
  /\ node[c] = "held" /\ NodeMoves(c, "released")
  /\ funds' \in {funds, funds + job[c].amount}
  /\ auth' = WithoutLock(auth, job[c].amount)
  /\ Observe
  /\ UNCHANGED <<payerSteps, pc, job, seenFunds, gate, reply, metric>>

\* The node's answer: a service is reported started before its lock exists.
NodeAnswer(c) ==
  IF node[c] = "refused" /\ job[c].kind # "service" THEN "failed" ELSE "started"

ReceiveAnswer(c) ==
  /\ node[c] \in {"accepted", "held", "released", "refused"}
  /\ Answer(c, "submitted", NodeAnswer(c))
  /\ UNCHANGED <<chain, payerSteps, job, seenFunds, gate, node, metric, history>>

\* Faulty variant: no timeout, the call fails only if the dial does.
CallFailsOnDialOnly(c) ==
  /\ node[c] = "lost"
  /\ Answer(c, "submitted", "error")
  /\ UNCHANGED <<chain, payerSteps, job, seenFunds, gate, node, metric, history>>

\* The call's AbortSignal fires, or the dial fails.  The node is not told.
CallFails(c) ==
  /\ Answer(c, "submitted", "error")
  /\ UNCHANGED <<chain, payerSteps, job, seenFunds, gate, node, metric, history>>

-----------------------------------------------------------------------------
(***************************************************************************)
(* The payer, from the dashboard or with escrow_deposit, escrow_withdraw   *)
(* and escrow_authorize (external).                                        *)
(***************************************************************************)
PayerActs ==
  /\ payerSteps < MaxPayerSteps
  /\ payerSteps' = payerSteps + 1
  /\ UNCHANGED <<pc, job, seenFunds, gate, reply, node, metric>>

Deposit ==
  /\ PayerActs
  /\ funds < MaxFunds
  /\ funds' = funds + 1 /\ UNCHANGED auth
  /\ Observe

Withdraw ==
  /\ PayerActs
  /\ funds > 0
  /\ funds' = funds - 1 /\ UNCHANGED auth
  /\ Observe

Authorize(limits) ==
  /\ PayerActs
  /\ auth' = Reauthorized(auth, limits) /\ UNCHANGED funds
  /\ Observe

-----------------------------------------------------------------------------
CallStep(c) ==
  \/ RejectArguments(c)
  \/ \E j \in Jobs : BeginCompute(c, j) \/ BeginService(c, j)
  \/ Locate(c) \/ LocateFails(c)
  \/ QuoteIsNone(c) \/ QuoteIsMalformed(c) \/ Quote(c)
  \/ ReadFunds(c) \/ ReadFails(c) \/ EvaluationThrows(c) \/ ReadAuthorization(c)
  \/ ReceiveAnswer(c) \/ CallFails(c)

NodeStep(c) ==
  \/ LoseRequest(c) \/ AcceptService(c)
  \/ CreateLock(c) \/ CreateLockReverts(c) \/ ReleaseLock(c)

PayerStep == Deposit \/ Withdraw \/ \E limits \in PayerLimits : Authorize(limits)

Next == (\E c \in Calls : CallStep(c) \/ NodeStep(c)) \/ PayerStep

\* Once begun, a call is carried forward: every await in it ends, the P2P
\* commands by AbortSignal.timeout and the chain reads by the provider's own
\* request timeout.  Nothing obliges the node, the payer, or a caller to begin.
Progress(c) ==
  \/ Locate(c) \/ LocateFails(c)
  \/ QuoteIsNone(c) \/ QuoteIsMalformed(c) \/ Quote(c)
  \/ ReadFunds(c) \/ ReadFails(c) \/ EvaluationThrows(c) \/ ReadAuthorization(c)
  \/ ReceiveAnswer(c) \/ CallFails(c)

Spec == Init /\ [][Next]_vars
FairSpec == Spec /\ \A c \in Calls : WF_vars(Progress(c))

-----------------------------------------------------------------------------
(***************************************************************************)
(* Properties.                                                             *)
(***************************************************************************)
\* Every variable holds a value of its kind; history and metric included.
TypeOK ==
  /\ funds \in Nat
  /\ auth \in [exists : BOOLEAN, maxLockedAmount : Nat, currentLockedAmount : Int,
              maxLockSeconds : Nat, maxLockCounts : Nat, currentLocks : Int]
  /\ payerSteps \in 0..MaxPayerSteps
  /\ pc \in [Calls -> PCs]
  /\ job \in [Calls -> Jobs \cup {NoJob}]
  /\ seenFunds \in [Calls -> Nat]
  /\ gate \in [Calls -> GateResults]
  /\ reply \in [Calls -> Replies]
  /\ node \in [Calls -> NodeStates]
  /\ metric \in [MetricResults -> Nat]
  /\ worse \in [Calls -> BOOLEAN] /\ better \in [Calls -> BOOLEAN]

PaddingCovers(j) == NodeMinLockSeconds(j) <= GateMinLockSeconds(j)

\* The gate is sound: a job it let through (canStartThisJob mirrors createLock)
\* is refused by the escrow only if funds or authorization went down after the
\* gate read the funds, or the node raised claimDurationTimeout beyond the
\* padding of serviceMinLockSeconds.
PassedStartLocks ==
  \A c \in Calls :
    gate[c] = "pass" /\ node[c] = "refused" => worse[c] \/ ~PaddingCovers(job[c])

\* The gate never blocks what the node would have locked: as long as nothing
\* improved since the gate read the funds, the escrow still refuses the job of a
\* blocked call, wherever the gate asks for no longer a lock than the node.
BlockedIsJustified ==
  \A c \in Calls :
    /\ gate[c] = "block" /\ ~better[c]
    /\ GateMinLockSeconds(job[c]) <= NodeMinLockSeconds(job[c])
    => ~EscrowAccepts(job[c])

CallsWith(f, values) == Cardinality({c \in Calls : f[c] \in values})

\* mcp.escrow.preflight is an account of the gates' verdicts: as many blocked
\* results as callers that were refused, as many ready ones as passed, an error for
\* each read that failed and let the call go on, and none for a gate that had a
\* verdict or no payment.  Payments that do not parse may be counted or not: the
\* comment on recordPreflightError (escrowMetrics.ts:51-58) counts them as errors,
\* the code throws before it gets there.
CountsAreVerdicts ==
  /\ metric["ready"] = CallsWith(gate, {"pass"})
  /\ metric["error"] >= CallsWith(gate, {"unread"})
  /\ metric["error"] <= CallsWith(gate, {"unread", "malformed"})
  /\ metric["insufficient_funds"] + metric["missing_authorization"]
       + metric["authorization_limits"] = CallsWith(reply, {"blocked"})

\* Every call that began is answered, whatever the node does with its request.
EveryCallIsAnswered ==
  \A c \in Calls : pc[c] # "idle" ~> pc[c] = "answered"

-----------------------------------------------------------------------------
(***************************************************************************)
(* What the calls promise: PaidCalls, with the gate, its reads and its     *)
(* counters hidden.                                                        *)
(***************************************************************************)
\* An error that escapes before the request was sent is a refusal; after it,
\* the caller cannot know.
ToldCaller(c) ==
  IF reply[c] = "blocked" \/ (reply[c] = "error" /\ gate[c] = "none")
  THEN "refused"
  ELSE IF reply[c] = "error" THEN "unsure" ELSE reply[c]

LockOf(c) ==
  IF node[c] \in {"sent", "accepted"} THEN "possible"
  ELSE IF node[c] \in {"lost", "refused"} THEN "off" ELSE node[c]

OrderOf(c) ==
  IF node[c] = "none" THEN NoJob
  ELSE [price |-> job[c].amount, background |-> job[c].kind = "service"]

Promise == INSTANCE PaidCalls
  WITH available <- funds, locked <- auth.currentLockedAmount, NoOrder <- NoJob,
       order <- [c \in Calls |-> OrderOf(c)],
       told <- [c \in Calls |-> ToldCaller(c)],
       lock <- [c \in Calls |-> LockOf(c)]

\* The handlers of computeStart, serviceStart and serviceExtend keep the
\* promise: a caller told escrow_preflight_failed, or refused before the gate,
\* has not spent anything, then or later; a job locks once, at its own price,
\* also after the caller timed out; "failed" is said of dead jobs only, so that
\* retrying it cannot pay twice.
KeepsPromise == Promise!Spec
=============================================================================
