--------------------------- MODULE EscrowAutoFix ----------------------------
(***************************************************************************)
(* Calls of the escrow_preflight tool for one payer and one node           *)
(* (tools/escrowPreflight.ts): a preflight, an auto-fix that deposits the  *)
(* shortfall and creates a missing authorization with the payer's own key, *)
(* and a second preflight that reports whether the fix took.  Between any  *)
(* two awaits of a call, other calls and the rest of the world move the    *)
(* same escrow, and a transaction may be mined although its sender never   *)
(* learns of it.                                                           *)
(***************************************************************************)
EXTENDS EscrowReadiness, FiniteSets

CONSTANTS
  Calls,                 \* tool calls
  Asks,                  \* what a call may be asked
  NoAsk,                 \* a call without usable arguments
  InitialFunds,          \* available escrow funds at the start
  InitialAuthorization,  \* the payee's authorization at the start
  InitialPurse,          \* the payer's tokens outside the escrow
  PayerLimits,           \* authorizations the payer may set by hand
  LockSize,              \* the amount each other job locks
  MaxWorldSteps          \* bound: escrow steps taken by anyone else

\* fix: a privateKey came with the call and autoFix is not false.
ASSUME EscrowAutoFixAssumption ==
  /\ IsFiniteSet(Calls)
  /\ Asks \subseteq [req : Requirement, fix : BOOLEAN]
  /\ NoAsk \notin Asks
  /\ InitialFunds \in Nat /\ InitialPurse \in Nat
  /\ InitialAuthorization \in Authorization
  /\ ~InitialAuthorization.exists => InitialAuthorization = NoAuthorization
  /\ PayerLimits \subseteq Limits
  /\ LockSize \in Nat \ {0}
  /\ MaxWorldSteps \in Nat

VARIABLES
  funds,       \* the payer's available escrow funds
  auth,        \* the payee's authorization
  purse,       \* the payer's tokens outside the escrow
  worldSteps,  \* escrow steps taken by anyone else
  pc,          \* where each call stands
  ask,         \* what it was asked
  seenFunds,   \* result.current.funds
  seenAuth,    \* result.current.authorization
  actions,     \* what auto-fix did so far
  fixed,       \* auto-fix came to its end and was recorded
  reply,       \* what the caller was told
  preflights,  \* mcp.escrow.preflight by caller, results added up
  fixes,       \* mcp.escrow.autofix by outcome
  mined,       \* history: auto-fix transactions mined, by kind
  worse, better  \* history: the chain moved against / for a call since its read

chain == <<funds, auth, purse>>
history == <<worse, better>>
vars == <<funds, auth, purse, worldSteps, pc, ask, seenFunds, seenAuth,
          actions, fixed, reply, preflights, fixes, mined, worse, better>>

PCs == {"idle", "readFunds", "readAuth", "decimals", "depositing",
        "authorizing", "recheckFunds", "recheckAuth", "answered"}
Replies == {"none", "error", "ready", "notReady"}
Outcomes == {"deposit", "authorize", "noop"}
AuthSeen == {"unseen", "absent", "present"}

-----------------------------------------------------------------------------
Init ==
  /\ funds = InitialFunds
  /\ auth = InitialAuthorization
  /\ purse = InitialPurse
  /\ worldSteps = 0
  /\ pc = [c \in Calls |-> "idle"]
  /\ ask = [c \in Calls |-> NoAsk]
  /\ seenFunds = [c \in Calls |-> 0]
  /\ seenAuth = [c \in Calls |-> "unseen"]
  /\ actions = [c \in Calls |-> {}]
  /\ fixed = [c \in Calls |-> FALSE]
  /\ reply = [c \in Calls |-> "none"]
  /\ preflights = [p \in {"tool", "tool_recheck"} |-> 0]
  /\ fixes = [o \in Outcomes |-> 0]
  /\ mined = [t \in {"deposit", "authorize"} |-> 0]
  /\ worse = [c \in Calls |-> FALSE]
  /\ better = [c \in Calls |-> FALSE]

Move(c, from, to) == pc[c] = from /\ pc' = [pc EXCEPT ![c] = to]

Answer(c, from, what) ==
  Move(c, from, "answered") /\ reply' = [reply EXCEPT ![c] = what]

Observe ==
  /\ worse' = [c \in Calls |->
                 worse[c] \/ funds' < funds \/ ~AtLeast(auth', auth)]
  /\ better' = [c \in Calls |->
                  better[c] \/ funds' > funds \/ ~AtLeast(auth, auth')]

Req(c) == ask[c].req
Target(c) == requiredMaxLockedAmount(Req(c))

-----------------------------------------------------------------------------
(***************************************************************************)
(* A preflight: two reads, then a verdict counted under its caller.        *)
(***************************************************************************)
Begin(c, a) ==
  /\ Move(c, "idle", "readFunds")
  /\ ask' = [ask EXCEPT ![c] = a]
  /\ UNCHANGED <<chain, worldSteps, seenFunds, seenAuth, actions, fixed, reply,
                 preflights, fixes, mined, history>>

\* No identity, or an address that does not parse: nothing is counted.
RejectArguments(c) ==
  /\ Answer(c, "idle", "error")
  /\ UNCHANGED <<chain, worldSteps, ask, seenFunds, seenAuth, actions, fixed,
                 preflights, fixes, mined, history>>

CallerOf(c) ==
  IF pc[c] \in {"readFunds", "readAuth"} THEN "tool" ELSE "tool_recheck"

CountPreflight(c) == preflights' = [preflights EXCEPT ![CallerOf(c)] = @ + 1]

\* The first read of a call is where it starts watching the chain.
ReadFunds(c) ==
  /\ \/ Move(c, "readFunds", "readAuth")
        /\ worse' = [worse EXCEPT ![c] = FALSE]
        /\ better' = [better EXCEPT ![c] = FALSE]
     \/ Move(c, "recheckFunds", "recheckAuth") /\ UNCHANGED history
  /\ seenFunds' = [seenFunds EXCEPT ![c] = funds]
  /\ UNCHANGED <<chain, worldSteps, ask, seenAuth, actions, fixed, reply,
                 preflights, fixes, mined>>

ReadFails(c) ==
  /\ \E from \in {"readFunds", "readAuth", "recheckFunds", "recheckAuth"} :
       Answer(c, from, "error")
  /\ CountPreflight(c)
  /\ UNCHANGED <<chain, worldSteps, ask, seenFunds, seenAuth, actions, fixed,
                 fixes, mined, history>>

\* Faulty variant: the lock slots in use are not looked at.
VerdictIgnoresSlots(c) ==
  ready(Req(c), seenFunds[c], [auth EXCEPT !.currentLocks = 0])

\* The verdict of the funds read before and the authorization read now.
VerdictIsReady(c) == ready(Req(c), seenFunds[c], auth)
Verdict(c) == IF VerdictIsReady(c) THEN "ready" ELSE "notReady"

\* First preflight: answer at once unless there is something to fix and a key.
Check(c) ==
  /\ pc[c] = "readAuth"
  /\ CountPreflight(c)
  /\ seenAuth' = [seenAuth EXCEPT ![c] =
                    IF auth.exists THEN "present" ELSE "absent"]
  /\ \/ /\ VerdictIsReady(c) \/ ~ask[c].fix
        /\ Answer(c, "readAuth", Verdict(c))
     \/ /\ ~VerdictIsReady(c) /\ ask[c].fix
        /\ Move(c, "readAuth", "decimals")
        /\ UNCHANGED reply
  /\ UNCHANGED <<chain, worldSteps, ask, seenFunds, actions, fixed, fixes, mined,
                 history>>

Recheck(c) ==
  /\ Answer(c, "recheckAuth", Verdict(c))
  /\ CountPreflight(c)
  /\ UNCHANGED <<chain, worldSteps, ask, seenFunds, seenAuth, actions, fixed,
                 fixes, mined, history>>

-----------------------------------------------------------------------------
(***************************************************************************)
(* Auto-fix: deposit if the funds read were short, then authorize if no    *)
(* authorization was seen; an authorization that exists cannot be raised.  *)
(***************************************************************************)
\* Faulty variant: a fix that ends without an authorization reports one.
RecordEveryAuthorize(done) ==
  fixes' = [o \in Outcomes |->
              fixes[o] + (IF o \in done \/ (o = "authorize" /\ "noop" \in done)
                          THEN 1 ELSE 0)]

\* recordAutoFix: an action without a transaction is a noop.
RecordAutoFix(done) ==
  fixes' = [o \in Outcomes |-> fixes[o] + (IF o \in done THEN 1 ELSE 0)]

Finish(c, from, done) ==
  /\ Move(c, from, "recheckFunds")
  /\ actions' = [actions EXCEPT ![c] = done]
  /\ fixed' = [fixed EXCEPT ![c] = TRUE]
  /\ RecordAutoFix(done)

AfterDeposit(c, from, done) ==
  IF seenAuth[c] # "absent"
  THEN Finish(c, from, done \cup {"noop"})
  ELSE /\ Move(c, from, "authorizing")
       /\ actions' = [actions EXCEPT ![c] = done]
       /\ UNCHANGED <<fixed, fixes>>

ReadDecimals(c) ==
  /\ pc[c] = "decimals"
  /\ IF seenFunds[c] < Target(c)
     THEN Move(c, "decimals", "depositing") /\ UNCHANGED <<actions, fixed, fixes>>
     ELSE AfterDeposit(c, "decimals", {})
  /\ UNCHANGED <<chain, worldSteps, ask, seenFunds, seenAuth, reply, preflights,
                 mined, history>>

Mine(kind) == mined' = [mined EXCEPT ![kind] = @ + 1]

\* Faulty variants: the whole target is deposited; the payer's tokens are not
\* required to cover the deposit.
DepositWholeTarget(c) ==
  /\ Target(c) <= purse
  /\ funds' = funds + Target(c)
  /\ purse' = purse - Target(c)
  /\ Mine("deposit")
  /\ UNCHANGED auth
  /\ Observe

DepositBeyondPurse(c) ==
  LET missing == Target(c) - seenFunds[c]
  IN /\ funds' = funds + missing
     /\ purse' = purse - missing
     /\ Mine("deposit")
     /\ UNCHANGED auth
     /\ Observe

\* The deposit of what was missing when the funds were read.
DepositTx(c) ==
  LET missing == Target(c) - seenFunds[c]
  IN /\ missing <= purse
     /\ funds' = funds + missing
     /\ purse' = purse - missing
     /\ Mine("deposit")
     /\ UNCHANGED auth
     /\ Observe

Deposit(c) ==
  /\ pc[c] = "depositing"
  /\ DepositTx(c)
  /\ AfterDeposit(c, "depositing", {"deposit"})
  /\ UNCHANGED <<worldSteps, ask, seenFunds, seenAuth, reply, preflights>>

\* Mined, but the wait for the receipt fails: the caller hears of an error.
DepositUnconfirmed(c) ==
  /\ Answer(c, "depositing", "error")
  /\ DepositTx(c)
  /\ UNCHANGED <<worldSteps, ask, seenFunds, seenAuth, actions, fixed,
                 preflights, fixes>>

\* Faulty variant: authorized for one lock, whatever parallelJobs asked for.
AuthorizeOneLock(c) ==
  /\ ~auth.exists
  /\ auth' = Reauthorized(auth, [Targets(Req(c)) EXCEPT !.maxLockCounts = 1])
  /\ Mine("authorize")
  /\ UNCHANGED <<funds, purse>>
  /\ Observe

\* ocean.js authorize() sends nothing when an authorization exists by now; it
\* returns no receipt, and the action is recorded without a transaction.
AuthorizeTx(c) ==
  /\ ~auth.exists
  /\ auth' = Reauthorized(auth, Targets(Req(c)))
  /\ Mine("authorize")
  /\ UNCHANGED <<funds, purse>>
  /\ Observe

Authorize(c) ==
  /\ pc[c] = "authorizing"
  /\ \/ AuthorizeTx(c) /\ Finish(c, "authorizing", actions[c] \cup {"authorize"})
     \/ /\ auth.exists
        /\ Finish(c, "authorizing", actions[c] \cup {"noop"})
        /\ UNCHANGED <<chain, mined, history>>
  /\ UNCHANGED <<worldSteps, ask, seenFunds, seenAuth, reply, preflights>>

AuthorizeUnconfirmed(c) ==
  /\ Answer(c, "authorizing", "error")
  /\ AuthorizeTx(c)
  /\ UNCHANGED <<worldSteps, ask, seenFunds, seenAuth, actions, fixed,
                 preflights, fixes>>

\* A read, a signature or a transaction is refused; nothing of it is on chain,
\* and what auto-fix did before it is not recorded.
FixFails(c) ==
  /\ \E from \in {"decimals", "depositing", "authorizing"} : Answer(c, from, "error")
  /\ UNCHANGED <<chain, worldSteps, ask, seenFunds, seenAuth, actions, fixed,
                 preflights, fixes, mined, history>>

-----------------------------------------------------------------------------
(***************************************************************************)
(* Everyone else: the payee's locks and the payer by hand (external).      *)
(***************************************************************************)
WorldActs ==
  /\ worldSteps < MaxWorldSteps
  /\ worldSteps' = worldSteps + 1
  /\ UNCHANGED <<pc, ask, seenFunds, seenAuth, actions, fixed, reply,
                 preflights, fixes, mined>>

LockElsewhere ==
  /\ WorldActs
  /\ LockAccepted(funds, auth, LockSize, 0)
  /\ funds' = funds - LockSize
  /\ auth' = WithLock(auth, LockSize)
  /\ UNCHANGED purse
  /\ Observe

ReleaseElsewhere ==
  /\ WorldActs
  /\ auth.currentLocks > 0
  /\ funds' \in {funds, funds + LockSize}
  /\ auth' = WithoutLock(auth, LockSize)
  /\ UNCHANGED purse
  /\ Observe

PayerMoves(amount) ==
  /\ WorldActs
  /\ funds + amount >= 0 /\ purse - amount >= 0
  /\ funds' = funds + amount /\ purse' = purse - amount
  /\ UNCHANGED auth
  /\ Observe

PayerAuthorizes(limits) ==
  /\ WorldActs
  /\ auth' = Reauthorized(auth, limits)
  /\ UNCHANGED <<funds, purse>>
  /\ Observe

-----------------------------------------------------------------------------
CallStep(c) ==
  \/ RejectArguments(c) \/ \E a \in Asks : Begin(c, a)
  \/ ReadFunds(c) \/ ReadFails(c) \/ Check(c) \/ Recheck(c)
  \/ ReadDecimals(c) \/ FixFails(c)
  \/ Deposit(c) \/ DepositUnconfirmed(c)
  \/ Authorize(c) \/ AuthorizeUnconfirmed(c)

WorldStep ==
  \/ LockElsewhere \/ ReleaseElsewhere
  \/ \E amount \in {-1, 1} : PayerMoves(amount)
  \/ \E limits \in PayerLimits : PayerAuthorizes(limits)

Next == (\E c \in Calls : CallStep(c)) \/ WorldStep

Spec == Init /\ [][Next]_vars

-----------------------------------------------------------------------------
(***************************************************************************)
(* Properties.                                                             *)
(***************************************************************************)
\* Every variable holds a value of its kind.
TypeOK ==
  /\ funds \in Nat /\ purse \in Nat
  /\ auth \in [exists : BOOLEAN, maxLockedAmount : Nat, currentLockedAmount : Int,
              maxLockSeconds : Nat, maxLockCounts : Nat, currentLocks : Int]
  /\ worldSteps \in 0..MaxWorldSteps
  /\ pc \in [Calls -> PCs]
  /\ ask \in [Calls -> Asks \cup {NoAsk}]
  /\ seenFunds \in [Calls -> Nat] /\ seenAuth \in [Calls -> AuthSeen]
  /\ actions \in [Calls -> SUBSET Outcomes]
  /\ fixed \in [Calls -> BOOLEAN]
  /\ reply \in [Calls -> Replies]
  /\ preflights \in [{"tool", "tool_recheck"} -> Nat]
  /\ fixes \in [Outcomes -> Nat]
  /\ mined \in [{"deposit", "authorize"} -> Nat]
  /\ worse \in [Calls -> BOOLEAN] /\ better \in [Calls -> BOOLEAN]

\* The fix takes: a call whose own authorize() was mined reports ready, unless
\* funds or authorization went down since it first read them.
AutoFixLeavesReady ==
  \A c \in Calls :
    "authorize" \in actions[c] /\ reply[c] = "notReady" => worse[c]

\* A reported ready stays true: until something goes down, the payer has the
\* funds and the authorization recommended for the job that was asked about,
\* although the two were read at different times.
ReadyAnswerHolds ==
  \A c \in Calls :
    reply[c] = "ready" /\ ~worse[c] => ready(Req(c), funds, auth)

CallsThat(P(_)) == Cardinality({c \in Calls : P(c)})
Preflighted(c) ==
  ask[c] # NoAsk /\ pc[c] \notin {"idle", "readFunds", "readAuth"}
Rechecked(c) == fixed[c] /\ pc[c] = "answered"

\* The counters tell the truth: the tool's preflights are its calls, once per
\* call and not twice for a call that was auto-fixed, each completed fix is
\* rechecked once, and mcp.escrow.autofix never claims a transaction that did
\* not run.
CountersTellTheTruth ==
  /\ preflights["tool"] = CallsThat(Preflighted)
  /\ preflights["tool_recheck"] = CallsThat(Rechecked)
  /\ \A what \in {"deposit", "authorize"} : fixes[what] <= mined[what]

\* The deposit is the shortfall: a call's deposit into an escrow nobody else
\* moved since it was read brings the funds to the target exactly, so a call
\* repeated after an error never pays twice.
DepositIsTheShortfall ==
  [][\A c \in Calls :
       /\ pc[c] = "depositing" /\ pc'[c] # "depositing"
       /\ mined'["deposit"] # mined["deposit"]
       /\ ~worse[c] /\ ~better[c]
       => funds < Target(c) /\ funds' = Target(c)]_vars
=============================================================================
