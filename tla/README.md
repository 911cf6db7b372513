# A TLA+ verification of on-mcp

on-mcp is a Model Context Protocol server, written in TypeScript, through which an agent uses
Ocean Protocol: it publishes and orders assets, starts paid compute jobs and services on Ocean
nodes, and manages the on-chain escrow that pays for them. The server signs nothing on its own
(except in one auto-fix path), stores nothing on disk, and runs every tool call as an
asynchronous handler; what makes it hard is that between any two `await`s of a handler the chain,
the node, the caller and the other handlers move on.

This directory holds models of the parts of the server where that matters, the TLC runs that
check them, and TLAPS proofs of what matters most. All paths below are relative to the
repository; `tools/x.ts` is short for `src/tools/x.ts`.

## 1. The system

| Component | State it keeps | Operations | Talks to |
|---|---|---|---|
| Escrow readiness, `tools/escrowPreflight.ts` (pure half) | none | `evaluateEscrowReadiness`, `serviceMinLockSeconds` | — |
| Escrow gate, `tools/p2pProviderTools.ts`, `tools/serviceTools.ts`, `tools/serviceCost.ts` | the locals of a call: payer, quote, funds read | `computeStart`, `serviceStart`, `serviceExtend` | chain (two reads), node (quote, command), metrics |
| `escrow_preflight` tool and auto-fix | the locals of a call: result, actions | preflight, deposit, authorize, recheck | chain (reads and transactions), metrics |
| HTTP sessions, `index.ts`, `telemetry/sessionTracker.ts`, `telemetry/instrumentTools.ts` | `transports`, `sessions`, counters | initialize, initialized, call, DELETE/close | MCP SDK callbacks |
| `serviceStatus`, `computeStatus`, `telemetry/inspectResult.ts` | two `PollTracker`s, counters; a call's wait | poll, wait, inspect | node |
| `getServices`, `tools/serviceTools.ts` | none: the caller keeps its mirror and the cursor | first page, page since the cursor | node |
| `order_asset`, `tools/assets.ts` | none: the caller carries `{index, txHashes}` | build a plan, serve a step, confirm a receipt | provider (fees), chain, caller |
| Service discovery and cost, `tools/serviceCost.ts`, `tools/serviceTools.ts` | none: the caller carries the figures | find environments, estimate, price, build the payment, extend | node (environments, bill), gate |
| Other service and P2P tools | none: the caller carries token, nonce and signature | about fifty handlers | node client |
| Node client, `clients/nodeClient.ts` | none; a stream's buffer | one method per protocol command | P2P provider |
| EVM registry and tools, `evm/`, `tools/escrow.ts`, `tools/accesslist.ts`, `tools/evm*.ts` | providers by chain | reads, unsigned transactions | RPC |
| Startup and shutdown, `index.ts` | `isShuttingDown`, the provider registry | main, shutdown | SDK, exporter, EVM providers |
| Users, `telemetry/userHll.ts`, `telemetry/identity.ts` | one HyperLogLog sketch per calendar window | record, estimate | session tracker, the gauge's callback |
| Docs, prompts, resources, incentives, telemetry plumbing | caches, texts | load, search, HTTP reads | files, HTTP |

How they interact: an HTTP request reaches `mcpHandler`, which finds or creates a transport; the
SDK parses it and calls the tool handler wrapped by `instrumentTools`, which records the call in
the session tracker, runs the handler and passes its answer to `inspectResult`. Handlers share
no locks. What they share is outside: the payer's escrow, the node, the caller's state; and
inside: the two Maps (`transports`, `sessions`), the poll trackers and the counters.

Hard behaviours, and what makes the component correct:

* **Gate.** The funds are read in one `await`, the authorization in the next; the node locks
  later still. Correct: it blocks only what the node would refuse, and passes only what the node
  takes, *up to what happened in between*; failures pass through but are counted; and what the
  caller is told in the end (refused, failed, started, an error) bounds what may still become of
  the payer's money, so that it knows whether it may try again.
* **Readiness.** Verdict, reason and list of shortfalls are three separate lists of comparisons.
  Correct: they agree; advice followed is enough; targets met once are enough for
  `parallelJobs` jobs again and again.
* **Auto-fix.** Two dependent transactions after stale reads; each may be refused, or mined
  without its sender knowing. Correct: never more than the shortfall is deposited on top of what
  was read, a `ready` answer is one that held, the counters claim nothing that did not run.
* **Sessions.** Notifications, calls and closes overlap, overtake each other or repeat; a cap evicts
  open sessions. Correct: bounded, and every session accounted for once.
* **Users.** Three windows roll over at different midnights, at whatever comes first of a session
  and a collection. Correct: each shows the users of its own bucket, all of them and no others.
* **The server's life.** The signal may come at any moment, also while `main()` is on its way; each
  step of startup and shutdown may fail, and requests run on through both. Correct: a signal ends
  the process, and what was recorded before it is not lost unless the flush failed.
* **Waiting for a service.** Replies are stale by the time they are used, and two calls' replies
  arrive in any order; service and job statuses share their numbers. Correct: the wait is bounded
  and its answer says why it ended; observations are of things that happened, once per sighting.
* **Following all services.** The caller pages by `updatedAt` while the node goes on, in the same
  tick too. Correct: after a page nothing the caller should know is missing or out of date.
* **Ordering an asset.** The server is stateless and the plan is rebuilt on every call. Correct:
  "complete" means ordered; nobody pays twice; no step is sent in vain.
* **Cost of a service.** What the caller is quoted, what the gate asks for and what the node bills
  are three computations over an environment that may change in between. Correct: the quote covers
  the bill or says why it may not; what passes the checks here is not refused there.
* **Talking to a node.** A signature is good for one command and one nonce, requests outlive the
  calls that sent them, bodies come in frames of the node's choosing. Correct: a call that keeps
  to the guide is not refused; it is answered; bytes arrive whole, or are said to be cut.

`PROJECT.json` lists every component with what is left out of it, and every hazard at its line.

## 2. The modules

| Module | Models | Extends |
|---|---|---|
| `EscrowContract` | the on-chain escrow as the code uses it: funds, authorization, lock, authorize (external) | |
| `EscrowReadiness` | the pure half of `escrowPreflight.ts` | `EscrowContract` |
| `Provisioning` | one payer over time: preflights, advice followed, jobs that lock and end | `EscrowReadiness` |
| `PaidCalls` | what the caller of a paid tool and its payer may rely on (abstract) | |
| `PaidStart` | several paid calls, their gates, the node and the payer; implements `PaidCalls` | `EscrowReadiness` |
| `EscrowAutoFix` | several `escrow_preflight` calls with auto-fix, and the rest of the world | `EscrowReadiness` |
| `UserWindows` | the sketches of active users by day, week and month | |
| `Sessions` | HTTP sessions, the tracker and its instruments | `UserWindows` |
| `ServerLife` | the HTTP server from `main()` to its exit | `Sessions` |
| `PollTracker` | the two poll trackers and what `inspectResult` counts | |
| `ServiceStatus` | calls of `serviceStatus` and `computeStatus`, waiting or not, and the node | `PollTracker` |
| `ServiceSync` | the incremental sync over `getServices`; or, in other behaviours, `ServiceStatus` | `ServiceStatus` |
| `OrderAsset` | `order_asset`, a caller that follows its description, and the chain | |
| `ServiceBilling` | a caller that finds, prices, provisions, starts and extends a service, and the node that bills it | |
| `NodeClient` | the client's methods by their timers, stream collection, upload frames | |
| `NodeTools` | every tool that sends requests to a node, several calls for one consumer | `NodeClient` |
| `EscrowReadinessProofs`, `ProvisioningProofs` (of `ServiceBilling` too), `PaidStartProofs` (of `PaidCalls` too), `EscrowAutoFixProofs`, `NodeToolsProofs`, `ServiceSyncProofs`, `ServerLifeProofs`, `OrderAssetProofs` | theorems | the above, `TLAPS` |
| `MC*` | constants for TLC | |

Conventions. A call is an element of `Calls` with a `pc`; one action is what the handler does
between two `await`s, and everything else may happen between two actions. Variables marked
*history* are read by properties only. Definitions marked *Faulty variant* are not used by any
specification: each is a plausible mistake in the definition that follows it, and the property
named for it in `PROJECT.json` ("mutants") fails when it takes that definition's place.

### EscrowReadiness, Provisioning

`canStartThisJob`, `ready`, `reason`, `shortfalls` and the `required…` figures are translated
comparison by comparison. `Provisioning` keeps `funds` and `auth` of one payer and payee,
the last `answer`, and how many jobs started since (`running`). `Preflight` is
`runEscrowPreflight` without concurrency (that is PaidStart's subject), `FollowInstructions` is
a payer who does what `action.instructions` says, `StartJob` and `EndJob` are the node's lock and
claim. `quiet` remembers that nothing was taken from the escrow since the answer but locks.

### PaidStart

A call goes `idle → (locating →) quoting → readFunds → readAuth → submitted → answered`.
`locating` is `serviceStart`'s and `serviceExtend`'s look-up of the environment; `quoting` is
`initializeCompute`, or `resolveCost` and `status`. `QuoteIsNone`, `QuoteIsMalformed`,
`ReadFails` and `EvaluationThrows` are the four ways in which the gate ends without a verdict
and lets the call go on; only `ReadFails` is counted by the code. The comment on
`recordPreflightError` would count a malformed address too, so `CountsAreVerdicts` leaves open
whether a payment that does not parse is counted, and promises all the rest: an error for every
failed read, none for a gate that had a verdict or no payment. `ReadAuthorization` is the
second read with the verdict, the counter and the block or the forwarding, all in one turn of
the event loop. The node (external) locks, or fails to, at any time after the request arrived,
also after the caller's timeout (`CallFails`). `worse` and `better` are history: whether the room
for a lock shrank or grew since a call read the funds.

The price a gate computes is taken to be the price the node charges (`job.amount`): the code
calls its service figure an estimate, and a node that asks more can refuse a passed job.

### PaidCalls, and what PaidStart promises

`PaidCalls` has no gate, no quote and no message. It has what a payer cares about: `available` and
`locked` money, the `order` a call sent, what its caller was `told`, and what became of the order
(`lock`: never sent, possible, off for good, held, released). A call is refused only while it sent
nothing; an order goes out once and becomes one lock of its own price at most; "failed" is said of
an order that never locks, "started" of one that did (or that locks in the background, as
services do), and an error after the order went out says nothing.

`PaidStart` implements it (`Promise == INSTANCE PaidCalls WITH …`, `KeepsPromise`): `told` is
`ToldCaller`, read off the call's `pc` and reply; `lock` is `LockOf`, read off the request at the
node and the lock on chain; `order` is `OrderOf`, the price of the call's job once it was
submitted. What happens inside the server before the request is sent is a stutter.

### EscrowAutoFix

A call goes `readFunds → readAuth → decimals → depositing → authorizing → recheckFunds →
recheckAuth → answered`, leaving early where the code does. `DepositUnconfirmed` and
`AuthorizeUnconfirmed` are transactions that are mined although the handler's await throws;
`FixFails` is one that never is. `Authorize`'s second disjunct is ocean.js's `authorize`, which
sends nothing if an authorization exists by then. `LockElsewhere`, `ReleaseElsewhere`,
`PayerMoves` and `PayerAuthorizes` are the rest of the world, bounded by `MaxWorldSteps`.

### UserWindows, Sessions, ServerLife

A sketch is the set of ids added to it together with the key of its bucket; the gauge's estimate
of its size is out of scope. `sketchFor` is the code's test of the key, made by `recordUser` (a new
session) and by `observeGauge` (a collection). Days are numbered, and `MonthOf` says where a month
ends. `seen` is history.

`Admit` is the part of `mcpHandler` up to the look-up in `transports`; the dispatch happens
later, so that `OnInitialized`, `ToolCall` and `OnClose` of a session run in any order and may
repeat. `sessions` is the tracker's Map with its insertion order, `toolCalls` and `metrics` the
count of each session and the instruments by client name. `StartSession`, `EndSession` and
`RecordToolUse` are the tracker's methods, with their tests for an id that is or is not tracked.
`evicted` is history: an evicted session leaves the gauge and enters no histogram.

`ServerLife` runs those steps (`Serve`) while `main` is `serving`. `MainAdvances` passes one await
of `main()`, `MainFails` is `main().catch`, which exits 1 whatever the shutdown is doing. `Signal`
is the first SIGINT or SIGTERM (the `isShuttingDown` flag swallows the others), `Flush` the awaited
`shutdownTelemetry()` with both its ends, `Destroy` the registry's destruction with the exit in its
`finally`. Between any two of them requests are served. `PeriodicExport` is the SDK's reader
(external). `unexported` and `owed` say whether the collector lacks something, and something from
before the signal. The process keeps nothing, so a restart is `LifeInit`: requests with an old
session id are then the `rejected` ones of `Admit`, which the model reaches by closing a session.

### PollTracker, ServiceStatus, ServiceSync

`Reply` is a response of the node: the statuses it shows are those of the moment the node sent it,
and the call goes on later. `waited` is `waitedMs`: it counts sleeps, not the time the requests take. `Answer` is the handler's return and
`inspectResult` on what it returned: for each row in the node's order, `poll` (with the eviction at
the cap) and `claim` (a milestone is counted if its id did not emit it since it entered the
tracker). An id is a service or a compute job (`kind`), each kind with its own tracker and its own
reading of the same numbers. Only a `serviceStatus` with a `serviceId` waits. `sighted` and
`been` are history.

In `ServiceSync`, `SendPage` is the node's answer (external, from `serviceListFiltersSchema`:
without a cursor the reserved ones or all, with one whatever changed at or after it) and `TakePage`
the handler's `syncCursor`, the highest `updatedAt` of the rows, with what its description tells the
caller to do with it. Several changes may share a tick of the node's clock, before and after a page.
Status calls and sync share only the node, so a behaviour does one or the other (`way`); this keeps
the product of both out of TLC's way and loses no interleaving that matters to either.

### OrderAsset

`QuoteFee` and `BuildPlan` are the two halves of a call between which fee and price may change,
`Conclude` its end. The caller of the model signs the step it is given, broadcasts it, and calls
again with the state and the hash; after a revert it asks for the step again. `Mine` and `Revert`
are the chain: ERC-20 allowances, an exchange, a dispenser and a datatoken. Market fees are zero
and the caller owns enough tokens; the service's datatoken is listed in the asset.

### ServiceBilling

`FindEnvironments`, `Quote`, `Provision`, `GatePasses` and `NodeBillsAndLocks` are the steps of one caller; the environment is read
anew in each of them (`Reconfigure` may change it once before any), as the handlers do. The three figures are kept apart: `estimateServiceCost`, the
gate's `GateAmount`, and `NodeBills`. The node (external) raises every resource to its minimum,
adds those nobody asked for, may round a fraction of a base unit either way, and may or may not
apply its minimum duration to an extension: the code's comments allow both. Amounts are integers in
parts of a base unit (`Grain`), and sums of them are exact. The conditions under which the gate is
skipped are PaidStart's.

`toRawAmount` is the code's: first `toPrecision`, to the nearest value with so many significant
figures (15 in the code, two in the run; `Precision` is ten to their power), and only then up to a
base unit. A cost with no more figures than that loses nothing, and float64 noise, which lies beyond
them, is gone. A cost with more may come out lower: 0.3333333333333333 of a token with 18 decimals is
quoted at 333333333333333000 base units, 300 short of it. `QuoteCoversBill` exempts exactly that
(`FiguresDropped`), and its proof uses only the exemption, not the rule by which a cost next to the
middle of two such values goes up or down, which noise may tip.

`AdmittedIsAccepted` says no more than the checks here can promise. A start is not refused as too
long for the maximum the environment advertises; the node's own cap,
`serviceOnDemand.maxDurationSeconds` (a day by default), is not advertised, so no check here can
know it, and the node may refuse an admitted start for it (`overCap`; `tools/serviceTools.ts:714`,
`:774-775`). An extension is checked by the node alone: what the service still has (`Remaining`)
plus what is asked for must fit both (`:1005`). Refusals for reasons that the environment does not
show, an access list or a crashed earlier extension, are not modelled. The price of an eligible
environment is there at the node if the token is spelled as the environment spells it. Its capacity
is there only if the caller named resources (without names `findServiceEnvironments` checks
none) and if the node does not raise what was sent (`NodeRaises`).

### NodeClient, NodeTools

A call goes `idle → (read →) begun → (gating →) waiting → (streaming →) answered`. `read` is a
caller that asked for its nonce and signs. `request` is where the call's request is, and moves on
at the node although the call gave up (`Take`, `Refuse` and `Expire` are independent): a timer, be
it `AbortSignal.timeout` or `withTimeout`, ends the wait and recalls nothing. Tools are listed by
name with the method they call; two tools that differ neither in authentication, in the way they
get to their request (at once, after the gate, after a look-up, by polling, minting), nor in timer
and streams are one `Kind`, so that about fifty tools become a handful of kinds. The node's nonce
check is external: it takes a nonce greater than the last one it took. Two assumptions: the abort
signal also ends a stream under way, and a frame holds at least one byte. What a request is about, and
base64 or text as the form of an answer, are left out.

## 3. The runs

All bounds are CONSTANTS named as bounds in the modules.

| Run | Bounds | Shows |
|---|---|---|
| `Provisioning_targets` | 4 requirements, 7 authorizations, funds 0–7, up to 4 jobs at once | `AnswersAgree`, `ParallelJobsCovered`, `AdviceTakes` |
| `PaidStart_gate` | 2 calls, 4 jobs (one ungated), funds ≤ 3, 1 payer step beside the locks and releases of the node; node timeout 7200 s, so that one service outgrows the padding and one does not; fairness | `PassedStartLocks`, `BlockedIsJustified`, `KeepsPromise` (refinement), `CountsAreVerdicts`, `EveryCallIsAnswered` |
| `EscrowAutoFix_two` | 2 calls, 3 asks, purse 3, 2 foreign steps | `AutoFixLeavesReady`, `ReadyAnswerHolds`, `CountersTellTheTruth`, `DepositIsTheShortfall` |
| `Sessions_cap` | 3 ids, 2 clients, cap 2, 4 requests with a session id, 31 January and 1 February 1970, so that day and month end and the week goes on; fairness | `CapHolds`, `SessionsAddUp`, `UsersOfTheWindow`, `ExitLosesNothing`, `ForgetsTheOldest`, `SignalEndsInExit` |
| `ServiceStatus_polls` | 2 calls; 2 services, or a service and a job; 1 tracked of each kind; cap 10 s, waits asked for 3 s and 15 s, poll interval 5 s; 3 ticks of the node's clock; fairness | `WaitEndsForAReason`, `ObservationsAreTrue`, `SyncMissesNothing`, `EveryCallEnds` |
| `OrderAsset_orders` | every pricing and template, fees given or fetched, 2 requotes, 1 failed call, 5 transactions; fairness | `CompleteMeansOrdered`, `PaysOnce`, `NoStepReverts`, `OrderCompletes` |
| `ServiceBilling_bills` | 10 environments that differ in one thing each (no services, no fees, other prices, a minimum, a taken resource, a floor, an advertised cap, one that is not), 30 requests, 1 change, 1 extension; ten units in a base unit and two figures, so that a cost of 104 is quoted short and one of 107 beyond | `QuoteCoversBill`, `GateAgreesWithQuote`, `AdmittedIsAccepted` |
| `NodeTools_calls` | 2 calls of any tool, bodies of 0, 2 and 3 bytes around a cap and an upload frame of 2, frames of 1 or 2, 2 polls; fairness | `SerializedSignatureIsTaken`, `BytesArriveWhole`, `EveryCallIsAnswered` |

Why these bounds are enough. Every hazard listed needs at most two calls and one or two steps
of somebody else between two awaits, and every limit in the code is compared with values just
below, at and above it: the slots of an authorization (1 and 2 against two calls), the cap of
sessions (2 against 3), the tracker's (1 against 2), a wait budget that is clamped and one that is no
multiple of the poll interval (the cap is one, as in the code: 120 s and 5 s), a body that ends at the cap and one that passes it. One payer step in `PaidStart_gate` is one withdrawal, deposit or new
authorization between any two steps of two calls; section 4 proves the run's properties on the
escrow for any number of them. TLC's symmetry is used over the calls of `EscrowAutoFix_two`, which has no liveness property;
elsewhere interchangeable ids and calls are drawn in order. `CHECK_DEADLOCK FALSE` stands in runs whose calls end;
`Provisioning_targets` checks deadlock.

Fairness. `PaidStart` and `ServiceStatus` (the handler's half of an answer included, `Returns`) assume weak fairness of a call's own steps only: every
await of a handler ends, because protocol commands carry `AbortSignal.timeout`, chain reads the
provider's request timeout, and sleeps are timers. Nothing obliges the node, the chain, the payer
or a caller that has not begun. `NodeTools` assumes the same of the handler's steps and its timer
(`Serve`); its liveness property names the methods without one (`WaitingMethods`) as exempt. `ServerLife` assumes that the shutdown's two
steps end once begun: the exporter has a timeout of its own, and destroying a provider awaits
nothing. It assumes nothing of `main()`, of the signal, of exports or of requests. `OrderAsset_orders` also assumes that the caller carries on and
that the chain mines or reverts what it is sent: without these there is no order to complete.

Runs that expect a violation check what a comment, a description or a name in the repository
says, where the code does something else:

| Run | Says | Does |
|---|---|---|
| `OrderAsset_requote` | "Call order_asset again … to continue" (`tools/assets.ts:132`) | a new fee shifts the plan under the index |
| `OrderAsset_allowance` | the fee step approves what the order pulls (`tools/assets.ts:363`) | a later approval of the same token overwrites it |
| `ServiceBilling_token` | "a re-cased copy … would pass our check and then fail at the node" is prevented (`tools/serviceCost.ts:133`) | `serviceStart` and `serviceExtend` send the token as it was typed (`tools/serviceTools.ts:815`) |
| `NodeTools_signature` | "exactly one of" token and signature is enough (`tools/p2pSchemas.ts:20`) | `serviceExtend` uses the one signature for its look-up first, which the node refuses, and skips the gate (`tools/serviceTools.ts:1044`) |

Smaller things the models show, without a run of their own: auto-fix notes that the "existing
authorization is below the recommended targets" whenever the verdict was not ready, also for a
payer short of funds only (`tools/escrowPreflight.ts:384`); the comment in `serviceStatus` calls 45
Restarting "settled enough to report", but the test below it lets 45 go on waiting
(`tools/serviceTools.ts:893`), which is why `WaitEndsForAReason` leaves open what an answer that
shows 45 should claim; a quote of more than 15 significant figures is rounded to the nearest, although
the comment on `toRawAmount` says that what does not fit is rounded up
(`tools/serviceCost.ts:209-212`, `:184`); `getComputeResult` takes a `timeout`, the "max wait" of every tool,
and does not use it (`clients/nodeClient.ts:431`); `upload_persistent_storage_file` says that the
body is sent as one chunk, and it is sent in frames of 1 MiB (`tools/p2pProviderTools.ts:1441`); a gate whose payment does not parse is
not counted at all, although `telemetry/escrowMetrics.ts:51-58` counts a malformed address as an
error (`QuoteIsMalformed`, and `EvaluationThrows` for amounts);
`findServiceEnvironments` says "eligible = advertised as service-capable AND priced AND has capacity"
(`tools/serviceTools.ts:384`), but to a caller that names no resources an environment without a free
cpu is eligible (327), although `serviceStart` will send one cpu and one ram, which is why
`AdmittedIsAccepted` asks for named resources; `serviceExtend` answers `minLockSecondsUsedByNode` with the gate's padded figure; an evicted
session that is still open starts again on a second `initialized`, so `mcp.sessions.started` is not
quite a distinct count, and a call dispatched before that notification is not recorded; a service
evicted from the poll tracker emits its milestones again (hence *per sighting*); and a wait
counts its sleeps only, so slow requests carry it past its cap in real time, and it sleeps whole
intervals, so that it may go on for less than one beyond the `waitTimeout` it was given.

## 4. The proofs

TLAPS checks the theorems of eight modules.

**EscrowReadinessProofs** — lemmas about one evaluation: it is monotone in the room the chain
leaves (`CanStartMonotone`), it implies and is implied by the contract's own test where the lock
times agree (`CanStartIsAccepted`, `AcceptedCanStart`), the targets are no lower than one job's
needs (`TargetsCoverTheJob`), and verdict, list and reason agree.

**PaidStartProofs** — for every set of calls, every set of jobs and every move of the payer:
`TypeCorrect`, `PassedStartsLock`, `BlocksAreJustified`. None of these
invariants is inductive on its own: a passed call says nothing about the chain unless the verdict
is tied to the present. `IInv` adds that a call has a job once it began, that gate, node and reply
follow its `pc` (`Phases`), what the first read bounds while the second is awaited (`ReadsBound`),
and that a verdict still holds of the present chain as long as the history variable for its
direction is unset (`PassHolds`, `BlockHolds`). The step from there to the properties is
`CanStartMonotone`: every action that moves the chain notes in `worse` and `better` which way the
room moved, and as long as it did not move against the verdict, the verdict stays true.
The only assumption is `PaidStartAssumption`: the types of the constants, and that `Calls` is finite,
which only the counters need.

The refinement: `PromiseIsKept`, `PaidStart` implements `PaidCalls`. Initial states map to an
initial state, and every action of `PaidStart` is a step of the abstract one or a stutter; one
lemma per group of actions. The steps that need `IInv` are the node's: that a lock takes the price
that was submitted, and that a call is told of an order only after it sent one. `RetriesAreSafe` follows
through it: what makes a retry safe is a step property of the abstract specification alone
(`PromiseMakesRetriesSafe`), and is carried over. Who was told "refused" or "failed" holds no lock
from that call, then or later.

The counters: `CountsAreExact`, up to payments that do not parse. Every step of a call either marks no verdict that is counted, or
marks one and reports that very one (`Reports`); a set that grows by one call has a cardinality that
is one higher (`OneMore`, in EscrowReadinessProofs).

**ProvisioningProofs** — every answer is one evaluation of some chain (`AnswersAreEvaluations`),
hence `ReadyMeansNothingMissing` and `ReasonsAreExplained`, together `AnswersAgreeAlways`; with the accounting of locks
(`LocksAccountedFor`: what is locked is at least what the running jobs hold, and exactly that when
theirs are the only locks) and the targets as an invariant of funds *plus* what is locked
(`Provisioned`), `TargetsAreEnough`, `AdviceIsEnough` and `TypeCorrect`. The assumptions are that
a node's claimDurationTimeout does not exceed the day of buffer, which the code's comment calls
"any plausible setting", and that without locks nothing is locked.

The same module proves the four properties of `ServiceBilling`: `BillingTypeCorrect`, `QuoteIsEnough`,
`GateAgrees`, `AdmittedStays`, for all environments, prices, durations, resources, and any `Grain` and
`Precision`.
`BillingInv` says what the quote, the gate and the caller know as long as the environment stays
(`changed` unset): the quote is the estimate for the environment that is there (`QuoteSaid`), the
gate saw the same one (`SeenAndSent`), the escrow backs what was quoted (`Backed`), and an extension
is asked for what is stored (`ExtendsStored`). The rest is arithmetic. A cost is a sum over a set of
resources in no particular order; `PerMinuteAdds` shows that it is a function that adds each
resource's share, and `PerMinuteSame` that resources which are free, or of which there is nothing,
change nothing. `Minutes` are monotone. Rounding to
figures may go down: `Rounding` shows that a quote for which it did not (`FiguresDropped`) covers
whatever costs no more, rounded either way. The unit of a cost's last figure is a recursive function;
that there is one (`LastFigures`) takes an induction over sets of numbers. The case that is easily overlooked is an
extension of a service without resources, for which the quote fills in defaults and the gate does
not: the gate then asks for nothing.

**NodeToolsProofs** — `SerializedSignaturesAreTaken`, for every set of calls and bodies and any
tools. The property speaks of a refusal that has happened; the invariant `SInv` says of every
signature that may still be refused (`Fresh`: read, made, or under way) that the nonce at the node
is not past it unless another went first (`InTime`), and that a request is on its way only from
where a call sends one (`Unsent`). Minting is covered too: ocean.js fetches the nonce itself.
`BytesArrive` and `NodeToolsTypeCorrect` come from `BInv`: a collection holds what was sent of the
body so far, or its first `maxBytes` and the knowledge that there was more (`Drained`); an upload is
at the node whole or not at all (`Uploaded`); and where a call stands bounds how often it sent.
`FramesAreWhole` is the fact about `chunkedUint8` they need: its frames, joined, are the file.

**EscrowAutoFixProofs** — for any number of overlapping calls and any steps of the rest of the world:
`TypeCorrect`, `ReadyAnswersHold`, `FixesTake`, `DepositsAreShortfalls`, `CountersAreTrue`. The argument
is the gate's, twice over. What was read before an await bounds what is there after it, as far as
`worse` and `better` say that nothing moved (`FundsBound`), and a verdict outlives its reads
(`VerdictHolds`). Readiness is monotone in funds and room only if a step moves the limits of an
authorization or its locks, never both (`ReadyMonotone`, `OneWay`), because the targets are about
limits. A fix creates an authorization where none was, which therefore holds no lock
(`NothingUnauthorized`): this is why authorizing exactly the targets is enough. The counters need to
know of deposits that were mined and are still to be recorded by a call under way (`Unrecorded`).

**ServiceSyncProofs** — `NothingIsMissed` for any services, clock and lifecycle that forgets no
service. The invariant `SyncInv` says what the property does not: a service whose row the caller
does not have as it is now changed at or after the cursor, or is not reserved and was never
shown, and a page under way is that of the last snapshot. The highest `updatedAt` is
a relation here (`syncCursor`), so no existence of a maximum has to be proved. `WaitsEndForAReason`,
for any number of calls, budgets and intervals and any cap of whole intervals, from `WaitInv`: the
types, that a call sleeps only while its budget lasts, and that it has slept whole intervals, so that a
sleep begun below the cap ends within it (`SleepFits`).

`ObservedIsTrue`, for any cap of the trackers, answers of any length and statuses in any order.
`inspectResult` folds over the rows of an answer; `RowByRow` shows that whatever each row keeps the
answer keeps. `PollInv` is what a row keeps: a milestone that is not yet claimed leaves room for one
more count within the sightings (`Unclaimed`), a key that is not in its tracker has claimed
nothing, and what is counted happened. `SeenInv` ties a reply to the past: it shows a status its id
has been in, however late it is read. `FollowTypeCorrect` adds the clocks (`ClockTypes`); that a tracker
never exceeds its cap is part of it.

**ServerLifeProofs** — for any number of sessions, clients and users, any cap and any calendar
whose months do not go back. `CapIsKept`, `OldestMakesRoom` and `MetricsAddUp` come from
`TrackInv`: the Map holds a key once, whatever is tracked or admitted has a client name, and the books of
every client are `Balanced`. The work is in the lemmas about a Map with one key more or less and
the cardinalities they change. `WindowsAreRight` comes from `SketchInv`: the key of a sketch is not
before any bucket somebody was seen in, and not after today's, so that a sketch can be carried on or
begun anew but never mixed. `NothingIsLost` comes from `ExitInv`: nothing is tracked before `main`
serves, which is why exit 1 takes no session with it, and what is owed at exit 0 is there only
after a flush that failed. `LifeTypeCorrect`: the gauge of active sessions is never negative, since it
is the number of sessions that are tracked.

**OrderAssetProofs** — `CompleteIsOrdered`, `PaidOnce`, `NothingReverts` and `TypeCorrect`, for every
pricing, template, fee and price, and any number of calls, reverts and requotes. The server rebuilds
its plan on every call, so the invariant `OInv` is about plans that are not there: as long as the fee
stays (`FeeStays`) every call plans the same steps (`PlanStays`, `PlanIsRight`), a transaction
waited for is the one at the caller's index, and what was mined is a prefix of that plan
(`DoneIsDone`); so the purchase and the order each happened once or not at all. `GInv` adds what
`NothingReverts` needs: the allowances a step draws on are granted when its turn comes (`Granted`).
Both promise nothing where two approvals share an allowance or something is requoted; those are the
cases that `OrderAsset_allowance` and `OrderAsset_requote` show.

Every invariant and action property of a passing run, and the refinement, is a theorem. Only
model-checked are the liveness properties (`EveryCallIsAnswered` of `PaidStart` and of `NodeTools`,
`EveryCallEnds`, `SignalEndsInExit`, `OrderCompletes`): liveness under fairness, and the `ENABLED` in
it, are out of the prover's reach. So is an induction theorem that takes an operator; where an
argument goes by induction it is over a set instead (`NatInductionOfSets`, `NumbersInSteps`, and `SmallestSet` for
families of finite sets), and folds are unrolled with it.

## 5. Not modelled

Unsigned-transaction builders, docs search, prompts, resources and the incentives client keep no
state between awaits. `parseUserData`, templates, `decorateServiceJob` and the fan-out of
`findServiceNodes` are in the plan. Telemetry export beyond its moments, HyperLogLog's estimate, P2P
transport, the stdio mode and the contracts' own code are outside. Loss of the process needs no recovery: the
server has nothing persistent, and what a caller loses is an answer, which is modelled.

What the models leave out of the parts they cover: a clock that goes back; an active user counts in the bucket
in which the session began, as in the code, and not on the days it lives on; poll counts and
observed durations; the transports, which have no cap and of which the model only bounds the number
of ids. A list call with `waitForRunning` does not wait and says `waitTimedOut: false`; the model
does the same. A first page of `getServices` filtered by `status` or `fromTimestamp` hands out a cursor as well, which
skips for good what the filter hid: the description warns of neither, and the sync of the model
starts from the reserved ones or from all, as the description has it.

## 6. Plan

Done: the modules of section 2, the refinement of `PaidCalls`, and the eight modules of theorems.
Next, in this order:

1. Proofs: the variants behind the liveness properties, as action properties (each step of a call
   lowers what it still has to do, and nothing raises it).
2. `ServiceNodes` — the fan-out of `findServiceNodes`: bounded concurrency, nodes that fail.
3. A composition of `PaidStart` and `EscrowAutoFix` over one escrow, with `PaidCalls` as the
   specification of both halves.
4. `UserData`, `Templates` — `parseUserData` and `templateToServiceStartArgs` against a reference.
