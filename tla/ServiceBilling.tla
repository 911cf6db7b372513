--------------------------- MODULE ServiceBilling ---------------------------
(***************************************************************************)
(* What a service will cost, asked three times: by findServiceEnvironments *)
(* and estimateServiceCost when the caller plans it, by the escrow gate of *)
(* serviceStart or serviceExtend when it is sent (tools/serviceTools.ts on *)
(* tools/serviceCost.ts), and by the node when it bills.  There is no      *)
(* quote command, so the server repeats the node's arithmetic on an        *)
(* environment the operator may change in between.                         *)
(*                                                                         *)
(* One caller, who provisions exactly what it was told, starts a service   *)
(* and extends it once it has one.  Prices are in units finer than the     *)
(* token's base unit, and sums of them are exact; of such a sum a quote    *)
(* keeps the leading figures only.                                         *)
(***************************************************************************)
EXTENDS Integers, FiniteSetsExt

CONSTANTS
  Ids,          \* resource ids, those no environment knows included
  Envs,         \* what the operator may advertise
  Requests,     \* what a caller may ask for
  Extensions,   \* additionalDuration, in seconds
  Remaining,    \* seconds a service may still have when it is extended
  NoMax,        \* a maximum that is not set
  Grain,        \* price units in one base unit of the token
  Precision,    \* ten to the power of the significant figures of a quote
  MaxChanges,   \* bound: changes of the environment
  MaxExtends    \* bound: extensions asked for

\* min: advertised minimum of each resource the environment has.
\* fees: there is a schedule for the chain and token; price holds its entries.
\* resources: amounts by id, none when omitted; verbatim: the token is spelled
\* as the environment spells it.  maxServiceDuration is advertised; the node's own
\* serviceOnDemand.maxDurationSeconds is not.
ASSUME ServiceBillingAssumption ==
  /\ IsFiniteSet(Ids)
  /\ \A e \in Envs :
       /\ e.services \in BOOLEAN /\ e.fees \in BOOLEAN
       /\ DOMAIN e.min \subseteq Ids /\ DOMAIN e.price \subseteq Ids
       /\ DOMAIN e.free = DOMAIN e.min
       /\ \A i \in DOMAIN e.min : e.min[i] \in Nat /\ e.free[i] \in Nat
       /\ \A i \in DOMAIN e.price : e.price[i] \in Nat
       /\ e.minServiceDuration \in Nat /\ e.maxServiceDuration \in Nat \cup {NoMax}
       /\ e.maxDurationSeconds \in Nat \cup {NoMax}
  /\ \A r \in Requests :
       /\ DOMAIN r.resources \subseteq Ids
       /\ \A i \in DOMAIN r.resources : r.resources[i] \in Nat \ {0}
       /\ r.duration \in Nat \ {0} /\ r.verbatim \in BOOLEAN
  /\ Extensions \subseteq Nat \ {0} /\ Remaining \subseteq Nat
  /\ NoMax \notin Nat
  /\ Grain \in Nat \ {0} /\ Precision \in Nat \ {0}
  /\ MaxChanges \in Nat /\ MaxExtends \in Nat

VARIABLES
  env,         \* what the node advertises now
  changes,     \* changes of it so far
  changed,     \* history: it changed since the caller began to plan
  pc,          \* where the caller stands
  kind,        \* "start" or "extend"
  request,     \* what it asks for
  extends,     \* extensions asked for so far
  eligible,    \* what findServiceEnvironments said of it
  quote,       \* what estimateServiceCost said: raw amount, and warnings
  authorized,  \* what the escrow backs: the caller provisions the quote
  seen,        \* the environment the running call read
  sent,        \* the resources of the request sent to the node
  stored,      \* job.resources at the node
  rejection    \* why the node rejected the request

operator == <<env, changes, changed>>
plan == <<kind, request, extends, eligible, quote, authorized>>
call == <<seen, sent>>
billingVars == <<operator, pc, plan, call, stored, rejection>>

PCs == {"idle", "found", "quoted", "provisioned", "gating", "submitted",
        "unpriced", "refused", "blocked", "rejected", "lockFailed", "running"}
Rejections == {"disabled", "tooLong", "overCap", "unpriced", "full"}
NoReason == "none"
NoResources == [i \in {} |-> 0]

Raised(m, n) == IF m > n THEN m ELSE n

-----------------------------------------------------------------------------
(***************************************************************************)
(* serviceCost.ts.                                                         *)
(***************************************************************************)
availableFor(e, i) == IF i \in DOMAIN e.free THEN e.free[i] ELSE 0

resourceShortfall(e, resources) ==
  \E i \in DOMAIN resources : availableFor(e, i) < resources[i]

resourceMinimumWarnings(e, resources) ==
  {i \in DOMAIN resources : i \in DOMAIN e.min /\ resources[i] < e.min[i]}

\* Nothing asked for: one unit of cpu and of ram, where there are any.
resolveServiceResources(resources, e) ==
  IF DOMAIN resources # {} THEN resources
  ELSE [i \in DOMAIN e.min \cap {"cpu", "ram"} |-> 1]

\* An id without a price is free.
Price(e, i) == IF i \in DOMAIN e.price THEN e.price[i] ELSE 0

\* Faulty variant: no floor on the duration.
minutesBilledAsAsked(e, duration) == (duration + 59) \div 60

minutesBilled(e, duration) == (Raised(duration, e.minServiceDuration) + 59) \div 60

PerMinute(e, resources) ==
  MapThenSumSet(LAMBDA i : Price(e, i) * resources[i], DOMAIN resources)

estimateServiceCost(e, resources, duration) ==
  PerMinute(e, resources) * minutesBilled(e, duration)

\* The unit of the last significant figure of a cost: ten times that of the cost
\* without its last digit, when there are more digits than figures.
lastFigure[cost \in Nat] ==
  IF cost < Precision THEN 1 ELSE 10 * lastFigure[cost \div 10]

\* toPlainDecimalString: to the nearest with so many figures, so up or down.
toPrecision(cost) ==
  LET unit == lastFigure[cost] IN ((2 * cost + unit) \div (2 * unit)) * unit

\* Faulty variant: rounding up by the other idiom, without the one it ends on.
toRawAmountLess(cost) == (toPrecision(cost) - 1) \div Grain

\* What lies below a base unit is rounded up, after that.
toRawAmount(cost) == (toPrecision(cost) + Grain - 1) \div Grain

-----------------------------------------------------------------------------
BillingInit ==
  /\ env \in Envs /\ changes = 0 /\ changed = FALSE
  /\ pc = "idle"
  /\ kind = "start" /\ request \in Requests /\ extends = 0
  /\ eligible = FALSE
  /\ quote = [raw |-> 0, warned |-> FALSE]
  /\ authorized = 0
  /\ seen = env /\ sent = NoResources
  /\ stored = NoResources
  /\ rejection = NoReason

Move(from, to) == pc = from /\ pc' = to

-----------------------------------------------------------------------------
(***************************************************************************)
(* The caller plans.                                                       *)
(***************************************************************************)
\* describeServiceEnv: advertised, priced, and with room for what was named.
\* The token is compared without regard to its spelling.
Eligible(e, resources) == e.services /\ e.fees /\ ~resourceShortfall(e, resources)

\* findServiceEnvironments, for the caller's chain, token and resources.
FindEnvironments ==
  /\ Move("idle", "found")
  /\ eligible' = Eligible(env, request.resources)
  /\ changed' = FALSE
  /\ UNCHANGED <<env, changes, kind, request, extends, quote, authorized, call,
                 stored, rejection>>

\* estimateServiceCost: an error without a fee schedule, else amount and warnings.
Quote ==
  LET resources == resolveServiceResources(request.resources, env)
  IN /\ \/ ~env.fees /\ Move("found", "unpriced") /\ UNCHANGED quote
        \/ /\ env.fees /\ Move("found", "quoted")
           /\ quote' = [raw |-> toRawAmount(estimateServiceCost(env, resources, request.duration)),
                        warned |-> resourceMinimumWarnings(env, resources) # {}]
     /\ UNCHANGED <<operator, kind, request, extends, eligible, authorized, call,
                    stored, rejection>>

\* The caller makes the escrow back just that, or nothing for a free service
\* (external).
Provision ==
  /\ Move("quoted", "provisioned")
  /\ authorized' = quote.raw
  /\ UNCHANGED <<operator, kind, request, extends, eligible, quote, call, stored,
                 rejection>>

-----------------------------------------------------------------------------
(***************************************************************************)
(* serviceStart and serviceExtend.                                         *)
(***************************************************************************)
\* Faulty variant: no check of the duration before the node is asked.
AdmitsAnyDuration(e) == kind = "start" => e.services

Exceeds(seconds, max) == max # NoMax /\ seconds > max

\* Only a start is checked against the environment before the gate.
Admits(e) ==
  kind = "start" => e.services /\ ~Exceeds(request.duration, e.maxServiceDuration)

FindEnvironment ==
  /\ \/ Admits(env) /\ Move("provisioned", "gating")
     \/ ~Admits(env) /\ Move("provisioned", "refused")
  /\ seen' = env
  /\ UNCHANGED <<operator, plan, sent, stored, rejection>>

\* Faulty variant: an extension is priced off the environment's defaults.
GateResourcesByDefault ==
  resolveServiceResources(IF kind = "extend" THEN NoResources ELSE request.resources, seen)

\* An extension is priced off the stored job, a start off what will be sent.
GateResources ==
  IF kind = "extend" THEN stored ELSE resolveServiceResources(request.resources, seen)

GateAmount ==
  toRawAmount(estimateServiceCost(seen, GateResources, request.duration))

\* Without a schedule there is nothing to gate on; the rest is a comparison.
GatePasses == seen.fees => GateAmount <= authorized

Gate ==
  /\ \/ GatePasses /\ Move("gating", "submitted") /\ sent' = GateResources
     \/ ~GatePasses /\ Move("gating", "blocked") /\ UNCHANGED sent
  /\ UNCHANGED <<operator, plan, seen, stored, rejection>>

-----------------------------------------------------------------------------
(***************************************************************************)
(* The node, as the tools' descriptions have it (external).                *)
(***************************************************************************)
\* Every resource of the environment is raised to its minimum, also one that
\* was not asked for.
NodeResources ==
  IF kind = "extend" THEN stored
  ELSE [i \in DOMAIN sent \cup DOMAIN env.min |->
          Raised(IF i \in DOMAIN sent THEN sent[i] ELSE 0,
                 IF i \in DOMAIN env.min THEN env.min[i] ELSE 0)]

\* A start is billed for the minimum duration at least; whether an extension
\* is, the descriptions leave open.
NodeSeconds ==
  {Raised(request.duration, env.minServiceDuration)}
    \cup (IF kind = "extend" THEN {request.duration} ELSE {})

\* The node may round its bill either way.
NodeBills ==
  LET costs == {PerMinute(env, NodeResources) * ((s + 59) \div 60) : s \in NodeSeconds}
  IN {c \div Grain : c \in costs} \cup {(c + Grain - 1) \div Grain : c \in costs}

\* An extension comes on top of what the service still has.
Window(remaining) ==
  request.duration + (IF kind = "extend" THEN remaining ELSE 0)

Rejects(why, remaining) ==
  CASE why = "disabled" -> kind = "start" /\ ~env.services
    [] why = "tooLong" -> Exceeds(Window(remaining), env.maxServiceDuration)
    [] why = "overCap" -> Exceeds(Window(remaining), env.maxDurationSeconds)
    [] why = "unpriced" -> ~(env.fees /\ request.verbatim)
    [] why = "full" -> kind = "start" /\ resourceShortfall(env, NodeResources)

NodeRejects ==
  /\ Move("submitted", "rejected")
  /\ \E why \in Rejections, remaining \in Remaining :
       Rejects(why, remaining) /\ rejection' = why
  /\ UNCHANGED <<operator, plan, call, stored>>

NodeBillsAndLocks ==
  /\ \E remaining \in Remaining : \A why \in Rejections : ~Rejects(why, remaining)
  /\ \E bill \in NodeBills :
       \/ /\ bill <= authorized
          /\ Move("submitted", "running") /\ stored' = NodeResources
       \/ /\ bill > authorized
          /\ Move("submitted", "lockFailed") /\ UNCHANGED stored
  /\ UNCHANGED <<operator, plan, call, rejection>>

\* The owner of a running service plans an extension from serviceStatus.
AskToExtend ==
  /\ extends < MaxExtends /\ extends' = extends + 1
  /\ Move("running", "found")
  /\ kind' = "extend"
  /\ \E d \in Extensions :
       request' = [resources |-> stored, duration |-> d, verbatim |-> request.verbatim]
  /\ changed' = FALSE
  /\ UNCHANGED <<env, changes, eligible, quote, authorized, call, stored, rejection>>

\* The operator reconfigures the environment, or capacity comes and goes.
Reconfigure ==
  /\ changes < MaxChanges /\ changes' = changes + 1
  /\ env' \in Envs \ {env}
  /\ changed' = TRUE
  /\ UNCHANGED <<pc, plan, call, stored, rejection>>

-----------------------------------------------------------------------------
BillingNext ==
  \/ FindEnvironments \/ Quote \/ Provision
  \/ FindEnvironment \/ Gate
  \/ NodeRejects \/ NodeBillsAndLocks
  \/ AskToExtend \/ Reconfigure

BillingSpec == BillingInit /\ [][BillingNext]_billingVars

-----------------------------------------------------------------------------
(***************************************************************************)
(* Properties.                                                             *)
(***************************************************************************)
Amounts(r) == DOMAIN r \subseteq Ids /\ \A i \in DOMAIN r : r[i] \in Nat

\* Every variable holds a value of its kind; amounts are whole.
BillingTypeOK ==
  /\ env \in Envs /\ seen \in Envs
  /\ changes \in 0..MaxChanges /\ changed \in BOOLEAN
  /\ pc \in PCs /\ kind \in {"start", "extend"} /\ extends \in 0..MaxExtends
  /\ Amounts(request.resources) /\ request.duration \in Nat /\ request.verbatim \in BOOLEAN
  /\ eligible \in BOOLEAN
  /\ quote.raw \in Nat /\ quote.warned \in BOOLEAN
  /\ authorized \in Nat
  /\ Amounts(sent) /\ Amounts(stored)
  /\ rejection \in Rejections \cup {NoReason}

\* The node adds a priced resource that was not asked for.
NodeAdds ==
  \E i \in DOMAIN NodeResources \ DOMAIN sent :
    NodeResources[i] > 0 /\ Price(env, i) > 0

\* The quote dropped figures of the cost and came out below it.
FiguresDropped ==
  LET cost == estimateServiceCost(env, resolveServiceResources(request.resources, env),
                                  request.duration)
  IN toPrecision(cost) < cost

\* Who provisions what estimateServiceCost says can pay for what is started or
\* extended, minimum duration, unknown ids, fractions of a base unit and free
\* services included: a lock fails for lack of it only if the environment
\* changed, the minimum of a resource was warned of, the node adds one, or the
\* cost has more figures than a quote keeps and was rounded down to them.  The
\* comment on toRawAmount (serviceCost.ts:209-212) knows no such exception.
QuoteCoversBill ==
  pc = "lockFailed" => changed \/ quote.warned \/ NodeAdds \/ FiguresDropped

\* The gate asks for what the quote said: it never blocks a caller that
\* provisioned the quote, unless the environment changed.
GateAgreesWithQuote == pc = "blocked" => changed

\* The node raises an amount above what was sent.
NodeRaises ==
  \E i \in DOMAIN NodeResources :
    NodeResources[i] > (IF i \in DOMAIN sent THEN sent[i] ELSE 0)

\* What was checked here is not refused there: as long as the environment stays,
\* the node never rejects a start as disabled or longer than what is advertised,
\* never an eligible one with a verbatim token for its price, and never one whose
\* resources were named when it was found eligible for capacity, unless it raises
\* them.  The cap it does not advertise (serviceTools.ts:714, 774-775) it may still
\* reject it for.
AdmittedIsAccepted ==
  pc = "rejected" /\ kind = "start" /\ ~changed =>
    /\ rejection \notin {"disabled", "tooLong"}
    /\ eligible /\ request.verbatim => rejection # "unpriced"
    /\ eligible /\ DOMAIN request.resources # {} /\ ~NodeRaises => rejection # "full"

\* "a re-cased copy of the user's input would pass our check and then fail at
\* the node": what passed the gate's price check is priced at the node.
PricedAtTheNode == pc = "rejected" /\ ~changed /\ seen.fees => rejection # "unpriced"
=============================================================================
