----------------------------- MODULE OrderAsset ------------------------------
(***************************************************************************)
(* order_asset (tools/assets.ts): an order as a plan of unsigned           *)
(* transactions, handed out one call at a time.  The server keeps nothing  *)
(* between the calls: each builds the plan anew from what the provider and *)
(* the chain say now, and the caller carries an index into it.  Modelled   *)
(* with a caller that follows the tool's description to the letter -- it   *)
(* signs and broadcasts the step it is given, and calls again with the     *)
(* state it was given and the hash -- and with the ERC-20 tokens, the      *)
(* exchange, the dispenser and the datatoken the transactions meet.        *)
(*                                                                         *)
(* The service's datatoken is listed in the asset, market fees are zero,   *)
(* and the caller owns enough tokens.                                      *)
(***************************************************************************)
EXTENDS Integers, Sequences

CONSTANTS
  Assets,        \* what may be ordered, and how the order is asked for
  Fees,          \* provider fees a provider may quote
  Prices,        \* prices of the exchange
  NoTx,          \* no lastTxHash
  MaxRequotes,   \* bound: changes of the fee or the price
  MaxFailures,   \* bound: calls that fail, or whose answer is lost
  MaxTxs         \* bound: transactions broadcast

\* sameToken: the provider fee is asked in the exchange's base token.
\* feeGiven: the caller passes providerFees, so that no call fetches them.
ASSUME OrderAssetAssumption ==
  /\ Assets \subseteq [pricing : {"fixed", "free", "NOT_ALLOWED"}, template : Nat,
                       sameToken : BOOLEAN, feeGiven : BOOLEAN]
  /\ Fees \subseteq Nat
  /\ Prices \subseteq Nat \ {0}
  /\ NoTx \notin Nat
  /\ MaxRequotes \in Nat /\ MaxFailures \in Nat /\ MaxTxs \in Nat

VARIABLES
  asset,       \* what is ordered
  given,       \* the providerFees argument
  quotedFee,   \* the fee the provider quotes now
  price,       \* what the exchange asks now
  requotes,    \* changes of either so far
  pc,          \* where the caller and its call stand
  fee,         \* the fee of the call at hand
  steps,       \* its plan
  index,       \* state.index, as the caller carries it
  txHashes,    \* state.txHashes
  last,        \* lastTxHash of the next call
  failures,    \* calls without an answer so far
  txs,         \* the transactions broadcast, in order; a hash is a position
  allowance,   \* granted to a spender in the fee token and in the base token
  datatokens,  \* the caller's datatokens
  purchases,   \* history: datatokens bought or dispensed
  orders       \* history: orders started

quotes == <<quotedFee, price, requotes>>
call == <<fee, steps>>
state == <<index, txHashes, last>>
chain == <<txs, allowance, datatokens, purchases, orders>>
vars == <<asset, given, quotes, pc, call, state, failures, chain>>

PCs == {"call", "feeQuoted", "planned", "signing", "refused", "complete"}
StepIds == {"approve_provider_fee", "approve_base_token", "dispense",
            "buy_datatokens", "start_order", "buy_from_dispenser_and_order",
            "buy_from_fre_and_order"}
Spenders == {"datatoken", "exchange"}
TxStatus == {"pending", "mined", "reverted"}

FeeToken == IF asset.sameToken THEN "base" ELSE "fee"

\* The transaction of a step: what it is built from is fixed when it is served.
Steps == [id : StepIds, fee : Nat, price : Nat, spender : Spenders]

-----------------------------------------------------------------------------
(***************************************************************************)
(* The plan.                                                               *)
(***************************************************************************)
Supported == asset.pricing \in {"fixed", "free"} /\ asset.template \in {1, 2, 4}

\* Faulty variant: every template is approved like the first one.
spenderAlwaysExchange == "exchange"
spenderForApprove == IF asset.template = 1 THEN "exchange" ELSE "datatoken"

Step(id, spender) ==
  [id |-> id, fee |-> fee, price |-> price, spender |-> spender]

ApproveFee ==
  IF fee > 0 THEN <<Step("approve_provider_fee", "datatoken")>> ELSE <<>>

FreeSteps ==
  IF asset.template = 1
  THEN <<Step("dispense", "datatoken"), Step("start_order", "datatoken")>>
  ELSE <<Step("buy_from_dispenser_and_order", "datatoken")>>

FixedSteps ==
  LET approve == Step("approve_base_token", spenderForApprove)
  IN IF asset.template = 1
     THEN <<approve, Step("buy_datatokens", "exchange"), Step("start_order", "datatoken")>>
     ELSE <<approve, Step("buy_from_fre_and_order", "datatoken")>>

Plan == ApproveFee \o (IF asset.pricing = "free" THEN FreeSteps ELSE FixedSteps)

-----------------------------------------------------------------------------
Init ==
  /\ asset \in Assets
  /\ quotedFee \in Fees /\ price \in Prices /\ requotes = 0
  /\ given = quotedFee
  /\ pc = "call"
  /\ fee = 0 /\ steps = <<>>
  /\ index = 0 /\ txHashes = <<>> /\ last = NoTx
  /\ failures = 0
  /\ txs = <<>>
  /\ allowance = [t \in {"fee", "base"} |-> [s \in Spenders |-> 0]]
  /\ datatokens = 0 /\ purchases = 0 /\ orders = 0

Move(from, to) == pc = from /\ pc' = to

-----------------------------------------------------------------------------
(***************************************************************************)
(* A call.                                                                 *)
(***************************************************************************)
\* The DDO, the template and the pricing are read, then the fee.
QuoteFee ==
  /\ Move("call", "feeQuoted")
  /\ fee' = IF asset.feeGiven THEN given ELSE quotedFee
  /\ UNCHANGED <<asset, given, quotes, steps, state, failures, chain>>

\* The exchange's price is read and the plan built, or refused for good.
BuildPlan ==
  /\ \/ Supported /\ Move("feeQuoted", "planned") /\ steps' = Plan
     \/ ~Supported /\ Move("feeQuoted", "refused") /\ UNCHANGED steps
  /\ UNCHANGED <<asset, given, quotes, fee, state, failures, chain>>

\* An await of the call fails, or its answer is lost: the server changed
\* nothing, and the caller repeats the call as it was.
CallFails ==
  /\ pc \in {"feeQuoted", "planned"} /\ pc' = "call"
  /\ failures < MaxFailures /\ failures' = failures + 1
  /\ UNCHANGED <<asset, given, quotes, call, state, chain>>

\* The answer to a state: its step, or that there is none left.
Serve(i, hashes) ==
  /\ Move("planned", IF i < Len(steps) THEN "signing" ELSE "complete")
  /\ index' = i /\ txHashes' = hashes /\ last' = NoTx

Receipt == IF last = NoTx THEN "none" ELSE txs[last].status

\* Faulty variants: the hash is not kept; a step is served again while its
\* transaction is pending; a reverted transaction counts as done; the state is
\* not advanced.
ConcludeWithoutHash ==
  /\ \/ Receipt = "none" /\ Serve(index, txHashes)
     \/ Receipt = "pending" /\ Move("planned", "call") /\ UNCHANGED state
     \/ Receipt = "mined" /\ Serve(index + 1, txHashes)
     \/ /\ Receipt = "reverted" /\ Move("planned", "call")
        /\ last' = NoTx /\ UNCHANGED <<index, txHashes>>
  /\ UNCHANGED <<asset, given, quotes, call, failures, chain>>

ConcludeImpatiently ==
  /\ \/ Receipt \in {"none", "pending"} /\ Serve(index, txHashes)
     \/ Receipt = "mined" /\ Serve(index + 1, Append(txHashes, last))
     \/ /\ Receipt = "reverted" /\ Move("planned", "call")
        /\ last' = NoTx /\ UNCHANGED <<index, txHashes>>
  /\ UNCHANGED <<asset, given, quotes, call, failures, chain>>

ConcludeDespiteRevert ==
  /\ \/ Receipt = "none" /\ Serve(index, txHashes)
     \/ Receipt = "pending" /\ Move("planned", "call") /\ UNCHANGED state
     \/ Receipt \in {"mined", "reverted"} /\ Serve(index + 1, Append(txHashes, last))
  /\ UNCHANGED <<asset, given, quotes, call, failures, chain>>

ConcludeInPlace ==
  /\ \/ Receipt \in {"none", "mined"} /\ Serve(index, txHashes)
     \/ Receipt = "pending" /\ Move("planned", "call") /\ UNCHANGED state
     \/ /\ Receipt = "reverted" /\ Move("planned", "call")
        /\ last' = NoTx /\ UNCHANGED <<index, txHashes>>
  /\ UNCHANGED <<asset, given, quotes, call, failures, chain>>

\* Without a hash the step at the index is served; a hash is confirmed first.
\* A caller told of a revert asks for the step again, without the hash.
Conclude ==
  /\ \/ Receipt = "none" /\ Serve(index, txHashes)
     \/ Receipt = "pending" /\ Move("planned", "call") /\ UNCHANGED state
     \/ Receipt = "mined" /\ Serve(index + 1, Append(txHashes, last))
     \/ /\ Receipt = "reverted" /\ Move("planned", "call")
        /\ last' = NoTx /\ UNCHANGED <<index, txHashes>>
  /\ UNCHANGED <<asset, given, quotes, call, failures, chain>>

\* The caller signs the step's transaction and broadcasts it (external).
Broadcast ==
  /\ Move("signing", "call")
  /\ Len(txs) < MaxTxs
  /\ txs' = Append(txs, [step |-> steps[index + 1], status |-> "pending"])
  /\ last' = Len(txs) + 1
  /\ UNCHANGED <<asset, given, quotes, call, index, txHashes, failures,
                 allowance, datatokens, purchases, orders>>

-----------------------------------------------------------------------------
(***************************************************************************)
(* The chain (external).                                                   *)
(***************************************************************************)
Buys(s) == s.id \in {"buy_datatokens", "buy_from_fre_and_order"}
Dispenses(s) == s.id \in {"dispense", "buy_from_dispenser_and_order"}
Orders(s) == s.id \in {"start_order", "buy_from_dispenser_and_order",
                       "buy_from_fre_and_order"}

\* What a step pulls from the caller through each spender, by token.
Pulled(s, token, spender) ==
  (IF Buys(s) /\ token = "base" /\ spender = s.spender THEN price ELSE 0)
    + (IF Orders(s) /\ token = FeeToken /\ spender = "datatoken" THEN s.fee ELSE 0)

\* The order spends a datatoken, one the same transaction bought included.
Succeeds(s) ==
  /\ \A t \in {"fee", "base"}, p \in Spenders : Pulled(s, t, p) <= allowance[t][p]
  /\ Buys(s) => price <= s.price
  /\ s.id = "start_order" => datatokens > 0

\* ERC-20 approve() sets an allowance, it does not add to it.
Approved(s) ==
  IF s.id = "approve_provider_fee" THEN [allowance EXCEPT ![FeeToken]["datatoken"] = s.fee]
  ELSE IF s.id = "approve_base_token" THEN [allowance EXCEPT !["base"][s.spender] = s.price]
  ELSE [t \in {"fee", "base"} |->
          [p \in Spenders |-> allowance[t][p] - Pulled(s, t, p)]]

Count(b) == IF b THEN 1 ELSE 0

Mine(n) ==
  LET s == txs[n].step
  IN /\ txs[n].status = "pending" /\ Succeeds(s)
     /\ txs' = [txs EXCEPT ![n].status = "mined"]
     /\ allowance' = Approved(s)
     /\ purchases' = purchases + Count(Buys(s) \/ Dispenses(s))
     /\ orders' = orders + Count(Orders(s))
     /\ datatokens' = datatokens + Count(Buys(s) \/ Dispenses(s)) - Count(Orders(s))
     /\ UNCHANGED <<asset, given, quotes, pc, call, state, failures>>

Revert(n) ==
  /\ txs[n].status = "pending" /\ ~Succeeds(txs[n].step)
  /\ txs' = [txs EXCEPT ![n].status = "reverted"]
  /\ UNCHANGED <<asset, given, quotes, pc, call, state, failures, allowance,
                 datatokens, purchases, orders>>

\* The provider or the exchange asks something else from now on.
Requote ==
  /\ requotes < MaxRequotes /\ requotes' = requotes + 1
  /\ \/ quotedFee' \in Fees \ {quotedFee} /\ UNCHANGED price
     \/ price' \in Prices \ {price} /\ UNCHANGED quotedFee
  /\ UNCHANGED <<asset, given, pc, call, state, failures, chain>>

-----------------------------------------------------------------------------
CallerStep == QuoteFee \/ BuildPlan \/ Conclude \/ Broadcast
ChainStep == \E n \in DOMAIN txs : Mine(n) \/ Revert(n)

Next == CallerStep \/ CallFails \/ ChainStep \/ Requote

Spec == Init /\ [][Next]_vars

\* A caller that carries on, and a chain that mines what it is sent.
FairSpec == Spec /\ WF_vars(CallerStep) /\ WF_vars(ChainStep)

-----------------------------------------------------------------------------
(***************************************************************************)
(* Properties.                                                             *)
(***************************************************************************)
\* Every variable holds a value of its kind, and the state counts its hashes.
TypeOK ==
  /\ asset \in Assets /\ given \in Fees
  /\ quotedFee \in Fees /\ price \in Prices /\ requotes \in 0..MaxRequotes
  /\ pc \in PCs
  /\ fee \in Fees \cup {0} /\ steps \in Seq(Steps)
  /\ txHashes \in Seq(1..MaxTxs) /\ index = Len(txHashes)
  /\ last \in (1..Len(txs)) \cup {NoTx}
  /\ failures \in 0..MaxFailures
  /\ txs \in Seq([step : Steps, status : TxStatus]) /\ Len(txs) <= MaxTxs
  /\ allowance \in [{"fee", "base"} -> [Spenders -> Nat]]
  /\ datatokens \in Nat /\ purchases \in Nat /\ orders \in Nat

\* The fee of the plan does not change under the caller: it was passed by the
\* caller, or nothing was requoted.
FeeStays == asset.feeGiven \/ requotes = 0

\* "complete" is told of an order that was placed, and of no other, while the
\* exchange may ask another price from one call to the next.
CompleteMeansOrdered == FeeStays /\ pc = "complete" => orders = 1

\* However often a call is repeated, a transaction waited for or a step asked
\* for again, the caller buys one datatoken and orders once.
PaysOnce == FeeStays => purchases <= 1 /\ orders <= 1

\* The approvals of a plan whose fee and base token do not share an allowance.
AllowancesApart ==
  asset.sameToken /\ spenderForApprove = "datatoken" => quotedFee = 0

\* As long as nothing is requoted, no step of the plan is sent in vain: what a
\* step needs, the steps before it left on the chain.
NoStepReverts ==
  AllowancesApart /\ requotes = 0 => \A n \in DOMAIN txs : txs[n].status # "reverted"

\* A caller that carries on gets its order, unless something is requoted.
OrderCompletes ==
  pc = "call" /\ AllowancesApart /\ Supported ~> pc = "complete" \/ requotes > 0

\* "Call order_asset again with `state` and `lastTxHash` to continue": who does
\* so and is told "complete" has the order.
ContinuingOrders == pc = "complete" => orders = 1

\* "Approve provider fee token for spending by datatoken": served an order, the
\* caller has the fee approved.
FeeIsApproved ==
  pc = "signing" /\ Orders(steps[index + 1])
    => allowance[FeeToken]["datatoken"] >= Pulled(steps[index + 1], FeeToken, "datatoken")
=============================================================================
