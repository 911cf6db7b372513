-------------------------- MODULE OrderAssetProofs --------------------------
(***************************************************************************)
(* An order is placed once, paid once, and reported as it is, for any      *)
(* asset, fee and price, any number of failed calls and lost answers, and  *)
(* any number of transactions.                                             *)
(*                                                                         *)
(* The server keeps nothing, so the argument is about what every call      *)
(* finds: the plan has the same steps whenever it is built (RightStep), at *)
(* most one transaction is out and it is the step at the caller's index,   *)
(* and so the mined transactions are a prefix of the plan whose length     *)
(* (Done) says what was bought, ordered and approved.                      *)
(***************************************************************************)
EXTENDS OrderAsset, SequenceTheorems, TLAPS

-----------------------------------------------------------------------------
(***************************************************************************)
(* The plan of an asset, by what its steps do.                             *)
(***************************************************************************)
FeeSteps == IF given > 0 THEN 1 ELSE 0

PlanLength ==
  FeeSteps + (IF asset.pricing = "free" THEN 0 ELSE 1)
           + (IF asset.template = 1 THEN 2 ELSE 1)

\* The one step that brings a datatoken, and the one before it.
BuyAt == IF asset.template = 1 THEN PlanLength - 1 ELSE PlanLength
ApproveAt == IF asset.pricing = "free" THEN 0 ELSE BuyAt - 1

\* s is the i-th step of every plan of the asset.
RightStep(s, i) ==
  /\ s.fee = given
  /\ s.id = "approve_provider_fee" <=> i = FeeSteps
  /\ s.id = "approve_base_token" <=> i = ApproveAt
  /\ s.id = "start_order" <=> asset.template = 1 /\ i = PlanLength
  /\ Buys(s) \/ Dispenses(s) <=> i = BuyAt
  /\ Orders(s) <=> i = PlanLength
  /\ Buys(s) => asset.pricing # "free"
  /\ Buys(s) \/ i = ApproveAt => s.spender = spenderForApprove

\* Transactions mined by the steps of the plan.
Done == IF last # NoTx /\ txs[last].status = "mined" THEN index + 1 ELSE index

-----------------------------------------------------------------------------
(***************************************************************************)
(* The inductive invariant.                                                *)
(***************************************************************************)
\* Where a call stands says what it holds; no plan is made of what is not
\* supported, and nothing is sent before one is made.
Places ==
  /\ pc \in {"planned", "signing", "complete"} \/ txs # <<>> => Supported
  /\ pc = "signing" => index < Len(steps)
  /\ pc \in {"signing", "complete"} => last = NoTx
  /\ pc = "complete" => Len(steps) <= index

\* A transaction that is not mined or reverted is the one the caller waits for.
OneAtATime == \A n \in DOMAIN txs : txs[n].status = "pending" => n = last

\* What is bought is spent on an order.
Tokens == datatokens = purchases - orders

\* As long as the fee stays, a call plans the steps of every other call, and
\* waits for the one at its index.
PlanStays ==
  /\ requotes = 0 => quotedFee = given
  /\ FeeStays /\ pc \notin {"call", "refused"} => fee = given
  /\ FeeStays /\ pc \in {"planned", "signing", "complete"} =>
       /\ Len(steps) = PlanLength
       /\ \A i \in 1..PlanLength : RightStep(steps[i], i)
  /\ FeeStays /\ last # NoTx =>
       /\ index < PlanLength
       /\ RightStep(txs[last].step, index + 1)

\* What was mined is a prefix of the plan.
DoneIsDone ==
  FeeStays =>
    /\ purchases = (IF BuyAt <= Done THEN 1 ELSE 0)
    /\ orders = (IF PlanLength <= Done THEN 1 ELSE 0)

OInv == TypeOK /\ Places /\ OneAtATime /\ Tokens /\ PlanStays /\ DoneIsDone

\* As long as nothing is requoted, what a step needs is granted when its turn
\* comes.
PriceStays ==
  requotes = 0 =>
    /\ pc \in {"planned", "signing", "complete"} =>
         \A i \in 1..PlanLength : steps[i].price = price
    /\ last # NoTx => txs[last].step.price = price

Granted ==
  AllowancesApart /\ requotes = 0 =>
    /\ 0 < FeeSteps /\ FeeSteps <= Done /\ Done < PlanLength =>
         given <= allowance[FeeToken]["datatoken"]
    /\ 0 < ApproveAt /\ Done = ApproveAt =>
         price <= allowance["base"][spenderForApprove]

GInv == OInv /\ PriceStays /\ Granted /\ NoStepReverts
-----------------------------------------------------------------------------
(***************************************************************************)
(* The plan.                                                               *)
(***************************************************************************)
\* What is given, and the asset, are of their types.
LEMMA Given ==
  ASSUME TypeOK
  PROVE  /\ given \in Nat /\ quotedFee \in Nat /\ price \in Nat /\ fee \in Nat
         /\ asset.template \in Nat
         /\ asset.sameToken \in BOOLEAN /\ asset.feeGiven \in BOOLEAN
BY OrderAssetAssumption DEF TypeOK

\* Where the steps of a plan stand.
LEMMA PlanShape ==
  ASSUME TypeOK
  PROVE  /\ FeeSteps \in {0, 1}
         /\ PlanLength \in Nat \ {0} /\ BuyAt \in 1..PlanLength
         /\ ApproveAt \in 0..(BuyAt - 1) /\ FeeSteps < BuyAt
         /\ asset.pricing # "free" => ApproveAt = BuyAt - 1 /\ ApproveAt > FeeSteps
         /\ FeeSteps = 1 /\ ApproveAt # 0 => ApproveAt = 2
         /\ spenderForApprove \in Spenders /\ FeeToken \in {"fee", "base"}
BY Given DEF FeeSteps, PlanLength, BuyAt, ApproveAt, spenderForApprove, FeeToken, Spenders

\* Every plan made for a fee that stays has the right steps, at today's price.
LEMMA PlanIsRight ==
  ASSUME TypeOK, Supported
  PROVE  /\ Plan \in Seq(Steps)
         /\ fee = given =>
              /\ Len(Plan) = PlanLength
              /\ \A i \in 1..PlanLength : RightStep(Plan[i], i) /\ Plan[i].price = price
<1> DEFINE F == ApproveFee
           R == IF asset.pricing = "free" THEN FreeSteps ELSE FixedSteps
<1>1. \A id \in StepIds, s \in Spenders : Step(id, s) \in Steps
  BY Given DEF Step, Steps
<1>2. /\ F \in Seq(Steps)
      /\ F = IF fee > 0 THEN <<Step("approve_provider_fee", "datatoken")>> ELSE <<>>
  BY <1>1 DEF ApproveFee, StepIds, Spenders
<1>3. R \in Seq(Steps)
  BY <1>1 DEF FreeSteps, FixedSteps, StepIds, Spenders, spenderForApprove
<1>4. Plan = F \o R
  BY DEF Plan
<1>5. Plan \in Seq(Steps)
  BY <1>2, <1>3, <1>4, ConcatProperties
<1>6. SUFFICES ASSUME fee = given
               PROVE  /\ Len(Plan) = PlanLength
                      /\ \A i \in 1..PlanLength : RightStep(Plan[i], i) /\ Plan[i].price = price
  BY <1>5
<1>7. /\ Len(F) = FeeSteps
      /\ FeeSteps = 1 => F[1] = Step("approve_provider_fee", "datatoken")
  BY <1>2, <1>6, Given DEF FeeSteps
<1>9. FeeSteps \in {0, 1}
  BY PlanShape
<1> HIDE DEF F, R
<1>10. /\ Len(Plan) = FeeSteps + Len(R)
       /\ \A i \in 1..(FeeSteps + Len(R)) :
            Plan[i] = IF i <= FeeSteps THEN F[i] ELSE R[i - FeeSteps]
  BY <1>2, <1>3, <1>4, <1>7, <1>9, ConcatProperties
<1>11. ASSUME NEW i \in 1..PlanLength, i <= FeeSteps
       PROVE  i = 1 /\ FeeSteps = 1
  BY <1>9, <1>11
<1>12. ASSUME FeeSteps = 1, BuyAt > 1, ApproveAt # 1, PlanLength > 1
       PROVE  /\ RightStep(Step("approve_provider_fee", "datatoken"), 1)
              /\ Step("approve_provider_fee", "datatoken").price = price
  BY <1>6, <1>12 DEF RightStep, Step, Buys, Dispenses, Orders
<1>13. SUFFICES /\ Len(R) = PlanLength - FeeSteps
                /\ \A j \in 1..Len(R) : RightStep(R[j], j + FeeSteps) /\ R[j].price = price
                /\ FeeSteps = 1 => BuyAt > 1 /\ ApproveAt # 1
  <2>1. Len(R) \in Nat
    BY <1>3
  <2>2. Len(Plan) = PlanLength
    BY <1>9, <1>10, <1>13, <2>1, PlanShape
  <2>3. ASSUME NEW i \in 1..PlanLength
        PROVE  RightStep(Plan[i], i) /\ Plan[i].price = price
    <3>1. CASE i <= FeeSteps
      <4>1. PlanLength > 1 /\ Plan[1] = Step("approve_provider_fee", "datatoken")
        BY <1>7, <1>10, <1>11, <1>13, <2>1, <3>1, PlanShape
      <4> QED
        BY <1>11, <1>12, <1>13, <3>1, <4>1
    <3>2. CASE i > FeeSteps
      <4>1. i - FeeSteps \in 1..Len(R) /\ (i - FeeSteps) + FeeSteps = i
        BY <1>9, <1>13, <2>1, <3>2, PlanShape
      <4>2. Plan[i] = R[i - FeeSteps]
        BY <1>9, <1>10, <1>13, <2>1, <3>2, PlanShape
      <4> QED
        BY <1>13, <4>1, <4>2
    <3> QED
      BY <1>9, <3>1, <3>2
  <2> QED
    BY <2>2, <2>3
<1>14. CASE asset.pricing = "free" /\ asset.template = 1
  <2>1. R = <<Step("dispense", "datatoken"), Step("start_order", "datatoken")>>
    BY <1>14 DEF FreeSteps, R
  <2>2. /\ PlanLength = FeeSteps + 2 /\ BuyAt = FeeSteps + 1 /\ ApproveAt = 0
        /\ spenderForApprove = "exchange"
    BY <1>9, <1>14 DEF PlanLength, BuyAt, ApproveAt, spenderForApprove
  <2>3. Len(R) = 2 /\ R[1] = Step("dispense", "datatoken") /\ R[2] = Step("start_order", "datatoken")
    BY <2>1
  <2>4. RightStep(R[1], FeeSteps + 1) /\ RightStep(R[2], FeeSteps + 2)
    BY <1>6, <1>9, <1>14, <2>2, <2>3 DEF RightStep, Step, Buys, Dispenses, Orders
  <2> QED
    BY <1>9, <2>2, <2>3, <2>4 DEF Step
<1>15. CASE asset.pricing = "free" /\ asset.template # 1
  <2>1. R = <<Step("buy_from_dispenser_and_order", "datatoken")>>
    BY <1>15 DEF FreeSteps, R
  <2>2. /\ PlanLength = FeeSteps + 1 /\ BuyAt = FeeSteps + 1 /\ ApproveAt = 0
        /\ spenderForApprove = "datatoken"
    BY <1>9, <1>15 DEF PlanLength, BuyAt, ApproveAt, spenderForApprove
  <2>3. Len(R) = 1 /\ R[1] = Step("buy_from_dispenser_and_order", "datatoken")
    BY <2>1
  <2>4. RightStep(R[1], FeeSteps + 1)
    BY <1>6, <1>9, <1>15, <2>2, <2>3 DEF RightStep, Step, Buys, Dispenses, Orders
  <2> QED
    BY <1>9, <2>2, <2>3, <2>4 DEF Step
<1>16. CASE asset.pricing # "free" /\ asset.template = 1
  <2>1. R = <<Step("approve_base_token", "exchange"), Step("buy_datatokens", "exchange"),
              Step("start_order", "datatoken")>>
    BY <1>16 DEF FixedSteps, R, spenderForApprove
  <2>2. /\ PlanLength = FeeSteps + 3 /\ BuyAt = FeeSteps + 2 /\ ApproveAt = FeeSteps + 1
        /\ spenderForApprove = "exchange"
    BY <1>9, <1>16 DEF PlanLength, BuyAt, ApproveAt, spenderForApprove
  <2>3. /\ Len(R) = 3 /\ R[1] = Step("approve_base_token", "exchange")
        /\ R[2] = Step("buy_datatokens", "exchange")
        /\ R[3] = Step("start_order", "datatoken")
    BY <2>1
  <2>4. /\ RightStep(R[1], FeeSteps + 1) /\ RightStep(R[2], FeeSteps + 2)
        /\ RightStep(R[3], FeeSteps + 3)
    BY <1>6, <1>9, <1>16, <2>2, <2>3 DEF RightStep, Step, Buys, Dispenses, Orders
  <2> QED
    BY <1>9, <2>2, <2>3, <2>4 DEF Step
<1>17. CASE asset.pricing # "free" /\ asset.template # 1
  <2>1. R = <<Step("approve_base_token", "datatoken"),
              Step("buy_from_fre_and_order", "datatoken")>>
    BY <1>17 DEF FixedSteps, R, spenderForApprove
  <2>2. /\ PlanLength = FeeSteps + 2 /\ BuyAt = FeeSteps + 2 /\ ApproveAt = FeeSteps + 1
        /\ spenderForApprove = "datatoken"
    BY <1>9, <1>17 DEF PlanLength, BuyAt, ApproveAt, spenderForApprove
  <2>3. /\ Len(R) = 2 /\ R[1] = Step("approve_base_token", "datatoken")
        /\ R[2] = Step("buy_from_fre_and_order", "datatoken")
    BY <2>1
  <2>4. RightStep(R[1], FeeSteps + 1) /\ RightStep(R[2], FeeSteps + 2)
    BY <1>6, <1>9, <1>17, <2>2, <2>3 DEF RightStep, Step, Buys, Dispenses, Orders
  <2> QED
    BY <1>9, <2>2, <2>3, <2>4 DEF Step
<1> QED
  BY <1>14, <1>15, <1>16, <1>17
-----------------------------------------------------------------------------
(***************************************************************************)
(* The invariant holds.                                                    *)
(***************************************************************************)
\* Nothing is planned, sent or granted yet.
LEMMA InitOInv == Init => OInv
<1> SUFFICES ASSUME Init PROVE OInv
  OBVIOUS
<1>1. TypeOK
  BY OrderAssetAssumption DEF Init, TypeOK, PCs, Spenders
<1>2. Places /\ OneAtATime /\ Tokens /\ PlanStays
  BY DEF Init, Places, OneAtATime, Tokens, PlanStays
<1>3. DoneIsDone
  BY <1>1, PlanShape DEF Init, DoneIsDone, Done
<1> QED
  BY <1>1, <1>2, <1>3 DEF OInv

\* What is ordered does not change, and so neither does its plan.
LEMMA SamePlan ==
  ASSUME UNCHANGED <<asset, given>>
  PROVE  /\ FeeSteps' = FeeSteps /\ PlanLength' = PlanLength
         /\ BuyAt' = BuyAt /\ ApproveAt' = ApproveAt
         /\ spenderForApprove' = spenderForApprove /\ FeeToken' = FeeToken
         /\ Supported' = Supported
         /\ \A s, i : RightStep(s, i)' <=> RightStep(s, i)
<1>1. FeeSteps' = FeeSteps /\ spenderForApprove' = spenderForApprove /\ FeeToken' = FeeToken
      /\ Supported' = Supported
  BY DEF FeeSteps, spenderForApprove, FeeToken, Supported
<1>2. PlanLength' = PlanLength
  BY <1>1 DEF PlanLength
<1>3. BuyAt' = BuyAt
  BY <1>2 DEF BuyAt
<1>4. ApproveAt' = ApproveAt
  BY <1>3 DEF ApproveAt
<1>5. \A s, i : RightStep(s, i)' <=> RightStep(s, i)
  BY <1>1, <1>2, <1>3, <1>4 DEF RightStep
<1> QED
  BY <1>1, <1>2, <1>3, <1>4, <1>5

\* A call reads, plans, or fails.
LEMMA CallKeepsOInv ==
  ASSUME OInv, QuoteFee \/ BuildPlan \/ CallFails
  PROVE  OInv'
<1>1. UNCHANGED <<asset, given, quotes, state, chain>>
  BY DEF QuoteFee, BuildPlan, CallFails
<1>2. TypeOK'
  <2>1. fee' \in Fees \cup {0} /\ pc' \in PCs /\ failures' \in 0..MaxFailures
    BY OrderAssetAssumption
    DEF OInv, TypeOK, QuoteFee, BuildPlan, CallFails, Move, PCs, call
  <2>2. steps' \in Seq(Steps)
    BY PlanIsRight DEF OInv, TypeOK, QuoteFee, BuildPlan, CallFails, call
  <2> QED
    BY <1>1, <2>1, <2>2 DEF OInv, TypeOK, quotes, state, chain
<1>3. Places'
  BY <1>1, SamePlan DEF OInv, Places, QuoteFee, BuildPlan, CallFails, Move, state, chain
<1>4. OneAtATime' /\ Tokens'
  BY <1>1 DEF OInv, OneAtATime, Tokens, state, chain
<1>5. PlanStays'
  <2>1. FeeStays' = FeeStays
    BY <1>1 DEF FeeStays, quotes
  <2>2. FeeStays /\ pc' \notin {"call", "refused"} => fee' = given
    BY DEF OInv, PlanStays, FeeStays, QuoteFee, BuildPlan, CallFails, Move, call
  <2>3. ASSUME FeeStays, pc' \in {"planned", "signing", "complete"}
        PROVE  /\ Len(steps') = PlanLength
               /\ \A i \in 1..PlanLength : RightStep(steps'[i], i)
    <3>1. Supported /\ steps' = Plan /\ fee = given
      BY <2>3 DEF QuoteFee, BuildPlan, CallFails, Move, OInv, PlanStays
    <3> QED
      BY <3>1, PlanIsRight DEF OInv
  <2> QED
    BY <1>1, <2>1, <2>2, <2>3, SamePlan DEF OInv, PlanStays, quotes, state, chain
<1>6. DoneIsDone'
  BY <1>1, SamePlan DEF OInv, DoneIsDone, Done, FeeStays, quotes, state, chain
<1> QED
  BY <1>2, <1>3, <1>4, <1>5, <1>6 DEF OInv

\* What was sent is steps.
LEMMA Sent ==
  ASSUME TypeOK
  PROVE  /\ Len(txs) \in Nat /\ Len(txs) <= MaxTxs /\ DOMAIN txs = 1..Len(txs)
         /\ \A n \in 1..Len(txs) :
              /\ txs[n] \in [step : Steps, status : TxStatus]
              /\ txs[n].step \in Steps /\ txs[n].status \in TxStatus
<1>1. txs \in Seq([step : Steps, status : TxStatus]) /\ Len(txs) <= MaxTxs
  BY DEF TypeOK
<1>2. \A n \in 1..Len(txs) : txs[n] \in [step : Steps, status : TxStatus]
  BY <1>1, ElementOfSeq
<1> QED
  BY <1>1, <1>2, LenProperties

\* What is given is confirmed, served, or waited for.
LEMMA ConcludeKeepsOInv ==
  ASSUME OInv, Conclude
  PROVE  OInv'
<1>1. UNCHANGED <<asset, given, quotes, call, failures, chain>> /\ pc = "planned"
  BY DEF Conclude, Serve, Move
<1>2. \/ /\ Receipt = "none" /\ last' = NoTx /\ index' = index /\ txHashes' = txHashes
         /\ pc' = IF index < Len(steps) THEN "signing" ELSE "complete"
      \/ Receipt = "pending" /\ UNCHANGED state /\ pc' = "call"
      \/ /\ Receipt = "mined" /\ last' = NoTx /\ index' = index + 1
         /\ txHashes' = Append(txHashes, last)
         /\ pc' = IF index + 1 < Len(steps) THEN "signing" ELSE "complete"
      \/ Receipt = "reverted" /\ last' = NoTx /\ UNCHANGED <<index, txHashes>> /\ pc' = "call"
  BY DEF Conclude, Serve, Move
<1>3. TypeOK
  BY DEF OInv
<1>4. /\ last = NoTx <=> Receipt = "none"
      /\ last # NoTx => last \in 1..Len(txs) /\ last \in 1..MaxTxs /\ Receipt = txs[last].status
  <2>1. last \in (1..Len(txs)) \cup {NoTx}
    BY <1>3 DEF TypeOK
  <2> QED
    BY <1>3, <2>1, Sent, OrderAssetAssumption DEF Receipt, TxStatus
<1>5. TypeOK'
  <2>1. txHashes' \in Seq(1..MaxTxs) /\ index' = Len(txHashes')
    <3>1. \/ Receipt # "mined"
          \/ /\ Append(txHashes, last) \in Seq(1..MaxTxs)
             /\ Len(Append(txHashes, last)) = index + 1
      BY <1>3, <1>4, AppendProperties DEF TypeOK
    <3> QED
      BY <1>2, <1>3, <3>1 DEF TypeOK, state
  <2>2. last' \in (1..Len(txs)) \cup {NoTx} /\ pc' \in PCs
    BY <1>2, <1>3 DEF TypeOK, state, PCs
  <2> QED
    BY <1>1, <1>3, <2>1, <2>2 DEF TypeOK, quotes, call, chain
<1>6. Places'
  BY <1>1, <1>2, <1>3, SamePlan DEF OInv, TypeOK, Places, state, call, chain
<1>7. OneAtATime' /\ Tokens'
  BY <1>1, <1>2, <1>4 DEF OInv, OneAtATime, Tokens, state, chain
<1>8. FeeStays' = FeeStays
  BY <1>1 DEF FeeStays, quotes
<1>9. PlanStays'
  BY <1>1, <1>2, <1>4, <1>8, SamePlan DEF OInv, PlanStays, quotes, state, call, chain
<1>10. DoneIsDone'
  <2>1. Done' = Done
    BY <1>1, <1>2, <1>4 DEF Done, state, chain
  <2> QED
    BY <1>1, <1>8, <2>1, SamePlan DEF OInv, DoneIsDone, chain
<1> QED
  BY <1>5, <1>6, <1>7, <1>9, <1>10 DEF OInv

\* The step at the index is sent, and is the one the caller waits for.
LEMMA BroadcastKeepsOInv ==
  ASSUME OInv, Broadcast
  PROVE  OInv'
<1> DEFINE tx == [step |-> steps[index + 1], status |-> "pending"]
<1>1. /\ UNCHANGED <<asset, given, quotes, call, index, txHashes, failures,
                     allowance, datatokens, purchases, orders>>
      /\ pc = "signing" /\ pc' = "call" /\ Len(txs) < MaxTxs
      /\ txs' = Append(txs, tx) /\ last' = Len(txs) + 1
  BY DEF Broadcast, Move
<1>2. TypeOK
  BY DEF OInv
<1>3. last = NoTx /\ index \in Nat /\ index < Len(steps)
  BY <1>1, <1>2 DEF OInv, Places, TypeOK
<1>4. tx \in [step : Steps, status : TxStatus]
  BY <1>2, <1>3 DEF TypeOK, TxStatus
<1>5. /\ txs' \in Seq([step : Steps, status : TxStatus]) /\ Len(txs') = Len(txs) + 1
      /\ txs'[Len(txs) + 1] = tx /\ \A n \in 1..Len(txs) : txs'[n] = txs[n]
      /\ Len(txs) \in Nat /\ DOMAIN txs = 1..Len(txs) /\ DOMAIN txs' = 1..(Len(txs) + 1)
  BY <1>1, <1>2, <1>4 DEF TypeOK
<1>6. TypeOK'
  BY <1>1, <1>2, <1>5, OrderAssetAssumption DEF TypeOK, quotes, call, PCs
<1>7. Places'
  BY <1>1, SamePlan DEF OInv, Places
<1>8. OneAtATime' /\ Tokens'
  <2>1. \A n \in 1..Len(txs) : txs[n].status # "pending"
    BY <1>3, <1>5, OrderAssetAssumption DEF OInv, OneAtATime
  <2> QED
    BY <1>1, <1>5, <2>1 DEF OInv, OneAtATime, Tokens
<1>9. FeeStays' = FeeStays
  BY <1>1 DEF FeeStays, quotes
<1>10. PlanStays'
  <2>1. FeeStays => index < PlanLength /\ RightStep(tx.step, index + 1)
    <3>1. FeeStays => Len(steps) = PlanLength /\ index + 1 \in 1..PlanLength
      BY <1>1, <1>2, <1>3, PlanShape DEF OInv, PlanStays
    <3> QED
      BY <1>1, <1>3, <3>1 DEF OInv, PlanStays
  <2>2. txs'[last'].step = tx.step
    BY <1>1, <1>5
  <2> QED
    BY <1>1, <1>9, <2>1, <2>2, SamePlan DEF OInv, PlanStays, quotes
<1>11. DoneIsDone'
  <2>1. Done' = Done
    BY <1>1, <1>3, <1>5, OrderAssetAssumption DEF Done
  <2> QED
    BY <1>1, <1>9, <2>1, SamePlan DEF OInv, DoneIsDone
<1> QED
  BY <1>6, <1>7, <1>8, <1>10, <1>11 DEF OInv

\* The chain mines the transaction the caller waits for: its step is done.
LEMMA MineKeepsOInv ==
  ASSUME OInv, NEW n \in DOMAIN txs, Mine(n)
  PROVE  OInv'
<1> DEFINE s == txs[n].step
<1>1. /\ txs[n].status = "pending" /\ Succeeds(s)
      /\ txs' = [txs EXCEPT ![n].status = "mined"]
      /\ allowance' = Approved(s)
      /\ purchases' = purchases + Count(Buys(s) \/ Dispenses(s))
      /\ orders' = orders + Count(Orders(s))
      /\ datatokens' = datatokens + Count(Buys(s) \/ Dispenses(s)) - Count(Orders(s))
      /\ UNCHANGED <<asset, given, quotes, pc, call, state, failures>>
  BY DEF Mine
<1>2. TypeOK /\ n = last /\ last # NoTx /\ n \in 1..Len(txs)
  BY <1>1, Sent, OrderAssetAssumption DEF OInv, OneAtATime
<1>3. s \in Steps /\ txs[n] \in [step : Steps, status : TxStatus]
  BY <1>2, Sent
<1>4. /\ txs' \in Seq([step : Steps, status : TxStatus]) /\ Len(txs') = Len(txs)
      /\ txs'[n] = [step |-> s, status |-> "mined"]
      /\ \A m \in 1..Len(txs) : m # n => txs'[m] = txs[m]
      /\ DOMAIN txs = 1..Len(txs) /\ DOMAIN txs' = 1..Len(txs)
  <2> DEFINE e == [txs[n] EXCEPT !.status = "mined"]
  <2>1. e = [step |-> s, status |-> "mined"] /\ e \in [step : Steps, status : TxStatus]
    BY <1>3 DEF TxStatus
  <2>2. txs' = [txs EXCEPT ![n] = e]
    BY <1>1
  <2> HIDE DEF e
  <2> QED
    BY <1>2, <2>1, <2>2, Sent, ExceptSeq DEF TypeOK
<1>5. /\ Count(Buys(s) \/ Dispenses(s)) \in {0, 1} /\ Count(Orders(s)) \in {0, 1}
      /\ Count(Buys(s) \/ Dispenses(s)) = 1 <=> Buys(s) \/ Dispenses(s)
      /\ Count(Orders(s)) = 1 <=> Orders(s)
  BY DEF Count
<1>6. datatokens' \in Nat
  <2>1. Orders(s) => Buys(s) \/ Dispenses(s) \/ datatokens > 0
    BY <1>1 DEF Succeeds, Orders, Buys, Dispenses
  <2> QED
    BY <1>1, <1>2, <1>5, <2>1 DEF TypeOK
<1>7. allowance' \in [{"fee", "base"} -> [Spenders -> Nat]]
  <2> DEFINE rest == [t \in {"fee", "base"} |->
                        [p \in Spenders |-> allowance[t][p] - Pulled(s, t, p)]]
  <2>1. \A t \in {"fee", "base"}, p \in Spenders :
          /\ Pulled(s, t, p) \in Nat /\ allowance[t][p] \in Nat
          /\ Pulled(s, t, p) <= allowance[t][p]
    <3>1. s.fee \in Nat /\ price \in Nat
      BY <1>2, <1>3, Given DEF Steps
    <3>2. \A t, p : Pulled(s, t, p) \in Nat
      BY <3>1 DEF Pulled
    <3> QED
      BY <1>1, <1>2, <3>2 DEF TypeOK, Succeeds
  <2>2. rest \in [{"fee", "base"} -> [Spenders -> Nat]]
    BY <2>1
  <2>3. \A t \in {"fee", "base"}, p \in Spenders, a \in Nat :
          [allowance EXCEPT ![t][p] = a] \in [{"fee", "base"} -> [Spenders -> Nat]]
    BY <1>2 DEF TypeOK
  <2>4. s.fee \in Nat /\ s.price \in Nat /\ s.spender \in Spenders /\ FeeToken \in {"fee", "base"}
    BY <1>2, <1>3, PlanShape DEF Steps
  <2>5. "datatoken" \in Spenders
    BY DEF Spenders
  <2> QED
    BY <1>1, <2>2, <2>3, <2>4, <2>5 DEF Approved
<1>8. TypeOK'
  BY <1>1, <1>2, <1>4, <1>5, <1>6, <1>7 DEF TypeOK, quotes, call, state
<1>9. Places'
  BY <1>1, <1>2, SamePlan DEF OInv, Places, TypeOK, quotes, call, state
<1>10. OneAtATime' /\ Tokens'
  BY <1>1, <1>2, <1>4, <1>5 DEF OInv, OneAtATime, Tokens, TypeOK, state
<1>11. FeeStays' = FeeStays
  BY <1>1 DEF FeeStays, quotes
<1>12. PlanStays'
  BY <1>1, <1>2, <1>4, <1>11, SamePlan DEF OInv, PlanStays, quotes, call, state
<1>13. DoneIsDone'
  <2>1. Done = index /\ Done' = index + 1 /\ index \in Nat
    BY <1>1, <1>2, <1>4 DEF Done, state, TypeOK
  <2>2. FeeStays => (Buys(s) \/ Dispenses(s) <=> index + 1 = BuyAt)
                    /\ (Orders(s) <=> index + 1 = PlanLength)
    BY <1>2 DEF OInv, PlanStays, RightStep
  <2>3. BuyAt \in Nat /\ PlanLength \in Nat /\ purchases \in Nat /\ orders \in Nat
    BY <1>2, PlanShape DEF TypeOK
  <2> HIDE DEF s
  <2> QED
    BY <1>1, <1>5, <1>11, <2>1, <2>2, <2>3, SamePlan DEF OInv, DoneIsDone
<1> QED
  BY <1>8, <1>9, <1>10, <1>12, <1>13 DEF OInv

\* The transaction the caller waits for fails: nothing is done.
LEMMA RevertKeepsOInv ==
  ASSUME OInv, NEW n \in DOMAIN txs, Revert(n)
  PROVE  OInv'
<1>1. /\ txs[n].status = "pending"
      /\ txs' = [txs EXCEPT ![n].status = "reverted"]
      /\ UNCHANGED <<asset, given, quotes, pc, call, state, failures, allowance,
                     datatokens, purchases, orders>>
  BY DEF Revert
<1>2. TypeOK /\ n = last /\ last # NoTx /\ n \in 1..Len(txs)
  BY <1>1, Sent, OrderAssetAssumption DEF OInv, OneAtATime
<1>3. /\ txs' \in Seq([step : Steps, status : TxStatus]) /\ Len(txs') = Len(txs)
      /\ txs'[n] = [step |-> txs[n].step, status |-> "reverted"]
      /\ \A m \in 1..Len(txs) : m # n => txs'[m] = txs[m]
      /\ DOMAIN txs = 1..Len(txs) /\ DOMAIN txs' = 1..Len(txs)
  <2> DEFINE e == [txs[n] EXCEPT !.status = "reverted"]
  <2>1. /\ e = [step |-> txs[n].step, status |-> "reverted"]
        /\ e \in [step : Steps, status : TxStatus]
    BY <1>2, Sent DEF TxStatus
  <2>2. txs' = [txs EXCEPT ![n] = e]
    BY <1>1
  <2> HIDE DEF e
  <2> QED
    BY <1>2, <2>1, <2>2, Sent, ExceptSeq DEF TypeOK
<1>4. TypeOK'
  BY <1>1, <1>2, <1>3 DEF TypeOK, quotes, call, state
<1>5. Places'
  BY <1>1, <1>2, SamePlan DEF OInv, Places, TypeOK, quotes, call, state
<1>6. OneAtATime' /\ Tokens'
  BY <1>1, <1>2, <1>3 DEF OInv, OneAtATime, Tokens, state
<1>7. FeeStays' = FeeStays
  BY <1>1 DEF FeeStays, quotes
<1>8. PlanStays'
  BY <1>1, <1>2, <1>3, <1>7, SamePlan DEF OInv, PlanStays, quotes, call, state
<1>9. DoneIsDone'
  <2>1. Done' = Done
    BY <1>1, <1>2, <1>3 DEF Done, state
  <2> QED
    BY <1>1, <1>7, <2>1, SamePlan DEF OInv, DoneIsDone
<1> QED
  BY <1>4, <1>5, <1>6, <1>8, <1>9 DEF OInv

\* Another fee, or another price: the plans keep their steps where the fee is
\* the caller's.
LEMMA RequoteKeepsOInv ==
  ASSUME OInv, Requote
  PROVE  OInv'
<1>1. /\ UNCHANGED <<asset, given, pc, call, state, failures, chain>>
      /\ requotes' = requotes + 1 /\ requotes < MaxRequotes
      /\ quotedFee' \in Fees /\ price' \in Prices
  BY DEF OInv, TypeOK, Requote
<1>2. TypeOK'
  BY <1>1, OrderAssetAssumption DEF OInv, TypeOK, call, state, chain
<1>3. requotes' # 0
  BY <1>1 DEF OInv, TypeOK
<1>4. FeeStays' => FeeStays
  BY <1>1, <1>3 DEF FeeStays
<1>5. Places' /\ OneAtATime' /\ Tokens'
  BY <1>1, SamePlan DEF OInv, Places, OneAtATime, Tokens, call, state, chain
<1>6. PlanStays'
  BY <1>1, <1>3, <1>4, SamePlan DEF OInv, PlanStays, call, state, chain
<1>7. DoneIsDone'
  <2>1. Done' = Done
    BY <1>1 DEF Done, state, chain
  <2> QED
    BY <1>1, <1>4, <2>1, SamePlan DEF OInv, DoneIsDone, chain
<1> QED
  BY <1>2, <1>5, <1>6, <1>7 DEF OInv

\* No step breaks the invariant.
LEMMA NextKeepsOInv == OInv /\ [Next]_vars => OInv'
<1> SUFFICES ASSUME OInv, [Next]_vars PROVE OInv'
  OBVIOUS
<1>1. CASE QuoteFee \/ BuildPlan \/ CallFails
  BY <1>1, CallKeepsOInv
<1>2. CASE Conclude
  BY <1>2, ConcludeKeepsOInv
<1>3. CASE Broadcast
  BY <1>3, BroadcastKeepsOInv
<1>4. CASE ChainStep
  BY <1>4, MineKeepsOInv, RevertKeepsOInv DEF ChainStep
<1>5. CASE Requote
  BY <1>5, RequoteKeepsOInv
<1>6. CASE UNCHANGED vars
  <2>1. UNCHANGED <<asset, given, quotes, pc, call, state, failures, chain>>
    BY <1>6 DEF vars
  <2>2. UNCHANGED <<quotedFee, price, requotes, fee, steps, index, txHashes, last,
                    txs, allowance, datatokens, purchases, orders>>
    BY <2>1 DEF quotes, call, state, chain
  <2>3. TypeOK'
    BY <2>1, <2>2 DEF OInv, TypeOK
  <2>4. FeeStays' = FeeStays /\ Done' = Done
    BY <2>1, <2>2 DEF FeeStays, Done
  <2> QED
    BY <2>1, <2>2, <2>3, <2>4, SamePlan
    DEF OInv, Places, OneAtATime, Tokens, PlanStays, DoneIsDone
<1> QED
  BY <1>1, <1>2, <1>3, <1>4, <1>5, <1>6 DEF Next, CallerStep

\* So it holds always.
LEMMA OInvHolds == Spec => []OInv
<1>1. Init => OInv
  BY InitOInv
<1>2. OInv /\ [Next]_vars => OInv'
  BY NextKeepsOInv
<1> QED
  BY <1>1, <1>2, PTL DEF Spec

\* Every variable holds a value of its kind, and the state counts the hashes it
\* carries, however many calls fail and whatever is requoted.
THEOREM TypeCorrect == Spec => []TypeOK
<1>1. OInv => TypeOK
  BY DEF OInv
<1> QED
  BY <1>1, OInvHolds, PTL

\* "complete" is told of an order that was placed, and of no other.
THEOREM CompleteIsOrdered == Spec => []CompleteMeansOrdered
<1>1. OInv => CompleteMeansOrdered
  <2> SUFFICES ASSUME OInv, FeeStays, pc = "complete" PROVE orders = 1
    BY DEF CompleteMeansOrdered
  <2>1. last = NoTx /\ Len(steps) = PlanLength /\ Len(steps) <= index
    BY DEF OInv, Places, PlanStays
  <2>2. Done = index
    BY <2>1 DEF Done
  <2> QED
    BY <2>1, <2>2 DEF OInv, DoneIsDone
<1> QED
  BY <1>1, OInvHolds, PTL

\* One datatoken is bought and one order started, however often a call is
\* repeated, a transaction waited for, or a reverted step asked for again.
THEOREM PaidOnce == Spec => []PaysOnce
<1>1. OInv => PaysOnce
  BY DEF OInv, DoneIsDone, PaysOnce
<1> QED
  BY <1>1, OInvHolds, PTL
-----------------------------------------------------------------------------
(***************************************************************************)
(* No step is sent in vain.                                                *)
(***************************************************************************)
\* While nothing is requoted, the step out is the next of the plan, at today's
\* price, and shares no allowance with another token.
LEMMA NextStep ==
  ASSUME OInv, PriceStays, requotes = 0, last # NoTx
  PROVE  LET s == txs[last].step
         IN /\ index \in Nat /\ index < PlanLength /\ last \in 1..Len(txs)
            /\ s \in Steps /\ s.fee = given /\ s.price = price
            /\ RightStep(s, index + 1)
            /\ purchases = (IF BuyAt <= Done THEN 1 ELSE 0)
            /\ orders = (IF PlanLength <= Done THEN 1 ELSE 0)
            /\ datatokens = purchases - orders
            /\ AllowancesApart /\ FeeToken = "base" /\ spenderForApprove = "datatoken"
                 => given = 0 /\ FeeSteps = 0
<1>1. TypeOK /\ FeeStays
  BY DEF OInv, FeeStays
<1>2. last \in 1..Len(txs) /\ index \in Nat
  BY <1>1 DEF TypeOK
<1>3. txs[last].step \in Steps
  BY <1>1, <1>2, Sent
<1>4. index < PlanLength /\ RightStep(txs[last].step, index + 1)
  BY <1>1 DEF OInv, PlanStays
<1>5. AllowancesApart /\ FeeToken = "base" /\ spenderForApprove = "datatoken"
        => given = 0 /\ FeeSteps = 0
  BY DEF OInv, PlanStays, AllowancesApart, FeeToken, FeeSteps
<1> QED
  BY <1>1, <1>2, <1>3, <1>4, <1>5 DEF OInv, DoneIsDone, Tokens, PriceStays, RightStep

\* Every plan and every transaction out asks the price that stays.
LEMMA PriceStaysOn ==
  ASSUME OInv, PriceStays, Next
  PROVE  PriceStays'
<1>1. CASE QuoteFee \/ CallFails
  BY <1>1 DEF PriceStays, QuoteFee, CallFails, Move, quotes, call, state, chain
<1>2. CASE BuildPlan
  <2>1. UNCHANGED <<asset, given, quotes, state, chain>>
    BY <1>2 DEF BuildPlan
  <2>2. ASSUME requotes = 0, pc' = "planned"
        PROVE  \A i \in 1..PlanLength : steps'[i].price = price
    <3>1. Supported /\ steps' = Plan /\ fee = given
      BY <1>2, <2>2 DEF BuildPlan, Move, OInv, PlanStays, FeeStays
    <3> QED
      BY <3>1, PlanIsRight DEF OInv
  <2>3. pc' \in {"planned", "refused"}
    BY <1>2 DEF BuildPlan, Move
  <2> QED
    BY <2>1, <2>2, <2>3, SamePlan DEF PriceStays, quotes, state, chain
<1>3. CASE Conclude
  <2>1. /\ UNCHANGED <<asset, given, quotes, call, chain>> /\ pc = "planned"
        /\ last' \in {last, NoTx}
    BY <1>3 DEF Conclude, Serve, Move, state
  <2> QED
    BY <2>1, SamePlan DEF PriceStays, quotes, call, chain
<1>4. CASE Broadcast
  <2>1. /\ UNCHANGED <<asset, given, quotes, call>> /\ pc = "signing" /\ pc' = "call"
        /\ txs' = Append(txs, [step |-> steps[index + 1], status |-> "pending"])
        /\ last' = Len(txs) + 1 /\ index \in Nat /\ index < Len(steps)
    BY <1>4 DEF Broadcast, Move, OInv, Places, TypeOK
  <2>2. txs'[last'].step = steps[index + 1]
    BY <2>1 DEF OInv, TypeOK
  <2>3. requotes = 0 => index + 1 \in 1..PlanLength
    BY <2>1, PlanShape DEF OInv, PlanStays, FeeStays
  <2> QED
    BY <2>1, <2>2, <2>3 DEF PriceStays, quotes, call
<1>5. CASE ChainStep
  <2>1. PICK n \in DOMAIN txs : Mine(n) \/ Revert(n)
    BY <1>5 DEF ChainStep
  <2>2. UNCHANGED <<asset, given, quotes, pc, call, state>>
    BY <2>1 DEF Mine, Revert
  <2>3. \A m \in DOMAIN txs : txs'[m].step = txs[m].step
    <3>1. \A m \in DOMAIN txs : txs[m] \in [step : Steps, status : TxStatus]
      BY Sent DEF OInv
    <3> QED
      BY <2>1, <3>1 DEF Mine, Revert
  <2>4. last # NoTx => last \in DOMAIN txs
    BY Sent DEF OInv, TypeOK
  <2> QED
    BY <2>2, <2>3, <2>4, SamePlan DEF PriceStays, quotes, call, state
<1>6. CASE Requote
  BY <1>6 DEF Requote, OInv, TypeOK, PriceStays
<1> QED
  BY <1>1, <1>2, <1>3, <1>4, <1>5, <1>6 DEF Next, CallerStep

\* What a mined step leaves granted is what the next ones need.
LEMMA MineGrants ==
  ASSUME OInv, PriceStays, Granted, NEW n \in DOMAIN txs, Mine(n)
  PROVE  Granted'
<1> DEFINE s == txs[n].step
<1>1. /\ txs[n].status = "pending" /\ Succeeds(s) /\ allowance' = Approved(s)
      /\ txs' = [txs EXCEPT ![n].status = "mined"]
      /\ UNCHANGED <<asset, given, quotes, pc, call, state, failures>>
  BY DEF Mine
<1>2. n = last /\ last # NoTx /\ n \in 1..Len(txs)
  BY <1>1, Sent, OrderAssetAssumption DEF OInv, OneAtATime
<1>3. Done = index /\ Done' = index + 1
  BY <1>1, <1>2, Sent DEF OInv, Done, state
<1>4. UNCHANGED <<quotedFee, price, requotes>> /\ AllowancesApart' = AllowancesApart
  BY <1>1, SamePlan DEF quotes, AllowancesApart
<1>5. SUFFICES ASSUME AllowancesApart, requotes = 0
               PROVE  /\ 0 < FeeSteps /\ FeeSteps <= index + 1 /\ index + 1 < PlanLength =>
                           given <= allowance'[FeeToken]["datatoken"]
                      /\ 0 < ApproveAt /\ index + 1 = ApproveAt =>
                           price <= allowance'["base"][spenderForApprove]
  BY <1>1, <1>3, <1>4, SamePlan DEF Granted
<1>6. /\ index \in Nat /\ index < PlanLength /\ s \in Steps
      /\ s.fee = given /\ s.price = price /\ RightStep(s, index + 1)
      /\ FeeToken = "base" /\ spenderForApprove = "datatoken" => given = 0 /\ FeeSteps = 0
  BY <1>2, <1>5, NextStep
<1>7. /\ allowance \in [{"fee", "base"} -> [Spenders -> Nat]]
      /\ "datatoken" \in Spenders /\ spenderForApprove \in Spenders
      /\ FeeToken \in {"fee", "base"} /\ FeeSteps \in {0, 1} /\ ApproveAt \in Nat
      /\ given \in Nat /\ price \in Nat
  BY PlanShape, Given DEF OInv, TypeOK, Spenders
<1> HIDE DEF s
<1>8. ASSUME 0 < FeeSteps, FeeSteps <= index + 1, index + 1 < PlanLength
      PROVE  given <= allowance'[FeeToken]["datatoken"]
  <2>1. CASE index + 1 = FeeSteps
    <3>1. allowance' = [allowance EXCEPT ![FeeToken]["datatoken"] = given]
      BY <1>1, <1>6, <2>1 DEF Approved, RightStep
    <3> QED
      BY <1>7, <3>1
  <2>2. CASE index + 1 # FeeSteps
    <3>1. given <= allowance[FeeToken]["datatoken"]
      BY <1>3, <1>5, <1>6, <1>7, <1>8, <2>2 DEF Granted
    <3>2. CASE index + 1 = ApproveAt
      <4>1. allowance' = [allowance EXCEPT !["base"][spenderForApprove] = price]
        BY <1>1, <1>6, <2>2, <3>2 DEF Approved, RightStep
      <4>2. FeeToken # "base" \/ spenderForApprove # "datatoken"
        BY <1>6, <1>8
      <4> QED
        BY <1>7, <3>1, <4>1, <4>2
    <3>3. CASE index + 1 # ApproveAt
      <4>1. allowance' = [t \in {"fee", "base"} |->
                            [p \in Spenders |-> allowance[t][p] - Pulled(s, t, p)]]
        BY <1>1, <1>6, <2>2, <3>3 DEF Approved, RightStep
      <4>2. ~Orders(s)
        BY <1>6, <1>8 DEF RightStep
      <4>3. FeeToken = "base" /\ "datatoken" = s.spender => ~Buys(s)
        BY <1>6, <1>8 DEF RightStep
      <4>4. Pulled(s, FeeToken, "datatoken") = 0
        BY <4>2, <4>3 DEF Pulled
      <4> QED
        BY <1>7, <3>1, <4>1, <4>4
    <3> QED
      BY <3>2, <3>3
  <2> QED
    BY <2>1, <2>2
<1>9. ASSUME 0 < ApproveAt, index + 1 = ApproveAt
      PROVE  price <= allowance'["base"][spenderForApprove]
  <2>1. allowance' = [allowance EXCEPT !["base"][spenderForApprove] = price]
    BY <1>1, <1>6, <1>9 DEF Approved, RightStep
  <2> QED
    BY <1>7, <2>1
<1> QED
  BY <1>8, <1>9

\* A call, a transaction sent, a revert and a requote grant nothing, and take
\* nothing that is needed.
LEMMA GrantedStays ==
  ASSUME OInv, PriceStays, Granted, Next
  PROVE  Granted'
<1>1. ASSUME UNCHANGED <<asset, given, quotes, allowance>>, Done' = Done
      PROVE  Granted'
  BY <1>1, SamePlan DEF Granted, AllowancesApart, quotes
<1>2. CASE QuoteFee \/ BuildPlan \/ CallFails
  BY <1>1, <1>2 DEF QuoteFee, BuildPlan, CallFails, Done, state, chain
<1>3. CASE Conclude
  <2>1. /\ UNCHANGED <<asset, given, quotes, chain>>
        /\ \/ Receipt # "mined" /\ index' = index /\ (last' = NoTx \/ last' = last)
           \/ Receipt = "mined" /\ index' = index + 1 /\ last' = NoTx
    BY <1>3 DEF Conclude, Serve, state
  <2>2. Done' = Done
    BY <2>1 DEF Done, Receipt, chain
  <2> QED
    BY <1>1, <2>1, <2>2 DEF chain
<1>4. CASE Broadcast
  <2>1. /\ UNCHANGED <<asset, given, quotes, index, allowance>> /\ last = NoTx
        /\ txs' = Append(txs, [step |-> steps[index + 1], status |-> "pending"])
        /\ last' = Len(txs) + 1
    BY <1>4 DEF Broadcast, Move, OInv, Places
  <2>2. Done' = Done
    BY <2>1 DEF Done, OInv, TypeOK
  <2> QED
    BY <1>1, <2>1, <2>2
<1>5. CASE ChainStep
  <2>1. ASSUME NEW n \in DOMAIN txs, Revert(n)
        PROVE  Granted'
    <3>1. /\ UNCHANGED <<asset, given, quotes, state, allowance>>
          /\ txs[n].status = "pending" /\ txs' = [txs EXCEPT ![n].status = "reverted"]
      BY <2>1 DEF Revert
    <3>2. n = last
      BY <3>1 DEF OInv, OneAtATime
    <3>3. Done' = Done
      BY <3>1, <3>2, Sent DEF Done, state, OInv
    <3> QED
      BY <1>1, <3>1, <3>3
  <2> QED
    BY <1>5, <2>1, MineGrants DEF ChainStep
<1>6. CASE Requote
  BY <1>6 DEF Requote, OInv, TypeOK, Granted
<1> QED
  BY <1>2, <1>3, <1>4, <1>5, <1>6 DEF Next, CallerStep

\* The step that is out has what it needs.
LEMMA NextStepSucceeds ==
  ASSUME OInv, PriceStays, Granted, AllowancesApart, requotes = 0, last # NoTx, Done = index
  PROVE  Succeeds(txs[last].step)
<1> DEFINE s == txs[last].step
<1>1. /\ index \in Nat /\ index < PlanLength /\ s \in Steps
      /\ s.fee = given /\ s.price = price /\ RightStep(s, index + 1)
      /\ purchases = (IF BuyAt <= index THEN 1 ELSE 0)
      /\ orders = (IF PlanLength <= index THEN 1 ELSE 0)
      /\ datatokens = purchases - orders
      /\ FeeToken = "base" /\ spenderForApprove = "datatoken" => given = 0 /\ FeeSteps = 0
  BY NextStep
<1>2. /\ allowance \in [{"fee", "base"} -> [Spenders -> Nat]]
      /\ "datatoken" \in Spenders /\ spenderForApprove \in Spenders
      /\ FeeToken \in {"fee", "base"} /\ FeeSteps \in {0, 1} /\ ApproveAt \in Nat
      /\ given \in Nat /\ price \in Nat /\ PlanLength \in Nat /\ BuyAt \in 1..PlanLength
      /\ FeeSteps < BuyAt /\ (given > 0 => FeeSteps = 1)
  BY PlanShape, Given DEF OInv, TypeOK, Spenders, FeeSteps
<1> HIDE DEF s
<1>3. Buys(s) => s.spender = spenderForApprove /\ price <= allowance["base"][spenderForApprove]
  <2>1. SUFFICES ASSUME Buys(s)
                 PROVE  s.spender = spenderForApprove /\ price <= allowance["base"][spenderForApprove]
    OBVIOUS
  <2>2. index + 1 = BuyAt /\ asset.pricing # "free" /\ s.spender = spenderForApprove
    BY <1>1, <2>1 DEF RightStep
  <2>3. ApproveAt = index /\ ApproveAt > 0
    BY <1>1, <1>2, <2>2, PlanShape DEF OInv
  <2> QED
    BY <2>2, <2>3 DEF Granted
<1>4. Orders(s) => given <= allowance[FeeToken]["datatoken"]
  <2>1. SUFFICES ASSUME Orders(s), given > 0 PROVE given <= allowance[FeeToken]["datatoken"]
    BY <1>2
  <2>2. index + 1 = PlanLength /\ FeeSteps = 1 /\ FeeSteps <= index
    BY <1>1, <1>2, <2>1 DEF RightStep
  <2> QED
    BY <1>1, <2>2 DEF Granted
<1>5. \A t \in {"fee", "base"}, p \in Spenders : Pulled(s, t, p) <= allowance[t][p]
  <2> SUFFICES ASSUME NEW t \in {"fee", "base"}, NEW p \in Spenders
               PROVE  Pulled(s, t, p) <= allowance[t][p]
    OBVIOUS
  <2> DEFINE b == Buys(s) /\ t = "base" /\ p = s.spender
             o == Orders(s) /\ t = FeeToken /\ p = "datatoken"
  <2>1. Pulled(s, t, p) = (IF b THEN price ELSE 0) + (IF o THEN given ELSE 0)
    BY <1>1 DEF Pulled
  <2>2. allowance[t][p] \in Nat
    BY <1>2
  <2>3. b => price <= allowance[t][p]
    BY <1>3
  <2>4. o => given <= allowance[t][p]
    BY <1>4
  <2>5. b /\ o => given = 0
    BY <1>1, <1>3
  <2> HIDE DEF b, o
  <2> QED
    BY <1>2, <2>1, <2>2, <2>3, <2>4, <2>5
<1>6. Buys(s) => price <= s.price
  BY <1>1, <1>2
<1>7. s.id = "start_order" => datatokens > 0
  <2>1. SUFFICES ASSUME s.id = "start_order" PROVE datatokens > 0
    OBVIOUS
  <2>2. asset.template = 1 /\ index + 1 = PlanLength
    BY <1>1, <2>1 DEF RightStep
  <2>3. BuyAt = PlanLength - 1
    BY <2>2 DEF BuyAt
  <2> QED
    BY <1>1, <1>2, <2>2, <2>3
<1>8. Succeeds(s)
  BY <1>5, <1>6, <1>7 DEF Succeeds
<1> QED
  BY <1>8 DEF s

\* So nothing reverts.
LEMMA NextKeepsGInv == GInv /\ [Next]_vars => GInv'
<1> SUFFICES ASSUME GInv, [Next]_vars PROVE GInv'
  OBVIOUS
<1>1. OInv'
  BY NextKeepsOInv DEF GInv
<1>2. CASE UNCHANGED vars
  <2>1. UNCHANGED <<asset, given, quotes, pc, call, state, failures, chain>>
    BY <1>2 DEF vars
  <2>2. UNCHANGED <<quotedFee, price, requotes, fee, steps, index, txHashes, last,
                    txs, allowance, datatokens, purchases, orders>>
    BY <2>1 DEF quotes, call, state, chain
  <2>3. Done' = Done /\ AllowancesApart' = AllowancesApart
    BY <2>1, <2>2, SamePlan DEF Done, AllowancesApart
  <2> QED
    BY <1>1, <2>1, <2>2, <2>3, SamePlan DEF GInv, PriceStays, Granted, NoStepReverts
<1>3. CASE Next
  <2>1. PriceStays' /\ Granted'
    BY <1>3, PriceStaysOn, GrantedStays DEF GInv
  <2>2. ASSUME UNCHANGED txs
        PROVE  NoStepReverts'
    <3>1. requotes' = 0 => requotes = 0 /\ UNCHANGED <<asset, quotedFee>>
      BY <1>3, <2>2 DEF GInv, OInv, TypeOK, Next, CallerStep, ChainStep, QuoteFee, BuildPlan,
         CallFails, Conclude, Broadcast, Mine, Revert, Requote, quotes
    <3> QED
      BY <2>2, <3>1 DEF GInv, NoStepReverts, AllowancesApart, spenderForApprove
  <2>3. ASSUME ~UNCHANGED txs
        PROVE  NoStepReverts'
    <3>1. CASE Broadcast
      <4>1. /\ UNCHANGED <<asset, quotes>>
            /\ txs' = Append(txs, [step |-> steps[index + 1], status |-> "pending"])
        BY <3>1 DEF Broadcast
      <4>2. \A n \in DOMAIN txs' :
              \/ n \in DOMAIN txs /\ txs'[n] = txs[n]
              \/ txs'[n].status = "pending"
        BY <4>1 DEF GInv, OInv, TypeOK
      <4> QED
        BY <4>1, <4>2 DEF GInv, NoStepReverts, AllowancesApart, spenderForApprove, quotes
    <3>2. CASE ChainStep
      <4>1. PICK n \in DOMAIN txs : Mine(n) \/ Revert(n)
        BY <3>2 DEF ChainStep
      <4>2. UNCHANGED <<asset, quotes>> /\ AllowancesApart' = AllowancesApart
        BY <4>1 DEF Mine, Revert, quotes, AllowancesApart, spenderForApprove
      <4>3. n = last /\ last # NoTx /\ Done = index /\ n \in 1..Len(txs)
        <5>1. n \in 1..Len(txs) /\ txs[n].status = "pending"
          BY <4>1, Sent DEF Mine, Revert, GInv, OInv
        <5> QED
          BY <5>1, OrderAssetAssumption DEF GInv, OInv, OneAtATime, Done
      <4>4. AllowancesApart /\ requotes = 0 => ~Revert(n)
        BY <4>3, NextStepSucceeds DEF GInv, Revert
      <4>5. \A m \in DOMAIN txs' : m \in DOMAIN txs /\ (txs'[m] = txs[m] \/ m = n)
        BY <4>1 DEF Mine, Revert
      <4>6. Mine(n) => txs'[n].status = "mined"
        BY <4>3, Sent DEF Mine, GInv, OInv
      <4> QED
        BY <4>1, <4>2, <4>4, <4>5, <4>6 DEF GInv, NoStepReverts, quotes
    <3> QED
      BY <1>3, <2>3, <3>1, <3>2 DEF Next, CallerStep, QuoteFee, BuildPlan, CallFails, Conclude,
         Requote, chain
  <2> QED
    BY <1>1, <2>1, <2>2, <2>3 DEF GInv
<1> QED
  BY <1>2, <1>3

\* As long as the provider and the exchange ask what they asked, and the fee is
\* not in the base token the datatoken is approved for, every step the caller
\* signs finds on the chain what it needs, whatever calls fail in between.
THEOREM NothingReverts == Spec => []NoStepReverts
<1>1. Init => GInv
  <2>1. Init => PriceStays /\ Granted /\ NoStepReverts
    <3> SUFFICES ASSUME Init PROVE PriceStays /\ Granted /\ NoStepReverts
      OBVIOUS
    <3>1. TypeOK
      BY InitOInv DEF OInv
    <3>2. Done = 0
      BY DEF Init, Done
    <3> QED
      BY <3>1, <3>2, PlanShape DEF Init, PriceStays, Granted, NoStepReverts
  <2> QED
    BY <2>1, InitOInv DEF GInv
<1>2. GInv /\ [Next]_vars => GInv'
  BY NextKeepsGInv
<1>3. GInv => NoStepReverts
  BY DEF GInv
<1> QED
  BY <1>1, <1>2, <1>3, PTL DEF Spec
=============================================================================
