\* A fee in the base token of the exchange.
SPECIFICATION Spec
CONSTANTS
  NoTx = NoTx
  Assets <- MCSharedAssets
  Fees = {0, 1}
  Prices = {1, 2}
  MaxRequotes = 0
  MaxFailures = 1
  MaxTxs = 5
INVARIANT FeeIsApproved
\* The order is complete, refused, or out of transactions.
CHECK_DEADLOCK FALSE
