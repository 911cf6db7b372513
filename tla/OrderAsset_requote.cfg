\* Fees fetched by every call, and changed once.
SPECIFICATION Spec
CONSTANTS
  NoTx = NoTx
  Assets <- MCFetchedAssets
  Fees = {0, 1}
  Prices = {1, 2}
  MaxRequotes = 1
  MaxFailures = 1
  MaxTxs = 5
INVARIANT ContinuingOrders
\* The order is complete, refused, or out of transactions.
CHECK_DEADLOCK FALSE
