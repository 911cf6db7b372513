\* Fees passed or fetched; the fee and the price may change twice.
SPECIFICATION FairSpec
CONSTANTS
  NoTx = NoTx
  Assets <- MCAllAssets
  Fees = {0, 1}
  Prices = {1, 2}
  MaxRequotes = 2
  MaxFailures = 1
  MaxTxs = 5
INVARIANTS
  TypeOK
  CompleteMeansOrdered
  PaysOnce
  NoStepReverts
PROPERTY OrderCompletes
\* The order is complete, refused, or out of transactions.
CHECK_DEADLOCK FALSE
