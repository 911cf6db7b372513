\* Ten environments, one change, one extension.
SPECIFICATION BillingSpec
CONSTANTS
  NoMax = NoMax
  Ids <- MCIds
  Envs <- MCEnvs
  Requests <- MCRequests
  Extensions = {30, 61}
  Remaining = {0, 60}
  Grain = 10
  Precision = 100
  MaxChanges = 1
  MaxExtends = 1
INVARIANTS
  BillingTypeOK
  QuoteCoversBill
  GateAgreesWithQuote
  AdmittedIsAccepted
\* A call ends refused, rejected, or with its service running.
CHECK_DEADLOCK FALSE
