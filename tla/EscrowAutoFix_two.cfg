\* Two calls, and two escrow steps by anyone else.
SPECIFICATION Spec
CONSTANTS
  c1 = c1
  c2 = c2
  NoAsk = NoAsk
  Calls = {c1, c2}
  Asks <- MCAsks
  InitialFunds = 1
  InitialAuthorization <- MCNoAuthorization
  InitialPurse = 3
  PayerLimits <- MCLimits
  LockSize = 1
  MaxWorldSteps = 2
SYMMETRY CallSymmetry
INVARIANTS
  TypeOK
  AutoFixLeavesReady
  ReadyAnswerHolds
  CountersTellTheTruth
PROPERTY DepositIsTheShortfall
\* The calls end.
CHECK_DEADLOCK FALSE
