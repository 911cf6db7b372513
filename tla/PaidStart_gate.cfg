\* Two gated calls against every order of payer and node steps.
\* Fairness of the server alone: no symmetry.
SPECIFICATION FairSpec
CONSTANTS
  c1 = c1
  c2 = c2
  NoJob = NoJob
  Calls = {c1, c2}
  Jobs <- MCJobs
  ClaimDurationTimeout = 7200
  InitialFunds = 2
  InitialAuthorization <- MCAuthorization
  PayerLimits <- MCLimits
  MaxFunds = 3
  MaxPayerSteps = 1
INVARIANTS
  TypeOK
  PassedStartLocks
  BlockedIsJustified
  CountsAreVerdicts
PROPERTIES
  KeepsPromise
  EveryCallIsAnswered
\* The calls end and the node may stop.
CHECK_DEADLOCK FALSE
