\* Every requirement against every standing of the escrow.
SPECIFICATION Spec
CONSTANTS
  Requirements <- MCRequirements
  Durations = {1, 60, 600}
  ClaimDurationTimeouts = {3600, 86400}
  InitialFunds = {0, 1, 2, 3, 4, 5, 6, 7}
  InitialAuthorizations <- MCAuthorizations
  MaxJobs = 4
INVARIANTS
  TypeOK
  AnswersAgree
  ParallelJobsCovered
PROPERTY AdviceTakes
