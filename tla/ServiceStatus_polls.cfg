\* Two overlapping calls, one tracked service at a time.  A call about one service
\* waits, one about all of them or about jobs does not.  Waits are asked for longer
\* than the cap, and for no whole number of poll intervals.
\* Fairness: no symmetry.
SPECIFICATION FollowSpec
CONSTANTS
  one = one
  two = two
  NoTimeout = NoTimeout
  Nothing = Nothing
  Ids <- MCIds
  KindChoices <- MCKindChoices
  Listing <- MCListing
  MaxCalls = 2
  InitialStatuses = {0, 10}
  Lifecycle <- MCLifecycle
  WaitChoices = {TRUE}
  WaitTimeouts = {3, 15}
  MAX_WAIT_FOR_RUNNING_SECONDS = 10
  WAIT_POLL_INTERVAL = 5
  MAX_POLL_ITEMS = 1
  MaxClock = 3
  SyncLifecycle <- MCSyncLifecycle
  FirstPages = {"reserved", "all"}
  NoCursor = NoCursor
INVARIANTS
  FollowTypeOK
  WaitEndsForAReason
  ObservationsAreTrue
  SyncMissesNothing
PROPERTY EveryCallEnds
\* The calls and the services end.
CHECK_DEADLOCK FALSE
