\* Three sessions of two clients, at most two tracked, from start to exit.
SPECIFICATION LifeSpec
CONSTANTS
  zed = zed
  goose = goose
  NoClient = NoClient
  NoUser = NoUser
  MaxSessions = 3
  Clients = {zed, goose}
  Users = {zed, goose}
  ClientsOf <- MCClientsOf
  UserOf <- MCUserOf
  Days <- MCDays
  MonthOf <- MCMonthOf
  MAX_TRACKED_SESSIONS = 2
  MaxRequests = 4
INVARIANTS
  LifeTypeOK
  CapHolds
  SessionsAddUp
  UsersOfTheWindow
  ExitLosesNothing
PROPERTIES
  ForgetsTheOldest
  SignalEndsInExit
\* The process exits.
CHECK_DEADLOCK FALSE
