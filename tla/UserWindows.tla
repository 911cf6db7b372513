---------------------------- MODULE UserWindows -----------------------------
(***************************************************************************)
(* mcp.users.active.estimate (telemetry/userHll.ts): one sketch of user    *)
(* ids for each calendar window, begun anew when a user is recorded, or    *)
(* the gauge is observed, in another bucket than the sketch's.  A sketch   *)
(* is the set of ids added to it, of which the gauge shows an estimate of  *)
(* the size; the days are UTC days since the epoch.                        *)
(***************************************************************************)
EXTENDS Integers

CONSTANTS
  Users,     \* what deriveUserId makes of an address and a client name
  NoUser,    \* its undefined: the address is unknown
  Days,      \* the days of the server's life
  MonthOf    \* the calendar month of each day, counted over the years

ASSUME UserWindowsAssumption ==
  /\ NoUser \notin Users
  /\ Days \subseteq Nat
  /\ MonthOf \in [Days -> Nat]
  /\ \A d, e \in Days : d <= e => MonthOf[d] <= MonthOf[e]

VARIABLES
  today,
  sketches,  \* the sketch of each window, with the key of its bucket
  seen       \* history: who was recorded on which day

windows == <<today, sketches, seen>>

WINDOWS == {"day", "week", "month"}
NoKey == -1

bucketKey(window, day) ==
  CASE window = "day" -> day
    [] window = "week" -> day \div 7
    [] window = "month" -> MonthOf[day]

\* Faulty variant: a sketch lives on into the next bucket.
sketchForever(window) ==
  [key |-> bucketKey(window, today), users |-> sketches[window].users]

sketchFor(window) ==
  IF sketches[window].key = bucketKey(window, today) THEN sketches[window]
  ELSE [key |-> bucketKey(window, today), users |-> {}]

WindowsInit ==
  /\ today \in {d \in Days : d - 1 \notin Days}
  /\ sketches = [w \in WINDOWS |-> [key |-> NoKey, users |-> {}]]
  /\ seen = {}

\* recordUser: into every window, unless the id is undefined.
recordUser(user) ==
  /\ IF user = NoUser THEN UNCHANGED <<sketches, seen>>
     ELSE /\ sketches' = [w \in WINDOWS |->
                            [sketchFor(w) EXCEPT !.users = @ \cup {user}]]
          /\ seen' = seen \cup {<<user, today>>}
  /\ UNCHANGED today

\* The gauge's callback, at every collection, asks each window for its estimate.
observeGauge ==
  /\ sketches' = [w \in WINDOWS |-> sketchFor(w)]
  /\ UNCHANGED <<today, seen>>

Midnight ==
  /\ today + 1 \in Days
  /\ today' = today + 1
  /\ UNCHANGED <<sketches, seen>>

-----------------------------------------------------------------------------
WindowsTypeOK ==
  /\ today \in Days
  /\ \A w \in WINDOWS :
       /\ sketches[w].key \in Int
       /\ sketches[w].users \subseteq Users
  /\ seen \subseteq Users \X Days

\* What the gauge would show now is who started a session in the bucket of
\* today: nobody of an earlier bucket, and nobody of today is lost when the
\* windows roll over at different times, at a session or at a collection.
UsersOfTheWindow ==
  \A w \in WINDOWS :
    sketchFor(w).users =
      {u \in Users : \E d \in Days : <<u, d>> \in seen
                                     /\ bucketKey(w, d) = bucketKey(w, today)}
=============================================================================
