----------------------------- MODULE PaidCalls ------------------------------
(***************************************************************************)
(* What the caller of a paid tool and the payer behind it may rely on,     *)
(* whatever gates, retries, reads and messages lie between.  A call is     *)
(* refused before anything left the server, or its order goes out once;    *)
(* an order becomes at most one lock, of its own price; and what the       *)
(* caller is told says what may still happen to the payer's money.         *)
(* PaidStart implements this specification.                                *)
(***************************************************************************)
EXTENDS Integers

CONSTANTS
  Calls,
  NoOrder   \* the order of a call that sent none

VARIABLES
  available,  \* the payer's escrow funds that no lock holds
  locked,     \* the escrow funds that locks hold
  order,      \* what each call sent: its price, and whether it locks later
  told,       \* what its caller was told
  lock        \* what became of its order

vars == <<available, locked, order, told, lock>>
money == <<available, locked>>

\* "unsure": an error after the order went out.  "off": it will never lock.
Told == {"none", "refused", "unsure", "started", "failed"}
Locks == {"none", "possible", "off", "held", "released"}
Orders == [price : Nat, background : BOOLEAN]

Init ==
  /\ available \in Nat /\ locked \in Nat
  /\ order = [c \in Calls |-> NoOrder]
  /\ told = [c \in Calls |-> "none"]
  /\ lock = [c \in Calls |-> "none"]

Untold(c) == told[c] = "none"
Says(c, what) == Untold(c) /\ told' = [told EXCEPT ![c] = what]
Becomes(c, what) == lock' = [lock EXCEPT ![c] = what]

\* Only a call that sent nothing is refused.
Refuse(c) ==
  /\ lock[c] = "none"
  /\ Says(c, "refused")
  /\ UNCHANGED <<money, order, lock>>

\* The order goes out, once, and never after the caller was answered.
Send(c) ==
  /\ lock[c] = "none" /\ Untold(c)
  /\ order'[c] \in Orders
  /\ order' = [order EXCEPT ![c] = order'[c]]
  /\ Becomes(c, "possible")
  /\ UNCHANGED <<money, told>>

\* The order is lost, or the escrow does not take it.
Drop(c) ==
  /\ lock[c] = "possible"
  /\ Becomes(c, "off")
  /\ UNCHANGED <<money, order, told>>

\* The one moment money moves into a lock, also after an answer.
Lock(c) ==
  /\ lock[c] = "possible"
  /\ order[c].price <= available
  /\ available' = available - order[c].price
  /\ locked' = locked + order[c].price
  /\ Becomes(c, "held")
  /\ UNCHANGED <<order, told>>

\* The whole price is claimed, or the whole price is returned.
Release(c) ==
  /\ lock[c] = "held"
  /\ available' \in {available, available + order[c].price}
  /\ locked' = locked - order[c].price
  /\ Becomes(c, "released")
  /\ UNCHANGED <<order, told>>

\* Started: a lock was taken, unless the order locks in the background.
\* Failed: no lock was taken and none will be.  Unsure: anything.
Tell(c) ==
  /\ lock[c] # "none"
  /\ \/ Says(c, "unsure")
     \/ Says(c, "started") /\ (order[c].background \/ lock[c] \in {"held", "released"})
     \/ Says(c, "failed") /\ lock[c] = "off"
  /\ UNCHANGED <<money, order, lock>>

\* The payer tops up or withdraws; locks are out of reach.
MovesFunds ==
  /\ available' \in Nat
  /\ UNCHANGED <<locked, order, told, lock>>

CallNext(c) ==
  \/ Refuse(c) \/ Send(c) \/ Drop(c) \/ Lock(c) \/ Release(c) \/ Tell(c)

Next == (\E c \in Calls : CallNext(c)) \/ MovesFunds

Spec == Init /\ [][Next]_vars

-----------------------------------------------------------------------------
(***************************************************************************)
(* What the promise is worth to a caller that thinks of trying again.      *)
(***************************************************************************)
\* Told that it was refused or failed, a caller may call again without paying
\* twice: the first order holds no lock, then or later.
RetryIsSafe ==
  \A c \in Calls : told[c] \in {"refused", "failed"} => lock[c] \in {"none", "off"}

TypeOK ==
  /\ told \in [Calls -> Told]
  /\ lock \in [Calls -> Locks]
=============================================================================
