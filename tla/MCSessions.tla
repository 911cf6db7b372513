----------------------------- MODULE MCSessions -----------------------------
(* Few sessions around a cap that is reached, in a server that is told to   *)
(* stop at any moment of its life.  The life spans 31 January and 1         *)
(* February 1970: the day and the month end, the week goes on.              *)
EXTENDS ServerLife

CONSTANTS zed, goose

MCDays == {30, 31}
MCMonthOf == [d \in MCDays |-> IF d < 31 THEN 1 ELSE 2]
\* An eviction may hit the client that causes it, or the other one.
MCClientsOf == <<{zed}, {goose}, {zed, goose}>>
MCUserOf == [k \in Clients |-> k]
=============================================================================
