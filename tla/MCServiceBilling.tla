-------------------------- MODULE MCServiceBilling --------------------------
(* Environments that differ in one thing each, and requests around them.    *)
EXTENDS ServiceBilling, TLC

MCIds == {"cpu", "ram", "gpu", "typo"}

\* Two cpu and one gpu to spare.  With two figures, and ten units in a base unit,
\* a cpu for two minutes costs 104 and is quoted short, two cpus and a gpu for one
\* minute cost 107 and are quoted beyond, and one cpu for a minute is exact.
Plain ==
  [services |-> TRUE, fees |-> TRUE,
   price |-> ("cpu" :> 52) @@ ("gpu" :> 3),
   min |-> ("cpu" :> 0) @@ ("ram" :> 0) @@ ("gpu" :> 0),
   free |-> ("cpu" :> 2) @@ ("ram" :> 2) @@ ("gpu" :> 1),
   minServiceDuration |-> 0, maxServiceDuration |-> NoMax, maxDurationSeconds |-> NoMax]

MCEnvs ==
  {Plain,
   [Plain EXCEPT !.services = FALSE],
   [Plain EXCEPT !.fees = FALSE],
   [Plain EXCEPT !.price = ("cpu" :> 26)],
   [Plain EXCEPT !.min["cpu"] = 2],
   [Plain EXCEPT !.min["gpu"] = 1],
   [Plain EXCEPT !.free["cpu"] = 0],
   [Plain EXCEPT !.minServiceDuration = 90],
   [Plain EXCEPT !.maxServiceDuration = 60],
   [Plain EXCEPT !.maxDurationSeconds = 60]}

Request(resources, duration, verbatim) ==
  [resources |-> resources, duration |-> duration, verbatim |-> verbatim]

MCRequests ==
  {Request(r, d, v) :
     r \in {NoResources, ("cpu" :> 1), ("gpu" :> 1), ("cpu" :> 2) @@ ("gpu" :> 1),
            ("typo" :> 1)},
     d \in {1, 60, 61}, v \in BOOLEAN}
=============================================================================
