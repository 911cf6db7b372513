--------------------------- MODULE MCServiceStatus ---------------------------
(* Lifecycles cut to one status of each kind: a service fails, is restarted *)
(* and stopped, so that it ends twice; replies may skip any of it.  Either  *)
(* two services share a tracker with room for one, or a service and a job   *)
(* that go through the same number 70 are followed side by side.            *)
EXTENDS ServiceSync

CONSTANTS one, two

MCIds == {one, two}
MCListing == <<one, two>>
MCKindChoices == {[i \in MCIds |-> "service"],
                  [i \in MCIds |-> IF i = one THEN "service" ELSE "job"]}
MCLifecycle ==
  [service |-> {<<10, 99>>, <<99, 45>>, <<45, 40>>, <<40, 70>>},
   job |-> {<<10, 70>>, <<10, 41>>}]
MCSyncLifecycle == {<<Absent, 10>>, <<10, 40>>, <<40, 75>>}
=============================================================================
