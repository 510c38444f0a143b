-------------------------------- MODULE Views ---------------------------------
(***************************************************************************)
(* The pages that show and do not change: the operator stays on the        *)
(* metrics page, the dashboard or a queue page.  They share no state but   *)
(* the cache entry of the devices, which the dashboard reads for their     *)
(* status and the metrics page for their names.                            *)
(***************************************************************************)
EXTENDS MetricsPage, Dashboard

VARIABLE route

ViewsInit ==
  /\ route \in {"metrics", "dashboard", "queue"}
  /\ MetricsInit /\ DashboardInit
  \* What a page does not read is left at one value.
  /\ route # "dashboard" => fleet = <<>>
  /\ route # "metrics" => selected = Unset

ViewsNext ==
  /\ UNCHANGED route
  /\ \/ route = "metrics" /\ MetricsNext /\ UNCHANGED <<fleetVars, queue>>
     \/ route = "dashboard" /\ DashboardNext /\ UNCHANGED metricsVars
     \/ route = "queue" /\ QueueNext /\ UNCHANGED metricsVars

ViewsSpec == ViewsInit /\ [][ViewsNext]_<<metricsVars, fleetVars, queue, route>>
===============================================================================
