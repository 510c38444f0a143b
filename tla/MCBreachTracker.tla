--------------------------- MODULE MCBreachTracker ---------------------------
(* Small instances of BreachTracker for TLC, with the tables of the code.  *)
EXTENDS BreachTracker, MetricRules

CONSTANT FirstLabel  \* the label of the devices that are not renamed

ASSUME MetricsAssumption == Metrics \subseteq Types

MCRules == [m \in Metrics |-> RuleOf(m)]

\* A value in the normal range and one at each threshold.
MCValues == [m \in Metrics |->
  LET rule == RuleOf(m) IN
  {IF rule.inverse THEN 100 ELSE 0} \cup {rule.tiers[i].min : i \in DOMAIN rule.tiers}]

\* The agents of the instance: one that measures latency, one that probes a port.
MCAgents == {{m} : m \in Metrics}

\* The device of the port has a timer of few states: it alone is renamed, has
\* more than one goroutine at work and alarms of several names.
OthersAreQuiet ==
  reports # {"port_status"} =>
    /\ label = FirstLabel /\ cache \in {FirstLabel, None}
    /\ BagCardinality(work) <= 1
    /\ \A m \in Metrics : alarms[m][DeviceId] = 0
=============================================================================
