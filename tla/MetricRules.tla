----------------------------- MODULE MetricRules -----------------------------
(***************************************************************************)
(* The tiered thresholds of internal/service/alarm.go: the tables          *)
(* metricRules and tonerRules and the single tier that evaluatePortStatus  *)
(* has in its code.  Durations are in minutes.                             *)
(***************************************************************************)
EXTENDS Naturals, Sequences

Low == 1
Medium == 2
High == 3

\* priorityRank, on the priorities a rule may carry.
Priority == {Low, Medium, High}

Tier(min, priority, duration) == [min |-> min, priority |-> priority, duration |-> duration]

\* The alarm fires when the value is at or above a tier's min,
Rising(low, medium, high) == [inverse |-> FALSE, tiers |-> <<low, medium, high>>]

\* or, inverse, at or below it.
Falling(tiers) == [inverse |-> TRUE, tiers |-> tiers]

metricRules ==
  [cpu_usage      |-> Rising(Tier(70, Low, 10), Tier(85, Medium, 5), Tier(95, High, 2)),
   ram_usage      |-> Rising(Tier(75, Low, 10), Tier(88, Medium, 5), Tier(95, High, 2)),
   disk_usage     |-> Rising(Tier(80, Low, 30), Tier(90, Medium, 15), Tier(97, High, 5)),
   temperature    |-> Rising(Tier(70, Low, 15), Tier(80, Medium, 5), Tier(90, High, 1)),
   latency        |-> Rising(Tier(200, Low, 5), Tier(500, Medium, 3), Tier(1000, High, 1)),
   packet_loss    |-> Rising(Tier(5, Low, 10), Tier(15, Medium, 5), Tier(30, High, 2)),
   network_errors |-> Rising(Tier(5, Low, 5), Tier(20, Medium, 3), Tier(100, High, 1))]

tonerRules == Falling(<<Tier(20, Low, 60), Tier(10, Medium, 30), Tier(5, High, 10)>>)

\* A port is down when its value is 0.
portDownDuration == 1
portRules == Falling(<<Tier(0, High, portDownDuration)>>)

\* mutant: a tier is moved here and not in the dashboard
RuleOfMoved(type) ==
  CASE type = "toner_level" -> tonerRules
    [] type = "port_status" -> portRules
    [] type = "latency" -> Rising(Tier(120, Low, 5), Tier(250, Medium, 3), Tier(500, High, 1))
    [] OTHER -> metricRules[type]

\* The rule that EvaluateMetrics applies to a metric type; it skips the types
\* that have none.
RuleOf(type) ==
  CASE type = "toner_level" -> tonerRules
    [] type = "port_status" -> portRules
    [] OTHER -> metricRules[type]

Types == DOMAIN metricRules \cup {"toner_level", "port_status"}
=============================================================================
