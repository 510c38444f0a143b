----------------------------- MODULE MetricViews -----------------------------
(***************************************************************************)
(* What the metrics page makes of the readings of a device                 *)
(* (src/dashboard-frontend/src/lib/metrics.ts, and the cut that            *)
(* components/MetricTrendChart.tsx makes of the curve).                    *)
(*                                                                         *)
(* A reading is [device, type, value, time].  The API answers              *)
(* {"data": [...]} and never "metrics", "telemetry" or a history of its    *)
(* own, so of the sources that metrics.ts looks through only that list     *)
(* holds readings.  Of the aliases of a metric the table keeps the types   *)
(* that some agent or monitor reports, in their order; slugify makes of a  *)
(* type and of its spellings one name.                                     *)
(***************************************************************************)
EXTENDS Integers, Lists, MetricRules, SequencesExt

Definition(key, aliases, thresholds) ==
  [key |-> key, aliases |-> aliases, thresholds |-> thresholds]

\* Shown to the operator, durations in minutes as in MetricRules.
thresholdProfiles ==
  [compute |-> <<
     Definition("cpuUsage", <<"cpu_usage", "snmp_cpu">>,
       Rising(Tier(70, Low, 10), Tier(85, Medium, 5), Tier(95, High, 2))),
     Definition("ramUsage", <<"ram_usage">>,
       Rising(Tier(75, Low, 10), Tier(88, Medium, 5), Tier(95, High, 2))),
     Definition("diskUsage", <<"disk_usage">>,
       Rising(Tier(80, Low, 30), Tier(90, Medium, 15), Tier(97, High, 5))),
     Definition("temperature", <<"temperature">>,
       Rising(Tier(70, Low, 15), Tier(80, Medium, 5), Tier(90, High, 1))),
     Definition("latency", <<"latency">>,
       Rising(Tier(200, Low, 5), Tier(500, Medium, 3), Tier(1000, High, 1))),
     Definition("interfaceUtilization", <<"snmp_if_in_octets">>,
       Rising(Tier(10, Low, 15), Tier(50, Medium, 5), Tier(100, High, 2)))>>,
   router |-> <<
     Definition("interfaceUtilization", <<"snmp_if_in_octets">>,
       Rising(Tier(70, Low, 15), Tier(85, Medium, 5), Tier(95, High, 2))),
     Definition("packetLoss", <<"packet_loss">>,
       Rising(Tier(2, Low, 10), Tier(5, Medium, 5), Tier(10, High, 2))),
     Definition("latency", <<"latency">>,
       Rising(Tier(120, Low, 5), Tier(250, Medium, 3), Tier(500, High, 1)))>>,
   network |-> <<
     Definition("cpuUsage", <<"cpu_usage">>,
       Rising(Tier(75, Low, 10), Tier(88, Medium, 5), Tier(95, High, 2))),
     Definition("memoryUsage", <<"ram_usage">>,
       Rising(Tier(78, Low, 10), Tier(90, Medium, 5), Tier(96, High, 2))),
     Definition("interfaceUtilization", <<>>,
       Rising(Tier(70, Low, 15), Tier(85, Medium, 5), Tier(95, High, 2))),
     Definition("temperature", <<"temperature">>,
       Rising(Tier(60, Low, 15), Tier(75, Medium, 5), Tier(85, High, 1))),
     Definition("packetLoss", <<"packet_loss">>,
       Rising(Tier(2, Low, 10), Tier(5, Medium, 5), Tier(10, High, 2))),
     Definition("latency", <<"latency">>,
       Rising(Tier(120, Low, 5), Tier(250, Medium, 3), Tier(500, High, 1)))>>,
   printer |-> <<
     Definition("tonerLevel", <<"toner_level">>,
       Falling(<<Tier(20, Low, 60), Tier(10, Medium, 30), Tier(5, High, 10)>>)),
     Definition("drumHealth", <<"drum_health">>,
       Falling(<<Tier(25, Low, 1440), Tier(15, Medium, 720), Tier(5, High, 240)>>)),
     Definition("paperLevel", <<"paper_level">>,
       Falling(<<Tier(20, Low, 60), Tier(10, Medium, 30), Tier(5, High, 10)>>)),
     Definition("queueDepth", <<>>,
       Rising(Tier(20, Low, 15), Tier(50, Medium, 10), Tier(100, High, 5))),
     Definition("responseTime", <<"latency">>,
       Rising(Tier(300, Low, 5), Tier(700, Medium, 3), Tier(1500, High, 1)))>>]

\* The types of internal/models/device.go; any other one has the last profile.
getProfileKey(type) ==
  CASE type \in {"server", "workstation"} -> "compute"
    [] type = "router" -> "router"
    [] type = "switch" -> "network"
    [] type = "printer" -> "printer"
    [] OTHER -> "compute"

ProfileOf(type) == thresholdProfiles[getProfileKey(type)]

Reports(definition, type) == Contains(definition.aliases, type)

\* The cards: of several readings of a type the last in the list counts, and
\* of several types with a reading the first in the aliases, however old.
NotReporting == [type |-> "none"]

normalizeMetricDictionary(rows) ==
  LET dictionary[i \in 0..Len(rows)] ==
        IF i = 0 THEN NoKeys ELSE Put(dictionary[i - 1], rows[i].type, rows[i])
  IN  dictionary[Len(rows)]

resolveMetric(definition, rows) ==
  LET dictionary == normalizeMetricDictionary(rows)
      matches == Filter(definition.aliases, DOMAIN dictionary)
  IN  IF matches = <<>> THEN NotReporting ELSE dictionary[Head(matches)]

buildMetricCards(profile, rows) ==
  [i \in DOMAIN profile |-> [key |-> profile[i].key, shown |-> resolveMetric(profile[i], rows)]]

-----------------------------------------------------------------------------
(* The curve: a point, for each time, of the metrics that were read then *)

appendHistoryPoint(points, key, row) ==
  LET point == IF row.time \in DOMAIN points THEN points[row.time] ELSE NoKeys
  IN  Put(points, row.time, Put(point, key, row.value))

\* addArrayHistory: a reading belongs to the first metric with its type.
addArrayHistory(points, profile, row) ==
  LET metrics == Filter(profile, {definition \in Range(profile) : Reports(definition, row.type)})
  IN  IF metrics = <<>> THEN points ELSE appendHistoryPoint(points, Head(metrics).key, row)

buildHistoryPoints(profile, rows) ==
  LET points[i \in 0..Len(rows)] ==
        IF i = 0 THEN NoKeys ELSE addArrayHistory(points[i - 1], profile, rows[i])
  IN  points[Len(rows)]

\* With nothing read, the page draws a curve of its own from the values that
\* the answer holds: six points, here before all times, of what nobody read,
Fabricated == 0
fallbackPoints(keys) == [time \in -5..0 |-> [key \in keys |-> Fabricated]]

getThresholdValue(definition) == definition.thresholds.tiers[3].min

\* A series needs a value: the last point that has one, or the resolved one.
buildMetricTrend(profile, rows) ==
  LET points == buildHistoryPoints(profile, rows)
      HasSeries(definition) ==
        \/ \E time \in DOMAIN points : definition.key \in DOMAIN points[time]
        \/ resolveMetric(definition, rows) # NotReporting
      series == Filter(profile, {definition \in Range(profile) : HasSeries(definition)})
  IN  [series     |-> series,
       hasHistory |-> DOMAIN points # {},
       points     |-> IF DOMAIN points # {} THEN points
                      ELSE fallbackPoints({series[i].key : i \in DOMAIN series})]

\* MetricTrendChart: the metric that is drawn, and the points it keeps, which
\* end the range with the newest of them and not with the present.
activeSelectedKey(trend, selectedKey) ==
  LET keys == [i \in DOMAIN trend.series |-> trend.series[i].key]
  IN  IF Contains(keys, selectedKey) THEN selectedKey ELSE Head(keys)

visiblePoints(trend, length) ==
  LET minimumTimestamp == Max(DOMAIN trend.points) - length
  IN  IF trend.hasHistory
      THEN [time \in {t \in DOMAIN trend.points : t >= minimumTimestamp} |-> trend.points[time]]
      ELSE trend.points
==============================================================================
