------------------------------ MODULE Dashboard -------------------------------
(***************************************************************************)
(* The counts that the dashboard and the queue pages draw                  *)
(* (src/dashboard-frontend/src/lib/charts.ts and lib/dashboard.ts), of     *)
(* lists that are fetched one by one: the fleet chart of pages/            *)
(* Dashboard.tsx combines the overview and the list of devices, which are  *)
(* of different moments.                                                   *)
(*                                                                         *)
(* A record is an alarm, incident, ticket or problem with the fields that  *)
(* the charts read, in lower case: its priority, status, group, metric     *)
(* (the first word of an alarm's text, or "other"), day and age in hours.  *)
(* A device is its status.  A chart is a sequence of [name, value].        *)
(***************************************************************************)
EXTENDS Integers, Lists, QueryCache, SequencesExt

CONSTANTS
  Statuses,  \* the states of a device
  Records,   \* the records that a chart may be drawn of
  MaxItems,  \* bound: devices or records in a list
  MaxChanges \* bound: changes of the fleet, and fetches that fail

ASSUME DashboardChartsAssumption ==
  /\ Statuses \subseteq {"online", "offline", "warning", "unknown"}
  \* Records start low and are escalated to medium and high (service/alarm.go).
  /\ \A record \in Records : /\ record.priority \in {"critical", "high", "medium", "low", "unknown"}
                             /\ record.day \in Int /\ record.age \in Int
  /\ MaxItems \in Nat /\ MaxChanges \in Nat

VARIABLES
  fleet,     \* the devices in the database
  overview,  \* cache entry ["overview"]
  inventory, \* cache entry ["devices"]
  queue,     \* the list that a queue page shows
  changes

fleetVars == <<fleet, overview, inventory, changes>>

Slice(name, value) == [name |-> name, value |-> value]

\* counts[name] ?? otherwise
CountOr(counts, name, otherwise) == IF name \in DOMAIN counts THEN counts[name] ELSE otherwise

\* The reduce of all the charts: how often each key is in the list.
countBy(keys) ==
  LET counts[i \in 0..Len(keys)] ==
        IF i = 0 THEN NoKeys
        ELSE Put(counts[i - 1], keys[i], CountOr(counts[i - 1], keys[i], 0) + 1)
  IN  counts[Len(keys)]

\* The key of each item, in lower case.
Keys(items, field) == [i \in DOMAIN items |-> items[i][field]]

\* The entries of an object, in the order of a list of its keys.
Slices(names, counts) == [i \in DOMAIN names |-> Slice(names[i], counts[names[i]])]

WithoutEmpty(slices) == Filter(slices, {slice \in Range(slices) : slice.value > 0})

\* Sorted by count; no chart depends on the order of equal counts.
ByCount(counts) ==
  Slices(SortedBy(DOMAIN counts, [name \in DOMAIN counts |-> -counts[name]]), counts)

-----------------------------------------------------------------------------
(* The devices *)

\* GET /status counts the devices in a query of its own.
Overview(devices) ==
  [total |-> Len(devices), online |-> Cardinality({i \in DOMAIN devices : devices[i] = "online"})]

\* The overview counts, when there is one, before the list.
buildDashboardStats(answer, devices) ==
  LET counted == IF answer = NoData THEN Overview(devices) ELSE answer
  IN  [totalDevices |-> counted.total, onlineDevices |-> counted.online]

\* mutant: the overview counts before the list
buildStatusBreakdownOfStats(devices, stats) ==
  LET counts == countBy(devices)
      others == stats.totalDevices - stats.onlineDevices
  IN  WithoutEmpty(<<
        Slice("online", stats.onlineDevices),
        Slice("offline", CountOr(counts, "offline", IF others > 0 THEN others ELSE 0)),
        Slice("warning", CountOr(counts, "warning", 0)),
        Slice("unknown", CountOr(counts, "unknown", 0))>>)

\* The list counts before the overview, which fills in for a status that no
\* listed device has.
buildStatusBreakdown(devices, stats) ==
  LET counts == countBy(devices)
      others == stats.totalDevices - stats.onlineDevices
  IN  WithoutEmpty(<<
        Slice("online", CountOr(counts, "online", stats.onlineDevices)),
        Slice("offline", CountOr(counts, "offline", IF others > 0 THEN others ELSE 0)),
        Slice("warning", CountOr(counts, "warning", 0)),
        Slice("unknown", CountOr(counts, "unknown", 0))>>)

-----------------------------------------------------------------------------
(* The records *)

buildAlarmPriority(items) ==
  LET counts == countBy(Keys(items, "priority"))
      names == <<"critical", "high", "medium", "low", "unknown">>
  IN  WithoutEmpty([i \in DOMAIN names |-> Slice(names[i], CountOr(counts, names[i], 0))])

buildAlarmTrend(items) ==
  LET counts == countBy(Keys(items, "day"))
  IN  Slices(SortedBy(DOMAIN counts, [day \in DOMAIN counts |-> day]), counts)

buildAlarmTypeBreakdown(items) == ByCount(countBy(Keys(items, "metric")))

buildGroupWorkload(items) == ByCount(countBy(Keys(items, "group")))

AgeBuckets == <<"< 1h", "1-4h", "4-24h", "> 24h">>
BucketOf(age) ==
  CASE age < 1 -> "< 1h" [] age >= 1 /\ age < 4 -> "1-4h"
    [] age >= 4 /\ age < 24 -> "4-24h" [] OTHER -> "> 24h"

IsClosed(item) == item.status \in {"closed", "resolved"}
Ages(items) ==
  LET open == Filter(items, {item \in Range(items) : ~IsClosed(item)})
  IN  [i \in DOMAIN open |-> BucketOf(open[i].age)]

buildIncidentAgeBuckets(items) ==
  LET counts == countBy(Ages(items))
  IN  [i \in DOMAIN AgeBuckets |-> Slice(AgeBuckets[i], CountOr(counts, AgeBuckets[i], 0))]

FunnelStageOrder == <<"open", "assigned", "in-progress", "investigating", "resolved", "closed">>

\* mutant: the stages alone
buildFunnelOfStages(items) ==
  LET counts == countBy(Keys(items, "status"))
  IN  Slices(Filter(FunnelStageOrder, DOMAIN counts), counts)

\* The stages in their order, then the states that are no stage: the server's
\* "In Progress" is one of these.
buildResolutionFunnel(items) ==
  LET counts == countBy(Keys(items, "status"))
      others == DOMAIN counts \ Range(FunnelStageOrder)
  IN  Slices(Filter(FunnelStageOrder, DOMAIN counts), counts)
        \o ByCount([stage \in others |-> counts[stage]])
-----------------------------------------------------------------------------
(* The pages *)

DashboardInit ==
  /\ \E n \in 0..MaxItems : fleet \in [1..n -> Statuses]
  /\ overview = Ask(Empty) /\ inventory = Ask(Empty)
  /\ queue = <<>>
  /\ changes = 0

Change == changes < MaxChanges /\ changes' = changes + 1

\* A heartbeat, the offline worker, a new device, or one that is deleted.
FleetChanges ==
  /\ Change
  /\ \/ \E i \in DOMAIN fleet, status \in Statuses : fleet' = [fleet EXCEPT ![i] = status]
     \/ Len(fleet) < MaxItems /\ fleet' = Append(fleet, "unknown")
     \/ \E i \in DOMAIN fleet : fleet' = RemoveAt(fleet, i)
  /\ UNCHANGED <<overview, inventory, queue>>

FetchOverview ==
  /\ \/ overview.fetch = Idle /\ overview' = Ask(overview)  \* refetchInterval
     \/ overview.fetch = Asked /\ overview' = Answer(overview, Overview(fleet))
     \/ overview.fetch.at = "answered" /\ overview' = Arrive(overview)
  /\ UNCHANGED <<fleet, inventory, queue, changes>>

\* A list of no devices, which the schema refuses, is asked for again.
FetchDevices ==
  /\ \/ inventory.fetch = Idle /\ inventory' = Ask(inventory)
     \/ inventory.fetch = Asked /\ inventory' = Answer(inventory, fleet)
     \/ /\ inventory.fetch.at = "answered"
        /\ inventory' = IF inventory.fetch.data = <<>> THEN GiveUp(inventory)
                        ELSE Arrive(inventory)
  /\ UNCHANGED <<fleet, overview, queue, changes>>

FetchFails ==
  /\ Change
  /\ \/ overview.fetch # Idle /\ overview' = GiveUp(overview) /\ UNCHANGED inventory
     \/ inventory.fetch # Idle /\ inventory' = GiveUp(inventory) /\ UNCHANGED overview
  /\ UNCHANGED <<fleet, queue>>

DashboardNext == FleetChanges \/ FetchOverview \/ FetchDevices \/ FetchFails

\* A queue page: the list of the last answer has one more record.
QueueNext ==
  /\ Len(queue) < MaxItems
  /\ \E record \in Records : queue' = Append(queue, record)
  /\ UNCHANGED fleetVars

\* devicesQuery.data ?? EMPTY_DEVICES, and what the page computes of it.
Listed == IF inventory.data = NoData THEN <<>> ELSE inventory.data
FleetChart == buildStatusBreakdown(Listed, buildDashboardStats(overview.data, Listed))

-----------------------------------------------------------------------------
(* Properties *)

ValueOf(chart, name) == LET slices == Filter(chart, {s \in Range(chart) : s.name = name})
                        IN  IF slices = <<>> THEN 0 ELSE Head(slices).value

Occurrences(keys, name) == Cardinality({i \in DOMAIN keys : keys[i] = name})

\* Each key once, with the number of its occurrences, and nothing else.
Counts(chart, keys) ==
  /\ \A i, j \in DOMAIN chart : chart[i].name = chart[j].name => i = j
  /\ \A name \in Range(keys) \cup {chart[i].name : i \in DOMAIN chart} :
       ValueOf(chart, name) = Occurrences(keys, name)

Decreasing(chart) == \A i, j \in DOMAIN chart : i < j => chart[i].value >= chart[j].value

\* The charts of a queue page count every record of the list once: by priority,
\* by day, by group, by metric, by stage, and, when it is not closed, by age.
ChartsCountEveryRecord ==
  /\ Counts(buildAlarmPriority(queue), Keys(queue, "priority"))
  /\ Counts(buildAlarmTrend(queue), Keys(queue, "day"))
  /\ Counts(buildGroupWorkload(queue), Keys(queue, "group"))
  /\ Counts(buildAlarmTypeBreakdown(queue), Keys(queue, "metric"))
  /\ Counts(buildResolutionFunnel(queue), Keys(queue, "status"))
  /\ Decreasing(buildGroupWorkload(queue)) /\ Decreasing(buildAlarmTypeBreakdown(queue))
  /\ Counts(buildIncidentAgeBuckets(queue), Ages(queue))

\* The fleet chart shows as many devices of a status as the list has, however
\* old the overview beside it is; and with an overview of the same moment it
\* shows every device once, if one is offline or all are online.  Otherwise it
\* shows as offline, too, the devices that are unknown.
FleetChartExact ==
  LET present == Range(Listed)
  IN  /\ \A status \in present : ValueOf(FleetChart, status) = Occurrences(Listed, status)
      /\ overview.data \in {NoData, Overview(Listed)} =>
           ("offline" \in present \/ present \subseteq {"online"} => Counts(FleetChart, Listed))
===============================================================================
