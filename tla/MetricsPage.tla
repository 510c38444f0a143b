----------------------------- MODULE MetricsPage ------------------------------
(***************************************************************************)
(* The metrics page (pages/MetricsPage.tsx): an operator picks a device, a *)
(* range and a metric, and sees the cards of the newest readings and a     *)
(* curve.  Three queries are polled (hooks/useDashboardData.ts): the list  *)
(* of devices, the newest reading of each type, and the readings of the    *)
(* range, the last two with an entry in the cache for each device, and for *)
(* each device and range.  Meanwhile agents and the monitor report, and    *)
(* the archiver deletes what is older than the retention period.           *)
(*                                                                         *)
(* A request is answered when it is made; its answer takes any time.  The  *)
(* value of a reading is its place in the order of arrival.                *)
(***************************************************************************)
EXTENDS MetricViews, QueryCache

CONSTANTS
  Devices,       \* the devices of the first listing, by name
  DeviceType,    \* the type of each
  ReportedTypes, \* the types of readings that each reports
  Ranges,        \* the ranges, with RANGE_MS in the units of the clock
  Retention,     \* METRICS_RETENTION_DAYS, in the units of the clock
  MaxTime,       \* bound: the clock
  MaxSkew,       \* bound: what the time of a reading is ahead or late by
  MaxReadings,   \* bound: readings
  MaxMoves,      \* bound: times the operator takes another device or range
  MaxTrouble     \* bound: devices deleted, and requests or answers lost

ASSUME MetricsPageAssumption ==
  /\ Devices \in Seq(Range(Devices)) /\ Devices # <<>>
  /\ DeviceType \in [Range(Devices) -> {"server", "workstation", "router", "switch", "printer"}]
  /\ "1h" \in DOMAIN Ranges /\ DOMAIN Ranges \subseteq {"7d", "1d", "1h"}
  /\ \A r \in DOMAIN Ranges : Ranges[r] \in Nat
  /\ Retention \in Nat
  /\ MaxTime \in Nat /\ MaxSkew \in Nat /\ MaxReadings \in Nat /\ MaxMoves \in Nat /\ MaxTrouble \in Nat
  \* The schema refuses a list of no devices (lib/schemas.ts:108).
  /\ MaxTrouble < Len(Devices)

VARIABLES
  now,
  readings,    \* the rows that the metrics table has had, in the order of arrival
  gone,        \* those that are deleted, by their values
  listed,      \* the devices in the database, by name
  devices,     \* cache entry ["devices"]
  latest,      \* cache entries ["device-metrics", id]
  history,     \* cache entries ["device-metrics-history", id, range]
  selected,    \* the device in the address of the page
  range,
  selectedKey, \* the metric picked below the curve
  moves, trouble

bounds == <<moves, trouble>>
serverVars == <<now, readings, gone, listed>>
pageVars == <<selected, range, selectedKey>>
metricsVars == <<serverVars, devices, latest, history, pageVars, bounds>>

DeviceSet == Range(Devices)
Unset == "none"

Reading == [device : DeviceSet, type : UNION {ReportedTypes[d] : d \in DeviceSet},
            time : Nat, value : Nat]

ASSUME NoReadingsAssumption == NoData \notin Seq(Reading)

Taken(d) == {row \in Range(readings) : row.device = d}
Rows(d) == {row \in Taken(d) : row.value \notin gone}

\* The list is ordered by time; rows of one time come in any order.
FindByDevice(d, from) ==
  LET rows == {row \in Rows(d) : row.time >= from}
  IN  SortedBy(rows, [row \in rows |-> row.time])

\* mutant: the newest row of each type by arrival
FindLatestStored(d) ==
  Filter(readings, {row \in Rows(d) : \A other \in Rows(d) :
                      other.type = row.type => other.value <= row.value})

FindLatestByDevice(d) ==
  Filter(readings, {row \in Rows(d) : \A other \in Rows(d) :
                      other.type = row.type => other.time <= row.time})

\* from is reckoned when the request is made.
RangeStart(r) == now - Ranges[r]

\* useDeviceMetrics and useDeviceMetricsHistory: GetMetrics answers a request
\* for a device that is gone with 404.
Requested(q, d, rows) ==
  CASE q.fetch # Asked -> q
    [] Contains(listed, d) -> Answer(q, rows)
    [] OTHER -> GiveUp(q)

getDeviceMetrics(d, q) == Requested(q, d, FindLatestByDevice(d))
getDeviceMetricsHistory(d, r, q) == Requested(q, d, FindByDevice(d, RangeStart(r)))

MetricsInit ==
  /\ now = 1
  /\ readings = <<>> /\ gone = {}
  /\ listed = Devices
  /\ devices = Answer(Empty, Devices)
  /\ latest = [d \in DeviceSet |-> Empty]
  /\ history = [d \in DeviceSet |-> [r \in DOMAIN Ranges |-> Empty]]
  /\ selected \in DeviceSet \cup {Unset}  \* "View metrics", or the menu
  /\ range = "1h"
  /\ selectedKey = Unset
  /\ moves = 0 /\ trouble = 0

-----------------------------------------------------------------------------
(* The server *)

Tick ==
  /\ now < MaxTime
  /\ now' = now + 1
  /\ UNCHANGED <<readings, gone, listed, devices, latest, history, pageVars, bounds>>

\* IngestHandler.Metrics: a batch carries the time at which it was taken.
Ingest(d, type, time) ==
  /\ Len(readings) < MaxReadings
  /\ Contains(listed, d)
  /\ readings' = Append(readings, [device |-> d, type |-> type, time |-> time,
                                   value |-> Len(readings) + 1])
  /\ UNCHANGED <<now, gone, listed, devices, latest, history, pageVars, bounds>>

\* The readings go with the device, as in migrations/001_init.sql.
DeleteDevice(d) ==
  /\ Contains(listed, d)
  /\ trouble < MaxTrouble /\ trouble' = trouble + 1
  /\ listed' = Filter(listed, DeviceSet \ {d})
  /\ UNCHANGED <<now, readings, gone, devices, latest, history, pageVars, moves>>

\* A run of the archiver (MetricArchiver): the DELETE of what is older than the
\* cutoff, be it the newest of its type.
DeleteBefore(cutoff) ==
  /\ gone' = gone \cup {row.value : row \in {old \in Range(readings) : old.time < cutoff}}
  /\ UNCHANGED <<now, readings, listed, devices, latest, history, pageVars, bounds>>

-----------------------------------------------------------------------------
(* What the page shows *)

Loaded(q) == IF q.data = NoData THEN <<>> ELSE q.data

\* selectedDevice: there is none until the list has the device of the address.
Shows(d) == selected = d /\ Contains(Loaded(devices), d)

CardsOf(d) == buildMetricCards(ProfileOf(DeviceType[d]), Loaded(latest[d]))
TrendOf(d, r) == buildMetricTrend(ProfileOf(DeviceType[d]), Loaded(history[d][r]))

\* A device comes on screen: entries that were read less than 15 seconds ago
\* are not fetched.
MountDevice(d, r, aged) ==
  /\ latest' = [latest EXCEPT ![d] = getDeviceMetrics(d, Mount(@, aged))]
  /\ history' = [history EXCEPT ![d][r] = getDeviceMetricsHistory(d, r, Mount(@, aged))]

-----------------------------------------------------------------------------
(* The operator *)

SelectDevice(d, aged) ==
  /\ Contains(Loaded(devices), d) /\ selected # d
  /\ selected' = d
  /\ MountDevice(d, range, aged)
  /\ moves < MaxMoves /\ moves' = moves + 1
  /\ UNCHANGED <<serverVars, devices, range, selectedKey, trouble>>

\* onRangeChange
SelectRange(r, aged) ==
  /\ range # r
  /\ range' = r
  /\ history' = IF Contains(Loaded(devices), selected)
                THEN [history EXCEPT ![selected][r] =
                        getDeviceMetricsHistory(selected, r, Mount(@, aged))]
                ELSE history
  /\ moves < MaxMoves /\ moves' = moves + 1
  /\ UNCHANGED <<serverVars, devices, latest, selected, selectedKey, trouble>>

\* A row of the legend.
SelectMetric(d) ==
  /\ Shows(d)
  /\ LET series == TrendOf(d, range).series
     IN  \E i \in DOMAIN series : selectedKey' = series[i].key
  /\ UNCHANGED <<serverVars, devices, latest, history, selected, range, bounds>>

-----------------------------------------------------------------------------
(* The queries: a poll that would bring what the page has is left out *)

PollDevices ==
  /\ devices.fetch = Idle /\ Loaded(devices) # listed
  /\ devices' = Answer(Ask(devices), listed)
  /\ UNCHANGED <<serverVars, latest, history, pageVars, bounds>>

\* The effect of the page: a device that is not in the list gives way to the
\* first one that is.
DevicesArrive(aged) ==
  /\ devices.fetch.at = "answered"
  /\ devices' = Arrive(devices)
  /\ LET list == devices.fetch.data
         d == IF Contains(list, selected) THEN selected ELSE Head(list)
     IN  /\ selected' = d
         /\ IF Shows(d) THEN UNCHANGED <<latest, history>> ELSE MountDevice(d, range, aged)
  /\ UNCHANGED <<serverVars, range, selectedKey, bounds>>

PollLatest(d) ==
  /\ Shows(d) /\ latest[d].fetch = Idle /\ latest[d].data # FindLatestByDevice(d)
  /\ latest' = [latest EXCEPT ![d] = getDeviceMetrics(d, Ask(@))]
  /\ UNCHANGED <<serverVars, devices, history, pageVars, bounds>>

LatestArrives(d) ==
  /\ latest[d].fetch.at = "answered"
  /\ latest' = [latest EXCEPT ![d] = Arrive(@)]
  /\ UNCHANGED <<serverVars, devices, history, pageVars, bounds>>

PollHistory(d) ==
  /\ Shows(d) /\ history[d][range].fetch = Idle
  /\ history[d][range].data # FindByDevice(d, RangeStart(range))
  /\ history' = [history EXCEPT ![d][range] = getDeviceMetricsHistory(d, range, Ask(@))]
  /\ UNCHANGED <<serverVars, devices, latest, pageVars, bounds>>

\* mutant: what arrives is taken for what is on screen
HistoryArrivesOnScreen(d, r) ==
  /\ history[d][r].fetch.at = "answered" /\ selected # Unset
  /\ history' = [history EXCEPT ![selected][range].data = history[d][r].fetch.data,
                                ![d][r].fetch = Idle]
  /\ UNCHANGED <<serverVars, devices, latest, pageVars, bounds>>

HistoryArrives(d, r) ==
  /\ history[d][r].fetch.at = "answered"
  /\ history' = [history EXCEPT ![d][r] = Arrive(@)]
  /\ UNCHANGED <<serverVars, devices, latest, pageVars, bounds>>

\* A request or an answer is lost, or the server answers with an error.
FetchLost ==
  /\ trouble < MaxTrouble /\ trouble' = trouble + 1
  /\ \/ /\ devices.fetch # Idle
        /\ devices' = GiveUp(devices) /\ UNCHANGED <<latest, history>>
     \/ \E d \in DeviceSet :
          /\ latest[d].fetch # Idle
          /\ latest' = [latest EXCEPT ![d] = GiveUp(@)] /\ UNCHANGED <<devices, history>>
     \/ \E d \in DeviceSet, r \in DOMAIN Ranges :
          /\ history[d][r].fetch # Idle
          /\ history' = [history EXCEPT ![d][r] = GiveUp(@)] /\ UNCHANGED <<devices, latest>>
  /\ UNCHANGED <<serverVars, pageVars, moves>>

\* The times that clocks and delays give a reading.
Stamps == {t \in 0..now + MaxSkew : now <= t + MaxSkew}

ServerStep ==
  \/ Tick
  \/ \E d \in DeviceSet, time \in Stamps : \E type \in ReportedTypes[d] : Ingest(d, type, time)
  \/ \E d \in DeviceSet : DeleteDevice(d)
  \/ now > Retention /\ DeleteBefore(now - Retention)

OperatorStep ==
  \/ \E d \in DeviceSet, aged \in BOOLEAN : SelectDevice(d, aged)
  \/ \E r \in DOMAIN Ranges, aged \in BOOLEAN : SelectRange(r, aged)
  \/ \E d \in DeviceSet : SelectMetric(d)

MetricsNext ==
  \/ ServerStep \/ OperatorStep
  \/ PollDevices \/ (\E aged \in BOOLEAN : DevicesArrive(aged))
  \/ \E d \in DeviceSet : PollLatest(d) \/ LatestArrives(d) \/ PollHistory(d)
  \/ \E d \in DeviceSet, r \in DOMAIN Ranges : HistoryArrives(d, r)
  \/ FetchLost

-----------------------------------------------------------------------------
(* Properties *)

\* As long as the reading that a card shows is stored, the card never goes back
\* to an older one of the same type, nor to none, although batches arrive late
\* and in any order and the archiver deletes others (FindLatestByDevice, the
\* cache of useDeviceMetrics, and normalizeMetricDictionary).
CardNeverOlder ==
  [][\A d \in DeviceSet : latest'[d].data # latest[d].data =>
       LET old == CardsOf(d)
           new == CardsOf(d)'
       IN  \A i \in DOMAIN old :
             old[i].shown # NotReporting /\ old[i].shown.value \notin gone' =>
               /\ new[i].shown # NotReporting
               /\ new[i].shown.type = old[i].shown.type => new[i].shown.time >= old[i].shown.time]_metricsVars

\* The tiers that the page shows with what a computer reports are those by which
\* the server fires, for each reading that the server has a rule for: the tables
\* of lib/metrics.ts and service/alarm.go are kept by hand.
ThresholdsAgree ==
  \A d \in DeviceSet : Shows(d) /\ getProfileKey(DeviceType[d]) = "compute" =>
    LET profile == ProfileOf(DeviceType[d])
    IN  \A i \in DOMAIN profile : \A type \in Types \cap Range(profile[i].aliases) :
          profile[i].thresholds = RuleOf(type)

\* The curve is drawn of readings alone, stored now or when they were asked for,
\* the right device's and metric's, each
\* at its time, and of the answer it has it leaves out only what is older than
\* the range reckoned from the newest: the curve that buildMetricTrend makes up
\* where there is no history is never on screen.
ChartIsMeasured ==
  \A d \in DeviceSet :
    LET trend == TrendOf(d, range)
        profile == ProfileOf(DeviceType[d])
        points == visiblePoints(trend, Ranges[range])
        key == activeSelectedKey(trend, selectedKey)
        Measures(row) == \E i \in DOMAIN profile :
                           profile[i].key = key /\ Reports(profile[i], row.type)
        rows == Range(Loaded(history[d][range]))
        Newest(time) == \A row \in rows : row.time <= time
    IN  Shows(d) /\ trend.series # <<>> =>
          /\ \A time \in DOMAIN points : key \in DOMAIN points[time] =>
               \E row \in Taken(d) :
                 /\ Measures(row)
                 /\ row.time = time /\ row.value = points[time][key]
          /\ \A row \in rows :
               Measures(row) /\ Newest(row.time + Ranges[range]) =>
                 row.time \in DOMAIN points /\ key \in DOMAIN points[row.time]
==============================================================================
