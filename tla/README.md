# Verification of SentryNet

SentryNet collects metrics of servers, printers and network devices, raises
alarms when they leave their normal range, and escalates alarms to incidents,
tickets and problems, which operators work on in a dashboard. This directory holds
TLA+ models of its backend (Go) and of its dashboard (React), the TLC
configurations that check them on small instances, and proofs that TLAPS checks.
Line numbers of the backend refer to `src/internal/service/alarm.go` where no file is
named, and files of the dashboard to `src/dashboard-frontend/src`.

To check a model: `tlc -config TicketDesk.cfg TicketStatus`; to check the proofs:
`tlapm TicketStatusProofs.tla`. `PROJECT.json` lists the runs, maps every
definition to its lines, and lists the hazards and the theorems.

## The system

    agent (Python) ----metrics, heartbeats----+
                                              v
    monitor (Python) --metrics, heartbeats--> ingest API --> device registry
                                              |                  ^
                                              v                  |  offline worker
                                         breach tracker          |  (every minute)
                                              |
                     one goroutine for each firing or closing
                                              v
     operators --HTTP--> alarm -> incident -> ticket -> problem  (PostgreSQL)
         |                                    ^
         |     SLA checker, metric archiver (workers)
         v
     dashboard: pages -> query cache (TanStack Query) -> services/api.ts -> HTTP

The server is a Go program: HTTP handlers run concurrently, each batch of
metrics is evaluated in a goroutine of its own, each alarm is created or closed in
a goroutine of its own, and three workers run beside them. No handler opens a
transaction: every SQL statement commits by itself. Redis caches the label of a
device for five minutes. The dashboard is a program of one thread whose callbacks
interleave: pages read the API through a cache, poll it every 30 seconds, change the
cache before the server answers, and roll back when it refuses.

| component | state | operations | what makes it hard | what makes it correct |
|---|---|---|---|---|
| **Escalation chain** `service/alarm.go`, `repository/alarm.go` | tables of alarms, incidents, tickets, problems and ticket updates | `createOrEscalate` (find, escalate, number, insert, link; incident; ticket; problem), `closeAlarmByName` with its cascade, `SetInProgress`, `Close`, `CloseIncident`, `CloseProblem`, `UpdateTicketStatus` | up to twelve statements without a transaction; whole-row updates from copies; numbers from `COUNT(*)`; unordered goroutines; restarts | the chain complete and closed together, numbers in sequence, duplicates that do not pile up, occurrences counted at most once, every handler returns |
| **Threshold rules** (l.26-122), `lib/metrics.ts` | none | the rule of a metric type, kept twice | inverse rules, thresholds met exactly, two copies | the tiers that are shown are the tiers that fire |
| **Breach tracker** (l.157-311) | `breachTracker` in memory, the cached label | `EvaluateMetrics`, `evaluateMetric`, `evaluatePortStatus`, `evaluateToner`, `deviceLabel` | time, several tiers with one timer, goroutines in any order, stale labels, lost memory | an alarm neither before its Duration nor never; closed for good when normal for good |
| **Device registry** `service/device.go`, `handler/ingest.go`, `checkOfflineDevices` | the devices table, the worker's list | `EnsureDevice`, `Ingest`, `ProcessHeartbeat`, `Create`, `Update`, `Delete`, `checkOfflineDevices` | find-then-insert races, whole-row updates, last_seen against a tick | nothing measured of no device, the silent go offline |
| **Metric archiver** `service/metric_archiver.go`, `repository/metric_aggregate.go` | raw metrics, daily summaries, the ticker | `runOnce`: INSERT ... SELECT, then DELETE | failure or restart between the two, late samples, the boundary of the day | nothing recent deleted, nothing deleted without a trace, nothing kept for ever |
| **SLA checker** `service/sla.go` | none: it reads tickets and writes a log | `CheckBreaches` | two vocabularies for "closed" | (not modelled) |
| **Groups and ticket workers** `service/group.go`, `handler/group.go`, `repository/group.go` | groups, employees, workers of tickets | assign, unassign, move, rename, delete | checks before the write, in statements of their own | nothing refers to a deleted row |
| **Accounts** `service/auth.go`, `lib/storage.ts`, `ProfilePage`, `Login`, `Register`, `PrivateRoute` | users; localStorage; chosen roles | `Register`, `Login`, `UpdateMe`, `UpdateUserRole`, logout, the list of users | overlapping logins, whole-row updates, answers to pages that are gone | no role shown that never was |
| **Ticket status** `useOperations`, `useUpdateTicketStatusMutation`, `TicketStatusEditor` | the cached list, the mutations under way, the open menu | poll, change, roll back, settle | optimistic rows, overlapping changes, late and lost answers | at rest the page shows what the server had, nothing older than what it told, and comes to show what it has |
| **Ticket notes** `useTicketNotes`, `useCreateTicketNoteMutation`, `TicketNotesComposer` | the cached notes, the posts under way, the draft | open, post, roll back, settle | no polling: what is wrong stays | no phantom, double or missing note in an open popup |
| **Groups page** `GroupsPage` and its mutations | two cached lists, two forms, two dialogs | create and delete of groups and employees | forms over lists that change, cascades at the server | created as shown; what was deleted stays away |
| **Metrics page** `MetricsPage`, `lib/metrics.ts`, `MetricTrendChart` | three kinds of cache entries, device, range and metric picked | poll, pick, cards, curve | late batches, readings that the archiver deletes, answers for a device that was left, a curve made up without history | cards never go back, the curve is measured |
| **Dashboard and queue charts** `Dashboard`, `lib/charts.ts`, `lib/dashboard.ts` | overview and list of different moments | counts of devices and records | two sources for one chart | every record counted once |
| **Network monitor** `monitor/monitor.py` | failure counter and offline flag for each address | one loop: refresh, ping, heartbeat, metrics | lost requests, a request without a timeout | (not modelled) |
| **Host agent** `agent/main.py`, `sender.py` | the time of the last heartbeat | one loop: heartbeat, metrics; one retry | duplicates after a timeout | (not modelled) |
| **Agent control panel** `agent/agent_gui.py` | the PID file | start, stop | a stale PID | (not modelled) |
| **Server start, router, configuration; schema and seed** | none | wiring | | (constraints are guards of the modules) |

The hazards of each, with the line where it bites and the properties that guard
it, are under `hazards` in `PROJECT.json`.

## The modules: the backend

### AlarmEscalation (`MCAlarmEscalation` for TLC)

`alarms`, `incidents`, `tickets`, `problems` are sequences of rows in the order of
insertion, since nothing deletes a row; a row's id is its position. `updates[t]` is
the audit log of ticket `t`. A goroutine or a handler of an operator is `h[p]`: a
program counter, and the copies of the rows that it read. **One action is one SQL
statement**, so every interleaving that the database allows is a behaviour, and a
statement that updates a row writes the whole copy, as `Update` of the
repositories does. The actions' names begin with the function: `Ce` createOrEscalate,
`In` createIncidentAndTicket, `Tk` createTicket, `Pb` createOrUpdateProblem, `Au`
appendTicketUpdate, `Cl` closeAlarmByName and closeIncidentsByAlarm, `Sy`
syncTicketClosed, `Ip`, `Cp`, `Ut` the second statements of `SetInProgress`,
`CloseProblem` and `UpdateTicketStatus`. Every statement may return an error (`ok`
is FALSE), and the handler then does what the code does: it returns, goes on, or
drops the error. `Restart` empties the handlers and keeps the tables.

The first read of an operator's handler (by id) is part of the request's action: it
changes nothing, and a handler that fails there has not happened. Descriptions,
hyperlinks, dates of submission, groups and assigned persons are left out;
`close_date` is the Boolean `dated`.

### MetricRules and BreachTracker (`MCBreachTracker` binds the code's tables)

`MetricRules` holds the tables as they are in the code, in minutes. `BreachTracker`
evaluates the readings of one device. The label and the tier are worked out before
`breachMu` is taken (l.268-285), what follows holds it to its end (l.285-310), and each
part is atomic: `LookUp` is an evaluation that has its label and waits, so that a reading
may use a label older than the latest. `tracker[m]` is the tier reached and how long
ago; `alarms[m][l]` the active alarm of metric `m` named after label `l`. `deviceLabel`
is a choice between the cached label, the one in the database, and, when the lookup
fails, the id. A goroutine that a reading starts (l.226, 241, 291, 310) is a job in the
bag `work`: it lands (`Work`) in any order with the others and with later readings, or
fails (`Fail`), or is lost with the server (`Restart`). What it does to the tables
is reduced here to its promise (create or raise by name, or close), whose statements
`AlarmEscalation` examines. `Rename`, `Expire`, `Close` and `Restart` are the
environment. `reports` is what the agent of the device reports. `last`, `run`, `fired`,
`silence` are history.

### DeviceRegistry

As in AlarmEscalation an action is a statement and `h[p]` a request: contacts of
agents (`Find`, `Upgrade`, `Create`, `Store`, `Beat`), administrators (`Get`, `Put`,
`Check`, `Delete`, and `AdminCreate`, a single statement), the worker (`FindStale`,
`MarkOffline`), and the archiver's deletion of the last measurements of a device.
The UNIQUE address and the reference from metrics to devices are guards. The
reference is the one of `Migrate` (`postgres.go:88`), which refuses to delete a
device with measurements; `migrations/001_init.sql:35` declares ON DELETE CASCADE
instead, and that is what `MetricsPage` assumes. Time is the age of `last_seen`, in
minutes up to the timeout; copies in handlers age too.

### MetricArchiver

The samples of one device and type, each a timestamp in slots, `Day` of them in a
day. `Insert` is INSERT ... SELECT ... ON CONFLICT DO NOTHING, `Delete` the DELETE
with the same cutoff, and samples may arrive in between, as old or as far ahead as their
clients say (`handler/ingest.go:130` takes any timestamp). `base` and `fresh` are history:
since when a sample is both stored and old, and what came between the statements. The ticker starts after
the first run and keeps one tick, as Go's does. The database is assumed to be set
up with `migrations/001_init.sql`: l.4 creates the extension that
`uuid_generate_v4` of `metric_aggregate.go:22` needs and `Migrate` does not.

### TicketWorkers (`MCTicketWorkers` binds names that differ in case)

`groups[g]` is the name of a group, `employees[e]` a row, both None once deleted;
`workers` is the table `ticket_workers`. A request is `h[p]`; the read that it
begins with is part of its action (`Ask...`), and then each statement is an action:
`PutGroup`, `DeleteGroup` with its cascade, `InsertEmployee`, `NewGroup` and
`PutEmployee`, `DeleteEmployee`, `MatchGroup` and `Assign`. UNIQUE, REFERENCES and ON
DELETE CASCADE are operators that the statements use. Names are compared after
`Fold`, as `EqualFold` does, but are UNIQUE as they are written. The tables start as
any that satisfy the constraints. The group of a ticket comes from a rule (l.45 and
on) and never changes, so it is a constant.

## The modules: the dashboard

### QueryCache

One entry of the cache of TanStack Query 5, a library outside the repository: the
data, the fetch under way (asked, then answered with what the server had when it
answered), and the marks `failed` and `invalid`. Its operators are the calls that
`hooks/useDashboardData.ts` makes (`cancelQueries`, `setQueryData`,
`invalidateQueries`, a component that mounts, `refetchInterval`) and what becomes of a
fetch. A server reads when it answers, and the answer takes any time after that, so
that whatever is changed in between is missing from it.

### TicketBoard and TicketStatus

`TicketBoard` is the abstract specification: tickets with all their past states, what
the page was told (`known`), and what it shows, which is `Unsure` or exactly the
rows of `known`. `TicketStatus` is the code: polls, the menu of
`TicketStatusEditor`, the mutation with `onMutate`, `onSuccess`, `onError` and
`onSettled`, requests and answers that are lost, other writers, and a page that is
left, kept by the router or built anew. It implements the board under the mapping
`known <- acked` and `shown <-` the cached rows when the page is at rest (nothing under
way, no failure, no mark). What a row had is `log[t]`; a row carries
`last_modified_date`, counted. `onMutate` is one action, because only microtasks run
between its `await cancelQueries` and `setQueryData`.

### TicketNotes

The notes of one ticket: the popup, which may be closed while a post is under way,
the row of the table that is unmounted while the page stays, the draft, the fetch and
the posts. Notes are their place in the order of `created_at`, optimistic ones
negative. The schema refuses the answer for a ticket without notes (see the
differences below), which `NotesRefused` does. It is the page of `TicketStatus`, but the
two share no state: the names differ, so that one module of proofs extends both.

### GroupsConsole

The page of groups and employees: both lists, both forms (`AddGroupModal`,
`AddEmployeeModal`), both dialogs, and the four mutations. At the server a request is
one action here; its statements are in `TicketWorkers`. The form of an employee keeps the
id it was opened with, `ShownGroups` is what its select may show, and after an `await`
the callback of the page closes what is open by then.

### Accounts

The table of users, `localStorage`, the login and registration pages, logout, and the
page of profiles with its list of users, chosen roles and saves. A request that
changes a row is two actions at the server (`ServerReads`, `ServerWrites`), since
`UpdateMe` and `UpdateUserRole` write the whole row they have read. A password is the
number of its change; `held` is history.

### Lists, MetricViews, MetricsPage, Dashboard and Views (`MCViews` for TLC)

`Lists` has what JavaScript's arrays and objects do for the pages: `filter`, `sort`, and
the assignment to a key, from which every `reduce` is made. Each is a recursive function on
the places of a list or a choice, never a RECURSIVE operator, so that the proofs may unfold it.
`MetricViews` has the pure functions of `lib/metrics.ts`: profiles and thresholds,
cards, the points and series of the curve. `MetricsPage` adds the device and range
in the address, the three kinds of queries with a cache entry for each device and range,
agents whose batches come late or with a clock that is ahead, and the archiver's DELETE on
the same table, the newest reading of a type included (`gone` are the readings deleted). `Dashboard` has the
counts of `lib/charts.ts` and the fleet chart of an overview and a list that are
fetched by themselves. `Views` composes them: the operator stays on one page, the
entry of the devices is read by two.

## The runs

| run | instance | what it shows |
|---|---|---|
| `AlarmSequential` | 2 names, Low and High, 1 handler at a time, 5 requests, 1 error, 1 restart, fair | Without races the chain keeps its word. In spite of errors and a restart: handlers return, and a lookup that fails costs one open problem at most. Without errors: each incident has its ticket, closing closes all, problems count each recurrence once |
| `AlarmConcurrent` | 1 name, 2 handlers, 4 requests, 1 error, 1 restart | What the races leave intact: numbers without gap or duplicate, at most one incident for an alarm and only if it is High still, problems are recurrences and count none twice, and no more active alarms of a name than handlers run at once |
| `BreachTimers` | latency with its three tiers, or a port, a reading at least every minute, 2 labels, lookups that fail, 3 goroutines at work, restarts, fair; a device with one of the two has no events of the other (`OthersAreQuiet`) | An alarm fires only after a whole Duration of breach, and a breach that lasts does fire. A port that stays up has its alarm closed for good in the end, however late a fire lands and although closes fail |
| `Registry` | 1 address, 2 handlers, 3 requests, 1 error, fair | A silent device is marked offline in the end, in spite of an error and of stale copies |
| `ArchiverSafety` | 2 slots a day, retention 1 day, 8 slots, 3 samples, late or ahead by up to 4 slots, twice the retention, 1 error, 1 restart | What is recent is raw, what a run deletes and could see leaves a trace, and nothing stays for more than a day beyond its time |
| `WorkersConcurrent` | 3 names of which two differ in case, up to 2 groups and 2 employees at the start, a ticket with a group and one without, 2 handlers, 3 requests, 1 error | No race leaves a worker without an employee or an employee without a group |
| `TicketDesk` | 2 tickets, 2 statuses, 2 changes, 1 write of another, 1 failure, fair | The tickets page implements `TicketBoard`; it comes to show what the server has; changes of one ticket overlap only in the known way |
| `TicketNotes` | 3 posts, 1 note of another, the row built twice, 1 failure | An open popup at rest shows a list that the database had, with all notes saved in front of it |
| `GroupsConsole` | 2 groups, 2 employees, 2 requests, 2 visits, 1 change of another or failure | Employees are created in the group shown; what was deleted does not come back |
| `Accounts` | 2 users of whom 1 is registered, 2 attempts, 2 saves, 2 visits, 1 failure | Roles shown were stored |
| `Views` | a server with two sources of cpu readings and a switch, 2 readings, clock 1 ahead, a retention of 1, 2 ranges, 1 move or 1 failure (`OneEvent`); lists of up to 3 devices or records, 1 change of the fleet or failure | Cards never go back as long as their reading is stored, the curve is measured, thresholds for computers agree, charts count every record once, the fleet chart follows the list |
| `ArchiverLoss` | the archiver without lateness or errors | *Violation*: samples deleted uncounted |

Why the bounds are enough to be of interest. A recurrence with its problem takes
three requests on one name (fire, close, fire) and the close of the second incident
a fourth; the fifth is room for an operator or a second name. Races need
two handlers, since each race is between two writers of one row or one number. One
error and one restart reach every error branch at every place of the chain. In the
tracker, ages stop at `Bound`, after which a breach must have fired, so nothing is
cut off by time; three tiers give every order of crossing, and three goroutines put a
fire behind two closes or between them. `FindLimit` keeps the code's 5000. In the archiver
eight slots let a sample pass through arrival, summary and deletion and a day be met by
three runs, and a sample may be old when it comes. In `TicketDesk` the instance `MaxEdits = 3,
MaxOther = 0` was checked as well, and `MaxVisits = 2` with two changes and no other
writer; two changes of one ticket around one of another need the three. Every
number of them is covered by the theorems. Notes need three posts so that a failure
meets two that overlap. With one failure every request and every answer is lost in
some behaviour. The records of `MCViews` differ from a first
one in the fields of a chart, so a list of three has keys once, twice and three times.

Runs with CHECK_DEADLOCK FALSE are those in which the program may stop: an operator
has used up the bounded number of requests, and nothing runs.

Fairness. `AlarmEscalation!FairSpec` says that a running goroutine or handler is
scheduled and its statement is answered, with a result or an error; the connection
pool and the Go scheduler give this, and nothing is assumed about which answer
it is, or about requests. `BreachTracker!FairSpec` says that the agent goes on to report,
that goroutines run, and that of the closes and of the raises that are started for ever
not all fail (strong fairness of each kind, since each may fail). `DeviceRegistry!FairSpec`
adds the ticker of the worker and the clock. `TicketStatus!FairSpec` says that the interval of `useOperations`
fires, that the server answers what reaches it, and that callbacks run. It says nothing
of operators and other writers, and failures are bounded, so that a fair worker or
poll succeeds in the end. It does assume that no request hangs: `services/api.ts` sets
no timeout, and a request that is neither answered nor refused stops the polling of its query.

### What concurrency breaks

With two handlers at once, no error and no restart, the following is false, each time by a
trace of a few statements. These are no properties of a run: the code has nothing
that keeps them. `CloseCascades`, `EveryIncidentHasTicket` and `OccurrencesCounted` are
therefore checked with one handler only; what the runs and theorems say of any number of
handlers is how far the damage can go (`ActiveAlarmsBounded`, `OpenProblemsBounded`,
`NeverOvercounted`) and what is left intact (`NumbersSequential`, `OneIncidentPerHighAlarm`,
`ProblemsAreRecurrences`).

- One active alarm for a name: two goroutines both find none and both insert (l.321, l.361), and so for open problems (l.436, l.470).
- A condition that was resolved has no active alarm: the goroutine that closes overtakes the one that creates (l.578).
- `CloseCascades`: an alarm is closed before its creator has inserted the incident (l.366, l.499).
- Priorities only rise, and nothing closed opens again: a stale copy is written back (l.337, l.366).
- What fired has its alarm, and `EveryIncidentHasTicket`: two rows draw the same number from `COUNT(*)`; the second is refused and lost (l.361, l.570).
- `OccurrencesCounted`: two handlers raise the same count, and one occurrence is lost (l.446).
- A worker of a ticket is of the ticket's group: the employee is moved, or the group renamed, between the comparison and the assignment (`group.go:141`).
- The alarm of a metric is closed after its last normal reading, at once: its fire may land later. `RecoveredIsClosed` says that the next readings make up for it.

### Other differences between the code and its words, and behaviours of note

In the backend:

- `models/alarm.go:55` says that every new unique alarm creates an incident; only High ones do (l.370), and an alarm that is escalated to High gets none (l.337, l.368).
- `models/alarm.go:106` says that all state changes are recorded in the audit log; the error of the INSERT is dropped (l.828).
- l.27 says the value must stay at a tier for its Duration; a dip to a milder tier does not restart the timer (l.298).
- After a rename the normal reading closes another name, and the old alarm stays active (l.289, l.291). Ports are exempt.
- A heartbeat between the query for silent devices and the write that marks them is overwritten (l.618): the device is offline until its next contact.
- `service/device.go:37` says nil leaves a field unchanged; Update writes the whole row as it was read (`device.go:103`), so a concurrent change of another field is undone. `UpdateMe` and `UpdateUserRole` (`auth.go:137`, `auth.go:150`) undo each other in the same way.
- `service/device.go:116` promises registration on first contact; of two simultaneous ones the second is answered with the error of the UNIQUE address (`device.go:150`), so that an agent must come back.
- A sample older than the cutoff that arrives between the INSERT and the DELETE of the archiver (`handler/ingest.go:130` takes any timestamp) is deleted without being counted, and so is a late one whose day has a summary.
- `CreateEmployee` fails on reading the row back after it was inserted (`group.go:94`): the client is told of an error.
- l.92 says of packet loss "Thresholds aligned with the frontend metrics.ts contract."; they are 5/15/30 against 2/5/10. Latency and temperature of network devices and the response time of printers differ too; those of computers (`ThresholdsAgree`) and of toner are the same.

In the dashboard:

- An empty collection is `{"data": null}`, which `collectionEnvelopeSchema` (`lib/schemas.ts:108-113`) refuses: a ticket without notes shows an error instead of "No notes yet", and the last employee, group or device stays listed after it was deleted.
- `onError` without a previous list leaves the optimistic note (`useDashboardData.ts:171-175`) until something fetches; text typed while a note is saved is wiped (`OperationsPage.tsx:267`); a popup closed meanwhile may miss a saved note when it is opened again, as an older fetch may still be under way.
- A tickets page that was left during a change may show an older list when it is reached again, until the next poll; a roll back undoes another's acknowledged change until the list that `onSettled` asks for arrives (`useDashboardData.ts:122-126`).
- `GroupsPage`: the callbacks after an `await` close a form or dialog that was opened since (27, 68, 383-393); a rejected `mutateAsync` is caught nowhere; a form without a group shows the first one and submits nothing.
- `CustomSelect` shows its first option for a value it does not have (24-26): the type filter of the dashboard keeps hiding devices behind "All types" after the last device of its type is gone.
- Accounts: a late refusal clears a newer session (`useDashboardData.ts:202`); a role saved as "Admin" opens the pages but not `RequireRole("admin")`, although `ProfilePage.tsx:172` calls it full access; a choice made during a save is lost.
- The fleet chart without an offline device counts the unknown ones as offline too (`charts.ts:34`), and "In Progress", as the server writes it, is no stage of the funnel.
- A type that was silent for the retention period loses its newest reading to the archiver (`metric_archiver.go:74`), and its card says that it does not report.
- Cards: the first alias counts however old it is, so an old `cpu_usage` hides a fresh `snmp_cpu`; the curve mixes both; octets of a router are drawn as "Interface Utilization %".
- The curve that `buildMetricTrend` makes up (`metrics.ts:497`) is never on screen with this backend (`ChartIsMeasured`).

## The proofs

Eight modules of proofs hold for every value of the constants: any number of names,
devices, handlers, tickets, users, readings, records, requests, errors and restarts, any
tables of rules, any length of the day and of the retention. Assumed are only the named
assumptions of the modules about their constants. Each proof has an inductive
invariant (`IInv`, or a named one where a module has several), a lemma for each action or kind of step, and a theorem from which
the others follow.

`AlarmEscalationProofs` has three layers, all for any number of handlers in any overlap,
with failures and restarts. The first: `TypeCorrect` and
`NumbersAreSequential`. Neither is inductive alone. That a row written from a stale copy
keeps its number needs that the copy sits at the position its id names and that rows
never change their id or number (`TablesOK`); that a position exists in the table needs
that the copies which a handler holds at a given label are rows (`HandlersOK`). The
uniqueness of the number comes from the guard `NumberTaken`: a number drawn from
`Len + 1` is at most one more than the length at the insertion, all numbers up to the
length are taken, so a successful insertion has exactly the next one.

The second (`Lineage`): `HighAlarmsHaveOneIncident` and
`ProblemsAreAboutRecurrences`. An incident is owed only by the handler that inserted the
alarm, from the insertion to `inInsert`, and by no other for the same alarm (`OwedOnce`,
`OwedHasNone`). That its alarm is High still, in spite of writes of whole rows from stale
copies, needs that every copy of a raised alarm says High (`AlarmTrue`): it was
made after the row was inserted with that priority, and no copy lowers one. That a problem counts a recurrence needs that `isRecurring` stays true once it is
(`Recurs`: alarms are never removed or renamed).

The third (`Claims`): `ActiveAlarmsAreBounded`, `OpenProblemsAreBounded` and
`CountsAreNotExceeded`. That no more alarms of a name are active than handlers may run at
once is not inductive: a handler that found no active alarm is about to insert one, and a
handler with a stale copy is about to open a closed one again. So each handler is charged
for one row: `AlarmsClaimed` counts the rows that are active or that a handler holds a copy
of and may write back, and the handlers that are about to insert one, and the sum
stays within the number of handlers. A lookup is a claim that the handler may only make if
it found nothing, that is, when the claimed rows are those of other handlers alone.
`FindAll` reads the newest `FindLimit` rows, 5000 in the code, so an alarm that is older
than these gets a twin, and the property counts what a lookup reads. `ProblemsClaimed` is
the same for problems, and each failed statement pays for one more, since a lookup that fails
counts as "none found". `CountsPaid` lets the incidents of recurrences pay for the counts:
a problem's count, also the one in a handler's copy, and the handlers that
have yet to count an incident which is inserted already are no more than the recurrences of the
name. A stale copy then only loses counts. The sizes are those of finite sets, with the
library's theorems about cardinality. Completeness (`EveryIncidentHasTicket`,
`CloseCascades`, `OccurrencesCounted`) is false for overlapping handlers and has no theorem.

`BreachTrackerProofs`: `NoAlarmTooEarly` (for `FiredAfterBreach`),
`NoBreachUnnoticed` (for `SustainedIsFired`). The strengthening
`TimersOK` relates the timer to the history of the readings: a timer is never
older than the breach, so what fires has been in breach for its Duration; and a
timer that has not fired bounds the breach, each tier that was crossed before it
having cost at most one turn, the longest Duration and a silence. This uses that
milder tiers have no shorter Duration than the first, which `RulesAssumption`
states and the code's tables meet.

`MetricArchiverProofs`: `NothingRecentIsDeleted`, `TracesAreLeft`,
`OldSamplesAreDeleted`. The strengthening `Summarised` holds between the two statements: of all
that the DELETE will take, what did not come since the INSERT has a summary of its day; a
sample that did come in between is exempt by name (`fresh`), since the code deletes it
unseen. That nothing stays
too long needs an account of time (`Aging`): as long as no run was late, a run starts
in the first slot of a day since the start, and the age of the oldest sample, from its
arrival if it was old by then, is bounded from the last run on, with a day more for each
failed statement.

`DeviceRegistryProofs`: `TypeCorrect`, of which the reference from measurements to
devices is the part with content: a row that is written back from a stale copy
keeps its place, and a handler's id must be of a row that was once inserted (`HandlersOK`).

`TicketWorkersProofs`: `ReferencesHold`. What a check found may be deleted before the
statement that relies on it: the foreign keys refuse that statement, and the cascades leave
nothing behind.

`TicketStatusProofs`: `PageImplementsBoard` is the refinement, `Spec => Board!Spec`,
and `OverlapsExplained` the invariant. The refinement rests on two facts. An answer
that is on its way is genuine and not older than what the page was told (`FetchOK`):
this holds because whoever tells the page something newer, `onSuccess`, abandons the
fetch under way. And the rows on screen are those of the last answers unless the
entry is marked (`ShownOK`): optimistic rows and roll backs are only there while a
change is pending, and the end of a change marks the entry, on screen or not. An action
is then a change of the log, a `Learn`, a `Doubt` or a stutter of the board.

In the same module, about the notes of a ticket: `NotesAreReal` and `SavedNotesAreShown`,
the two invariants of `TicketNotes`. The invariant `NotesInv` says of an entry which is at
rest that it was not disturbed since a list of the server arrived: optimistic notes and roll
backs are there only as long as a post is under way or the entry is marked
(`NotesShownOK`), a list on its way is a list that the database had (`NotesFetchOK`), and a note
saved in front of an open popup is in it or the fetch under way will bring it
(`KeptOK`). What a post leaves in the list counts for nothing, since its end marks the entry;
of `RealNotes`, the list without its optimistic notes and a recursive function, it is therefore
enough that it is a list of notes again, which takes the induction of the sums above.

`GroupsConsoleProofs`: `CreatedInShownGroup` and `DeletedIsGone`. Both rest on the order of
ids: a group that is not in the table and not newer than the newest is gone for good
(`Gone`). A list on its way lacks nothing the page has seen except what is gone
(`NewerOK`), so that a form which keeps a group that its list lost keeps one that the
server refuses (`FormOK`). And a list that was on screen at a success lacks the
deleted rows or is marked, and so does the answer under way (`Lacks`): the fetch that
could bring them back was abandoned.

`PagesProofs` is about the pages that show and about the accounts.

The charts: `ChartsCountRecords` and `FleetIsExact`, for every list of records and every
fleet. The state is a list that grows, or an answer that once was the list (`QueueInv`,
`FleetInv`), so the proof is about the functions. Every chart is a `reduce` that counts;
`CountByCounts` says that after `i` places a key has the number of the places up to
`i` that hold it, and has no entry otherwise. `FilterKeeps` and `ByCountSorts` say
that a filter and a sort keep each entry once (that a sorted list exists at all is
an induction over the number of entries), and `ExactCounts` puts the two together. The
fleet chart has two sources: for a status of which the list has no device the overview
may fill in, and the proof shows when that adds nothing.

The metrics page: `TiersAgree`, `CardsOnlyNewer` and `CurveIsMeasured`, for any devices, ranges,
number of readings and order of their arrival. `MetricsInv` says of every entry of the
cache, and of every answer on its way, that it holds readings of its own device
(`LatestOk`, `HistoryOk`). A card goes back only if an answer is older than the one
before it; `LatestOk` says that the answer under way is `Newer` than the data: of each
type in the data that is still stored it has a reading, and none that is older than those
of the data. This is kept because readings are only added or deleted for good, `GetLatest`
picks the newest by time and not by arrival, and an entry has one fetch at a time.
A card shows the first alias that has a reading, which may change from a later alias to an
earlier one, and back only when the reading that it shows was deleted (`DictionaryOfRows`). The
curve rests on `MeasuredAt`, an invariant of the reduction: after `n` readings each
value of a point is that of one of the first `n`, of its time and metric, and each of these that
a metric reports has a value; no two metrics of a profile report one type (`Table`). That the
made-up curve never appears follows: with a series there is a reading, and so a point.

The reductions are recursive functions on numbers. That such a function is what its
equations say, and what holds of its value by induction (`Induction`, `Reduced`), is derived
from the well-foundedness of finite subsets, as in `AlarmEscalationProofs`. Assumed are
the named assumptions of the modules: that priorities are the ones of the code and that days and ages are
numbers, that the page starts with the range "1h", and `NoReadingsAssumption`, that the mark of
an entry without data is not a list of readings.

The accounts: `ShownRolesAreReal`. `CallOK` says that a role
whose write is acknowledged is in the history of its row, which only grows; `AttemptOK`
that an admitted token is of the user who asked.

## What is only model-checked, and what is not modelled

Model-checked on their instances only: all liveness (`HandlersReturn`, `RecoveredIsClosed`,
`SilentGoesOffline`, `ViewConverges`), which the proof system cannot express, and the
completeness of the chain with one handler (`CloseCascades`, `EveryIncidentHasTicket`,
`OccurrencesCounted`). Every other property of a passing run is a theorem. That the metrics page
converges as the tickets page does was tried on a smaller instance and is not a run: the
state space with fairness is too large.

Not modelled, and why:

- The network monitor, the host agent and its control panel: loops of I/O (SNMP, ping,
  posts, widgets) around a counter. What their requests do at the server is in
  `DeviceRegistry`, `BreachTracker` and `MetricsPage`, from any client, late and in any order.
- The SLA checker changes no state.
- `public/mockServiceWorker.js` is generated by a library and serves tests only.
- `GroupManagerModal` and `EmployeeManagerModal` of `GroupsPage.tsx` are never shown.
- Layout, colours, formatting, filters and sorting of tables; password hashing, signatures
  and expiry of tokens; routing, configuration, seed data.

## Plan

All modules of the plan are there: the backend's `AlarmEscalation`, `MetricRules`,
`BreachTracker`, `DeviceRegistry`, `MetricArchiver`, `TicketWorkers`; the dashboard's
`QueryCache`, `TicketBoard`, `TicketStatus`, `TicketNotes`, `GroupsConsole`, `Accounts`,
`Lists`, `MetricViews`, `MetricsPage`, `Dashboard`, `Views`. What would add most from here, in order:
an abstract alarm book that the chain with one handler implements; and the composition of
tracker and chain, so that a fire or a close is its statements.
