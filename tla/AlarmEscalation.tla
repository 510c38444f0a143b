--------------------------- MODULE AlarmEscalation ---------------------------
(***************************************************************************)
(* The escalation chain of the alarm service                               *)
(* (internal/service/alarm.go): alarm -> incident -> ticket -> problem.    *)
(*                                                                         *)
(* Every goroutine (createOrEscalate, closeAlarmByName) and every HTTP     *)
(* handler that changes the chain is a handler h[p].  The service uses no  *)
(* transaction: each SQL statement commits by itself, so one action is one *)
(* statement, and between two statements a handler holds nothing but the   *)
(* copies of the rows it read.  Update rewrites every column of the row    *)
(* from such a copy.                                                       *)
(*                                                                         *)
(* A table is a sequence of rows in the order of their insertion: nothing  *)
(* ever deletes one (the repositories' Delete has no caller), and the id   *)
(* of a row is its position.                                               *)
(***************************************************************************)
EXTENDS Naturals, Sequences, FiniteSets, Functions

CONSTANTS
  Names,              \* alarm names (compared with EqualFold in the code)
  Priorities,         \* the priorities that events carry
  RequestedStatuses,  \* the statuses operators set a ticket to
  Procs,              \* handlers that may run at the same time
  FindLimit,          \* the LIMIT of FindAll (5000 in the code)
  MaxOps,             \* bound: requests and events served
  MaxFaults,          \* bound: SQL statements that return an error
  MaxCrashes,         \* bound: restarts of the server
  None                \* no row held

Low == 1
Medium == 2
High == 3

AlarmStatuses == {"Open", "In Progress", "Closed"}

\* The statuses UpdateTicketStatus accepts.
validTicketStatuses ==
  AlarmStatuses \cup {"assigned", "in-progress", "awaiting-vendor", "mitigating",
                      "root-cause-analysis", "resolved", "closed"}

ASSUME PrioritiesAssumption == Priorities \subseteq {Low, Medium, High}
ASSUME ProcsAssumption == IsFiniteSet(Procs)
ASSUME StatusesAssumption == RequestedStatuses \subseteq validTicketStatuses
ASSUME BoundsAssumption == /\ FindLimit \in Nat \ {0}
                           /\ MaxOps \in Nat
                           /\ MaxFaults \in Nat
                           /\ MaxCrashes \in Nat

VARIABLES
  alarms, incidents, tickets, problems,  \* the tables
  updates,     \* updates[t]: the event types in the audit log of ticket t
  h,           \* h[p]: where handler p is and the copies it holds
  ops, faults, crashes                   \* how much of each bound is spent

tables == <<alarms, incidents, tickets, problems, updates>>
bounds == <<ops, faults, crashes>>
vars == <<tables, h, bounds>>

Labels == {"idle",
           "ceFind", "ceEscalate", "ceNumber", "ceInsert", "ceLink",
           "inNumber", "inInsert", "inLink",
           "tkNumber", "tkInsert", "tkAudit",
           "pbFind", "pbUpdate", "pbNumber", "pbInsert", "pbLink",
           "auFind", "auAdd",
           "clFind", "clAlarm", "clFindIncidents", "clIncident",
           "syFind", "syUpdate", "syAudit",
           "ipUpdate", "cpUpdate", "utUpdate", "utAudit"}

\* The columns of each table that the chain depends on; dated says that
\* close_date is set.
Alarm == [id: Nat, number: Nat, name: Names, status: AlarmStatuses,
          priority: {Low, Medium, High}, dated: BOOLEAN]
Incident == [id: Nat, number: Nat, alarm: Nat, status: AlarmStatuses,
             priority: {Low, Medium, High}, dated: BOOLEAN]
Ticket == [id: Nat, number: Nat, incident: Nat, status: validTicketStatuses,
           dated: BOOLEAN]
Problem == [id: Nat, number: Nat, name: Names, incident: Nat,
            status: AlarmStatuses, priority: {Low, Medium, High}, count: Nat]
Events == {"created", "status_changed", "problem_created", "closed"}

Handler == [pc: Labels,
            name: Names \cup {None}, priority: {Low, Medium, High},
            alarm: Alarm \cup {None}, toClose: SUBSET Alarm,
            incident: Incident \cup {None}, incidentsToClose: SUBSET Incident,
            ticket: Ticket \cup {None}, problem: Problem \cup {None},
            number: Nat, recurring: BOOLEAN]

Idle == [pc |-> "idle", name |-> None, priority |-> Low,
         alarm |-> None, toClose |-> {},
         incident |-> None, incidentsToClose |-> {},
         ticket |-> None, problem |-> None,
         number |-> 0, recurring |-> FALSE]

Init ==
  /\ alarms = <<>> /\ incidents = <<>> /\ tickets = <<>> /\ problems = <<>>
  /\ updates = <<>>
  /\ h = [p \in Procs |-> Idle]
  /\ ops = 0 /\ faults = 0 /\ crashes = 0

-----------------------------------------------------------------------------
Rows(table) == {table[i] : i \in DOMAIN table}

\* FindAll: the FindLimit rows submitted last.
FindAll == {alarms[i] : i \in {j \in DOMAIN alarms : j + FindLimit > Len(alarms)}}

\* The result sets are ordered by submit_date DESC: loops meet this row first.
IsNewest(row, rows) == row \in rows /\ \A other \in rows : other.id <= row.id

\* NextAlarmNumber and its siblings: COUNT(*) + 1.
NextNumber(table) == Len(table) + 1

\* The UNIQUE constraint on the number column.
NoUniqueNumber(table, number) == FALSE  \* mutant: the constraint is missing
NumberTaken(table, number) == \E i \in DOMAIN table : table[i].number = number

OpenOnly(row) == row.status = "Open"  \* mutant: In Progress is not active
IsActive(row) == row.status # "Closed"

\* The alarms of a name, as EqualFold compares them.
Matching(n) == {a \in FindAll : a.name = n}

\* Only a higher rank changes the priority of an active alarm.
Outranks(priority, a) == priority > a.priority

\* A row as the closing handlers write it.
UndatedRow(row) == [row EXCEPT !.status = "Closed"]  \* mutant: no close_date
ClosedRow(row) == [row EXCEPT !.status = "Closed", !.dated = TRUE]

Goto(p, handler) == h' = [h EXCEPT ![p] = handler]
Return(p) == Goto(p, Idle)

-----------------------------------------------------------------------------
(* createOrEscalate *)

CeFind(p, ok) ==
  LET same == Matching(h[p].name)
      active == {a \in same : IsActive(a)}
  IN
  /\ h[p].pc = "ceFind"
  /\ \/ ~ok /\ Return(p)
     \/ /\ ok
        /\ \E a \in active :
             /\ IsNewest(a, active)
             /\ IF Outranks(h[p].priority, a)
                THEN Goto(p, [h[p] EXCEPT !.pc = "ceEscalate",
                                          !.alarm = [a EXCEPT !.priority = h[p].priority]])
                ELSE Return(p)
     \/ /\ ok /\ active = {}
        /\ Goto(p, [h[p] EXCEPT !.pc = "ceNumber", !.recurring = (same # {})])
  /\ UNCHANGED tables

\* Mutant: an alarm escalated to High gets its incident then.
EscalateToIncident(p, ok) ==
  /\ h[p].pc = "ceEscalate"
  /\ alarms' = IF ok THEN [alarms EXCEPT ![h[p].alarm.id] = h[p].alarm] ELSE alarms
  /\ IF h[p].priority = High THEN Goto(p, [h[p] EXCEPT !.pc = "inNumber"]) ELSE Return(p)
  /\ UNCHANGED <<incidents, tickets, problems, updates>>

CeEscalate(p, ok) ==
  /\ h[p].pc = "ceEscalate"
  /\ alarms' = IF ok THEN [alarms EXCEPT ![h[p].alarm.id] = h[p].alarm] ELSE alarms
  /\ Return(p)
  /\ UNCHANGED <<incidents, tickets, problems, updates>>

CeNumber(p, ok) ==
  /\ h[p].pc = "ceNumber"
  /\ IF ok THEN Goto(p, [h[p] EXCEPT !.pc = "ceInsert", !.number = NextNumber(alarms)])
           ELSE Return(p)
  /\ UNCHANGED tables

CeInsert(p, ok) ==
  LET new == [id |-> Len(alarms) + 1, number |-> h[p].number, name |-> h[p].name,
              status |-> "Open", priority |-> h[p].priority, dated |-> FALSE]
  IN
  /\ h[p].pc = "ceInsert"
  /\ IF ok /\ ~NumberTaken(alarms, h[p].number)
     THEN /\ alarms' = Append(alarms, new)
          /\ Goto(p, [h[p] EXCEPT !.pc = "ceLink", !.alarm = new])
     ELSE Return(p) /\ UNCHANGED alarms
  /\ UNCHANGED <<incidents, tickets, problems, updates>>

\* The second write of the new alarm stores its hyperlink and, with it, every
\* other column; its error is dropped.
CeLink(p, ok) ==
  /\ h[p].pc = "ceLink"
  /\ alarms' = IF ok THEN [alarms EXCEPT ![h[p].alarm.id] = h[p].alarm] ELSE alarms
  /\ IF h[p].priority = High THEN Goto(p, [h[p] EXCEPT !.pc = "inNumber"]) ELSE Return(p)
  /\ UNCHANGED <<incidents, tickets, problems, updates>>

-----------------------------------------------------------------------------
(* createIncidentAndTicket and createTicket *)

InNumber(p, ok) ==
  /\ h[p].pc = "inNumber"
  /\ IF ok THEN Goto(p, [h[p] EXCEPT !.pc = "inInsert", !.number = NextNumber(incidents)])
           ELSE Return(p)
  /\ UNCHANGED tables

InInsert(p, ok) ==
  LET new == [id |-> Len(incidents) + 1, number |-> h[p].number,
              alarm |-> h[p].alarm.id, status |-> "Open",
              priority |-> h[p].alarm.priority, dated |-> FALSE]
  IN
  /\ h[p].pc = "inInsert"
  /\ IF ok /\ ~NumberTaken(incidents, h[p].number)
     THEN /\ incidents' = Append(incidents, new)
          /\ Goto(p, [h[p] EXCEPT !.pc = "inLink", !.incident = new])
     ELSE Return(p) /\ UNCHANGED incidents
  /\ UNCHANGED <<alarms, tickets, problems, updates>>

InLink(p, ok) ==
  /\ h[p].pc = "inLink"
  /\ incidents' = IF ok THEN [incidents EXCEPT ![h[p].incident.id] = h[p].incident]
                        ELSE incidents
  /\ Goto(p, [h[p] EXCEPT !.pc = "tkNumber"])
  /\ UNCHANGED <<alarms, tickets, problems, updates>>

\* createTicket returns nothing: the problem is handled whether or not there
\* is a ticket.
AlwaysProblem(handler) == [handler EXCEPT !.pc = "pbFind"]  \* mutant: isRecurring is ignored
RetryTicket(handler) ==  \* mutant: the ticket is tried again
  [handler EXCEPT !.pc = IF handler.recurring THEN "pbFind" ELSE "tkNumber"]
AfterTicket(handler) ==
  IF handler.recurring THEN [handler EXCEPT !.pc = "pbFind"] ELSE Idle

TkNumber(p, ok) ==
  /\ h[p].pc = "tkNumber"
  /\ Goto(p, IF ok THEN [h[p] EXCEPT !.pc = "tkInsert", !.number = NextNumber(tickets)]
                   ELSE AfterTicket(h[p]))
  /\ UNCHANGED tables

\* Both ticket_number and incident_id are UNIQUE.
TkInsert(p, ok) ==
  LET new == [id |-> Len(tickets) + 1, number |-> h[p].number,
              incident |-> h[p].incident.id, status |-> "Open", dated |-> FALSE]
  IN
  /\ h[p].pc = "tkInsert"
  /\ IF /\ ok /\ ~NumberTaken(tickets, h[p].number)
        /\ \A t \in Rows(tickets) : t.incident # h[p].incident.id
     THEN /\ tickets' = Append(tickets, new)
          /\ updates' = Append(updates, <<>>)
          /\ Goto(p, [h[p] EXCEPT !.pc = "tkAudit", !.ticket = new])
     ELSE Goto(p, AfterTicket(h[p])) /\ UNCHANGED <<tickets, updates>>
  /\ UNCHANGED <<alarms, incidents, problems>>

ReplaceUpdates(ticket, event, ok) ==  \* mutant: the log keeps the last entry
  updates' = IF ok THEN [updates EXCEPT ![ticket.id] = <<event>>] ELSE updates
AddUpdate(ticket, event, ok) ==
  updates' = IF ok THEN [updates EXCEPT ![ticket.id] = Append(@, event)] ELSE updates

TkAudit(p, ok) ==
  /\ h[p].pc = "tkAudit"
  /\ AddUpdate(h[p].ticket, "created", ok)
  /\ Goto(p, AfterTicket(h[p]))
  /\ UNCHANGED <<alarms, incidents, tickets, problems>>

-----------------------------------------------------------------------------
(* createOrUpdateProblem and appendTicketUpdate *)

\* FindOpenByAlarmName.
ClosedProblems(n) == {q \in Rows(problems) : q.name = n /\ ~IsActive(q)}  \* mutant: inverted
OpenProblems(n) == {q \in Rows(problems) : q.name = n /\ IsActive(q)}

\* The found problem takes the new incident, counts it, and keeps the higher
\* priority.
Uncounted(q, handler) ==  \* mutant: the occurrence is not counted
  [q EXCEPT !.incident = handler.incident.id]
Recurred(q, handler) ==
  [q EXCEPT !.count = @ + 1,
            !.incident = handler.incident.id,
            !.priority = IF handler.alarm.priority > @ THEN handler.alarm.priority ELSE @]

\* The lookup has no ORDER BY: any open problem of the name may be the row it
\* returns.  An error is treated as "none found".
PbFind(p, ok) ==
  /\ h[p].pc = "pbFind"
  /\ \/ /\ ok
        /\ \E q \in OpenProblems(h[p].alarm.name) :
             Goto(p, [h[p] EXCEPT !.pc = "pbUpdate", !.problem = Recurred(q, h[p])])
     \/ /\ ~ok \/ OpenProblems(h[p].alarm.name) = {}
        /\ Goto(p, [h[p] EXCEPT !.pc = "pbNumber"])
  /\ UNCHANGED tables

PbUpdate(p, ok) ==
  /\ h[p].pc = "pbUpdate"
  /\ IF ok THEN /\ problems' = [problems EXCEPT ![h[p].problem.id] = h[p].problem]
                /\ Goto(p, [h[p] EXCEPT !.pc = "auFind"])
           ELSE Return(p) /\ UNCHANGED problems
  /\ UNCHANGED <<alarms, incidents, tickets, updates>>

PbNumber(p, ok) ==
  /\ h[p].pc = "pbNumber"
  /\ IF ok THEN Goto(p, [h[p] EXCEPT !.pc = "pbInsert", !.number = NextNumber(problems)])
           ELSE Return(p)
  /\ UNCHANGED tables

PbInsert(p, ok) ==
  LET new == [id |-> Len(problems) + 1, number |-> h[p].number, name |-> h[p].alarm.name,
              incident |-> h[p].incident.id, status |-> "Open",
              priority |-> h[p].alarm.priority, count |-> 1]
  IN
  /\ h[p].pc = "pbInsert"
  /\ IF ok /\ ~NumberTaken(problems, h[p].number)
     THEN /\ problems' = Append(problems, new)
          /\ Goto(p, [h[p] EXCEPT !.pc = "pbLink", !.problem = new])
     ELSE Return(p) /\ UNCHANGED problems
  /\ UNCHANGED <<alarms, incidents, tickets, updates>>

PbLink(p, ok) ==
  /\ h[p].pc = "pbLink"
  /\ problems' = IF ok THEN [problems EXCEPT ![h[p].problem.id] = h[p].problem]
                       ELSE problems
  /\ Goto(p, [h[p] EXCEPT !.pc = "auFind"])
  /\ UNCHANGED <<alarms, incidents, tickets, updates>>

TicketsOf(incident) == {t \in Rows(tickets) : t.incident = incident.id}

\* Mutant: without a ticket the problem is handled again.
RetryProblem(p, ok) ==
  /\ h[p].pc = "auFind"
  /\ \/ ok /\ \E t \in TicketsOf(h[p].incident) :
                Goto(p, [h[p] EXCEPT !.pc = "auAdd", !.ticket = t])
     \/ /\ ~ok \/ TicketsOf(h[p].incident) = {}
        /\ Goto(p, [h[p] EXCEPT !.pc = "pbFind"])
  /\ UNCHANGED tables

AuFind(p, ok) ==
  /\ h[p].pc = "auFind"
  /\ \/ ok /\ \E t \in TicketsOf(h[p].incident) :
                Goto(p, [h[p] EXCEPT !.pc = "auAdd", !.ticket = t])
     \/ (~ok \/ TicketsOf(h[p].incident) = {}) /\ Return(p)
  /\ UNCHANGED tables

AuAdd(p, ok) ==
  /\ h[p].pc = "auAdd"
  /\ AddUpdate(h[p].ticket, "problem_created", ok)
  /\ Return(p)
  /\ UNCHANGED <<alarms, incidents, tickets, problems>>

-----------------------------------------------------------------------------
(* closeAlarmByName, closeIncidentsByAlarm and syncTicketClosed *)

\* The next iteration of the two nested loops, or the return.
NextToClose(handler) ==
  IF handler.incidentsToClose # {} THEN [handler EXCEPT !.pc = "clIncident"]
  ELSE IF handler.toClose # {} THEN [handler EXCEPT !.pc = "clAlarm"]
  ELSE Idle

ClFind(p, ok) ==
  LET open == {a \in Matching(h[p].name) : IsActive(a)}
  IN
  /\ h[p].pc = "clFind"
  /\ IF ok THEN Goto(p, NextToClose([h[p] EXCEPT !.toClose = open])) ELSE Return(p)
  /\ UNCHANGED tables

ClAlarm(p, ok) ==
  /\ h[p].pc = "clAlarm"
  /\ \E a \in h[p].toClose :
       LET closed == ClosedRow(a)
           rest == [h[p] EXCEPT !.toClose = @ \ {a}, !.alarm = closed]
       IN /\ IsNewest(a, h[p].toClose)
          /\ IF ok THEN /\ alarms' = [alarms EXCEPT ![a.id] = closed]
                        /\ Goto(p, [rest EXCEPT !.pc = "clFindIncidents"])
                   ELSE Goto(p, NextToClose(rest)) /\ UNCHANGED alarms
  /\ UNCHANGED <<incidents, tickets, problems, updates>>

ClFindIncidents(p, ok) ==
  LET open == {i \in Rows(incidents) : i.alarm = h[p].alarm.id /\ IsActive(i)}
  IN
  /\ h[p].pc = "clFindIncidents"
  /\ Goto(p, NextToClose(IF ok THEN [h[p] EXCEPT !.incidentsToClose = open] ELSE h[p]))
  /\ UNCHANGED tables

ClIncident(p, ok) ==
  /\ h[p].pc = "clIncident"
  /\ \E i \in h[p].incidentsToClose :
       LET closed == ClosedRow(i)
           rest == [h[p] EXCEPT !.incidentsToClose = @ \ {i}, !.incident = closed]
       IN /\ IsNewest(i, h[p].incidentsToClose)
          /\ IF ok THEN /\ incidents' = [incidents EXCEPT ![i.id] = closed]
                        /\ Goto(p, [rest EXCEPT !.pc = "syFind"])
                   ELSE Goto(p, NextToClose(rest)) /\ UNCHANGED incidents
  /\ UNCHANGED <<alarms, tickets, problems, updates>>

SyFind(p, ok) ==
  /\ h[p].pc = "syFind"
  /\ \/ /\ ok
        /\ \E t \in TicketsOf(h[p].incident) :
             Goto(p, [h[p] EXCEPT !.pc = "syUpdate",
                                  !.ticket = ClosedRow(t)])
     \/ (~ok \/ TicketsOf(h[p].incident) = {}) /\ Goto(p, NextToClose(h[p]))
  /\ UNCHANGED tables

SyUpdate(p, ok) ==
  /\ h[p].pc = "syUpdate"
  /\ IF ok THEN /\ tickets' = [tickets EXCEPT ![h[p].ticket.id] = h[p].ticket]
                /\ Goto(p, [h[p] EXCEPT !.pc = "syAudit"])
           ELSE Goto(p, NextToClose(h[p])) /\ UNCHANGED tickets
  /\ UNCHANGED <<alarms, incidents, problems, updates>>

SyAudit(p, ok) ==
  /\ h[p].pc = "syAudit"
  /\ AddUpdate(h[p].ticket, "closed", ok)
  /\ Goto(p, NextToClose(h[p]))
  /\ UNCHANGED <<alarms, incidents, tickets, problems>>

-----------------------------------------------------------------------------
(* The second statement of the operators' handlers *)

IpUpdate(p, ok) ==
  /\ h[p].pc = "ipUpdate"
  /\ alarms' = IF ok THEN [alarms EXCEPT ![h[p].alarm.id] = h[p].alarm] ELSE alarms
  /\ Return(p)
  /\ UNCHANGED <<incidents, tickets, problems, updates>>

CpUpdate(p, ok) ==
  /\ h[p].pc = "cpUpdate"
  /\ problems' = IF ok THEN [problems EXCEPT ![h[p].problem.id] = h[p].problem]
                       ELSE problems
  /\ Return(p)
  /\ UNCHANGED <<alarms, incidents, tickets, updates>>

UtUpdate(p, ok) ==
  /\ h[p].pc = "utUpdate"
  /\ IF ok THEN /\ tickets' = [tickets EXCEPT ![h[p].ticket.id] = h[p].ticket]
                /\ Goto(p, [h[p] EXCEPT !.pc = "utAudit"])
           ELSE Return(p) /\ UNCHANGED tickets
  /\ UNCHANGED <<alarms, incidents, problems, updates>>

UtAudit(p, ok) ==
  /\ h[p].pc = "utAudit"
  /\ AddUpdate(h[p].ticket, "status_changed", ok)
  /\ Return(p)
  /\ UNCHANGED <<alarms, incidents, tickets, problems>>

-----------------------------------------------------------------------------
(* What starts a handler *)

\* IngestEvent and the evaluation of a metric: go createOrEscalate(...).
Fire(p, n, priority) ==
  /\ Goto(p, [Idle EXCEPT !.pc = "ceFind", !.name = n, !.priority = priority])
  /\ UNCHANGED tables

\* ... and go closeAlarmByName(...).
Resolve(p, n) ==
  /\ Goto(p, [Idle EXCEPT !.pc = "clFind", !.name = n])
  /\ UNCHANGED tables

\* The operators' handlers read the row by its id first; what the request may
\* not do, and a failed read, end there.
SetInProgress(p, a) ==
  /\ a.status = "Open"
  /\ Goto(p, [Idle EXCEPT !.pc = "ipUpdate", !.alarm = [a EXCEPT !.status = "In Progress"]])
  /\ UNCHANGED tables

Close(p, a) ==
  /\ IsActive(a)
  /\ Goto(p, [Idle EXCEPT !.pc = "clAlarm", !.toClose = {a}])
  /\ UNCHANGED tables

CloseIncident(p, i) ==
  /\ IsActive(i)
  /\ Goto(p, [Idle EXCEPT !.pc = "clIncident", !.incidentsToClose = {i}])
  /\ UNCHANGED tables

CloseProblem(p, q) ==
  /\ IsActive(q)
  /\ Goto(p, [Idle EXCEPT !.pc = "cpUpdate", !.problem = [q EXCEPT !.status = "Closed"]])
  /\ UNCHANGED tables

UpdateTicketStatus(p, t, status) ==
  /\ status \in validTicketStatuses
  /\ Goto(p, [Idle EXCEPT !.pc = "utUpdate", !.ticket = [t EXCEPT !.status = status]])
  /\ UNCHANGED tables

Request(p) ==
  /\ h[p].pc = "idle"
  /\ ops < MaxOps
  /\ ops' = ops + 1
  /\ UNCHANGED <<faults, crashes>>
  /\ \/ \E n \in Names, priority \in Priorities : Fire(p, n, priority)
     \/ \E n \in Names : Resolve(p, n)
     \/ \E a \in Rows(alarms) : SetInProgress(p, a)
     \/ \E a \in Rows(alarms) : Close(p, a)
     \/ \E i \in Rows(incidents) : CloseIncident(p, i)
     \/ \E q \in Rows(problems) : CloseProblem(p, q)
     \/ \E t \in Rows(tickets), s \in RequestedStatuses : UpdateTicketStatus(p, t, s)

\* One SQL statement of a running handler; ok is FALSE when it returns an error.
Statement(p, ok) ==
  \/ CeFind(p, ok) \/ CeEscalate(p, ok) \/ CeNumber(p, ok) \/ CeInsert(p, ok) \/ CeLink(p, ok)
  \/ InNumber(p, ok) \/ InInsert(p, ok) \/ InLink(p, ok)
  \/ TkNumber(p, ok) \/ TkInsert(p, ok) \/ TkAudit(p, ok)
  \/ PbFind(p, ok) \/ PbUpdate(p, ok) \/ PbNumber(p, ok) \/ PbInsert(p, ok) \/ PbLink(p, ok)
  \/ AuFind(p, ok) \/ AuAdd(p, ok)
  \/ ClFind(p, ok) \/ ClAlarm(p, ok) \/ ClFindIncidents(p, ok) \/ ClIncident(p, ok)
  \/ SyFind(p, ok) \/ SyUpdate(p, ok) \/ SyAudit(p, ok)
  \/ IpUpdate(p, ok) \/ CpUpdate(p, ok) \/ UtUpdate(p, ok) \/ UtAudit(p, ok)

Run(p) ==
  \E ok \in BOOLEAN :
    /\ ok \/ faults < MaxFaults
    /\ faults' = IF ok THEN faults ELSE faults + 1
    /\ Statement(p, ok)
    /\ UNCHANGED <<ops, crashes>>

\* The server stops and starts again: the tables survive, the handlers do not.
Restart ==
  /\ crashes < MaxCrashes
  /\ crashes' = crashes + 1
  /\ h' = [p \in Procs |-> Idle]
  /\ UNCHANGED <<tables, ops, faults>>

Quiescent == \A p \in Procs : h[p].pc = "idle"

\* With no handler running the server waits for the next request.
Wait == Quiescent /\ UNCHANGED vars

Next == \/ \E p \in Procs : Request(p) \/ Run(p)
        \/ Restart
        \/ Wait

Spec == Init /\ [][Next]_vars

\* A running handler is scheduled and its statements are answered.
FairSpec == Spec /\ \A p \in Procs : WF_vars(Run(p))
-----------------------------------------------------------------------------
(* Properties *)

\* The type invariant: rows are where their id says, and the copies a handler
\* holds are rows.
TypeOK ==
  /\ alarms \in Seq(Alarm) /\ incidents \in Seq(Incident)
  /\ tickets \in Seq(Ticket) /\ problems \in Seq(Problem)
  /\ updates \in Seq(Seq(Events))
  /\ h \in [Procs -> Handler]
  /\ ops \in 0..MaxOps /\ faults \in 0..MaxFaults /\ crashes \in 0..MaxCrashes

\* The numbers of a table count its rows without a gap or a duplicate, whatever
\* handlers interleave, fail or die: a COUNT that went stale before the INSERT
\* can only collide with the UNIQUE column (NextAlarmNumber and its siblings,
\* repository/alarm.go).
Sequential(table) == \A i \in DOMAIN table : table[i].id = i /\ table[i].number = i
NumbersSequential == /\ Sequential(alarms) /\ Sequential(incidents)
                     /\ Sequential(tickets) /\ Sequential(problems)

\* An alarm has at most one incident, and only if it is a High alarm still: no
\* write of a stale copy brings an alarm below the priority it was created with
\* (createOrEscalate raises an incident only at creation, l.368-372).
OneIncidentPerHighAlarm ==
  \A i \in DOMAIN incidents :
    /\ alarms[incidents[i].alarm].priority = High
    /\ \A j \in DOMAIN incidents : incidents[i].alarm = incidents[j].alarm => i = j

\* A problem is about a recurrence: its incident belongs to an alarm of its name,
\* and an older alarm of that name exists (createOrUpdateProblem).
ProblemsAreRecurrences ==
  \A q \in Rows(problems) :
    LET a == alarms[incidents[q.incident].alarm]
    IN a.name = q.name /\ \E b \in Rows(alarms) : b.name = a.name /\ b.id < a.id

\* However many requests are served, no more alarms of a name are active, among
\* those that a lookup reads, than handlers may run at once.  Handlers that
\* overlap both find none and both insert, and a stale copy opens a closed alarm
\* again; but each such alarm costs a handler of its own, so the duplicates do
\* not pile up: "Active duplicate alarm - escalate priority if needed, then stop"
\* (createOrEscalate, l.334).
ActiveAlarmsBounded ==
  \A n \in Names :
    Cardinality({a \in FindAll : a.name = n /\ a.status # "Closed"}) <= Cardinality(Procs)

\* No more problems of a name are open than handlers may run at once and lookups
\* have failed (FindOpenByAlarmName; a lookup that fails counts as "none found").
OpenProblemsBounded ==
  \A n \in Names :
    Cardinality({q \in Rows(problems) : q.name = n /\ q.status # "Closed"})
      <= Cardinality(Procs) + faults

\* The incidents of a name that are not of its first alarm.
Recurrences(n) ==
  {i \in DOMAIN incidents :
     LET a == alarms[incidents[i].alarm]
     IN a.name = n /\ \E b \in Rows(alarms) : b.name = n /\ b.id < a.id}

\* A problem never counts more occurrences than its name has recurrences: the
\* count that is read, raised and written back may lose one to a stale copy, but
\* nothing counts one twice (createOrUpdateProblem, l.441-446).
NeverOvercounted ==
  \A q \in Rows(problems) : q.count <= Cardinality(Recurrences(q.name))

\* No handler runs, and no statement failed and no restart cut a handler short.
Settled == Quiescent /\ faults = 0 /\ crashes = 0

\* When all is settled, closing has reached the end of the chain: the incidents
\* of a closed alarm are closed, and the ticket of a closed incident has its
\* close date and its "closed" entry (closeIncidentsByAlarm, syncTicketClosed).
CloseCascades ==
  Settled =>
    /\ \A i \in Rows(incidents) : alarms[i.alarm].status = "Closed" => i.status = "Closed"
    /\ \A i \in Rows(incidents) : i.status = "Closed" =>
         \E t \in Rows(tickets) : /\ t.incident = i.id
                                  /\ t.dated
                                  /\ "closed" \in Rows(updates[t.id])

\* When all is settled, every incident has its ticket, and the audit log of a
\* ticket begins with its creation (createTicket).
EveryIncidentHasTicket ==
  Settled =>
    /\ \A i \in Rows(incidents) : \E t \in Rows(tickets) : t.incident = i.id
    /\ \A u \in Rows(updates) : u # <<>> /\ u[1] = "created"

\* When all is settled, the problems of a name count its recurrences: one for
\* each incident that is not of the first alarm of the name (OccurrenceCount).
OccurrencesCounted ==
  Settled =>
    \A n \in Names :
      LET counts == [j \in DOMAIN problems |-> problems[j].count]
      IN SumFunctionOnSet(counts, {j \in DOMAIN problems : problems[j].name = n})
           = Cardinality(Recurrences(n))

\* Every handler that starts comes to its end.
HandlersReturn == \A p \in Procs : (h[p].pc # "idle") ~> (h[p].pc = "idle")
=============================================================================
