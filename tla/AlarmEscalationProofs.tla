----------------------- MODULE AlarmEscalationProofs -----------------------
(***************************************************************************)
(* What AlarmEscalation keeps, for every number of handlers, every set of  *)
(* names and every bound, whatever handlers interleave, fail or die.       *)
(*                                                                         *)
(* IInv: the type invariant and the gapless numbering of the four tables.  *)
(* Lineage: no stale copy of a row loses where the row comes from, so an   *)
(* alarm has one incident and problems are about recurrences.              *)
(* Claims: what races can do to a name is bounded.  An alarm that is       *)
(* active, or that a stale copy may make active again, or that is about to *)
(* be inserted, was claimed by a handler of its own; so was a problem; and *)
(* a problem counts no recurrence that has not happened.                   *)
(***************************************************************************)
EXTENDS AlarmEscalation, Integers, FiniteSetTheorems, TLAPS

\* A copy that was read from, or inserted into, a table of n rows.
Placed(row, n) == row.id \in 1..n /\ row.number = row.id

\* The places where a handler still uses the copy it holds.
UsesName == {"ceFind", "ceNumber", "ceInsert", "clFind"}
UsesAlarm == {"ceEscalate", "ceLink", "inNumber", "inInsert", "inLink",
              "tkNumber", "tkInsert", "tkAudit", "pbFind", "pbNumber", "pbInsert",
              "ipUpdate", "clFindIncidents"}
UsesIncident == {"inLink", "tkNumber", "tkInsert", "tkAudit", "pbFind", "pbUpdate",
                 "pbNumber", "pbInsert", "pbLink", "auFind", "syFind"}
UsesTicket == {"tkAudit", "auAdd", "syUpdate", "syAudit", "utUpdate", "utAudit"}
UsesProblem == {"pbUpdate", "pbLink", "cpUpdate"}

\* A handler x among tables of a, i, t and q rows: its copies are placed, and
\* the number it is about to insert was counted when the table was no longer.
HandlerOK(x, a, i, t, q) ==
  /\ x \in Handler
  /\ x.pc \in UsesName => x.name \in Names
  /\ x.pc \in UsesAlarm => x.alarm \in Alarm /\ Placed(x.alarm, a)
  /\ x.pc \in UsesIncident => x.incident \in Incident /\ Placed(x.incident, i)
  /\ x.pc \in UsesTicket => x.ticket \in Ticket /\ Placed(x.ticket, t)
  /\ x.pc \in UsesProblem => x.problem \in Problem /\ Placed(x.problem, q)
  /\ \A row \in x.toClose : Placed(row, a)
  /\ \A row \in x.incidentsToClose : Placed(row, i)
  /\ x.pc = "ceInsert" => x.number \in 1..(a + 1)
  /\ x.pc = "inInsert" => x.number \in 1..(i + 1)
  /\ x.pc = "tkInsert" => x.number \in 1..(t + 1)
  /\ x.pc = "pbInsert" => x.number \in 1..(q + 1)

TablesOK ==
  /\ alarms \in Seq(Alarm) /\ incidents \in Seq(Incident)
  /\ tickets \in Seq(Ticket) /\ problems \in Seq(Problem)
  /\ updates \in Seq(Seq(Events))
  /\ NumbersSequential
  /\ Len(updates) = Len(tickets)

\* The inductive invariant.
HandlersOK == \A p \in Procs :
  HandlerOK(h[p], Len(alarms), Len(incidents), Len(tickets), Len(problems))
IInv == TypeOK /\ TablesOK /\ HandlersOK

\* What every action of a handler does: the tables keep their shape, none
\* shrinks, and the handler moves to a good state.
GoodMove(p) ==
  /\ TablesOK'
  /\ Len(alarms') >= Len(alarms) /\ Len(incidents') >= Len(incidents)
  /\ Len(tickets') >= Len(tickets) /\ Len(problems') >= Len(problems)
  /\ \E x \in Handler : h' = [h EXCEPT ![p] = x]
  /\ HandlerOK(h'[p], Len(alarms'), Len(incidents'), Len(tickets'), Len(problems'))

-----------------------------------------------------------------------------
(* Lemmas about tables and handlers *)

\* UPDATE ... WHERE id writes back a placed copy: the table keeps its type, its
\* numbering and its length.
LEMMA UpdateKeeps ==
  ASSUME NEW S, NEW table \in Seq(S), Sequential(table),
         NEW row \in S, Placed(row, Len(table))
  PROVE  LET new == [table EXCEPT ![row.id] = row]
         IN new \in Seq(S) /\ Sequential(new) /\ Len(new) = Len(table)
BY DEF Sequential, Placed

\* INSERT of a row that the UNIQUE number lets through, with a number counted
\* earlier: the number can only be the next one.
LEMMA InsertKeeps ==
  ASSUME NEW S, NEW table \in Seq(S), Sequential(table),
         NEW row \in S, row.id = Len(table) + 1,
         row.number \in 1..(Len(table) + 1), ~NumberTaken(table, row.number)
  PROVE  LET new == Append(table, row)
         IN /\ new \in Seq(S) /\ Sequential(new) /\ Len(new) = Len(table) + 1
            /\ Placed(row, Len(new))
<1>1. row.number = Len(table) + 1
  BY DEF Sequential, NumberTaken
<1>2. QED
  BY <1>1 DEF Sequential, Placed

\* A row read from a table is placed.
LEMMA RowsPlaced ==
  ASSUME NEW S, NEW table \in Seq(S), Sequential(table)
  PROVE  \A row \in Rows(table) : row \in S /\ Placed(row, Len(table))
BY DEF Sequential, Placed, Rows

\* A handler stays good while the tables grow.
LEMMA HandlerGrows ==
  ASSUME NEW x, NEW a \in Nat, NEW i \in Nat, NEW t \in Nat, NEW q \in Nat,
         NEW a2 \in Nat, NEW i2 \in Nat, NEW t2 \in Nat, NEW q2 \in Nat,
         a2 >= a, i2 >= i, t2 >= t, q2 >= q, HandlerOK(x, a, i, t, q)
  PROVE  HandlerOK(x, a2, i2, t2, q2)
<1>1. \A row : Placed(row, a) => Placed(row, a2)
  BY DEF Placed
<1>2. \A row : Placed(row, i) => Placed(row, i2)
  BY DEF Placed
<1>3. \A row : Placed(row, t) => Placed(row, t2)
  BY DEF Placed
<1>4. \A row : Placed(row, q) => Placed(row, q2)
  BY DEF Placed
<1>5. QED
  BY <1>1, <1>2, <1>3, <1>4 DEF HandlerOK

\* The idle handler holds nothing.
LEMMA IdleOK ==
  ASSUME NEW a \in Nat, NEW i \in Nat, NEW t \in Nat, NEW q \in Nat
  PROVE  HandlerOK(Idle, a, i, t, q)
BY DEF HandlerOK, Idle, Handler, Labels, UsesName, UsesAlarm, UsesIncident, UsesTicket,
       UsesProblem, Low, Medium, High

\* The loops of the closing handlers go on with placed copies.
LEMMA NextToCloseOK ==
  ASSUME NEW a \in Nat, NEW i \in Nat, NEW t \in Nat, NEW q \in Nat,
         NEW x \in Handler,
         \A row \in x.toClose : Placed(row, a),
         \A row \in x.incidentsToClose : Placed(row, i)
  PROVE  HandlerOK(NextToClose(x), a, i, t, q)
<1>1. CASE x.incidentsToClose # {}
  BY <1>1 DEF NextToClose, HandlerOK, Handler, Labels, UsesName, UsesAlarm, UsesIncident,
              UsesTicket, UsesProblem
<1>2. CASE x.incidentsToClose = {} /\ x.toClose # {}
  BY <1>2 DEF NextToClose, HandlerOK, Handler, Labels, UsesName, UsesAlarm, UsesIncident,
              UsesTicket, UsesProblem
<1>3. CASE x.incidentsToClose = {} /\ x.toClose = {}
  BY <1>3, IdleOK DEF NextToClose
<1>4. QED
  BY <1>1, <1>2, <1>3

\* The loops go on from a good handler.
LEMMA LoopOK ==
  ASSUME NEW a \in Nat, NEW i \in Nat, NEW t \in Nat, NEW q \in Nat,
         NEW x, HandlerOK(x, a, i, t, q)
  PROVE  HandlerOK(NextToClose(x), a, i, t, q)
<1>1. /\ x \in Handler
      /\ \A row \in x.toClose : Placed(row, a)
      /\ \A row \in x.incidentsToClose : Placed(row, i)
  BY DEF HandlerOK
<1>2. QED
  BY <1>1, NextToCloseOK, Zenon

\* What follows the creation of a ticket.
LEMMA AfterTicketOK ==
  ASSUME NEW a \in Nat, NEW i \in Nat, NEW t \in Nat, NEW q \in Nat,
         NEW x, HandlerOK(x, a, i, t, q), x.pc \in {"tkNumber", "tkInsert", "tkAudit"}
  PROVE  HandlerOK(AfterTicket(x), a, i, t, q)
<1>1. CASE x.recurring
  BY <1>1 DEF AfterTicket, HandlerOK, Handler, Labels, UsesName, UsesAlarm, UsesIncident,
              UsesTicket, UsesProblem
<1>2. CASE ~x.recurring
  BY <1>2, IdleOK DEF AfterTicket
<1>3. QED
  BY <1>1, <1>2

\* A handler that has counted the rows of a table of n rows.
LEMMA CountedOK ==
  ASSUME NEW a \in Nat, NEW i \in Nat, NEW t \in Nat, NEW q \in Nat,
         NEW x, HandlerOK(x, a, i, t, q), NEW number \in Nat, NEW to,
         \/ x.pc = "ceNumber" /\ to = "ceInsert" /\ number \in 1..(a + 1)
         \/ x.pc = "inNumber" /\ to = "inInsert" /\ number \in 1..(i + 1)
         \/ x.pc = "tkNumber" /\ to = "tkInsert" /\ number \in 1..(t + 1)
         \/ x.pc = "pbNumber" /\ to = "pbInsert" /\ number \in 1..(q + 1)
  PROVE  HandlerOK([x EXCEPT !.pc = to, !.number = number], a, i, t, q)
<1> DEFINE y == [x EXCEPT !.pc = to, !.number = number]
<1>1. x \in Handler /\ to \in Labels
  BY DEF HandlerOK, Labels
<1>2. /\ y \in Handler
      /\ y.pc = to /\ y.number = number
      /\ y.name = x.name /\ y.alarm = x.alarm /\ y.incident = x.incident
      /\ y.toClose = x.toClose /\ y.incidentsToClose = x.incidentsToClose
  BY <1>1 DEF Handler
<1> HIDE DEF y
<1>3. HandlerOK(y, a, i, t, q)
  BY <1>2 DEF HandlerOK, UsesName, UsesAlarm, UsesIncident, UsesTicket, UsesProblem
<1>4. QED
  BY <1>3 DEF y

-----------------------------------------------------------------------------
(* The kinds of step: each is a good move when the handler it leads to is     *)
(* good                                                                       *)

\* The rows of today's tables, as the handlers copy them.
LEMMA TablesPlaced ==
  ASSUME IInv
  PROVE  /\ \A a \in Rows(alarms) : a \in Alarm /\ Placed(a, Len(alarms))
         /\ \A i \in Rows(incidents) : i \in Incident /\ Placed(i, Len(incidents))
         /\ \A t \in Rows(tickets) : t \in Ticket /\ Placed(t, Len(tickets))
         /\ \A q \in Rows(problems) : q \in Problem /\ Placed(q, Len(problems))
         /\ FindAll \subseteq Rows(alarms)
<1>1. /\ alarms \in Seq(Alarm) /\ Sequential(alarms)
      /\ incidents \in Seq(Incident) /\ Sequential(incidents)
      /\ tickets \in Seq(Ticket) /\ Sequential(tickets)
      /\ problems \in Seq(Problem) /\ Sequential(problems)
  BY DEF IInv, TablesOK, NumbersSequential
<1>2. FindAll \subseteq Rows(alarms)
  BY DEF FindAll, Rows
<1>3. QED
  BY <1>1, <1>2, RowsPlaced

\* The lengths of the tables are numbers.
LEMMA Lengths ==
  ASSUME IInv
  PROVE  /\ Len(alarms) \in Nat /\ Len(incidents) \in Nat
         /\ Len(tickets) \in Nat /\ Len(problems) \in Nat
BY DEF IInv, TypeOK

\* The handler that is about to take a step is good.
LEMMA HandlerGood ==
  ASSUME IInv, NEW p \in Procs
  PROVE  HandlerOK(h[p], Len(alarms), Len(incidents), Len(tickets), Len(problems))
BY DEF IInv, HandlersOK

\* Whatever the tables do, the move is good if they keep their shape.
LEMMA AnyMove ==
  ASSUME IInv, NEW p \in Procs, TablesOK',
         Len(alarms') >= Len(alarms), Len(incidents') >= Len(incidents),
         Len(tickets') >= Len(tickets), Len(problems') >= Len(problems),
         NEW x, h' = [h EXCEPT ![p] = x],
         HandlerOK(x, Len(alarms'), Len(incidents'), Len(tickets'), Len(problems'))
  PROVE  GoodMove(p)
<1>1. x \in Handler /\ h'[p] = x
  BY DEF HandlerOK, IInv, TypeOK
<1>2. HandlerOK(h'[p], Len(alarms'), Len(incidents'), Len(tickets'), Len(problems'))
  BY <1>1
<1>3. \E y \in Handler : h' = [h EXCEPT ![p] = y]
  BY <1>1
<1>4. QED
  BY <1>2, <1>3, Zenon DEF GoodMove

\* A step that reads, or fails, changes the handler only.
LEMMA LocalMove ==
  ASSUME IInv, NEW p \in Procs, UNCHANGED tables, NEW x, h' = [h EXCEPT ![p] = x],
         HandlerOK(x, Len(alarms), Len(incidents), Len(tickets), Len(problems))
  PROVE  GoodMove(p)
<1>1. TablesOK'
  BY DEF IInv, TablesOK, tables, NumbersSequential, Sequential
<1>2. /\ Len(alarms') = Len(alarms) /\ Len(incidents') = Len(incidents)
      /\ Len(tickets') = Len(tickets) /\ Len(problems') = Len(problems)
  BY DEF tables
<1>3. HandlerOK(x, Len(alarms'), Len(incidents'), Len(tickets'), Len(problems'))
  BY <1>2
<1>4. /\ Len(alarms') >= Len(alarms) /\ Len(incidents') >= Len(incidents)
      /\ Len(tickets') >= Len(tickets) /\ Len(problems') >= Len(problems)
  BY <1>2, Lengths
<1>5. QED
  BY <1>1, <1>3, <1>4, AnyMove, Zenon

LEMMA ReturnMove ==
  ASSUME IInv, NEW p \in Procs, UNCHANGED tables, Return(p)
  PROVE  GoodMove(p)
BY IdleOK, Lengths, LocalMove DEF Return, Goto

\* UPDATE alarms writes a held copy back, or fails.
LEMMA AlarmWritten ==
  ASSUME IInv, NEW p \in Procs, NEW row \in Alarm, Placed(row, Len(alarms)),
         alarms' \in {[alarms EXCEPT ![row.id] = row], alarms},
         UNCHANGED <<incidents, tickets, problems, updates>>,
         NEW x, h' = [h EXCEPT ![p] = x],
         HandlerOK(x, Len(alarms), Len(incidents), Len(tickets), Len(problems))
  PROVE  GoodMove(p)
<1>1. alarms \in Seq(Alarm) /\ Sequential(alarms)
  BY DEF IInv, TablesOK, NumbersSequential
<1>2. alarms' \in Seq(Alarm) /\ Sequential(alarms') /\ Len(alarms') = Len(alarms)
  BY <1>1, UpdateKeeps
<1>3. TablesOK'
  BY <1>2 DEF IInv, TablesOK, NumbersSequential, Sequential
<1>4. HandlerOK(x, Len(alarms'), Len(incidents'), Len(tickets'), Len(problems'))
  BY <1>2
<1>5. /\ Len(alarms') >= Len(alarms) /\ Len(incidents') >= Len(incidents)
      /\ Len(tickets') >= Len(tickets) /\ Len(problems') >= Len(problems)
  BY <1>2, Lengths
<1>6. QED
  BY <1>2, <1>3, <1>4, <1>5, AnyMove, Zenon

\* INSERT INTO alarms succeeds.
LEMMA AlarmInserted ==
  ASSUME IInv, NEW p \in Procs, NEW row \in Alarm, row.id = Len(alarms) + 1,
         row.number \in 1..(Len(alarms) + 1), ~NumberTaken(alarms, row.number),
         alarms' = Append(alarms, row), UNCHANGED <<incidents, tickets, problems, updates>>,
         NEW x, h' = [h EXCEPT ![p] = x],
         Placed(row, Len(alarms) + 1) =>
           HandlerOK(x, Len(alarms) + 1, Len(incidents), Len(tickets), Len(problems))
  PROVE  GoodMove(p)
<1>1. alarms \in Seq(Alarm) /\ Sequential(alarms)
  BY DEF IInv, TablesOK, NumbersSequential
<1>2. /\ alarms' \in Seq(Alarm) /\ Sequential(alarms')
      /\ Len(alarms') = Len(alarms) + 1 /\ Placed(row, Len(alarms) + 1)
  BY <1>1, InsertKeeps
<1>3. TablesOK'
  BY <1>2 DEF IInv, TablesOK, NumbersSequential, Sequential, Events
<1>4. HandlerOK(x, Len(alarms'), Len(incidents'), Len(tickets'), Len(problems'))
  BY <1>2
<1>5. /\ Len(alarms') >= Len(alarms) /\ Len(incidents') >= Len(incidents)
      /\ Len(tickets') >= Len(tickets) /\ Len(problems') >= Len(problems)
  BY <1>2, Lengths
<1>6. QED
  BY <1>2, <1>3, <1>4, <1>5, AnyMove, Zenon

\* UPDATE incidents writes a held copy back, or fails.
LEMMA IncidentWritten ==
  ASSUME IInv, NEW p \in Procs, NEW row \in Incident, Placed(row, Len(incidents)),
         incidents' \in {[incidents EXCEPT ![row.id] = row], incidents},
         UNCHANGED <<alarms, tickets, problems, updates>>,
         NEW x, h' = [h EXCEPT ![p] = x],
         HandlerOK(x, Len(alarms), Len(incidents), Len(tickets), Len(problems))
  PROVE  GoodMove(p)
<1>1. incidents \in Seq(Incident) /\ Sequential(incidents)
  BY DEF IInv, TablesOK, NumbersSequential
<1>2. incidents' \in Seq(Incident) /\ Sequential(incidents') /\ Len(incidents') = Len(incidents)
  BY <1>1, UpdateKeeps
<1>3. TablesOK'
  BY <1>2 DEF IInv, TablesOK, NumbersSequential, Sequential
<1>4. HandlerOK(x, Len(alarms'), Len(incidents'), Len(tickets'), Len(problems'))
  BY <1>2
<1>5. /\ Len(alarms') >= Len(alarms) /\ Len(incidents') >= Len(incidents)
      /\ Len(tickets') >= Len(tickets) /\ Len(problems') >= Len(problems)
  BY <1>2, Lengths
<1>6. QED
  BY <1>2, <1>3, <1>4, <1>5, AnyMove, Zenon

\* INSERT INTO incidents succeeds.
LEMMA IncidentInserted ==
  ASSUME IInv, NEW p \in Procs, NEW row \in Incident, row.id = Len(incidents) + 1,
         row.number \in 1..(Len(incidents) + 1), ~NumberTaken(incidents, row.number),
         incidents' = Append(incidents, row), UNCHANGED <<alarms, tickets, problems, updates>>,
         NEW x, h' = [h EXCEPT ![p] = x],
         Placed(row, Len(incidents) + 1) =>
           HandlerOK(x, Len(alarms), Len(incidents) + 1, Len(tickets), Len(problems))
  PROVE  GoodMove(p)
<1>1. incidents \in Seq(Incident) /\ Sequential(incidents)
  BY DEF IInv, TablesOK, NumbersSequential
<1>2. /\ incidents' \in Seq(Incident) /\ Sequential(incidents')
      /\ Len(incidents') = Len(incidents) + 1 /\ Placed(row, Len(incidents) + 1)
  BY <1>1, InsertKeeps
<1>3. TablesOK'
  BY <1>2 DEF IInv, TablesOK, NumbersSequential, Sequential, Events
<1>4. HandlerOK(x, Len(alarms'), Len(incidents'), Len(tickets'), Len(problems'))
  BY <1>2
<1>5. /\ Len(alarms') >= Len(alarms) /\ Len(incidents') >= Len(incidents)
      /\ Len(tickets') >= Len(tickets) /\ Len(problems') >= Len(problems)
  BY <1>2, Lengths
<1>6. QED
  BY <1>2, <1>3, <1>4, <1>5, AnyMove, Zenon

\* UPDATE problems writes a held copy back, or fails.
LEMMA ProblemWritten ==
  ASSUME IInv, NEW p \in Procs, NEW row \in Problem, Placed(row, Len(problems)),
         problems' \in {[problems EXCEPT ![row.id] = row], problems},
         UNCHANGED <<alarms, incidents, tickets, updates>>,
         NEW x, h' = [h EXCEPT ![p] = x],
         HandlerOK(x, Len(alarms), Len(incidents), Len(tickets), Len(problems))
  PROVE  GoodMove(p)
<1>1. problems \in Seq(Problem) /\ Sequential(problems)
  BY DEF IInv, TablesOK, NumbersSequential
<1>2. problems' \in Seq(Problem) /\ Sequential(problems') /\ Len(problems') = Len(problems)
  BY <1>1, UpdateKeeps
<1>3. TablesOK'
  BY <1>2 DEF IInv, TablesOK, NumbersSequential, Sequential
<1>4. HandlerOK(x, Len(alarms'), Len(incidents'), Len(tickets'), Len(problems'))
  BY <1>2
<1>5. /\ Len(alarms') >= Len(alarms) /\ Len(incidents') >= Len(incidents)
      /\ Len(tickets') >= Len(tickets) /\ Len(problems') >= Len(problems)
  BY <1>2, Lengths
<1>6. QED
  BY <1>2, <1>3, <1>4, <1>5, AnyMove, Zenon

\* INSERT INTO problems succeeds.
LEMMA ProblemInserted ==
  ASSUME IInv, NEW p \in Procs, NEW row \in Problem, row.id = Len(problems) + 1,
         row.number \in 1..(Len(problems) + 1), ~NumberTaken(problems, row.number),
         problems' = Append(problems, row), UNCHANGED <<alarms, incidents, tickets, updates>>,
         NEW x, h' = [h EXCEPT ![p] = x],
         Placed(row, Len(problems) + 1) =>
           HandlerOK(x, Len(alarms), Len(incidents), Len(tickets), Len(problems) + 1)
  PROVE  GoodMove(p)
<1>1. problems \in Seq(Problem) /\ Sequential(problems)
  BY DEF IInv, TablesOK, NumbersSequential
<1>2. /\ problems' \in Seq(Problem) /\ Sequential(problems')
      /\ Len(problems') = Len(problems) + 1 /\ Placed(row, Len(problems) + 1)
  BY <1>1, InsertKeeps
<1>3. TablesOK'
  BY <1>2 DEF IInv, TablesOK, NumbersSequential, Sequential, Events
<1>4. HandlerOK(x, Len(alarms'), Len(incidents'), Len(tickets'), Len(problems'))
  BY <1>2
<1>5. /\ Len(alarms') >= Len(alarms) /\ Len(incidents') >= Len(incidents)
      /\ Len(tickets') >= Len(tickets) /\ Len(problems') >= Len(problems)
  BY <1>2, Lengths
<1>6. QED
  BY <1>2, <1>3, <1>4, <1>5, AnyMove, Zenon

\* UPDATE tickets writes a held copy back, or fails.
LEMMA TicketWritten ==
  ASSUME IInv, NEW p \in Procs, NEW row \in Ticket, Placed(row, Len(tickets)),
         tickets' \in {[tickets EXCEPT ![row.id] = row], tickets},
         UNCHANGED <<alarms, incidents, problems, updates>>,
         NEW x, h' = [h EXCEPT ![p] = x],
         HandlerOK(x, Len(alarms), Len(incidents), Len(tickets), Len(problems))
  PROVE  GoodMove(p)
<1>1. tickets \in Seq(Ticket) /\ Sequential(tickets)
  BY DEF IInv, TablesOK, NumbersSequential
<1>2. tickets' \in Seq(Ticket) /\ Sequential(tickets') /\ Len(tickets') = Len(tickets)
  BY <1>1, UpdateKeeps
<1>3. TablesOK'
  BY <1>2 DEF IInv, TablesOK, NumbersSequential, Sequential
<1>4. HandlerOK(x, Len(alarms'), Len(incidents'), Len(tickets'), Len(problems'))
  BY <1>2
<1>5. /\ Len(alarms') >= Len(alarms) /\ Len(incidents') >= Len(incidents)
      /\ Len(tickets') >= Len(tickets) /\ Len(problems') >= Len(problems)
  BY <1>2, Lengths
<1>6. QED
  BY <1>2, <1>3, <1>4, <1>5, AnyMove, Zenon

\* INSERT INTO tickets succeeds.
LEMMA TicketInserted ==
  ASSUME IInv, NEW p \in Procs, NEW row \in Ticket, row.id = Len(tickets) + 1,
         row.number \in 1..(Len(tickets) + 1), ~NumberTaken(tickets, row.number),
         tickets' = Append(tickets, row), updates' = Append(updates, <<>>),
         UNCHANGED <<alarms, incidents, problems>>,
         NEW x, h' = [h EXCEPT ![p] = x],
         Placed(row, Len(tickets) + 1) =>
           HandlerOK(x, Len(alarms), Len(incidents), Len(tickets) + 1, Len(problems))
  PROVE  GoodMove(p)
<1>1. tickets \in Seq(Ticket) /\ Sequential(tickets)
  BY DEF IInv, TablesOK, NumbersSequential
<1>2. /\ tickets' \in Seq(Ticket) /\ Sequential(tickets')
      /\ Len(tickets') = Len(tickets) + 1 /\ Placed(row, Len(tickets) + 1)
  BY <1>1, InsertKeeps
<1>3. TablesOK'
  BY <1>2 DEF IInv, TablesOK, NumbersSequential, Sequential, Events
<1>4. HandlerOK(x, Len(alarms'), Len(incidents'), Len(tickets'), Len(problems'))
  BY <1>2
<1>5. /\ Len(alarms') >= Len(alarms) /\ Len(incidents') >= Len(incidents)
      /\ Len(tickets') >= Len(tickets) /\ Len(problems') >= Len(problems)
  BY <1>2, Lengths
<1>6. QED
  BY <1>2, <1>3, <1>4, <1>5, AnyMove, Zenon

\* AddUpdate appends to the log of a ticket, or fails.
LEMMA UpdateAdded ==
  ASSUME IInv, NEW p \in Procs, NEW ticket \in Ticket, Placed(ticket, Len(tickets)),
         NEW event \in Events, NEW ok \in BOOLEAN, AddUpdate(ticket, event, ok),
         UNCHANGED <<alarms, incidents, tickets, problems>>,
         NEW x, h' = [h EXCEPT ![p] = x],
         HandlerOK(x, Len(alarms), Len(incidents), Len(tickets), Len(problems))
  PROVE  GoodMove(p)
<1>1. updates' \in Seq(Seq(Events)) /\ Len(updates') = Len(updates)
  BY DEF AddUpdate, IInv, TypeOK, TablesOK, Placed
<1>2. TablesOK'
  BY <1>1 DEF IInv, TablesOK, NumbersSequential, Sequential
<1>3. HandlerOK(x, Len(alarms'), Len(incidents'), Len(tickets'), Len(problems'))
  OBVIOUS
<1>4. /\ Len(alarms') >= Len(alarms) /\ Len(incidents') >= Len(incidents)
      /\ Len(tickets') >= Len(tickets) /\ Len(problems') >= Len(problems)
  BY <1>2, Lengths
<1>5. QED
  BY <1>2, <1>3, <1>4, AnyMove, Zenon

-----------------------------------------------------------------------------
(* Every statement is a good move *)

LEMMA CeFindMove ==
  ASSUME IInv, NEW p \in Procs, NEW ok \in BOOLEAN, CeFind(p, ok)
  PROVE  GoodMove(p)
<1> DEFINE same == Matching(h[p].name)
           active == {a \in same : IsActive(a)}
           HOK(x) == HandlerOK(x, Len(alarms), Len(incidents), Len(tickets), Len(problems))
<1>1. HOK(h[p]) /\ UNCHANGED tables /\ h[p].pc = "ceFind"
  BY HandlerGood DEF CeFind
<1>2. CASE ~ok /\ Return(p)
  BY <1>1, <1>2, ReturnMove
<1>3. CASE \E a \in active :
             /\ IsNewest(a, active)
             /\ IF Outranks(h[p].priority, a)
                THEN Goto(p, [h[p] EXCEPT !.pc = "ceEscalate",
                                          !.alarm = [a EXCEPT !.priority = h[p].priority]])
                ELSE Return(p)
  <2>1. PICK a \in active :
             IF Outranks(h[p].priority, a)
                THEN Goto(p, [h[p] EXCEPT !.pc = "ceEscalate",
                                          !.alarm = [a EXCEPT !.priority = h[p].priority]])
                ELSE Return(p)
    BY <1>3
  <2>2. a \in Alarm /\ Placed(a, Len(alarms))
    BY TablesPlaced DEF Matching
  <2>3. CASE Outranks(h[p].priority, a)
    <3>1. [a EXCEPT !.priority = h[p].priority] \in Alarm
      BY <1>1, <2>2 DEF Alarm, HandlerOK, Handler
    <3>2. HOK([h[p] EXCEPT !.pc = "ceEscalate",
                           !.alarm = [a EXCEPT !.priority = h[p].priority]])
      BY <1>1, <2>2, <3>1 DEF HandlerOK, Handler, Labels, UsesName, UsesAlarm, UsesIncident,
                              UsesTicket, UsesProblem, Placed, Alarm
    <3>3. QED
      BY <1>1, <2>1, <2>3, <3>2, LocalMove DEF Goto
  <2>4. CASE ~Outranks(h[p].priority, a)
    BY <1>1, <2>1, <2>4, ReturnMove
  <2>5. QED
    BY <2>3, <2>4
<1>4. CASE Goto(p, [h[p] EXCEPT !.pc = "ceNumber", !.recurring = (same # {})])
  <2>1. \A r \in BOOLEAN : HOK([h[p] EXCEPT !.pc = "ceNumber", !.recurring = r])
    BY <1>1 DEF HandlerOK, Handler, Labels, UsesName, UsesAlarm, UsesIncident,
                UsesTicket, UsesProblem
  <2>2. HOK([h[p] EXCEPT !.pc = "ceNumber", !.recurring = (same # {})])
    BY <2>1, Zenon
  <2>3. QED
    BY <1>1, <1>4, <2>2, LocalMove, Zenon DEF Goto
<1>5. QED
  BY <1>2, <1>3, <1>4, Zenon DEF CeFind
LEMMA CeEscalateMove ==
  ASSUME IInv, NEW p \in Procs, NEW ok \in BOOLEAN, CeEscalate(p, ok)
  PROVE  GoodMove(p)
<1> DEFINE HOK(x) == HandlerOK(x, Len(alarms), Len(incidents), Len(tickets), Len(problems))
<1>1. h[p].alarm \in Alarm /\ Placed(h[p].alarm, Len(alarms))
  BY HandlerGood DEF CeEscalate, HandlerOK, UsesAlarm
<1>2. HOK(Idle)
  BY IdleOK, Lengths
<1>3. QED
  BY <1>1, <1>2, AlarmWritten DEF CeEscalate, Return, Goto

LEMMA IpUpdateMove ==
  ASSUME IInv, NEW p \in Procs, NEW ok \in BOOLEAN, IpUpdate(p, ok)
  PROVE  GoodMove(p)
<1> DEFINE HOK(x) == HandlerOK(x, Len(alarms), Len(incidents), Len(tickets), Len(problems))
<1>1. h[p].alarm \in Alarm /\ Placed(h[p].alarm, Len(alarms))
  BY HandlerGood DEF IpUpdate, HandlerOK, UsesAlarm
<1>2. HOK(Idle)
  BY IdleOK, Lengths
<1>3. QED
  BY <1>1, <1>2, AlarmWritten DEF IpUpdate, Return, Goto

LEMMA CpUpdateMove ==
  ASSUME IInv, NEW p \in Procs, NEW ok \in BOOLEAN, CpUpdate(p, ok)
  PROVE  GoodMove(p)
<1> DEFINE HOK(x) == HandlerOK(x, Len(alarms), Len(incidents), Len(tickets), Len(problems))
<1>1. h[p].problem \in Problem /\ Placed(h[p].problem, Len(problems))
  BY HandlerGood DEF CpUpdate, HandlerOK, UsesProblem
<1>2. HOK(Idle)
  BY IdleOK, Lengths
<1>3. QED
  BY <1>1, <1>2, ProblemWritten DEF CpUpdate, Return, Goto

LEMMA CeNumberMove ==
  ASSUME IInv, NEW p \in Procs, NEW ok \in BOOLEAN, CeNumber(p, ok)
  PROVE  GoodMove(p)
<1> DEFINE HOK(x) == HandlerOK(x, Len(alarms), Len(incidents), Len(tickets), Len(problems))
<1>1. HOK(h[p]) /\ UNCHANGED tables /\ h[p].pc = "ceNumber"
  BY HandlerGood DEF CeNumber
<1>2. CASE ok
  <2>1. NextNumber(alarms) \in Nat /\ NextNumber(alarms) \in 1..(Len(alarms) + 1)
    BY Lengths DEF NextNumber
  <2>2. HOK([h[p] EXCEPT !.pc = "ceInsert", !.number = NextNumber(alarms)])
    BY <1>1, <2>1, Lengths, CountedOK, Zenon
  <2>3. QED
    BY <1>1, <1>2, <2>2, LocalMove DEF CeNumber, Goto
<1>3. CASE ~ok
  BY <1>1, <1>3, ReturnMove DEF CeNumber
<1>4. QED
  BY <1>2, <1>3

LEMMA InNumberMove ==
  ASSUME IInv, NEW p \in Procs, NEW ok \in BOOLEAN, InNumber(p, ok)
  PROVE  GoodMove(p)
<1> DEFINE HOK(x) == HandlerOK(x, Len(alarms), Len(incidents), Len(tickets), Len(problems))
<1>1. HOK(h[p]) /\ UNCHANGED tables /\ h[p].pc = "inNumber"
  BY HandlerGood DEF InNumber
<1>2. CASE ok
  <2>1. NextNumber(incidents) \in Nat /\ NextNumber(incidents) \in 1..(Len(incidents) + 1)
    BY Lengths DEF NextNumber
  <2>2. HOK([h[p] EXCEPT !.pc = "inInsert", !.number = NextNumber(incidents)])
    BY <1>1, <2>1, Lengths, CountedOK, Zenon
  <2>3. QED
    BY <1>1, <1>2, <2>2, LocalMove DEF InNumber, Goto
<1>3. CASE ~ok
  BY <1>1, <1>3, ReturnMove DEF InNumber
<1>4. QED
  BY <1>2, <1>3

LEMMA PbNumberMove ==
  ASSUME IInv, NEW p \in Procs, NEW ok \in BOOLEAN, PbNumber(p, ok)
  PROVE  GoodMove(p)
<1> DEFINE HOK(x) == HandlerOK(x, Len(alarms), Len(incidents), Len(tickets), Len(problems))
<1>1. HOK(h[p]) /\ UNCHANGED tables /\ h[p].pc = "pbNumber"
  BY HandlerGood DEF PbNumber
<1>2. CASE ok
  <2>1. NextNumber(problems) \in Nat /\ NextNumber(problems) \in 1..(Len(problems) + 1)
    BY Lengths DEF NextNumber
  <2>2. HOK([h[p] EXCEPT !.pc = "pbInsert", !.number = NextNumber(problems)])
    BY <1>1, <2>1, Lengths, CountedOK, Zenon
  <2>3. QED
    BY <1>1, <1>2, <2>2, LocalMove DEF PbNumber, Goto
<1>3. CASE ~ok
  BY <1>1, <1>3, ReturnMove DEF PbNumber
<1>4. QED
  BY <1>2, <1>3
LEMMA CeInsertMove ==
  ASSUME IInv, NEW p \in Procs, NEW ok \in BOOLEAN, CeInsert(p, ok)
  PROVE  GoodMove(p)
<1> DEFINE HOK(x) == HandlerOK(x, Len(alarms), Len(incidents), Len(tickets), Len(problems))
           new == [id |-> Len(alarms) + 1, number |-> h[p].number, name |-> h[p].name,
                   status |-> "Open", priority |-> h[p].priority, dated |-> FALSE]
           next == [h[p] EXCEPT !.pc = "ceLink", !.alarm = new]
<1>1. HOK(h[p]) /\ h[p].pc = "ceInsert"
  BY HandlerGood DEF CeInsert
<1>2. CASE ok /\ ~NumberTaken(alarms, h[p].number)
  <2>0. h[p].number \in Nat /\ h[p].name \in Names /\ h[p].priority \in {Low, Medium, High}
    BY <1>1 DEF HandlerOK, Handler, UsesName
  <2>1. new \in Alarm /\ new.id = Len(alarms) + 1 /\ new.number = h[p].number
    BY <2>0, Lengths DEF Alarm, AlarmStatuses
  <2>2. h[p].number \in 1..(Len(alarms) + 1)
    BY <1>1 DEF HandlerOK
  <2>3. next \in Handler /\ next.pc = "ceLink" /\ next.alarm = new
    BY <1>1, <2>1 DEF HandlerOK, Handler, Labels
  <2>4. /\ next.toClose = h[p].toClose /\ next.incidentsToClose = h[p].incidentsToClose
        /\ next.alarm = new
        /\ next.incident = h[p].incident
    BY <1>1 DEF HandlerOK, Handler
  <2> HIDE DEF new, next
  <2>5. HandlerOK(h[p], Len(alarms) + 1, Len(incidents), Len(tickets), Len(problems))
    BY <1>1, Lengths, HandlerGrows
  <2>6. Placed(new, Len(alarms) + 1) =>
          HandlerOK(next, Len(alarms) + 1, Len(incidents), Len(tickets), Len(problems))
    BY <1>1, <2>1, <2>3, <2>4, <2>5 DEF HandlerOK, UsesName, UsesAlarm, UsesIncident,
                                         UsesTicket, UsesProblem
  <2>7. alarms' = Append(alarms, new) /\ h' = [h EXCEPT ![p] = next]
    BY <1>2 DEF CeInsert, Goto, new, next
  <2>8. QED
    BY <1>2, <2>1, <2>2, <2>6, <2>7, AlarmInserted DEF CeInsert
<1>3. CASE ~(ok /\ ~NumberTaken(alarms, h[p].number))
  BY <1>3, ReturnMove DEF CeInsert, tables
<1>4. QED
  BY <1>2, <1>3

LEMMA InInsertMove ==
  ASSUME IInv, NEW p \in Procs, NEW ok \in BOOLEAN, InInsert(p, ok)
  PROVE  GoodMove(p)
<1> DEFINE HOK(x) == HandlerOK(x, Len(alarms), Len(incidents), Len(tickets), Len(problems))
           new == [id |-> Len(incidents) + 1, number |-> h[p].number,
                   alarm |-> h[p].alarm.id, status |-> "Open",
                   priority |-> h[p].alarm.priority, dated |-> FALSE]
           next == [h[p] EXCEPT !.pc = "inLink", !.incident = new]
<1>1. HOK(h[p]) /\ h[p].pc = "inInsert"
  BY HandlerGood DEF InInsert
<1>2. CASE ok /\ ~NumberTaken(incidents, h[p].number)
  <2>0. h[p].number \in Nat /\ h[p].alarm.id \in Nat /\ h[p].alarm.priority \in {Low, Medium, High}
    BY <1>1 DEF HandlerOK, Handler, UsesAlarm, Alarm
  <2>1. new \in Incident /\ new.id = Len(incidents) + 1 /\ new.number = h[p].number
    BY <2>0, Lengths DEF Incident, AlarmStatuses
  <2>2. h[p].number \in 1..(Len(incidents) + 1)
    BY <1>1 DEF HandlerOK
  <2>3. next \in Handler /\ next.pc = "inLink" /\ next.incident = new
    BY <1>1, <2>1 DEF HandlerOK, Handler, Labels
  <2>4. /\ next.toClose = h[p].toClose /\ next.incidentsToClose = h[p].incidentsToClose
        /\ next.alarm = h[p].alarm
        /\ next.incident = new
    BY <1>1 DEF HandlerOK, Handler
  <2> HIDE DEF new, next
  <2>5. HandlerOK(h[p], Len(alarms), Len(incidents) + 1, Len(tickets), Len(problems))
    BY <1>1, Lengths, HandlerGrows
  <2>6. Placed(new, Len(incidents) + 1) =>
          HandlerOK(next, Len(alarms), Len(incidents) + 1, Len(tickets), Len(problems))
    BY <1>1, <2>1, <2>3, <2>4, <2>5 DEF HandlerOK, UsesName, UsesAlarm, UsesIncident,
                                         UsesTicket, UsesProblem
  <2>7. incidents' = Append(incidents, new) /\ h' = [h EXCEPT ![p] = next]
    BY <1>2 DEF InInsert, Goto, new, next
  <2>8. QED
    BY <1>2, <2>1, <2>2, <2>6, <2>7, IncidentInserted DEF InInsert
<1>3. CASE ~(ok /\ ~NumberTaken(incidents, h[p].number))
  BY <1>3, ReturnMove DEF InInsert, tables
<1>4. QED
  BY <1>2, <1>3

LEMMA PbInsertMove ==
  ASSUME IInv, NEW p \in Procs, NEW ok \in BOOLEAN, PbInsert(p, ok)
  PROVE  GoodMove(p)
<1> DEFINE HOK(x) == HandlerOK(x, Len(alarms), Len(incidents), Len(tickets), Len(problems))
           new == [id |-> Len(problems) + 1, number |-> h[p].number,
                   name |-> h[p].alarm.name, incident |-> h[p].incident.id,
                   status |-> "Open", priority |-> h[p].alarm.priority, count |-> 1]
           next == [h[p] EXCEPT !.pc = "pbLink", !.problem = new]
<1>1. HOK(h[p]) /\ h[p].pc = "pbInsert"
  BY HandlerGood DEF PbInsert
<1>2. CASE ok /\ ~NumberTaken(problems, h[p].number)
  <2>0. /\ h[p].number \in Nat /\ h[p].incident.id \in Nat
        /\ h[p].alarm.name \in Names /\ h[p].alarm.priority \in {Low, Medium, High}
    BY <1>1 DEF HandlerOK, Handler, UsesAlarm, UsesIncident, Alarm, Incident
  <2>1. new \in Problem /\ new.id = Len(problems) + 1 /\ new.number = h[p].number
    BY <2>0, Lengths DEF Problem, AlarmStatuses
  <2>2. h[p].number \in 1..(Len(problems) + 1)
    BY <1>1 DEF HandlerOK
  <2>3. next \in Handler /\ next.pc = "pbLink" /\ next.problem = new
    BY <1>1, <2>1 DEF HandlerOK, Handler, Labels
  <2>4. /\ next.toClose = h[p].toClose /\ next.incidentsToClose = h[p].incidentsToClose
        /\ next.alarm = h[p].alarm
        /\ next.incident = h[p].incident
    BY <1>1 DEF HandlerOK, Handler
  <2> HIDE DEF new, next
  <2>5. HandlerOK(h[p], Len(alarms), Len(incidents), Len(tickets), Len(problems) + 1)
    BY <1>1, Lengths, HandlerGrows
  <2>6. Placed(new, Len(problems) + 1) =>
          HandlerOK(next, Len(alarms), Len(incidents), Len(tickets), Len(problems) + 1)
    BY <1>1, <2>1, <2>3, <2>4, <2>5 DEF HandlerOK, UsesName, UsesAlarm, UsesIncident,
                                         UsesTicket, UsesProblem
  <2>7. problems' = Append(problems, new) /\ h' = [h EXCEPT ![p] = next]
    BY <1>2 DEF PbInsert, Goto, new, next
  <2>8. QED
    BY <1>2, <2>1, <2>2, <2>6, <2>7, ProblemInserted DEF PbInsert
<1>3. CASE ~(ok /\ ~NumberTaken(problems, h[p].number))
  BY <1>3, ReturnMove DEF PbInsert, tables
<1>4. QED
  BY <1>2, <1>3
LEMMA CeLinkMove ==
  ASSUME IInv, NEW p \in Procs, NEW ok \in BOOLEAN, CeLink(p, ok)
  PROVE  GoodMove(p)
<1> DEFINE HOK(x) == HandlerOK(x, Len(alarms), Len(incidents), Len(tickets), Len(problems))
<1>1. HOK(h[p]) /\ h[p].pc = "ceLink"
  BY HandlerGood DEF CeLink
<1>2. h[p].alarm \in Alarm /\ Placed(h[p].alarm, Len(alarms))
  BY <1>1 DEF HandlerOK, UsesAlarm
<1>3. HOK([h[p] EXCEPT !.pc = "inNumber"])
  BY <1>1 DEF HandlerOK, Handler, Labels, UsesName, UsesAlarm, UsesIncident,
              UsesTicket, UsesProblem
<1>4. HOK(Idle)
  BY IdleOK, Lengths
<1>5. CASE h[p].priority = High
  BY <1>2, <1>3, <1>5, AlarmWritten DEF CeLink, Goto
<1>6. CASE h[p].priority # High
  BY <1>2, <1>4, <1>6, AlarmWritten DEF CeLink, Return, Goto
<1>7. QED
  BY <1>5, <1>6

LEMMA InLinkMove ==
  ASSUME IInv, NEW p \in Procs, NEW ok \in BOOLEAN, InLink(p, ok)
  PROVE  GoodMove(p)
<1> DEFINE HOK(x) == HandlerOK(x, Len(alarms), Len(incidents), Len(tickets), Len(problems))
<1>1. HOK(h[p]) /\ h[p].pc = "inLink"
  BY HandlerGood DEF InLink
<1>2. h[p].incident \in Incident /\ Placed(h[p].incident, Len(incidents))
  BY <1>1 DEF HandlerOK, UsesIncident
<1>3. HOK([h[p] EXCEPT !.pc = "tkNumber"])
  BY <1>1 DEF HandlerOK, Handler, Labels, UsesName, UsesAlarm, UsesIncident,
              UsesTicket, UsesProblem
<1>4. QED
  BY <1>2, <1>3, IncidentWritten DEF InLink, Goto

LEMMA PbLinkMove ==
  ASSUME IInv, NEW p \in Procs, NEW ok \in BOOLEAN, PbLink(p, ok)
  PROVE  GoodMove(p)
<1> DEFINE HOK(x) == HandlerOK(x, Len(alarms), Len(incidents), Len(tickets), Len(problems))
<1>1. HOK(h[p]) /\ h[p].pc = "pbLink"
  BY HandlerGood DEF PbLink
<1>2. h[p].problem \in Problem /\ Placed(h[p].problem, Len(problems))
  BY <1>1 DEF HandlerOK, UsesProblem
<1>3. HOK([h[p] EXCEPT !.pc = "auFind"])
  BY <1>1 DEF HandlerOK, Handler, Labels, UsesName, UsesAlarm, UsesIncident,
              UsesTicket, UsesProblem
<1>4. QED
  BY <1>2, <1>3, ProblemWritten DEF PbLink, Goto

LEMMA PbUpdateMove ==
  ASSUME IInv, NEW p \in Procs, NEW ok \in BOOLEAN, PbUpdate(p, ok)
  PROVE  GoodMove(p)
<1> DEFINE HOK(x) == HandlerOK(x, Len(alarms), Len(incidents), Len(tickets), Len(problems))
<1>1. HOK(h[p]) /\ h[p].pc = "pbUpdate"
  BY HandlerGood DEF PbUpdate
<1>2. h[p].problem \in Problem /\ Placed(h[p].problem, Len(problems))
  BY <1>1 DEF HandlerOK, UsesProblem
<1>3. HOK([h[p] EXCEPT !.pc = "auFind"])
  BY <1>1 DEF HandlerOK, Handler, Labels, UsesName, UsesAlarm, UsesIncident,
              UsesTicket, UsesProblem
<1>4. CASE ok
  BY <1>2, <1>3, <1>4, ProblemWritten DEF PbUpdate, Goto
<1>5. CASE ~ok
  BY <1>5, ReturnMove DEF PbUpdate, tables
<1>6. QED
  BY <1>4, <1>5

LEMMA UtUpdateMove ==
  ASSUME IInv, NEW p \in Procs, NEW ok \in BOOLEAN, UtUpdate(p, ok)
  PROVE  GoodMove(p)
<1> DEFINE HOK(x) == HandlerOK(x, Len(alarms), Len(incidents), Len(tickets), Len(problems))
<1>1. HOK(h[p]) /\ h[p].pc = "utUpdate"
  BY HandlerGood DEF UtUpdate
<1>2. h[p].ticket \in Ticket /\ Placed(h[p].ticket, Len(tickets))
  BY <1>1 DEF HandlerOK, UsesTicket
<1>3. HOK([h[p] EXCEPT !.pc = "utAudit"])
  BY <1>1 DEF HandlerOK, Handler, Labels, UsesName, UsesAlarm, UsesIncident,
              UsesTicket, UsesProblem
<1>4. CASE ok
  BY <1>2, <1>3, <1>4, TicketWritten DEF UtUpdate, Goto
<1>5. CASE ~ok
  BY <1>5, ReturnMove DEF UtUpdate, tables
<1>6. QED
  BY <1>4, <1>5

LEMMA TkNumberMove ==
  ASSUME IInv, NEW p \in Procs, NEW ok \in BOOLEAN, TkNumber(p, ok)
  PROVE  GoodMove(p)
<1> DEFINE HOK(x) == HandlerOK(x, Len(alarms), Len(incidents), Len(tickets), Len(problems))
<1>1. HOK(h[p]) /\ UNCHANGED tables /\ h[p].pc = "tkNumber"
  BY HandlerGood DEF TkNumber
<1>2. CASE ok
  <2>1. NextNumber(tickets) \in Nat /\ NextNumber(tickets) \in 1..(Len(tickets) + 1)
    BY Lengths DEF NextNumber
  <2>2. HOK([h[p] EXCEPT !.pc = "tkInsert", !.number = NextNumber(tickets)])
    BY <1>1, <2>1, Lengths, CountedOK, Zenon
  <2>3. QED
    BY <1>1, <1>2, <2>2, LocalMove DEF TkNumber, Goto
<1>3. CASE ~ok
  <2>1. HOK(AfterTicket(h[p]))
    BY <1>1, Lengths, AfterTicketOK
  <2>2. QED
    BY <1>1, <1>3, <2>1, LocalMove DEF TkNumber, Goto
<1>4. QED
  BY <1>2, <1>3

LEMMA TkInsertMove ==
  ASSUME IInv, NEW p \in Procs, NEW ok \in BOOLEAN, TkInsert(p, ok)
  PROVE  GoodMove(p)
<1> DEFINE HOK(x) == HandlerOK(x, Len(alarms), Len(incidents), Len(tickets), Len(problems))
           new == [id |-> Len(tickets) + 1, number |-> h[p].number,
                   incident |-> h[p].incident.id, status |-> "Open", dated |-> FALSE]
           next == [h[p] EXCEPT !.pc = "tkAudit", !.ticket = new]
           inserted == /\ ok /\ ~NumberTaken(tickets, h[p].number)
                       /\ \A t \in Rows(tickets) : t.incident # h[p].incident.id
<1>1. HOK(h[p]) /\ h[p].pc = "tkInsert"
  BY HandlerGood DEF TkInsert
<1>2. CASE inserted
  <2>1. h[p].number \in Nat /\ h[p].incident.id \in Nat
    BY <1>1 DEF HandlerOK, Handler, UsesIncident, Incident
  <2>2. new \in Ticket /\ new.id = Len(tickets) + 1 /\ new.number = h[p].number
    BY <2>1, Lengths DEF Ticket, validTicketStatuses, AlarmStatuses
  <2>3. h[p].number \in 1..(Len(tickets) + 1)
    BY <1>1 DEF HandlerOK
  <2>4. next \in Handler /\ next.pc = "tkAudit" /\ next.ticket = new
    BY <1>1, <2>2 DEF HandlerOK, Handler, Labels
  <2>5. /\ next.toClose = h[p].toClose /\ next.incidentsToClose = h[p].incidentsToClose
        /\ next.alarm = h[p].alarm /\ next.incident = h[p].incident
    BY <1>1 DEF HandlerOK, Handler
  <2>6. /\ tickets' = Append(tickets, new) /\ updates' = Append(updates, <<>>)
        /\ h' = [h EXCEPT ![p] = next] /\ UNCHANGED <<alarms, incidents, problems>>
        /\ ~NumberTaken(tickets, h[p].number)
    BY <1>2, Zenon DEF TkInsert, Goto
  <2> HIDE DEF new, next
  <2>7. HandlerOK(h[p], Len(alarms), Len(incidents), Len(tickets) + 1, Len(problems))
    BY <1>1, Lengths, HandlerGrows
  <2>8. Placed(new, Len(tickets) + 1) =>
          HandlerOK(next, Len(alarms), Len(incidents), Len(tickets) + 1, Len(problems))
    BY <1>1, <2>2, <2>4, <2>5, <2>7 DEF HandlerOK, UsesName, UsesAlarm, UsesIncident,
                                         UsesTicket, UsesProblem
  <2>9. QED
    BY <2>2, <2>3, <2>6, <2>8, TicketInserted
<1>3. CASE ~inserted
  <2>1. UNCHANGED tables /\ h' = [h EXCEPT ![p] = AfterTicket(h[p])]
    BY <1>3 DEF TkInsert, Goto, tables
  <2>2. HOK(AfterTicket(h[p]))
    BY <1>1, Lengths, AfterTicketOK
  <2>3. QED
    BY <2>1, <2>2, LocalMove
<1>4. QED
  BY <1>2, <1>3

LEMMA TkAuditMove ==
  ASSUME IInv, NEW p \in Procs, NEW ok \in BOOLEAN, TkAudit(p, ok)
  PROVE  GoodMove(p)
<1> DEFINE HOK(x) == HandlerOK(x, Len(alarms), Len(incidents), Len(tickets), Len(problems))
<1>1. HOK(h[p]) /\ h[p].pc = "tkAudit"
  BY HandlerGood DEF TkAudit
<1>2. h[p].ticket \in Ticket /\ Placed(h[p].ticket, Len(tickets)) /\ "created" \in Events
  BY <1>1 DEF HandlerOK, UsesTicket, Events
<1>3. HOK(AfterTicket(h[p]))
  BY <1>1, Lengths, AfterTicketOK
<1>4. QED
  BY <1>2, <1>3, UpdateAdded DEF TkAudit, Goto

LEMMA AuAddMove ==
  ASSUME IInv, NEW p \in Procs, NEW ok \in BOOLEAN, AuAdd(p, ok)
  PROVE  GoodMove(p)
<1> DEFINE HOK(x) == HandlerOK(x, Len(alarms), Len(incidents), Len(tickets), Len(problems))
<1>1. HOK(h[p]) /\ h[p].pc = "auAdd"
  BY HandlerGood DEF AuAdd
<1>2. h[p].ticket \in Ticket /\ Placed(h[p].ticket, Len(tickets)) /\ "problem_created" \in Events
  BY <1>1 DEF HandlerOK, UsesTicket, Events
<1>3. HOK(Idle)
  BY Lengths, IdleOK
<1>4. QED
  BY <1>2, <1>3, UpdateAdded DEF AuAdd, Return, Goto

LEMMA UtAuditMove ==
  ASSUME IInv, NEW p \in Procs, NEW ok \in BOOLEAN, UtAudit(p, ok)
  PROVE  GoodMove(p)
<1> DEFINE HOK(x) == HandlerOK(x, Len(alarms), Len(incidents), Len(tickets), Len(problems))
<1>1. HOK(h[p]) /\ h[p].pc = "utAudit"
  BY HandlerGood DEF UtAudit
<1>2. h[p].ticket \in Ticket /\ Placed(h[p].ticket, Len(tickets)) /\ "status_changed" \in Events
  BY <1>1 DEF HandlerOK, UsesTicket, Events
<1>3. HOK(Idle)
  BY Lengths, IdleOK
<1>4. QED
  BY <1>2, <1>3, UpdateAdded DEF UtAudit, Return, Goto

LEMMA SyAuditMove ==
  ASSUME IInv, NEW p \in Procs, NEW ok \in BOOLEAN, SyAudit(p, ok)
  PROVE  GoodMove(p)
<1> DEFINE HOK(x) == HandlerOK(x, Len(alarms), Len(incidents), Len(tickets), Len(problems))
<1>1. HOK(h[p]) /\ h[p].pc = "syAudit"
  BY HandlerGood DEF SyAudit
<1>2. h[p].ticket \in Ticket /\ Placed(h[p].ticket, Len(tickets)) /\ "closed" \in Events
  BY <1>1 DEF HandlerOK, UsesTicket, Events
<1>3. HOK(NextToClose(h[p]))
  BY <1>1, Lengths, LoopOK
<1>4. QED
  BY <1>2, <1>3, UpdateAdded DEF SyAudit, Goto

\* A handler that takes a placed ticket or problem along.
LEMMA TakeTicketOK ==
  ASSUME NEW a \in Nat, NEW i \in Nat, NEW t \in Nat, NEW q \in Nat,
         NEW x, HandlerOK(x, a, i, t, q), NEW ticket \in Ticket, Placed(ticket, t),
         NEW to \in {"auAdd", "syUpdate"}
  PROVE  HandlerOK([x EXCEPT !.pc = to, !.ticket = ticket], a, i, t, q)
<1> DEFINE y == [x EXCEPT !.pc = to, !.ticket = ticket]
<1>1. y \in Handler /\ y.pc = to /\ y.ticket = ticket
  BY DEF HandlerOK, Handler, Labels
<1>2. y.toClose = x.toClose /\ y.incidentsToClose = x.incidentsToClose
  BY DEF HandlerOK, Handler
<1> HIDE DEF y
<1>3. HandlerOK(y, a, i, t, q)
  BY <1>1, <1>2 DEF HandlerOK, UsesName, UsesAlarm, UsesIncident, UsesTicket, UsesProblem
<1>4. QED
  BY <1>3 DEF y

LEMMA PbFindMove ==
  ASSUME IInv, NEW p \in Procs, NEW ok \in BOOLEAN, PbFind(p, ok)
  PROVE  GoodMove(p)
<1> DEFINE HOK(x) == HandlerOK(x, Len(alarms), Len(incidents), Len(tickets), Len(problems))
<1>1. HOK(h[p]) /\ UNCHANGED tables /\ h[p].pc = "pbFind"
  BY HandlerGood DEF PbFind
<1>2. CASE \E q \in OpenProblems(h[p].alarm.name) :
             Goto(p, [h[p] EXCEPT !.pc = "pbUpdate", !.problem = Recurred(q, h[p])])
  <2>1. PICK q \in OpenProblems(h[p].alarm.name) :
             h' = [h EXCEPT ![p] = [h[p] EXCEPT !.pc = "pbUpdate", !.problem = Recurred(q, h[p])]]
    BY <1>2 DEF Goto
  <2> DEFINE new == Recurred(q, h[p])
             next == [h[p] EXCEPT !.pc = "pbUpdate", !.problem = new]
  <2>2. q \in Problem /\ Placed(q, Len(problems))
    BY TablesPlaced DEF OpenProblems
  <2>3. h[p].incident.id \in Nat /\ h[p].alarm.priority \in {Low, Medium, High}
    BY <1>1 DEF HandlerOK, UsesIncident, UsesAlarm, Alarm, Incident
  <2>4. new \in Problem /\ Placed(new, Len(problems))
    <3>1. /\ q \in Problem /\ q.count + 1 \in Nat /\ q.priority \in {Low, Medium, High}
          /\ q.id \in 1..Len(problems) /\ q.number = q.id
      BY <2>2 DEF Problem, Placed
    <3> DEFINE priority == IF h[p].alarm.priority > q.priority THEN h[p].alarm.priority
                                                               ELSE q.priority
    <3>2. priority \in {Low, Medium, High}
      BY <2>3, <3>1
    <3>3. new = [q EXCEPT !.count = q.count + 1, !.incident = h[p].incident.id,
                          !.priority = priority]
      BY <3>1 DEF Recurred, Problem
    <3> HIDE DEF priority, new
    <3>4. new \in Problem /\ new.id = q.id /\ new.number = q.number
      BY <2>3, <3>1, <3>2, <3>3 DEF Problem
    <3>5. QED
      BY <3>1, <3>4 DEF Placed
  <2>5. next \in Handler /\ next.pc = "pbUpdate" /\ next.problem = new
    BY <1>1, <2>4 DEF HandlerOK, Handler, Labels
  <2>6. /\ next.toClose = h[p].toClose /\ next.incidentsToClose = h[p].incidentsToClose
        /\ next.incident = h[p].incident
    BY <1>1 DEF HandlerOK, Handler
  <2>7. h' = [h EXCEPT ![p] = next]
    BY <2>1
  <2> HIDE DEF new, next
  <2>8. HOK(next)
    BY <1>1, <2>4, <2>5, <2>6 DEF HandlerOK, UsesName, UsesAlarm, UsesIncident,
                                   UsesTicket, UsesProblem
  <2>9. QED
    BY <1>1, <2>7, <2>8, LocalMove
<1>3. CASE Goto(p, [h[p] EXCEPT !.pc = "pbNumber"])
  <2>1. HOK([h[p] EXCEPT !.pc = "pbNumber"])
    BY <1>1 DEF HandlerOK, Handler, Labels, UsesName, UsesAlarm, UsesIncident,
                UsesTicket, UsesProblem
  <2>2. QED
    BY <1>1, <1>3, <2>1, LocalMove DEF Goto
<1>4. QED
  BY <1>2, <1>3, Zenon DEF PbFind

LEMMA AuFindMove ==
  ASSUME IInv, NEW p \in Procs, NEW ok \in BOOLEAN, AuFind(p, ok)
  PROVE  GoodMove(p)
<1> DEFINE HOK(x) == HandlerOK(x, Len(alarms), Len(incidents), Len(tickets), Len(problems))
<1>1. HOK(h[p]) /\ UNCHANGED tables /\ h[p].pc = "auFind"
  BY HandlerGood DEF AuFind
<1>2. CASE \E t \in TicketsOf(h[p].incident) :
             Goto(p, [h[p] EXCEPT !.pc = "auAdd", !.ticket = t])
  <2>1. PICK t \in TicketsOf(h[p].incident) :
             h' = [h EXCEPT ![p] = [h[p] EXCEPT !.pc = "auAdd", !.ticket = t]]
    BY <1>2 DEF Goto
  <2>2. t \in Ticket /\ Placed(t, Len(tickets))
    BY TablesPlaced DEF TicketsOf
  <2>3. t \in Ticket /\ Placed(t, Len(tickets))
    BY <2>2 DEF ClosedRow, Ticket, validTicketStatuses, AlarmStatuses, Placed
  <2>4. HOK([h[p] EXCEPT !.pc = "auAdd", !.ticket = t])
    BY <1>1, <2>3, Lengths, TakeTicketOK
  <2>5. QED
    BY <1>1, <2>1, <2>4, LocalMove
<1>3. CASE Return(p)
  BY <1>1, <1>3, ReturnMove
<1>4. QED
  BY <1>2, <1>3, Zenon DEF AuFind

LEMMA SyFindMove ==
  ASSUME IInv, NEW p \in Procs, NEW ok \in BOOLEAN, SyFind(p, ok)
  PROVE  GoodMove(p)
<1> DEFINE HOK(x) == HandlerOK(x, Len(alarms), Len(incidents), Len(tickets), Len(problems))
<1>1. HOK(h[p]) /\ UNCHANGED tables /\ h[p].pc = "syFind"
  BY HandlerGood DEF SyFind
<1>2. CASE \E t \in TicketsOf(h[p].incident) :
             Goto(p, [h[p] EXCEPT !.pc = "syUpdate", !.ticket = ClosedRow(t)])
  <2>1. PICK t \in TicketsOf(h[p].incident) :
             h' = [h EXCEPT ![p] = [h[p] EXCEPT !.pc = "syUpdate", !.ticket = ClosedRow(t)]]
    BY <1>2 DEF Goto
  <2>2. t \in Ticket /\ Placed(t, Len(tickets))
    BY TablesPlaced DEF TicketsOf
  <2>3. ClosedRow(t) \in Ticket /\ Placed(ClosedRow(t), Len(tickets))
    BY <2>2 DEF ClosedRow, Ticket, validTicketStatuses, AlarmStatuses, Placed
  <2>4. HOK([h[p] EXCEPT !.pc = "syUpdate", !.ticket = ClosedRow(t)])
    BY <1>1, <2>3, Lengths, TakeTicketOK
  <2>5. QED
    BY <1>1, <2>1, <2>4, LocalMove
<1>3. CASE Goto(p, NextToClose(h[p]))
  <2>1. HOK(NextToClose(h[p]))
    BY <1>1, Lengths, LoopOK
  <2>2. QED
    BY <1>1, <1>3, <2>1, LocalMove DEF Goto
<1>4. QED
  BY <1>2, <1>3, Zenon DEF SyFind

LEMMA SyUpdateMove ==
  ASSUME IInv, NEW p \in Procs, NEW ok \in BOOLEAN, SyUpdate(p, ok)
  PROVE  GoodMove(p)
<1> DEFINE HOK(x) == HandlerOK(x, Len(alarms), Len(incidents), Len(tickets), Len(problems))
<1>1. HOK(h[p]) /\ h[p].pc = "syUpdate"
  BY HandlerGood DEF SyUpdate
<1>2. h[p].ticket \in Ticket /\ Placed(h[p].ticket, Len(tickets))
  BY <1>1 DEF HandlerOK, UsesTicket
<1>3. CASE ok
  <2>1. HOK([h[p] EXCEPT !.pc = "syAudit"])
    BY <1>1 DEF HandlerOK, Handler, Labels, UsesName, UsesAlarm, UsesIncident,
                UsesTicket, UsesProblem
  <2>2. QED
    BY <1>2, <1>3, <2>1, TicketWritten DEF SyUpdate, Goto
<1>4. CASE ~ok
  <2>1. HOK(NextToClose(h[p]))
    BY <1>1, Lengths, LoopOK
  <2>2. QED
    BY <1>4, <2>1, LocalMove DEF SyUpdate, Goto, tables
<1>5. QED
  BY <1>3, <1>4

LEMMA ClAlarmMove ==
  ASSUME IInv, NEW p \in Procs, NEW ok \in BOOLEAN, ClAlarm(p, ok)
  PROVE  GoodMove(p)
<1> DEFINE HOK(x) == HandlerOK(x, Len(alarms), Len(incidents), Len(tickets), Len(problems))
<1>1. HOK(h[p]) /\ h[p].pc = "clAlarm"
  BY HandlerGood DEF ClAlarm
<1>2. PICK r \in h[p].toClose :
        LET rest == [h[p] EXCEPT !.toClose = @ \ {r}, !.alarm = ClosedRow(r)]
        IN IF ok THEN /\ alarms' = [alarms EXCEPT ![r.id] = ClosedRow(r)]
                      /\ Goto(p, [rest EXCEPT !.pc = "clFindIncidents"])
                 ELSE Goto(p, NextToClose(rest)) /\ UNCHANGED alarms
  BY DEF ClAlarm
<1> DEFINE closed == ClosedRow(r)
           rest == [h[p] EXCEPT !.toClose = @ \ {r}, !.alarm = closed]
           next == [rest EXCEPT !.pc = "clFindIncidents"]
<1>3. r \in Alarm /\ Placed(r, Len(alarms))
  BY <1>1 DEF HandlerOK, Handler
<1>4. closed \in Alarm /\ Placed(closed, Len(alarms)) /\ closed.id = r.id
  BY <1>3 DEF ClosedRow, Alarm, AlarmStatuses, Placed
<1>5. /\ rest \in Handler /\ rest.toClose \subseteq h[p].toClose
      /\ rest.incidentsToClose = h[p].incidentsToClose
      /\ rest.alarm = closed
  BY <1>1, <1>4 DEF HandlerOK, Handler
<1>6. CASE ok
  <2>1. /\ next \in Handler /\ next.pc = "clFindIncidents" /\ next.alarm = closed
        /\ next.toClose = rest.toClose /\ next.incidentsToClose = rest.incidentsToClose
    BY <1>5 DEF Handler, Labels
  <2>2. alarms' = [alarms EXCEPT ![closed.id] = closed] /\ h' = [h EXCEPT ![p] = next]
    BY <1>2, <1>4, <1>6 DEF Goto
  <2> HIDE DEF closed, rest, next
  <2>3. HOK(next)
    BY <1>1, <1>4, <1>5, <2>1 DEF HandlerOK, UsesName, UsesAlarm, UsesIncident,
                                   UsesTicket, UsesProblem
  <2>4. QED
    BY <1>4, <2>2, <2>3, AlarmWritten DEF ClAlarm
<1>7. CASE ~ok
  <2>1. UNCHANGED tables /\ h' = [h EXCEPT ![p] = NextToClose(rest)]
    BY <1>2, <1>7 DEF Goto, ClAlarm, tables
  <2> HIDE DEF closed, rest, next
  <2>2. HOK(NextToClose(rest))
    BY <1>1, <1>5, Lengths, NextToCloseOK DEF HandlerOK
  <2>3. QED
    BY <2>1, <2>2, LocalMove
<1>8. QED
  BY <1>6, <1>7

LEMMA ClIncidentMove ==
  ASSUME IInv, NEW p \in Procs, NEW ok \in BOOLEAN, ClIncident(p, ok)
  PROVE  GoodMove(p)
<1> DEFINE HOK(x) == HandlerOK(x, Len(alarms), Len(incidents), Len(tickets), Len(problems))
<1>1. HOK(h[p]) /\ h[p].pc = "clIncident"
  BY HandlerGood DEF ClIncident
<1>2. PICK r \in h[p].incidentsToClose :
        LET rest == [h[p] EXCEPT !.incidentsToClose = @ \ {r}, !.incident = ClosedRow(r)]
        IN IF ok THEN /\ incidents' = [incidents EXCEPT ![r.id] = ClosedRow(r)]
                      /\ Goto(p, [rest EXCEPT !.pc = "syFind"])
                 ELSE Goto(p, NextToClose(rest)) /\ UNCHANGED incidents
  BY DEF ClIncident
<1> DEFINE closed == ClosedRow(r)
           rest == [h[p] EXCEPT !.incidentsToClose = @ \ {r}, !.incident = closed]
           next == [rest EXCEPT !.pc = "syFind"]
<1>3. r \in Incident /\ Placed(r, Len(incidents))
  BY <1>1 DEF HandlerOK, Handler
<1>4. closed \in Incident /\ Placed(closed, Len(incidents)) /\ closed.id = r.id
  BY <1>3 DEF ClosedRow, Incident, AlarmStatuses, Placed
<1>5. /\ rest \in Handler /\ rest.incidentsToClose \subseteq h[p].incidentsToClose
      /\ rest.toClose = h[p].toClose
      /\ rest.incident = closed
  BY <1>1, <1>4 DEF HandlerOK, Handler
<1>6. CASE ok
  <2>1. /\ next \in Handler /\ next.pc = "syFind" /\ next.incident = closed
        /\ next.toClose = rest.toClose /\ next.incidentsToClose = rest.incidentsToClose
    BY <1>5 DEF Handler, Labels
  <2>2. incidents' = [incidents EXCEPT ![closed.id] = closed] /\ h' = [h EXCEPT ![p] = next]
    BY <1>2, <1>4, <1>6 DEF Goto
  <2> HIDE DEF closed, rest, next
  <2>3. HOK(next)
    BY <1>1, <1>4, <1>5, <2>1 DEF HandlerOK, UsesName, UsesAlarm, UsesIncident,
                                   UsesTicket, UsesProblem
  <2>4. QED
    BY <1>4, <2>2, <2>3, IncidentWritten DEF ClIncident
<1>7. CASE ~ok
  <2>1. UNCHANGED tables /\ h' = [h EXCEPT ![p] = NextToClose(rest)]
    BY <1>2, <1>7 DEF Goto, ClIncident, tables
  <2> HIDE DEF closed, rest, next
  <2>2. HOK(NextToClose(rest))
    BY <1>1, <1>5, Lengths, NextToCloseOK DEF HandlerOK
  <2>3. QED
    BY <2>1, <2>2, LocalMove
<1>8. QED
  BY <1>6, <1>7

LEMMA ClFindMove ==
  ASSUME IInv, NEW p \in Procs, NEW ok \in BOOLEAN, ClFind(p, ok)
  PROVE  GoodMove(p)
<1> DEFINE HOK(x) == HandlerOK(x, Len(alarms), Len(incidents), Len(tickets), Len(problems))
           open == {a \in Matching(h[p].name) : IsActive(a)}
           next == [h[p] EXCEPT !.toClose = open]
<1>1. HOK(h[p]) /\ UNCHANGED tables
  BY HandlerGood DEF ClFind
<1>2. CASE ok
  <2>1. open \subseteq Alarm /\ \A row \in open : Placed(row, Len(alarms))
    BY TablesPlaced DEF Matching
  <2>2. h' = [h EXCEPT ![p] = NextToClose(next)]
    BY <1>2 DEF ClFind, Goto
  <2> HIDE DEF open
  <2>3. /\ next \in Handler /\ next.toClose = open
        /\ next.incidentsToClose = h[p].incidentsToClose
    BY <1>1, <2>1 DEF HandlerOK, Handler
  <2> HIDE DEF next
  <2>4. HOK(NextToClose(next))
    BY <1>1, <2>1, <2>3, Lengths, NextToCloseOK DEF HandlerOK
  <2>5. QED
    BY <1>1, <2>2, <2>4, LocalMove
<1>3. CASE ~ok
  BY <1>1, <1>3, ReturnMove DEF ClFind
<1>4. QED
  BY <1>2, <1>3

LEMMA ClFindIncidentsMove ==
  ASSUME IInv, NEW p \in Procs, NEW ok \in BOOLEAN, ClFindIncidents(p, ok)
  PROVE  GoodMove(p)
<1> DEFINE HOK(x) == HandlerOK(x, Len(alarms), Len(incidents), Len(tickets), Len(problems))
           open == {i \in Rows(incidents) : i.alarm = h[p].alarm.id /\ IsActive(i)}
           next == [h[p] EXCEPT !.incidentsToClose = open]
<1>1. HOK(h[p]) /\ UNCHANGED tables
  BY HandlerGood DEF ClFindIncidents
<1>2. CASE ok
  <2>1. open \subseteq Incident /\ \A row \in open : Placed(row, Len(incidents))
    BY TablesPlaced DEF Matching
  <2>2. h' = [h EXCEPT ![p] = NextToClose(next)]
    BY <1>2 DEF ClFindIncidents, Goto
  <2> HIDE DEF open
  <2>3. /\ next \in Handler /\ next.incidentsToClose = open
        /\ next.toClose = h[p].toClose
    BY <1>1, <2>1 DEF HandlerOK, Handler
  <2> HIDE DEF next
  <2>4. HOK(NextToClose(next))
    BY <1>1, <2>1, <2>3, Lengths, NextToCloseOK DEF HandlerOK
  <2>5. QED
    BY <1>1, <2>2, <2>4, LocalMove
<1>3. CASE ~ok
  <2>1. HOK(NextToClose(h[p]))
    BY <1>1, Lengths, LoopOK
  <2>2. QED
    BY <1>1, <1>3, <2>1, LocalMove DEF ClFindIncidents, Goto
<1>4. QED
  BY <1>2, <1>3

-----------------------------------------------------------------------------
(* The requests *)

\* A handler that starts with copies of rows.
LEMMA RequestMove ==
  ASSUME IInv, NEW p \in Procs, Request(p)
  PROVE  GoodMove(p)
<1> DEFINE HOK(x) == HandlerOK(x, Len(alarms), Len(incidents), Len(tickets), Len(problems))
<1> USE DEF Placed
<1>1. UNCHANGED tables
  BY DEF Request, Fire, Resolve, SetInProgress, Close, CloseIncident, CloseProblem,
         UpdateTicketStatus
<1>2. Idle \in Handler /\ Idle.toClose = {} /\ Idle.incidentsToClose = {}
  BY DEF Idle, Handler, Labels, Low, Medium, High
<1>3. ASSUME NEW n \in Names, NEW priority \in Priorities, Fire(p, n, priority)
      PROVE  GoodMove(p)
  <2> DEFINE x == [Idle EXCEPT !.pc = "ceFind", !.name = n, !.priority = priority]
  <2>1. x \in Handler /\ x.pc = "ceFind" /\ x.name = n /\ x.toClose = {} /\ x.incidentsToClose = {}
    BY <1>2, PrioritiesAssumption DEF Handler, Labels
  <2>2. h' = [h EXCEPT ![p] = x]
    BY <1>3 DEF Fire, Goto
  <2> HIDE DEF x
  <2>3. HOK(x)
    BY <2>1 DEF HandlerOK, UsesName, UsesAlarm, UsesIncident, UsesTicket, UsesProblem
  <2>4. QED
    BY <1>1, <2>2, <2>3, LocalMove
<1>4. ASSUME NEW n \in Names, Resolve(p, n)
      PROVE  GoodMove(p)
  <2> DEFINE x == [Idle EXCEPT !.pc = "clFind", !.name = n]
  <2>1. x \in Handler /\ x.pc = "clFind" /\ x.name = n /\ x.toClose = {} /\ x.incidentsToClose = {}
    BY <1>2 DEF Handler, Labels
  <2>2. h' = [h EXCEPT ![p] = x]
    BY <1>4 DEF Resolve, Goto
  <2> HIDE DEF x
  <2>3. HOK(x)
    BY <2>1 DEF HandlerOK, UsesName, UsesAlarm, UsesIncident, UsesTicket, UsesProblem
  <2>4. QED
    BY <1>1, <2>2, <2>3, LocalMove
<1>5. ASSUME NEW a \in Rows(alarms), SetInProgress(p, a)
      PROVE  GoodMove(p)
  <2> DEFINE row == [a EXCEPT !.status = "In Progress"]
             x == [Idle EXCEPT !.pc = "ipUpdate", !.alarm = row]
  <2>1. row \in Alarm /\ Placed(row, Len(alarms))
    BY TablesPlaced DEF Alarm, AlarmStatuses
  <2>2. x \in Handler /\ x.pc = "ipUpdate" /\ x.alarm = row
        /\ x.toClose = {} /\ x.incidentsToClose = {}
    BY <1>2, <2>1 DEF Handler, Labels
  <2>3. h' = [h EXCEPT ![p] = x]
    BY <1>5 DEF SetInProgress, Goto
  <2> HIDE DEF x, row
  <2>4. HOK(x)
    BY <2>1, <2>2 DEF HandlerOK, UsesName, UsesAlarm, UsesIncident, UsesTicket, UsesProblem
  <2>5. QED
    BY <1>1, <2>3, <2>4, LocalMove
<1>6. ASSUME NEW a \in Rows(alarms), Close(p, a)
      PROVE  GoodMove(p)
  <2> DEFINE x == [Idle EXCEPT !.pc = "clAlarm", !.toClose = {a}]
  <2>1. a \in Alarm /\ Placed(a, Len(alarms))
    BY TablesPlaced
  <2>2. x \in Handler /\ x.pc = "clAlarm" /\ x.toClose = {a} /\ x.incidentsToClose = {}
    BY <1>2, <2>1 DEF Handler, Labels
  <2>3. h' = [h EXCEPT ![p] = x]
    BY <1>6 DEF Close, Goto
  <2> HIDE DEF x
  <2>4. HOK(x)
    BY <2>1, <2>2 DEF HandlerOK, UsesName, UsesAlarm, UsesIncident, UsesTicket, UsesProblem
  <2>5. QED
    BY <1>1, <2>3, <2>4, LocalMove
<1>7. ASSUME NEW i \in Rows(incidents), CloseIncident(p, i)
      PROVE  GoodMove(p)
  <2> DEFINE x == [Idle EXCEPT !.pc = "clIncident", !.incidentsToClose = {i}]
  <2>1. i \in Incident /\ Placed(i, Len(incidents))
    BY TablesPlaced
  <2>2. x \in Handler /\ x.pc = "clIncident" /\ x.toClose = {} /\ x.incidentsToClose = {i}
    BY <1>2, <2>1 DEF Handler, Labels
  <2>3. h' = [h EXCEPT ![p] = x]
    BY <1>7 DEF CloseIncident, Goto
  <2> HIDE DEF x
  <2>4. HOK(x)
    BY <2>1, <2>2 DEF HandlerOK, UsesName, UsesAlarm, UsesIncident, UsesTicket, UsesProblem
  <2>5. QED
    BY <1>1, <2>3, <2>4, LocalMove
<1>8. ASSUME NEW q \in Rows(problems), CloseProblem(p, q)
      PROVE  GoodMove(p)
  <2> DEFINE row == [q EXCEPT !.status = "Closed"]
             x == [Idle EXCEPT !.pc = "cpUpdate", !.problem = row]
  <2>1. row \in Problem /\ Placed(row, Len(problems))
    BY TablesPlaced DEF Problem, AlarmStatuses
  <2>2. x \in Handler /\ x.pc = "cpUpdate" /\ x.problem = row
        /\ x.toClose = {} /\ x.incidentsToClose = {}
    BY <1>2, <2>1 DEF Handler, Labels
  <2>3. h' = [h EXCEPT ![p] = x]
    BY <1>8 DEF CloseProblem, Goto
  <2> HIDE DEF x, row
  <2>4. HOK(x)
    BY <2>1, <2>2 DEF HandlerOK, UsesName, UsesAlarm, UsesIncident, UsesTicket, UsesProblem
  <2>5. QED
    BY <1>1, <2>3, <2>4, LocalMove
<1>9. ASSUME NEW t \in Rows(tickets), NEW s \in RequestedStatuses, UpdateTicketStatus(p, t, s)
      PROVE  GoodMove(p)
  <2> DEFINE row == [t EXCEPT !.status = s]
             x == [Idle EXCEPT !.pc = "utUpdate", !.ticket = row]
  <2>1. row \in Ticket /\ Placed(row, Len(tickets))
    BY TablesPlaced, StatusesAssumption DEF Ticket
  <2>2. x \in Handler /\ x.pc = "utUpdate" /\ x.ticket = row
        /\ x.toClose = {} /\ x.incidentsToClose = {}
    BY <1>2, <2>1 DEF Handler, Labels
  <2>3. h' = [h EXCEPT ![p] = x]
    BY <1>9 DEF UpdateTicketStatus, Goto
  <2> HIDE DEF x, row
  <2>4. HOK(x)
    BY <2>1, <2>2 DEF HandlerOK, UsesName, UsesAlarm, UsesIncident, UsesTicket, UsesProblem
  <2>5. QED
    BY <1>1, <2>3, <2>4, LocalMove
<1>10. QED
  BY <1>3, <1>4, <1>5, <1>6, <1>7, <1>8, <1>9, Zenon DEF Request

-----------------------------------------------------------------------------
(* The invariant *)

\* Every statement of a running handler is a good move.
LEMMA StatementMove ==
  ASSUME IInv, NEW p \in Procs, NEW ok \in BOOLEAN, Statement(p, ok)
  PROVE  GoodMove(p)
<1>1. \/ CeFind(p, ok) \/ CeEscalate(p, ok) \/ CeNumber(p, ok) \/ CeInsert(p, ok)
      \/ CeLink(p, ok)
      => GoodMove(p)
  BY CeFindMove, CeEscalateMove, CeNumberMove, CeInsertMove, CeLinkMove, Zenon
<1>2. \/ InNumber(p, ok) \/ InInsert(p, ok) \/ InLink(p, ok)
      \/ TkNumber(p, ok) \/ TkInsert(p, ok) \/ TkAudit(p, ok)
      => GoodMove(p)
  BY InNumberMove, InInsertMove, InLinkMove, TkNumberMove, TkInsertMove, TkAuditMove, Zenon
<1>3. \/ PbFind(p, ok) \/ PbUpdate(p, ok) \/ PbNumber(p, ok) \/ PbInsert(p, ok)
      \/ PbLink(p, ok) \/ AuFind(p, ok) \/ AuAdd(p, ok)
      => GoodMove(p)
  BY PbFindMove, PbUpdateMove, PbNumberMove, PbInsertMove, PbLinkMove, AuFindMove, AuAddMove,
     Zenon
<1>4. \/ ClFind(p, ok) \/ ClAlarm(p, ok) \/ ClFindIncidents(p, ok) \/ ClIncident(p, ok)
      \/ SyFind(p, ok) \/ SyUpdate(p, ok) \/ SyAudit(p, ok)
      => GoodMove(p)
  BY ClFindMove, ClAlarmMove, ClFindIncidentsMove, ClIncidentMove, SyFindMove, SyUpdateMove,
     SyAuditMove, Zenon
<1>5. \/ IpUpdate(p, ok) \/ CpUpdate(p, ok) \/ UtUpdate(p, ok) \/ UtAudit(p, ok)
      => GoodMove(p)
  BY IpUpdateMove, CpUpdateMove, UtUpdateMove, UtAuditMove, Zenon
<1>6. QED
  BY <1>1, <1>2, <1>3, <1>4, <1>5, Zenon DEF Statement

\* A good move of one handler keeps the tables and every handler good.
LEMMA GoodMoveKeeps ==
  ASSUME IInv, NEW p \in Procs, GoodMove(p)
  PROVE  TablesOK' /\ HandlersOK' /\ h' \in [Procs -> Handler]
<1>1. TablesOK'
  BY DEF GoodMove
<1>2. h \in [Procs -> Handler]
  BY DEF IInv, TypeOK
<1>3. PICK x \in Handler : h' = [h EXCEPT ![p] = x]
  BY DEF GoodMove
<1>4. /\ Len(alarms') \in Nat /\ Len(incidents') \in Nat
      /\ Len(tickets') \in Nat /\ Len(problems') \in Nat
  BY <1>1 DEF TablesOK
<1>5. ASSUME NEW r \in Procs
      PROVE  HandlerOK(h'[r], Len(alarms'), Len(incidents'), Len(tickets'), Len(problems'))
  <2>1. CASE r = p
    BY <2>1 DEF GoodMove
  <2>2. CASE r # p
    <3>1. h'[r] = h[r]
      BY <1>2, <1>3, <2>2
    <3>2. HandlerOK(h[r], Len(alarms), Len(incidents), Len(tickets), Len(problems))
      BY HandlerGood
    <3>3. /\ Len(alarms') >= Len(alarms) /\ Len(incidents') >= Len(incidents)
          /\ Len(tickets') >= Len(tickets) /\ Len(problems') >= Len(problems)
      BY DEF GoodMove
    <3>4. HandlerOK(h[r], Len(alarms'), Len(incidents'), Len(tickets'), Len(problems'))
      BY <1>4, <3>2, <3>3, Lengths, HandlerGrows
    <3>5. QED
      BY <3>1, <3>4
  <2>3. QED
    BY <2>1, <2>2
<1>6. HandlersOK'
  BY <1>5 DEF HandlersOK
<1>7. h' \in [Procs -> Handler]
  BY <1>2, <1>3
<1>8. QED
  BY <1>1, <1>6, <1>7

\* The invariant holds at the start,
LEMMA InitIInv == Init => IInv
<1> SUFFICES ASSUME Init PROVE IInv
  OBVIOUS
<1>1. /\ alarms = <<>> /\ incidents = <<>> /\ tickets = <<>> /\ problems = <<>>
      /\ updates = <<>> /\ h = [p \in Procs |-> Idle]
  BY DEF Init
<1>2. HandlerOK(Idle, 0, 0, 0, 0)
  BY IdleOK
<1>3. TablesOK
  BY <1>1 DEF TablesOK, NumbersSequential, Sequential
<1>4. HandlersOK
  BY <1>1, <1>2 DEF HandlersOK
<1>5. h \in [Procs -> Handler]
  BY <1>1, <1>2 DEF HandlerOK
<1>6. TypeOK
  BY <1>1, <1>3, <1>5, BoundsAssumption DEF TypeOK, TablesOK, Init
<1>7. QED
  BY <1>3, <1>4, <1>6 DEF IInv

\* and every step keeps it.
LEMMA NextIInv == IInv /\ [Next]_vars => IInv'
<1> SUFFICES ASSUME IInv, [Next]_vars PROVE IInv'
  OBVIOUS
<1>1. ASSUME NEW p \in Procs, Request(p)
      PROVE  IInv'
  <2>1. TablesOK' /\ HandlersOK' /\ h' \in [Procs -> Handler]
    BY <1>1, RequestMove, GoodMoveKeeps
  <2>2. ops' \in 0..MaxOps /\ faults' \in 0..MaxFaults /\ crashes' \in 0..MaxCrashes
    BY <1>1, BoundsAssumption DEF IInv, TypeOK, Request
  <2>3. QED
    BY <2>1, <2>2, Zenon DEF IInv, TypeOK, TablesOK
<1>2. ASSUME NEW p \in Procs, Run(p)
      PROVE  IInv'
  <2>1. PICK ok \in BOOLEAN : /\ ok \/ faults < MaxFaults
                              /\ faults' = IF ok THEN faults ELSE faults + 1
                              /\ Statement(p, ok)
                              /\ UNCHANGED <<ops, crashes>>
    BY <1>2, Zenon DEF Run
  <2>2. TablesOK' /\ HandlersOK' /\ h' \in [Procs -> Handler]
    BY <2>1, StatementMove, GoodMoveKeeps, Zenon
  <2>3. /\ ops' \in 0..MaxOps /\ faults' \in 0..MaxFaults /\ crashes' \in 0..MaxCrashes
    BY <2>1, BoundsAssumption DEF IInv, TypeOK
  <2>4. QED
    BY <2>2, <2>3, Zenon DEF IInv, TypeOK, TablesOK
<1>3. CASE Restart
  <2>1. HandlerOK(Idle, Len(alarms), Len(incidents), Len(tickets), Len(problems))
    BY Lengths, IdleOK
  <2>2. TablesOK'
    BY <1>3 DEF Restart, IInv, TablesOK, tables, NumbersSequential, Sequential
  <2>3. HandlersOK' /\ h' \in [Procs -> Handler]
    BY <1>3, <2>1 DEF Restart, tables, HandlersOK, HandlerOK
  <2>4. /\ ops' \in 0..MaxOps /\ faults' \in 0..MaxFaults /\ crashes' \in 0..MaxCrashes
    BY <1>3, BoundsAssumption DEF Restart, IInv, TypeOK
  <2>5. QED
    BY <2>2, <2>3, <2>4, Zenon DEF IInv, TypeOK, TablesOK
<1>4. CASE UNCHANGED vars
  <2>1. TypeOK' /\ TablesOK'
    BY <1>4 DEF vars, tables, bounds, IInv, TypeOK, TablesOK, NumbersSequential, Sequential
  <2>2. HandlersOK'
    BY <1>4 DEF vars, tables, IInv, HandlersOK
  <2>3. QED
    BY <2>1, <2>2 DEF IInv
<1>5. QED
  BY <1>1, <1>2, <1>3, <1>4, Zenon DEF Next, Wait

\* The inductive invariant: the tables and every copy a handler holds agree.
THEOREM Invariance == Spec => []IInv
BY InitIInv, NextIInv, PTL DEF Spec

-----------------------------------------------------------------------------
(* The theorems *)

\* Whatever the handlers, the names and the bounds, every variable keeps its
\* type: a handler never writes a copy it has not read, and writes it to the row
\* it read it from.
THEOREM TypeCorrect == Spec => []TypeOK
<1>1. IInv => TypeOK
  BY DEF IInv
<1>2. QED
  BY <1>1, Invariance, PTL

\* Whatever handlers interleave, fail or die, the numbers of alarms, incidents,
\* tickets and problems count their rows without a gap or a duplicate
\* (NextAlarmNumber and its siblings with the UNIQUE columns).
THEOREM NumbersAreSequential == Spec => []NumbersSequential
<1>1. IInv => NumbersSequential
  BY DEF IInv, TablesOK
<1>2. QED
  BY <1>1, Invariance, PTL

-----------------------------------------------------------------------------
(* The lineage of the rows: what belongs to what                              *)

\* A handler at Owing holds the alarm it has inserted and may still raise an
\* incident for; at Raising it holds that incident too.
Owing == {"ceLink", "inNumber", "inInsert"}
Raising == {"inLink", "tkNumber", "tkInsert", "tkAudit", "pbFind", "pbNumber", "pbInsert"}
OwesIncident(x) == x.pc \in {"inNumber", "inInsert"} \/ (x.pc = "ceLink" /\ x.priority = High)

\* The alarms created High: they have an incident, or a handler owes them one.
Raised == {incidents[i].alarm : i \in DOMAIN incidents}
            \cup {h[p].alarm.id : p \in {r \in Procs : OwesIncident(h[r])}}

\* A copy of an alarm in table A: its name is the row's, and it is High if the
\* alarm is among the raised ones R.
AlarmTrue(a, A, R) == a.name = A[a.id].name /\ (a.id \in R => a.priority = High)
IncidentTrue(i, I) == i.alarm = I[i.id].alarm

\* An older alarm has the name of alarm k.
Recurs(k, A) == \E j \in 1..(k - 1) : A[j].name = A[k].name
AboutRecurrence(q, A, I) ==
  /\ q.incident \in DOMAIN I
  /\ A[I[q.incident].alarm].name = q.name
  /\ Recurs(I[q.incident].alarm, A)

\* What the copies of handler x say of tables A and I, raised R, is true.
TrueTo(x, A, I, R) ==
  /\ x.pc \in UsesAlarm => AlarmTrue(x.alarm, A, R)
  /\ \A a \in x.toClose : AlarmTrue(a, A, R)
  /\ x.pc \in UsesIncident => IncidentTrue(x.incident, I)
  /\ \A i \in x.incidentsToClose : IncidentTrue(i, I)
  /\ x.pc \in UsesProblem => AboutRecurrence(x.problem, A, I)
  /\ x.pc \in {"ceNumber", "ceInsert"} /\ x.recurring => \E j \in DOMAIN A : A[j].name = x.name
  /\ x.pc \in Owing \cup Raising /\ x.recurring => Recurs(x.alarm.id, A)
  /\ x.pc \in Raising => x.incident.alarm = x.alarm.id
  /\ x.pc \in {"pbFind", "pbNumber", "pbInsert"} => x.recurring

IncidentsOfAlarms ==
  /\ \A i \in DOMAIN incidents : incidents[i].alarm \in DOMAIN alarms
  /\ \A i, j \in DOMAIN incidents : incidents[i].alarm = incidents[j].alarm => i = j
RaisedAreHigh == \A k \in Raised : k \in DOMAIN alarms /\ alarms[k].priority = High
ProblemsRecur == \A q \in DOMAIN problems : AboutRecurrence(problems[q], alarms, incidents)
OwedHasNone ==
  \A p \in Procs : h[p].pc \in Owing => \A i \in DOMAIN incidents : incidents[i].alarm # h[p].alarm.id
OwedOnce ==
  \A p, r \in Procs : h[p].pc \in Owing /\ h[r].pc \in Owing /\ p # r => h[p].alarm.id # h[r].alarm.id
CopiesTrue == \A p \in Procs : TrueTo(h[p], alarms, incidents, Raised)
Lineage == /\ IncidentsOfAlarms /\ RaisedAreHigh /\ ProblemsRecur
           /\ OwedHasNone /\ OwedOnce /\ CopiesTrue

\* Handler y owes no more than x did.
Continues(x, y) ==
  /\ y.pc \in Owing => x.pc \in Owing /\ y.alarm.id = x.alarm.id
  /\ OwesIncident(y) => OwesIncident(x)

-----------------------------------------------------------------------------
\* Tables A and I become A2 and I2: rows are added, names and the alarms of
\* incidents stay.
Grows(A, I, A2, I2) ==
  /\ Len(A) \in Nat /\ Len(I) \in Nat /\ Len(A2) \in Nat /\ Len(I2) \in Nat
  /\ DOMAIN A = 1..Len(A) /\ DOMAIN I = 1..Len(I)
  /\ DOMAIN A2 = 1..Len(A2) /\ DOMAIN I2 = 1..Len(I2)
  /\ Len(A2) >= Len(A) /\ Len(I2) >= Len(I)
  /\ \A k \in DOMAIN A : A2[k].name = A[k].name
  /\ \A i \in DOMAIN I : I2[i].alarm = I[i].alarm

LEMMA RecursKept ==
  ASSUME NEW A, NEW I, NEW A2, NEW I2, Grows(A, I, A2, I2), NEW k \in DOMAIN A, Recurs(k, A)
  PROVE  Recurs(k, A2)
BY DEF Grows, Recurs

LEMMA AboutRecurrenceKept ==
  ASSUME NEW A, NEW I, NEW A2, NEW I2, Grows(A, I, A2, I2),
         \A i \in DOMAIN I : I[i].alarm \in DOMAIN A,
         NEW q, AboutRecurrence(q, A, I)
  PROVE  AboutRecurrence(q, A2, I2)
<1>1. q.incident \in DOMAIN I2 /\ I2[q.incident].alarm = I[q.incident].alarm
      /\ I[q.incident].alarm \in DOMAIN A
  BY DEF AboutRecurrence, Grows
<1>2. Recurs(I[q.incident].alarm, A2)
  BY <1>1, RecursKept DEF AboutRecurrence
<1>3. QED
  BY <1>1, <1>2 DEF AboutRecurrence, Grows

\* What was true stays true while the tables grow and no placed alarm is
\* newly raised.
LEMMA TrueToKept ==
  ASSUME NEW A, NEW I, NEW A2, NEW I2, NEW R, NEW R2, Grows(A, I, A2, I2),
         \A i \in DOMAIN I : I[i].alarm \in DOMAIN A,
         \A k \in DOMAIN A : k \in R2 => k \in R,
         NEW x, NEW t, NEW q, HandlerOK(x, Len(A), Len(I), t, q),
         TrueTo(x, A, I, R)
  PROVE  TrueTo(x, A2, I2, R2)
<1>1. \A a : Placed(a, Len(A)) /\ AlarmTrue(a, A, R) => AlarmTrue(a, A2, R2)
  BY DEF Placed, AlarmTrue, Grows
<1>2. \A i : Placed(i, Len(I)) /\ IncidentTrue(i, I) => IncidentTrue(i, I2)
  BY DEF Placed, IncidentTrue, Grows
<1>3. x.pc \in UsesAlarm => AlarmTrue(x.alarm, A2, R2)
  BY <1>1 DEF TrueTo, HandlerOK
<1>4. \A a \in x.toClose : AlarmTrue(a, A2, R2)
  BY <1>1 DEF TrueTo, HandlerOK
<1>5. x.pc \in UsesIncident => IncidentTrue(x.incident, I2)
  BY <1>2 DEF TrueTo, HandlerOK
<1>6. \A i \in x.incidentsToClose : IncidentTrue(i, I2)
  BY <1>2 DEF TrueTo, HandlerOK
<1>7. x.pc \in UsesProblem => AboutRecurrence(x.problem, A2, I2)
  BY AboutRecurrenceKept DEF TrueTo
<1>8. x.pc \in {"ceNumber", "ceInsert"} /\ x.recurring => \E j \in DOMAIN A2 : A2[j].name = x.name
  BY DEF TrueTo, Grows
<1>9. x.pc \in Owing \cup Raising /\ x.recurring => Recurs(x.alarm.id, A2)
  <2>1. x.pc \in Owing \cup Raising => x.alarm.id \in DOMAIN A
    BY DEF HandlerOK, Placed, UsesAlarm, Owing, Raising, Grows
  <2>2. QED
    BY <2>1, RecursKept DEF TrueTo
<1>10. QED
  BY <1>3, <1>4, <1>5, <1>6, <1>7, <1>8, <1>9 DEF TrueTo

\* Typing of the tables, in the form these proofs use.
LEMMA TableShapes ==
  ASSUME IInv
  PROVE  /\ DOMAIN alarms = 1..Len(alarms) /\ Len(alarms) \in Nat
         /\ DOMAIN incidents = 1..Len(incidents) /\ Len(incidents) \in Nat
         /\ DOMAIN problems = 1..Len(problems) /\ Len(problems) \in Nat
         /\ \A k \in DOMAIN alarms : alarms[k] \in Alarm /\ alarms[k].id = k
         /\ \A i \in DOMAIN incidents : incidents[i] \in Incident /\ incidents[i].id = i
         /\ \A q \in DOMAIN problems : problems[q] \in Problem /\ problems[q].id = q
         /\ h \in [Procs -> Handler]
BY DEF IInv, TypeOK, TablesOK, NumbersSequential, Sequential

\* One handler moves; what it holds after the move is true of the new tables.
LEMMA LineageMove ==
  ASSUME IInv, Lineage, NEW p \in Procs, NEW y \in Handler, h' = [h EXCEPT ![p] = y],
         Grows(alarms, incidents, alarms', incidents'),
         IncidentsOfAlarms', RaisedAreHigh', ProblemsRecur',
         \A k \in DOMAIN alarms : k \in Raised' => k \in Raised,
         TrueTo(y, alarms', incidents', Raised'),
         y.pc \in Owing => \/ h[p].pc \in Owing /\ y.alarm.id = h[p].alarm.id
                           \/ y.alarm.id = Len(alarms) + 1,
         \A i \in DOMAIN incidents' :
            \/ i \in DOMAIN incidents
            \/ /\ h[p].pc \in Owing /\ incidents'[i].alarm = h[p].alarm.id
               /\ y.pc \notin Owing
  PROVE  Lineage'
<1>1. h \in [Procs -> Handler] /\ h'[p] = y /\ \A r \in Procs : r # p => h'[r] = h[r]
  BY DEF IInv, TypeOK
<1>2. \A r \in Procs : HandlerOK(h[r], Len(alarms), Len(incidents), Len(tickets), Len(problems))
  BY HandlerGood
<1>3. \A r \in Procs : h[r].pc \in Owing => h[r].alarm.id \in DOMAIN alarms
  BY <1>2 DEF HandlerOK, Placed, Owing, UsesAlarm, Grows
<1>4. \A i \in DOMAIN incidents : incidents[i].alarm \in DOMAIN alarms
  BY DEF Lineage, IncidentsOfAlarms
<1>5. \A i \in DOMAIN incidents : incidents'[i].alarm = incidents[i].alarm
  BY DEF Grows
<1>6. OwedHasNone'
  <2> SUFFICES ASSUME NEW r \in Procs, h'[r].pc \in Owing, NEW i \in DOMAIN incidents'
               PROVE  incidents'[i].alarm # h'[r].alarm.id
    BY DEF OwedHasNone
  <2>1. CASE r # p
    BY <1>1, <1>3, <1>5, <2>1 DEF Lineage, OwedHasNone, OwedOnce
  <2>2. CASE r = p
    <3>1. i \in DOMAIN incidents
      BY <1>1, <2>2
    <3>2. CASE h[p].pc \in Owing /\ y.alarm.id = h[p].alarm.id
      BY <1>1, <1>5, <2>2, <3>1, <3>2 DEF Lineage, OwedHasNone
    <3>3. CASE y.alarm.id = Len(alarms) + 1
      BY <1>1, <1>4, <1>5, <2>2, <3>1, <3>3 DEF Grows
    <3>4. QED
      BY <1>1, <2>2, <3>2, <3>3
  <2>3. QED
    BY <2>1, <2>2
<1>7. OwedOnce'
  <2> SUFFICES ASSUME NEW r \in Procs, NEW s \in Procs, h'[r].pc \in Owing, h'[s].pc \in Owing, r # s
               PROVE  h'[r].alarm.id # h'[s].alarm.id
    BY DEF OwedOnce
  <2>1. CASE r # p /\ s # p
    BY <1>1, <2>1 DEF Lineage, OwedOnce
  <2>2. ASSUME NEW o \in Procs, o # p, h'[o].pc \in Owing, h'[p].pc \in Owing
        PROVE  h'[o].alarm.id # h'[p].alarm.id
    BY <1>1, <1>3, <2>2 DEF Lineage, OwedOnce, Grows
  <2>3. QED
    BY <2>1, <2>2
<1>8. CopiesTrue'
  <2> SUFFICES ASSUME NEW r \in Procs
               PROVE  TrueTo(h'[r], alarms', incidents', Raised')
    BY DEF CopiesTrue
  <2>1. CASE r = p
    BY <1>1, <2>1
  <2>2. CASE r # p
    <3>1. TrueTo(h[r], alarms, incidents, Raised)
      BY DEF Lineage, CopiesTrue
    <3>2. TrueTo(h[r], alarms', incidents', Raised')
      BY <1>2, <1>4, <3>1, TrueToKept
    <3>3. QED
      BY <1>1, <2>2, <3>2
  <2>3. QED
    BY <2>1, <2>2
<1>9. QED
  BY <1>6, <1>7, <1>8 DEF Lineage
\* No alarm becomes raised unless an incident of it is inserted or a handler
\* begins to owe it one.
LEMMA RaisedNarrows ==
  ASSUME IInv, NEW p \in Procs, NEW y \in Handler, h' = [h EXCEPT ![p] = y],
         Continues(h[p], y), \A i \in DOMAIN incidents' : incidents'[i].alarm \in Raised
  PROVE  Raised' \subseteq Raised
<1>1. h \in [Procs -> Handler] /\ h'[p] = y /\ \A r \in Procs : r # p => h'[r] = h[r]
  BY DEF IInv, TypeOK
<1>2. \A r \in Procs : OwesIncident(h[r]) => h[r].alarm.id \in Raised
  BY DEF Raised
<1>3. \A r \in Procs : OwesIncident(h'[r]) => h'[r].alarm.id \in Raised
  <2>1. OwesIncident(y) => OwesIncident(h[p]) /\ y.alarm.id = h[p].alarm.id
    BY DEF Continues, OwesIncident, Owing
  <2>2. QED
    BY <1>1, <1>2, <2>1
<1>4. QED
  BY <1>3 DEF Raised

\* A move that inserts no alarm and no incident, and writes no copy that is not
\* true.
LEMMA TrueMove ==
  ASSUME IInv, IInv', Lineage, NEW p \in Procs, NEW y \in Handler, h' = [h EXCEPT ![p] = y],
         TrueTo(y, alarms, incidents, Raised), Continues(h[p], y),
         Len(alarms') = Len(alarms), Len(incidents') = Len(incidents),
         \A k \in DOMAIN alarms :
           /\ alarms'[k].name = alarms[k].name
           /\ k \in Raised => alarms'[k].priority = High,
         \A i \in DOMAIN incidents : incidents'[i].alarm = incidents[i].alarm,
         \A q \in DOMAIN problems' : \/ q \in DOMAIN problems /\ problems'[q] = problems[q]
                                     \/ AboutRecurrence(problems'[q], alarms, incidents)
  PROVE  Lineage'
<1>1. Grows(alarms, incidents, alarms', incidents')
  BY TableShapes DEF Grows, IInv, TablesOK
<1>2. \A i \in DOMAIN incidents : incidents[i].alarm \in DOMAIN alarms /\ incidents[i].alarm \in Raised
  BY DEF Lineage, IncidentsOfAlarms, Raised
<1>3. DOMAIN alarms' = DOMAIN alarms /\ DOMAIN incidents' = DOMAIN incidents
  BY <1>1 DEF Grows
<1>4. Raised' \subseteq Raised
  BY <1>2, <1>3, RaisedNarrows
<1>5. IncidentsOfAlarms'
  BY <1>3 DEF Lineage, IncidentsOfAlarms
<1>6. RaisedAreHigh'
  BY <1>3, <1>4 DEF Lineage, RaisedAreHigh
<1>7. ProblemsRecur'
  <2> SUFFICES ASSUME NEW q \in DOMAIN problems'
               PROVE  AboutRecurrence(problems'[q], alarms', incidents')
    BY DEF ProblemsRecur
  <2>1. AboutRecurrence(problems'[q], alarms, incidents)
    BY DEF Lineage, ProblemsRecur
  <2>2. QED
    BY <1>1, <1>2, <2>1, AboutRecurrenceKept
<1>8. TrueTo(y, alarms', incidents', Raised')
  <2>1. HandlerOK(y, Len(alarms), Len(incidents), Len(tickets'), Len(problems'))
    <3>1. h'[p] = y
      BY TableShapes
    <3>2. HandlerOK(h'[p], Len(alarms'), Len(incidents'), Len(tickets'), Len(problems'))
      BY DEF IInv, HandlersOK
    <3>3. QED
      BY <3>1, <3>2
  <2>2. QED
    BY <1>1, <1>2, <1>4, <2>1, TrueToKept
<1>9. QED
  BY <1>1, <1>3, <1>4, <1>5, <1>6, <1>7, <1>8, LineageMove DEF Continues

\* A statement that touches neither alarms, incidents nor problems.
LEMMA QuietMove ==
  ASSUME IInv, IInv', Lineage, NEW p \in Procs, NEW y \in Handler, h' = [h EXCEPT ![p] = y],
         TrueTo(y, alarms, incidents, Raised), Continues(h[p], y),
         UNCHANGED <<alarms, incidents, problems>>
  PROVE  Lineage'
<1>1. alarms' = alarms /\ incidents' = incidents /\ problems' = problems
  OBVIOUS
<1>2. \A k \in DOMAIN alarms : k \in Raised => alarms[k].priority = High
  BY DEF Lineage, RaisedAreHigh
<1>3. QED
  BY <1>1, <1>2, TrueMove

\* UPDATE alarms, incidents or problems with a true copy, or its failure.
LEMMA AlarmRewritten ==
  ASSUME IInv, IInv', Lineage, NEW p \in Procs, NEW y \in Handler, h' = [h EXCEPT ![p] = y],
         TrueTo(y, alarms, incidents, Raised), Continues(h[p], y),
         NEW row \in Alarm, Placed(row, Len(alarms)), AlarmTrue(row, alarms, Raised),
         alarms' \in {[alarms EXCEPT ![row.id] = row], alarms},
         UNCHANGED <<incidents, problems>>
  PROVE  Lineage'
<1>1. incidents' = incidents /\ problems' = problems
  OBVIOUS
<1>2. \A k \in DOMAIN alarms : k \in Raised => alarms[k].priority = High
  BY DEF Lineage, RaisedAreHigh
<1>3. Len(alarms') = Len(alarms)
  BY DEF IInv, TypeOK
<1>4. \A k \in DOMAIN alarms :
           /\ alarms'[k].name = alarms[k].name
           /\ k \in Raised => alarms'[k].priority = High
  BY <1>2, TableShapes DEF AlarmTrue, Placed
<1>5. QED
  BY <1>1, <1>3, <1>4, TrueMove

LEMMA IncidentRewritten ==
  ASSUME IInv, IInv', Lineage, NEW p \in Procs, NEW y \in Handler, h' = [h EXCEPT ![p] = y],
         TrueTo(y, alarms, incidents, Raised), Continues(h[p], y),
         NEW row \in Incident, Placed(row, Len(incidents)), IncidentTrue(row, incidents),
         incidents' \in {[incidents EXCEPT ![row.id] = row], incidents},
         UNCHANGED <<alarms, problems>>
  PROVE  Lineage'
<1>1. alarms' = alarms /\ problems' = problems
  OBVIOUS
<1>2. \A k \in DOMAIN alarms : k \in Raised => alarms[k].priority = High
  BY DEF Lineage, RaisedAreHigh
<1>3. Len(incidents') = Len(incidents)
  BY DEF IInv, TypeOK
<1>4. \A i \in DOMAIN incidents : incidents'[i].alarm = incidents[i].alarm
  BY TableShapes DEF IncidentTrue, Placed
<1>5. QED
  BY <1>1, <1>2, <1>3, <1>4, TrueMove

LEMMA ProblemRewritten ==
  ASSUME IInv, IInv', Lineage, NEW p \in Procs, NEW y \in Handler, h' = [h EXCEPT ![p] = y],
         TrueTo(y, alarms, incidents, Raised), Continues(h[p], y),
         NEW row \in Problem, AboutRecurrence(row, alarms, incidents),
         problems' \in {[problems EXCEPT ![row.id] = row], Append(problems, row), problems},
         UNCHANGED <<alarms, incidents>>
  PROVE  Lineage'
<1>1. alarms' = alarms /\ incidents' = incidents
  OBVIOUS
<1>2. \A k \in DOMAIN alarms : k \in Raised => alarms[k].priority = High
  BY DEF Lineage, RaisedAreHigh
<1>3. \A q \in DOMAIN problems' : \/ q \in DOMAIN problems /\ problems'[q] = problems[q]
                                  \/ AboutRecurrence(problems'[q], alarms, incidents)
  <2>1. \A q \in DOMAIN problems' : \/ q \in DOMAIN problems /\ problems'[q] = problems[q]
                                    \/ problems'[q] = row
    <3>1. problems \in Seq(Problem)
      BY DEF IInv, TypeOK
    <3>2. CASE problems' = Append(problems, row)
      BY <3>1, <3>2
    <3>3. CASE problems' \in {[problems EXCEPT ![row.id] = row], problems}
      BY <3>1, <3>3
    <3>4. QED
      BY <3>2, <3>3
  <2>2. QED
    BY <2>1
<1>4. QED
  BY <1>1, <1>2, <1>3, TrueMove

-----------------------------------------------------------------------------
(* What a handler holds after a step *)

LEMMA IdleTrue ==
  ASSUME NEW A, NEW I, NEW R, NEW x
  PROVE  TrueTo(Idle, A, I, R) /\ Continues(x, Idle)
BY DEF TrueTo, Continues, OwesIncident, Idle, Owing, Raising, UsesAlarm, UsesIncident, UsesProblem

LEMMA NextToCloseTrue ==
  ASSUME NEW A, NEW I, NEW R, NEW x, NEW y \in Handler,
         \A a \in y.toClose : AlarmTrue(a, A, R),
         \A i \in y.incidentsToClose : IncidentTrue(i, I)
  PROVE  TrueTo(NextToClose(y), A, I, R) /\ Continues(x, NextToClose(y))
<1>1. CASE y.incidentsToClose # {} \/ y.toClose # {}
  <2>1. PICK to \in {"clIncident", "clAlarm"} : NextToClose(y) = [y EXCEPT !.pc = to]
    BY <1>1 DEF NextToClose
  <2>2. QED
    BY <2>1 DEF TrueTo, Continues, OwesIncident, Owing, Raising, UsesAlarm, UsesIncident,
                UsesProblem, Handler
<1>2. CASE y.incidentsToClose = {} /\ y.toClose = {}
  BY <1>2, IdleTrue DEF NextToClose
<1>3. QED
  BY <1>1, <1>2

LEMMA AfterTicketTrue ==
  ASSUME NEW A, NEW I, NEW R, NEW x \in Handler, TrueTo(x, A, I, R),
         x.pc \in {"tkNumber", "tkInsert", "tkAudit"}
  PROVE  TrueTo(AfterTicket(x), A, I, R) /\ Continues(x, AfterTicket(x))
<1>1. CASE x.recurring
  BY <1>1 DEF AfterTicket, TrueTo, Continues, OwesIncident, Owing, Raising, UsesAlarm,
              UsesIncident, UsesProblem, Handler
<1>2. CASE ~x.recurring
  BY <1>2, IdleTrue DEF AfterTicket
<1>3. QED
  BY <1>1, <1>2

\* What the handlers' copies are, before the step of p.
LEMMA HandlerTrue ==
  ASSUME IInv, Lineage, NEW p \in Procs
  PROVE  /\ h[p] \in Handler
         /\ TrueTo(h[p], alarms, incidents, Raised)
         /\ HandlerOK(h[p], Len(alarms), Len(incidents), Len(tickets), Len(problems))
BY HandlerGood, TableShapes DEF Lineage, CopiesTrue

\* Rows are true copies of themselves.
LEMMA RowsTrue ==
  ASSUME IInv, Lineage
  PROVE  /\ \A a \in Rows(alarms) : a \in Alarm /\ Placed(a, Len(alarms)) /\ AlarmTrue(a, alarms, Raised)
         /\ \A i \in Rows(incidents) : i \in Incident /\ IncidentTrue(i, incidents)
         /\ \A q \in Rows(problems) : q \in Problem /\ AboutRecurrence(q, alarms, incidents)
         /\ FindAll \subseteq Rows(alarms)
<1>1. \A a \in Rows(alarms) : AlarmTrue(a, alarms, Raised)
  BY TableShapes DEF Lineage, RaisedAreHigh, Rows, AlarmTrue
<1>2. \A i \in Rows(incidents) : IncidentTrue(i, incidents)
  BY TableShapes DEF Rows, IncidentTrue
<1>3. \A q \in Rows(problems) : AboutRecurrence(q, alarms, incidents)
  BY DEF Lineage, ProblemsRecur, Rows
<1>4. QED
  BY <1>1, <1>2, <1>3, TablesPlaced
-----------------------------------------------------------------------------
(* Every statement keeps the lineage *)

\* The simplest moves: a handler only goes on to another label, or returns.
LEMMA ReturnTrue ==
  ASSUME IInv, IInv', Lineage, NEW p \in Procs, UNCHANGED <<alarms, incidents, problems>>,
         Return(p)
  PROVE  Lineage'
<1>1. Idle \in Handler
  BY DEF Idle, Handler, Labels, Low, Medium, High
<1>2. QED
  BY <1>1, IdleTrue, QuietMove DEF Return, Goto

LEMMA CeFindLineage ==
  ASSUME IInv, IInv', Lineage, NEW p \in Procs, NEW ok \in BOOLEAN, CeFind(p, ok)
  PROVE  Lineage'
<1> DEFINE same == Matching(h[p].name)
           active == {a \in same : IsActive(a)}
<1>1. h[p].pc = "ceFind" /\ UNCHANGED <<alarms, incidents, problems>>
  BY DEF CeFind, tables
<1>2. CASE Return(p)
  BY <1>1, <1>2, ReturnTrue
<1>3. CASE \E a \in active :
             /\ Outranks(h[p].priority, a)
             /\ Goto(p, [h[p] EXCEPT !.pc = "ceEscalate",
                                     !.alarm = [a EXCEPT !.priority = h[p].priority]])
  <2>1. PICK a \in active :
             /\ Outranks(h[p].priority, a)
             /\ Goto(p, [h[p] EXCEPT !.pc = "ceEscalate",
                                     !.alarm = [a EXCEPT !.priority = h[p].priority]])
    BY <1>3
  <2> DEFINE row == [a EXCEPT !.priority = h[p].priority]
             y == [h[p] EXCEPT !.pc = "ceEscalate", !.alarm = row]
  <2>2. a \in Alarm /\ AlarmTrue(a, alarms, Raised)
    BY RowsTrue DEF Matching
  <2>3. h[p] \in Handler /\ TrueTo(h[p], alarms, incidents, Raised)
    BY HandlerTrue
  <2>4. a.id \notin Raised
    BY <2>1, <2>2, <2>3 DEF AlarmTrue, Outranks, Handler, Alarm, Low, Medium, High
  <2>5. row \in Alarm /\ AlarmTrue(row, alarms, Raised)
    BY <2>2, <2>3, <2>4 DEF AlarmTrue, Alarm, Handler
  <2>6. y \in Handler /\ h' = [h EXCEPT ![p] = y]
    BY <2>1, <2>3, <2>5 DEF Handler, Labels, Goto
  <2>7. TrueTo(y, alarms, incidents, Raised) /\ Continues(h[p], y)
    <3> HIDE DEF row
    <3>1. QED
      BY <2>3, <2>5 DEF TrueTo, Continues, OwesIncident, Owing, Raising, UsesAlarm,
                        UsesIncident, UsesProblem, Handler
  <2>8. QED
    BY <1>1, <2>6, <2>7, QuietMove
<1>4. CASE Goto(p, [h[p] EXCEPT !.pc = "ceNumber", !.recurring = (same # {})])
  <2>1. h[p] \in Handler /\ TrueTo(h[p], alarms, incidents, Raised)
    BY HandlerTrue
  <2>2. same # {} => \E j \in DOMAIN alarms : alarms[j].name = h[p].name
    BY RowsTrue DEF Matching, Rows
  <2>3. PICK r \in BOOLEAN : r = (same # {})
    OBVIOUS
  <2> DEFINE y == [h[p] EXCEPT !.pc = "ceNumber", !.recurring = r]
  <2>4. y \in Handler /\ h' = [h EXCEPT ![p] = y] /\ (y.recurring => same # {})
    <3>1. y \in Handler
      BY <2>1 DEF Handler, Labels
    <3>2. h' = [h EXCEPT ![p] = y]
      BY <1>4, <2>3, Zenon DEF Goto
    <3>3. y.recurring = r
      BY <2>1 DEF Handler
    <3>4. QED
      BY <2>3, <3>1, <3>2, <3>3, Zenon
  <2>5. TrueTo(y, alarms, incidents, Raised) /\ Continues(h[p], y)
    <3> HIDE DEF same
    <3>1. r => \E j \in DOMAIN alarms : alarms[j].name = h[p].name
      BY <2>2, <2>3, Zenon
    <3>2. QED
      BY <2>1, <3>1 DEF TrueTo, Continues, OwesIncident, Owing, Raising, UsesAlarm,
                        UsesIncident, UsesProblem, Handler
  <2>6. QED
    BY <1>1, <2>4, <2>5, QuietMove
<1>5. QED
  BY <1>2, <1>3, <1>4, Zenon DEF CeFind

LEMMA CeEscalateLineage ==
  ASSUME IInv, IInv', Lineage, NEW p \in Procs, NEW ok \in BOOLEAN,
         CeEscalate(p, ok) \/ IpUpdate(p, ok)
  PROVE  Lineage'
<1>1. /\ h[p].pc \in {"ceEscalate", "ipUpdate"} /\ UNCHANGED <<incidents, problems>>
      /\ alarms' \in {[alarms EXCEPT ![h[p].alarm.id] = h[p].alarm], alarms}
      /\ h' = [h EXCEPT ![p] = Idle]
  BY DEF CeEscalate, IpUpdate, Return, Goto
<1>2. /\ h[p].alarm \in Alarm /\ Placed(h[p].alarm, Len(alarms))
      /\ AlarmTrue(h[p].alarm, alarms, Raised)
  BY <1>1, HandlerTrue DEF HandlerOK, TrueTo, UsesAlarm
<1>3. Idle \in Handler
  BY DEF Idle, Handler, Labels, Low, Medium, High
<1>4. QED
  BY <1>1, <1>2, <1>3, IdleTrue, AlarmRewritten

\* The statements after which the handler only goes to another label or counts.
LEMMA NumberLineage ==
  ASSUME IInv, IInv', Lineage, NEW p \in Procs, NEW ok \in BOOLEAN,
         CeNumber(p, ok) \/ InNumber(p, ok) \/ PbNumber(p, ok)
  PROVE  Lineage'
<1>1. UNCHANGED <<alarms, incidents, problems>>
  BY DEF CeNumber, InNumber, PbNumber, tables
<1>2. CASE Return(p)
  BY <1>1, <1>2, ReturnTrue
<1>3. ASSUME NEW to, NEW number \in Nat, h' = [h EXCEPT ![p] = [h[p] EXCEPT !.pc = to, !.number = number]],
             \/ h[p].pc = "ceNumber" /\ to = "ceInsert"
             \/ h[p].pc = "inNumber" /\ to = "inInsert"
             \/ h[p].pc = "pbNumber" /\ to = "pbInsert"
      PROVE  Lineage'
  <2> DEFINE y == [h[p] EXCEPT !.pc = to, !.number = number]
  <2>1. h[p] \in Handler /\ TrueTo(h[p], alarms, incidents, Raised)
    BY HandlerTrue
  <2>2. y \in Handler
    BY <1>3, <2>1 DEF Handler, Labels
  <2>3. TrueTo(y, alarms, incidents, Raised) /\ Continues(h[p], y)
    BY <1>3, <2>1 DEF TrueTo, Continues, OwesIncident, Owing, Raising, UsesAlarm,
                      UsesIncident, UsesProblem, Handler
  <2>4. QED
    BY <1>1, <1>3, <2>2, <2>3, QuietMove
<1>4. NextNumber(alarms) \in Nat /\ NextNumber(incidents) \in Nat /\ NextNumber(problems) \in Nat
  BY TableShapes DEF NextNumber
<1>5. QED
  BY <1>2, <1>3, <1>4 DEF CeNumber, InNumber, PbNumber, Goto

LEMMA CeInsertLineage ==
  ASSUME IInv, IInv', Lineage, NEW p \in Procs, NEW ok \in BOOLEAN, CeInsert(p, ok)
  PROVE  Lineage'
<1> DEFINE new == [id |-> Len(alarms) + 1, number |-> h[p].number, name |-> h[p].name,
                   status |-> "Open", priority |-> h[p].priority, dated |-> FALSE]
           y == [h[p] EXCEPT !.pc = "ceLink", !.alarm = new]
<1>1. /\ h[p] \in Handler /\ h[p].pc = "ceInsert"
      /\ TrueTo(h[p], alarms, incidents, Raised)
      /\ HandlerOK(h[p], Len(alarms), Len(incidents), Len(tickets), Len(problems))
  BY HandlerTrue DEF CeInsert
<1>2. CASE alarms' = Append(alarms, new) /\ h' = [h EXCEPT ![p] = y]
  <2>1. incidents' = incidents /\ problems' = problems
    BY DEF CeInsert
  <2>2. h[p].number \in Nat /\ h[p].name \in Names /\ h[p].priority \in {Low, Medium, High}
    BY <1>1 DEF HandlerOK, Handler, UsesName
  <2>3. new \in Alarm
    BY <2>2, Lengths DEF Alarm, AlarmStatuses
  <2>4. y \in Handler
    BY <1>1, <2>3 DEF Handler, Labels
  <2>5. /\ y.pc = "ceLink" /\ y.alarm = new /\ y.priority = h[p].priority
        /\ y.toClose = h[p].toClose /\ y.incidentsToClose = h[p].incidentsToClose
        /\ y.recurring = h[p].recurring
    BY <1>1 DEF Handler
  <2>6. /\ new.id = Len(alarms) + 1 /\ new.name = h[p].name /\ new.priority = h[p].priority
    OBVIOUS
  <2>7. /\ Len(alarms') = Len(alarms) + 1 /\ DOMAIN alarms' = 1..Len(alarms')
        /\ \A k \in DOMAIN alarms : alarms'[k] = alarms[k]
        /\ alarms'[Len(alarms) + 1] = new
    BY <1>2 DEF IInv, TypeOK
  <2>8. h'[p] = y /\ \A r \in Procs : r # p => h'[r] = h[r]
    BY <1>2, TableShapes
  <2> HIDE DEF new, y
  <2>9. Grows(alarms, incidents, alarms', incidents')
    BY <2>1, <2>7, TableShapes DEF Grows
  <2>10. /\ \A k \in Raised' : k \in Raised \/ (k = Len(alarms) + 1 /\ h[p].priority = High)
         /\ \A k \in Raised : k \in DOMAIN alarms /\ alarms[k].priority = High
    <3>1. \A k \in Raised : k \in DOMAIN alarms /\ alarms[k].priority = High
      BY DEF Lineage, RaisedAreHigh
    <3>2. OwesIncident(y) => h[p].priority = High /\ y.alarm.id = Len(alarms) + 1
      BY <2>5, <2>6 DEF OwesIncident
    <3>3. QED
      BY <2>1, <2>8, <3>1, <3>2 DEF Raised
  <2>11. \A k \in DOMAIN alarms : k \in Raised' => k \in Raised
    BY <2>10, TableShapes
  <2>12. \A i \in DOMAIN incidents : incidents[i].alarm \in DOMAIN alarms
    BY DEF Lineage, IncidentsOfAlarms
  <2>13. IncidentsOfAlarms'
    BY <2>1, <2>7, <2>12, TableShapes DEF Lineage, IncidentsOfAlarms
  <2>14. RaisedAreHigh'
    BY <2>6, <2>7, <2>10, TableShapes DEF RaisedAreHigh
  <2>15. ProblemsRecur'
    BY <2>1, <2>9, <2>12, AboutRecurrenceKept DEF Lineage, ProblemsRecur
  <2>16. TrueTo(h[p], alarms', incidents', Raised')
    BY <1>1, <2>9, <2>11, <2>12, TrueToKept
  <2>17. AlarmTrue(new, alarms', Raised')
    BY <2>6, <2>7, <2>10, TableShapes DEF AlarmTrue
  <2>18. h[p].recurring => Recurs(new.id, alarms')
    BY <1>1, <2>6, <2>7, TableShapes DEF TrueTo, Recurs
  <2>19. TrueTo(y, alarms', incidents', Raised')
    BY <2>5, <2>16, <2>17, <2>18 DEF TrueTo, Owing, Raising, UsesIncident, UsesProblem
  <2>20. QED
    BY <1>2, <2>1, <2>4, <2>5, <2>6, <2>9, <2>11, <2>13, <2>14, <2>15, <2>19, LineageMove
<1>3. CASE Return(p) /\ UNCHANGED alarms
  BY <1>3, ReturnTrue DEF CeInsert
<1>4. QED
  BY <1>2, <1>3 DEF CeInsert, Goto

LEMMA CeLinkLineage ==
  ASSUME IInv, IInv', Lineage, NEW p \in Procs, NEW ok \in BOOLEAN, CeLink(p, ok)
  PROVE  Lineage'
<1> DEFINE y == IF h[p].priority = High THEN [h[p] EXCEPT !.pc = "inNumber"] ELSE Idle
<1>1. /\ h[p] \in Handler /\ h[p].pc = "ceLink"
      /\ TrueTo(h[p], alarms, incidents, Raised)
      /\ HandlerOK(h[p], Len(alarms), Len(incidents), Len(tickets), Len(problems))
  BY HandlerTrue DEF CeLink
<1>2. /\ h[p].alarm \in Alarm /\ Placed(h[p].alarm, Len(alarms))
      /\ AlarmTrue(h[p].alarm, alarms, Raised)
  BY <1>1 DEF HandlerOK, TrueTo, UsesAlarm
<1>3. /\ alarms' \in {[alarms EXCEPT ![h[p].alarm.id] = h[p].alarm], alarms}
      /\ h' = [h EXCEPT ![p] = y] /\ UNCHANGED <<incidents, problems>>
  BY DEF CeLink, Goto, Return
<1>4. y \in Handler
  BY <1>1 DEF Idle, Handler, Labels, Low, Medium, High
<1>5. TrueTo(y, alarms, incidents, Raised) /\ Continues(h[p], y)
  <2>1. CASE h[p].priority = High
    BY <1>1, <2>1 DEF TrueTo, Continues, OwesIncident, Owing, Raising, UsesAlarm,
                      UsesIncident, UsesProblem, Handler
  <2>2. CASE h[p].priority # High
    BY <2>2, IdleTrue
  <2>3. QED
    BY <2>1, <2>2
<1>6. QED
  BY <1>2, <1>3, <1>4, <1>5, AlarmRewritten

LEMMA InInsertLineage ==
  ASSUME IInv, IInv', Lineage, NEW p \in Procs, NEW ok \in BOOLEAN, InInsert(p, ok)
  PROVE  Lineage'
<1> DEFINE new == [id |-> Len(incidents) + 1, number |-> h[p].number,
                   alarm |-> h[p].alarm.id, status |-> "Open",
                   priority |-> h[p].alarm.priority, dated |-> FALSE]
           y == [h[p] EXCEPT !.pc = "inLink", !.incident = new]
<1>1. /\ h[p] \in Handler /\ h[p].pc = "inInsert"
      /\ TrueTo(h[p], alarms, incidents, Raised)
      /\ HandlerOK(h[p], Len(alarms), Len(incidents), Len(tickets), Len(problems))
  BY HandlerTrue DEF InInsert
<1>2. CASE incidents' = Append(incidents, new) /\ h' = [h EXCEPT ![p] = y]
  <2>1. alarms' = alarms /\ problems' = problems
    BY DEF InInsert
  <2>2. /\ h[p].number \in Nat /\ h[p].alarm.id \in DOMAIN alarms /\ h[p].alarm.id \in Nat
        /\ h[p].alarm.priority \in {Low, Medium, High}
    BY <1>1, TableShapes DEF HandlerOK, Handler, UsesAlarm, Placed, Alarm
  <2>3. new \in Incident
    BY <2>2, Lengths DEF Incident, AlarmStatuses
  <2>4. y \in Handler
    BY <1>1, <2>3 DEF Handler, Labels
  <2>5. /\ y.pc = "inLink" /\ y.incident = new /\ y.alarm = h[p].alarm
        /\ y.toClose = h[p].toClose /\ y.incidentsToClose = h[p].incidentsToClose
        /\ y.recurring = h[p].recurring
    BY <1>1 DEF Handler
  <2>6. new.id = Len(incidents) + 1 /\ new.alarm = h[p].alarm.id
    OBVIOUS
  <2>7. /\ Len(incidents') = Len(incidents) + 1 /\ DOMAIN incidents' = 1..Len(incidents')
        /\ \A i \in DOMAIN incidents : incidents'[i] = incidents[i]
        /\ incidents'[Len(incidents) + 1] = new
    BY <1>2 DEF IInv, TypeOK
  <2> HIDE DEF new, y
  <2>8. Grows(alarms, incidents, alarms', incidents')
    BY <2>1, <2>7, TableShapes DEF Grows
  <2>9. /\ h[p].alarm.id \in Raised
        /\ \A i \in DOMAIN incidents : incidents[i].alarm \in Raised
    BY <1>1 DEF Raised, OwesIncident
  <2>10. \A i \in DOMAIN incidents' : i \in DOMAIN incidents \/ i = Len(incidents) + 1
    BY <2>7, TableShapes
  <2>11. Raised' \subseteq Raised
    <3>1. \A i \in DOMAIN incidents' : incidents'[i].alarm \in Raised
      BY <2>6, <2>7, <2>9, <2>10
    <3>2. Continues(h[p], y)
      BY <2>5 DEF Continues, Owing, OwesIncident
    <3>3. QED
      BY <1>2, <2>4, <3>1, <3>2, RaisedNarrows
  <2>12. \A i \in DOMAIN incidents : incidents[i].alarm \in DOMAIN alarms
    BY DEF Lineage, IncidentsOfAlarms
  <2>13. IncidentsOfAlarms'
    <3>1. \A i \in DOMAIN incidents : incidents[i].alarm # h[p].alarm.id
      BY <1>1 DEF Lineage, OwedHasNone, Owing
    <3>2. \A i \in DOMAIN incidents' : incidents'[i].alarm \in DOMAIN alarms'
      BY <2>1, <2>2, <2>6, <2>7, <2>10, <2>12
    <3>3. \A i, j \in DOMAIN incidents' : incidents'[i].alarm = incidents'[j].alarm => i = j
      <4> SUFFICES ASSUME NEW i \in DOMAIN incidents', NEW j \in DOMAIN incidents',
                          incidents'[i].alarm = incidents'[j].alarm
                   PROVE  i = j
        OBVIOUS
      <4>1. \A e, f \in DOMAIN incidents : incidents[e].alarm = incidents[f].alarm => e = f
        BY DEF Lineage, IncidentsOfAlarms
      <4>2. QED
        BY <2>6, <2>7, <2>10, <3>1, <4>1
    <3>4. QED
      BY <3>2, <3>3 DEF IncidentsOfAlarms
  <2>14. RaisedAreHigh'
    BY <2>1, <2>11 DEF Lineage, RaisedAreHigh
  <2>15. ProblemsRecur'
    BY <2>1, <2>8, <2>12, AboutRecurrenceKept DEF Lineage, ProblemsRecur
  <2>16. TrueTo(h[p], alarms', incidents', Raised')
    BY <1>1, <2>8, <2>11, <2>12, TrueToKept
  <2>17. IncidentTrue(new, incidents')
    BY <2>6, <2>7 DEF IncidentTrue
  <2>18. TrueTo(y, alarms', incidents', Raised')
    BY <1>1, <2>5, <2>6, <2>16, <2>17 DEF TrueTo, Owing, Raising, UsesAlarm, UsesIncident, UsesProblem
  <2>19. \A i \in DOMAIN incidents' : i \in DOMAIN incidents \/ incidents'[i].alarm = h[p].alarm.id
    BY <2>6, <2>7, <2>10
  <2>20. QED
    BY <1>1, <1>2, <2>4, <2>5, <2>8, <2>11, <2>13, <2>14, <2>15, <2>18, <2>19, LineageMove
       DEF Owing
<1>3. CASE Return(p) /\ UNCHANGED incidents
  BY <1>3, ReturnTrue DEF InInsert
<1>4. QED
  BY <1>2, <1>3 DEF InInsert, Goto

\* A handler that only goes on to the label to.
LEMMA OnTrue ==
  ASSUME NEW A, NEW I, NEW R, NEW x \in Handler, TrueTo(x, A, I, R), NEW to,
         \/ x.pc = "inLink" /\ to = "tkNumber"
         \/ x.pc \in {"pbUpdate", "pbLink"} /\ to = "auFind"
         \/ x.pc = "pbFind" /\ to = "pbNumber"
         \/ x.pc = "syUpdate" /\ to = "syAudit"
         \/ x.pc = "utUpdate" /\ to = "utAudit"
  PROVE  LET y == [x EXCEPT !.pc = to]
         IN y \in Handler /\ TrueTo(y, A, I, R) /\ Continues(x, y)
BY DEF TrueTo, Continues, OwesIncident, Owing, Raising, UsesAlarm, UsesIncident,
       UsesProblem, Handler, Labels

\* A handler that takes another ticket and goes on.
LEMMA TicketTrue ==
  ASSUME NEW A, NEW I, NEW R, NEW x \in Handler, TrueTo(x, A, I, R), NEW to, NEW ticket \in Ticket,
         \/ x.pc = "tkInsert" /\ to = "tkAudit"
         \/ x.pc = "auFind" /\ to = "auAdd"
         \/ x.pc = "syFind" /\ to = "syUpdate"
  PROVE  LET y == [x EXCEPT !.pc = to, !.ticket = ticket]
         IN y \in Handler /\ TrueTo(y, A, I, R) /\ Continues(x, y)
<1> DEFINE y == [x EXCEPT !.pc = to, !.ticket = ticket]
<1>1. /\ y \in Handler /\ y.pc = to /\ y.name = x.name /\ y.priority = x.priority
      /\ y.alarm = x.alarm /\ y.toClose = x.toClose
      /\ y.incident = x.incident /\ y.incidentsToClose = x.incidentsToClose
      /\ y.problem = x.problem
  BY DEF Handler, Labels
<1>2. y.recurring = x.recurring
  BY DEF Handler
<1> HIDE DEF y
<1>3. TrueTo(y, A, I, R) /\ Continues(x, y)
  BY <1>1, <1>2 DEF TrueTo, Continues, OwesIncident, Owing, Raising, UsesAlarm, UsesIncident,
                    UsesProblem
<1>4. QED
  BY <1>1, <1>3 DEF y

\* Idle, the loops and what follows a ticket are handlers.
LEMMA NextHandlers ==
  ASSUME NEW x \in Handler
  PROVE  Idle \in Handler /\ NextToClose(x) \in Handler /\ AfterTicket(x) \in Handler
<1>1. Idle \in Handler
  BY DEF Idle, Handler, Labels, Low, Medium, High
<1>2. \A to \in Labels : [x EXCEPT !.pc = to] \in Handler
  BY DEF Handler
<1>3. QED
  BY <1>1, <1>2 DEF NextToClose, AfterTicket, Labels

LEMMA InLinkLineage ==
  ASSUME IInv, IInv', Lineage, NEW p \in Procs, NEW ok \in BOOLEAN, InLink(p, ok)
  PROVE  Lineage'
<1> DEFINE y == [h[p] EXCEPT !.pc = "tkNumber"]
<1>1. /\ h[p] \in Handler /\ h[p].pc = "inLink"
      /\ TrueTo(h[p], alarms, incidents, Raised)
      /\ HandlerOK(h[p], Len(alarms), Len(incidents), Len(tickets), Len(problems))
  BY HandlerTrue DEF InLink
<1>2. /\ h[p].incident \in Incident /\ Placed(h[p].incident, Len(incidents))
      /\ IncidentTrue(h[p].incident, incidents)
  BY <1>1 DEF HandlerOK, TrueTo, UsesIncident
<1>3. /\ incidents' \in {[incidents EXCEPT ![h[p].incident.id] = h[p].incident], incidents}
      /\ h' = [h EXCEPT ![p] = y] /\ UNCHANGED <<alarms, problems>>
  BY DEF InLink, Goto
<1>4. y \in Handler /\ TrueTo(y, alarms, incidents, Raised) /\ Continues(h[p], y)
  BY <1>1, OnTrue
<1>5. QED
  BY <1>2, <1>3, <1>4, IncidentRewritten

\* The statements on tickets and their audit log.
LEMMA TicketLineage ==
  ASSUME IInv, IInv', Lineage, NEW p \in Procs, NEW ok \in BOOLEAN,
         TkInsert(p, ok) \/ TkAudit(p, ok) \/ TkNumber(p, ok)
  PROVE  Lineage'
<1>1. /\ h[p] \in Handler /\ h[p].pc \in {"tkNumber", "tkInsert", "tkAudit"}
      /\ TrueTo(h[p], alarms, incidents, Raised)
      /\ HandlerOK(h[p], Len(alarms), Len(incidents), Len(tickets), Len(problems))
      /\ UNCHANGED <<alarms, incidents, problems>>
  BY HandlerTrue DEF TkInsert, TkAudit, TkNumber, tables
<1>2. CASE h' = [h EXCEPT ![p] = AfterTicket(h[p])]
  BY <1>1, <1>2, NextHandlers, AfterTicketTrue, QuietMove
<1>3. CASE TkNumber(p, ok) /\ ok
  <2> DEFINE y == [h[p] EXCEPT !.pc = "tkInsert", !.number = NextNumber(tickets)]
  <2>1. NextNumber(tickets) \in Nat
    BY Lengths DEF NextNumber
  <2>2. h' = [h EXCEPT ![p] = y] /\ h[p].pc = "tkNumber"
    BY <1>3 DEF TkNumber, Goto
  <2>3. y \in Handler /\ TrueTo(y, alarms, incidents, Raised) /\ Continues(h[p], y)
    BY <1>1, <2>1, <2>2 DEF TrueTo, Continues, OwesIncident, Owing, Raising, UsesAlarm,
                            UsesIncident, UsesProblem, Handler, Labels
  <2>4. QED
    BY <1>1, <2>2, <2>3, QuietMove
<1>4. CASE TkInsert(p, ok)
  <2> DEFINE new == [id |-> Len(tickets) + 1, number |-> h[p].number,
                     incident |-> h[p].incident.id, status |-> "Open", dated |-> FALSE]
  <2>1. h[p].number \in Nat /\ h[p].incident.id \in Nat /\ h[p].pc = "tkInsert"
    BY <1>1, <1>4 DEF HandlerOK, Handler, UsesIncident, Incident, TkInsert
  <2>2. new \in Ticket
    BY <2>1, Lengths DEF Ticket, validTicketStatuses, AlarmStatuses
  <2>3. CASE h' = [h EXCEPT ![p] = [h[p] EXCEPT !.pc = "tkAudit", !.ticket = new]]
    <3> HIDE DEF new
    <3> DEFINE y == [h[p] EXCEPT !.pc = "tkAudit", !.ticket = new]
    <3>1. y \in Handler /\ TrueTo(y, alarms, incidents, Raised) /\ Continues(h[p], y)
      BY <1>1, <2>1, <2>2, TicketTrue
    <3>2. QED
      BY <1>1, <2>3, <3>1, QuietMove
  <2>4. QED
    BY <1>2, <1>4, <2>3 DEF TkInsert, Goto
<1>5. QED
  BY <1>2, <1>3, <1>4 DEF TkNumber, TkAudit, Goto

LEMMA PbFindLineage ==
  ASSUME IInv, IInv', Lineage, NEW p \in Procs, NEW ok \in BOOLEAN, PbFind(p, ok)
  PROVE  Lineage'
<1>1. /\ h[p] \in Handler /\ h[p].pc = "pbFind"
      /\ TrueTo(h[p], alarms, incidents, Raised)
      /\ HandlerOK(h[p], Len(alarms), Len(incidents), Len(tickets), Len(problems))
      /\ UNCHANGED <<alarms, incidents, problems>>
  BY HandlerTrue DEF PbFind, tables
<1>2. CASE Goto(p, [h[p] EXCEPT !.pc = "pbNumber"])
  <2> DEFINE y == [h[p] EXCEPT !.pc = "pbNumber"]
  <2>1. y \in Handler /\ TrueTo(y, alarms, incidents, Raised) /\ Continues(h[p], y)
    BY <1>1, OnTrue
  <2>2. QED
    BY <1>1, <1>2, <2>1, QuietMove DEF Goto
<1>3. CASE \E q \in OpenProblems(h[p].alarm.name) :
             Goto(p, [h[p] EXCEPT !.pc = "pbUpdate", !.problem = Recurred(q, h[p])])
  <2>1. PICK q \in OpenProblems(h[p].alarm.name) :
             h' = [h EXCEPT ![p] = [h[p] EXCEPT !.pc = "pbUpdate", !.problem = Recurred(q, h[p])]]
    BY <1>3 DEF Goto
  <2> DEFINE new == Recurred(q, h[p])
             y == [h[p] EXCEPT !.pc = "pbUpdate", !.problem = new]
  <2>2. h'[p] = y /\ h'[p] \in Handler
    BY <2>1, TableShapes DEF IInv, TypeOK
  <2>3. q \in Problem /\ q.name = h[p].alarm.name
    BY RowsTrue DEF OpenProblems
  <2>4. new.name = q.name /\ new.incident = h[p].incident.id
    BY <2>3 DEF Recurred, Problem
  <2>5. /\ h[p].incident.id \in DOMAIN incidents
        /\ incidents[h[p].incident.id].alarm = h[p].alarm.id
        /\ alarms[h[p].alarm.id].name = h[p].alarm.name
        /\ Recurs(h[p].alarm.id, alarms)
    BY <1>1, TableShapes DEF TrueTo, HandlerOK, Placed, UsesAlarm, UsesIncident, Owing, Raising,
                             AlarmTrue, IncidentTrue
  <2>6. AboutRecurrence(new, alarms, incidents)
    BY <2>3, <2>4, <2>5 DEF AboutRecurrence
  <2>7. TrueTo(y, alarms, incidents, Raised) /\ Continues(h[p], y)
    <3> HIDE DEF new
    <3>1. QED
      BY <1>1, <2>6 DEF TrueTo, Continues, OwesIncident, Owing, Raising, UsesAlarm,
                        UsesIncident, UsesProblem, Handler
  <2>8. y \in Handler
    BY <2>2, TableShapes DEF IInv, TypeOK
  <2>9. QED
    BY <1>1, <2>1, <2>7, <2>8, QuietMove
<1>4. QED
  BY <1>2, <1>3, Zenon DEF PbFind

LEMMA PbInsertLineage ==
  ASSUME IInv, IInv', Lineage, NEW p \in Procs, NEW ok \in BOOLEAN, PbInsert(p, ok)
  PROVE  Lineage'
<1> DEFINE new == [id |-> Len(problems) + 1, number |-> h[p].number,
                   name |-> h[p].alarm.name, incident |-> h[p].incident.id,
                   status |-> "Open", priority |-> h[p].alarm.priority, count |-> 1]
           y == [h[p] EXCEPT !.pc = "pbLink", !.problem = new]
<1>1. /\ h[p] \in Handler /\ h[p].pc = "pbInsert"
      /\ TrueTo(h[p], alarms, incidents, Raised)
      /\ HandlerOK(h[p], Len(alarms), Len(incidents), Len(tickets), Len(problems))
      /\ UNCHANGED <<alarms, incidents>>
  BY HandlerTrue DEF PbInsert
<1>2. CASE problems' = Append(problems, new) /\ h' = [h EXCEPT ![p] = y]
  <2>1. /\ h[p].number \in Nat /\ h[p].incident.id \in Nat
        /\ h[p].alarm.name \in Names /\ h[p].alarm.priority \in {Low, Medium, High}
    BY <1>1 DEF HandlerOK, Handler, UsesAlarm, UsesIncident, Alarm, Incident
  <2>2. new \in Problem
    BY <2>1, Lengths DEF Problem, AlarmStatuses
  <2>3. /\ h[p].incident.id \in DOMAIN incidents
        /\ incidents[h[p].incident.id].alarm = h[p].alarm.id
        /\ alarms[h[p].alarm.id].name = h[p].alarm.name
        /\ Recurs(h[p].alarm.id, alarms)
    BY <1>1, TableShapes DEF TrueTo, HandlerOK, Placed, UsesAlarm, UsesIncident, Owing, Raising,
                             AlarmTrue, IncidentTrue
  <2>4. AboutRecurrence(new, alarms, incidents)
    BY <2>3 DEF AboutRecurrence
  <2> HIDE DEF new
  <2>5. y \in Handler /\ TrueTo(y, alarms, incidents, Raised) /\ Continues(h[p], y)
    BY <1>1, <2>2, <2>4 DEF TrueTo, Continues, OwesIncident, Owing, Raising, UsesAlarm,
                            UsesIncident, UsesProblem, Handler, Labels
  <2>6. QED
    BY <1>1, <1>2, <2>2, <2>4, <2>5, ProblemRewritten
<1>3. CASE Return(p) /\ UNCHANGED problems
  BY <1>1, <1>3, ReturnTrue
<1>4. QED
  BY <1>2, <1>3 DEF PbInsert, Goto

\* UPDATE problems with the held copy.
LEMMA PbUpdateLineage ==
  ASSUME IInv, IInv', Lineage, NEW p \in Procs, NEW ok \in BOOLEAN,
         PbUpdate(p, ok) \/ PbLink(p, ok) \/ CpUpdate(p, ok)
  PROVE  Lineage'
<1>1. /\ h[p] \in Handler /\ h[p].pc \in UsesProblem
      /\ TrueTo(h[p], alarms, incidents, Raised)
      /\ HandlerOK(h[p], Len(alarms), Len(incidents), Len(tickets), Len(problems))
      /\ UNCHANGED <<alarms, incidents>>
      /\ problems' \in {[problems EXCEPT ![h[p].problem.id] = h[p].problem], problems}
  BY HandlerTrue DEF PbUpdate, PbLink, CpUpdate, UsesProblem
<1>2. h[p].problem \in Problem /\ AboutRecurrence(h[p].problem, alarms, incidents)
  BY <1>1 DEF HandlerOK, TrueTo
<1>3. CASE Return(p)
  BY <1>1, <1>2, <1>3, IdleTrue, NextHandlers, ProblemRewritten DEF Return, Goto
<1>4. CASE Goto(p, [h[p] EXCEPT !.pc = "auFind"]) /\ h[p].pc \in {"pbUpdate", "pbLink"}
  <2> DEFINE y == [h[p] EXCEPT !.pc = "auFind"]
  <2>1. y \in Handler /\ TrueTo(y, alarms, incidents, Raised) /\ Continues(h[p], y)
    BY <1>1, <1>4, OnTrue
  <2>2. QED
    BY <1>1, <1>2, <1>4, <2>1, ProblemRewritten DEF Goto
<1>5. QED
  BY <1>3, <1>4 DEF PbUpdate, PbLink, CpUpdate

\* The audit entry of an operator's change or of a problem, and the status an
\* operator sets.
LEMMA OperatorLineage ==
  ASSUME IInv, IInv', Lineage, NEW p \in Procs, NEW ok \in BOOLEAN,
         UtUpdate(p, ok) \/ UtAudit(p, ok) \/ AuAdd(p, ok)
  PROVE  Lineage'
<1>1. UNCHANGED <<alarms, incidents, problems>>
  BY DEF UtUpdate, UtAudit, AuAdd
<1>2. CASE Return(p)
  BY <1>1, <1>2, ReturnTrue
<1>3. CASE Goto(p, [h[p] EXCEPT !.pc = "utAudit"]) /\ h[p].pc = "utUpdate"
  <2> DEFINE y == [h[p] EXCEPT !.pc = "utAudit"]
  <2>1. y \in Handler /\ TrueTo(y, alarms, incidents, Raised) /\ Continues(h[p], y)
    BY <1>3, HandlerTrue, OnTrue
  <2>2. QED
    BY <1>1, <1>3, <2>1, QuietMove DEF Goto
<1>4. QED
  BY <1>2, <1>3 DEF UtUpdate, UtAudit, AuAdd

LEMMA AuFindLineage ==
  ASSUME IInv, IInv', Lineage, NEW p \in Procs, NEW ok \in BOOLEAN, AuFind(p, ok)
  PROVE  Lineage'
<1>1. UNCHANGED <<alarms, incidents, problems>> /\ h[p].pc = "auFind"
  BY DEF AuFind, tables
<1>2. CASE Return(p)
  BY <1>1, <1>2, ReturnTrue
<1>3. ASSUME NEW t \in TicketsOf(h[p].incident),
             Goto(p, [h[p] EXCEPT !.pc = "auAdd", !.ticket = t])
      PROVE  Lineage'
  <2> DEFINE y == [h[p] EXCEPT !.pc = "auAdd", !.ticket = t]
  <2>1. t \in Ticket
    BY TablesPlaced DEF TicketsOf
  <2>2. y \in Handler /\ TrueTo(y, alarms, incidents, Raised) /\ Continues(h[p], y)
    BY <1>1, <2>1, HandlerTrue, TicketTrue
  <2>3. QED
    BY <1>1, <1>3, <2>2, QuietMove DEF Goto
<1>4. QED
  BY <1>2, <1>3 DEF AuFind

\* The loops go on, or begin with other rows.
LEMMA LoopLineage ==
  ASSUME IInv, IInv', Lineage, NEW p \in Procs, UNCHANGED <<alarms, incidents, problems>>,
         NEW y \in Handler, h' = [h EXCEPT ![p] = NextToClose(y)],
         \A a \in y.toClose : AlarmTrue(a, alarms, Raised),
         \A i \in y.incidentsToClose : IncidentTrue(i, incidents)
  PROVE  Lineage'
<1>1. TrueTo(NextToClose(y), alarms, incidents, Raised) /\ Continues(h[p], NextToClose(y))
  BY NextToCloseTrue
<1>2. QED
  BY <1>1, NextHandlers, QuietMove

LEMMA SyncLineage ==
  ASSUME IInv, IInv', Lineage, NEW p \in Procs, NEW ok \in BOOLEAN,
         SyFind(p, ok) \/ SyUpdate(p, ok) \/ SyAudit(p, ok)
  PROVE  Lineage'
<1>1. UNCHANGED <<alarms, incidents, problems>>
  BY DEF SyFind, SyUpdate, SyAudit, tables
<1>2. h[p] \in Handler /\ TrueTo(h[p], alarms, incidents, Raised)
  BY HandlerTrue
<1>3. CASE Goto(p, NextToClose(h[p]))
  BY <1>1, <1>2, <1>3, LoopLineage DEF Goto, TrueTo
<1>4. ASSUME NEW t \in TicketsOf(h[p].incident), h[p].pc = "syFind",
             Goto(p, [h[p] EXCEPT !.pc = "syUpdate", !.ticket = ClosedRow(t)])
      PROVE  Lineage'
  <2> DEFINE y == [h[p] EXCEPT !.pc = "syUpdate", !.ticket = ClosedRow(t)]
  <2>1. ClosedRow(t) \in Ticket
    BY TablesPlaced DEF TicketsOf, ClosedRow, Ticket, validTicketStatuses, AlarmStatuses
  <2>2. y \in Handler /\ TrueTo(y, alarms, incidents, Raised) /\ Continues(h[p], y)
    BY <1>2, <1>4, <2>1, TicketTrue
  <2>3. QED
    BY <1>1, <1>4, <2>2, QuietMove DEF Goto
<1>5. CASE h[p].pc = "syUpdate" /\ Goto(p, [h[p] EXCEPT !.pc = "syAudit"])
  <2> DEFINE y == [h[p] EXCEPT !.pc = "syAudit"]
  <2>1. y \in Handler /\ TrueTo(y, alarms, incidents, Raised) /\ Continues(h[p], y)
    BY <1>2, <1>5, OnTrue
  <2>2. QED
    BY <1>1, <1>5, <2>1, QuietMove DEF Goto
<1>6. QED
  BY <1>3, <1>4, <1>5 DEF SyFind, SyUpdate, SyAudit

LEMMA ClFindLineage ==
  ASSUME IInv, IInv', Lineage, NEW p \in Procs, NEW ok \in BOOLEAN,
         ClFind(p, ok) \/ ClFindIncidents(p, ok)
  PROVE  Lineage'
<1>1. UNCHANGED <<alarms, incidents, problems>>
  BY DEF ClFind, ClFindIncidents, tables
<1>2. h[p] \in Handler /\ TrueTo(h[p], alarms, incidents, Raised)
  BY HandlerTrue
<1>3. CASE Return(p)
  BY <1>1, <1>3, ReturnTrue
<1>4. CASE Goto(p, NextToClose(h[p]))
  BY <1>1, <1>2, <1>4, LoopLineage DEF Goto, TrueTo
<1>5. ASSUME NEW open, open = {a \in Matching(h[p].name) : IsActive(a)},
             Goto(p, NextToClose([h[p] EXCEPT !.toClose = open]))
      PROVE  Lineage'
  <2> DEFINE y == [h[p] EXCEPT !.toClose = open]
  <2>1. open \subseteq Alarm /\ \A a \in open : AlarmTrue(a, alarms, Raised)
    BY <1>5, RowsTrue DEF Matching
  <2>2. y \in Handler /\ y.toClose = open /\ y.incidentsToClose = h[p].incidentsToClose
    BY <1>2, <2>1 DEF Handler
  <2>3. h' = [h EXCEPT ![p] = NextToClose(y)]
    BY <1>5 DEF Goto
  <2> HIDE DEF y
  <2>4. QED
    BY <1>1, <1>2, <2>1, <2>2, <2>3, LoopLineage DEF TrueTo
<1>6. ASSUME NEW open, open = {i \in Rows(incidents) : i.alarm = h[p].alarm.id /\ IsActive(i)},
             Goto(p, NextToClose([h[p] EXCEPT !.incidentsToClose = open]))
      PROVE  Lineage'
  <2> DEFINE y == [h[p] EXCEPT !.incidentsToClose = open]
  <2>1. open \subseteq Incident /\ \A i \in open : IncidentTrue(i, incidents)
    BY <1>6, RowsTrue
  <2>2. y \in Handler /\ y.incidentsToClose = open /\ y.toClose = h[p].toClose
    BY <1>2, <2>1 DEF Handler
  <2>3. h' = [h EXCEPT ![p] = NextToClose(y)]
    BY <1>6 DEF Goto
  <2> HIDE DEF y
  <2>4. QED
    BY <1>1, <1>2, <2>1, <2>2, <2>3, LoopLineage DEF TrueTo
<1>7. QED
  BY <1>3, <1>4, <1>5, <1>6 DEF ClFind, ClFindIncidents

LEMMA ClAlarmLineage ==
  ASSUME IInv, IInv', Lineage, NEW p \in Procs, NEW ok \in BOOLEAN, ClAlarm(p, ok)
  PROVE  Lineage'
<1>1. PICK r \in h[p].toClose :
        LET rest == [h[p] EXCEPT !.toClose = @ \ {r}, !.alarm = ClosedRow(r)]
        IN IF ok THEN /\ alarms' = [alarms EXCEPT ![r.id] = ClosedRow(r)]
                      /\ Goto(p, [rest EXCEPT !.pc = "clFindIncidents"])
                 ELSE Goto(p, NextToClose(rest)) /\ UNCHANGED alarms
  BY DEF ClAlarm
<1>2. UNCHANGED <<incidents, problems>>
  BY DEF ClAlarm
<1>3. /\ h[p] \in Handler /\ TrueTo(h[p], alarms, incidents, Raised)
      /\ HandlerOK(h[p], Len(alarms), Len(incidents), Len(tickets), Len(problems))
  BY HandlerTrue
<1>4. r \in Alarm /\ Placed(r, Len(alarms)) /\ AlarmTrue(r, alarms, Raised)
  BY <1>3 DEF HandlerOK, Handler, TrueTo
<1> DEFINE closed == ClosedRow(r)
           rest == [h[p] EXCEPT !.toClose = @ \ {r}, !.alarm = closed]
           y == [rest EXCEPT !.pc = "clFindIncidents"]
<1>5. /\ closed \in Alarm /\ Placed(closed, Len(alarms)) /\ AlarmTrue(closed, alarms, Raised)
      /\ closed.id = r.id
  BY <1>4 DEF ClosedRow, Alarm, AlarmStatuses, Placed, AlarmTrue
<1>6. /\ rest \in Handler /\ rest.toClose \subseteq h[p].toClose
      /\ rest.incidentsToClose = h[p].incidentsToClose /\ rest.alarm = closed
  BY <1>3, <1>5 DEF Handler
<1>7. \A a \in rest.toClose : AlarmTrue(a, alarms, Raised)
  BY <1>3, <1>6 DEF TrueTo
<1>8. \A i \in rest.incidentsToClose : IncidentTrue(i, incidents)
  BY <1>3, <1>6 DEF TrueTo
<1>9. CASE ok
  <2>1. alarms' = [alarms EXCEPT ![closed.id] = closed] /\ h' = [h EXCEPT ![p] = y]
    BY <1>1, <1>5, <1>9 DEF Goto
  <2> HIDE DEF closed, rest
  <2>2. y \in Handler /\ TrueTo(y, alarms, incidents, Raised) /\ Continues(h[p], y)
    BY <1>5, <1>6, <1>7, <1>8 DEF TrueTo, Continues, OwesIncident, Owing, Raising, UsesAlarm,
                                  UsesIncident, UsesProblem, Handler, Labels
  <2>3. QED
    BY <1>2, <1>5, <2>1, <2>2, AlarmRewritten
<1>10. CASE ~ok
  <2>1. h' = [h EXCEPT ![p] = NextToClose(rest)] /\ alarms' = alarms
    BY <1>1, <1>10 DEF Goto
  <2> HIDE DEF closed, rest
  <2>2. QED
    BY <1>2, <1>6, <1>7, <1>8, <2>1, LoopLineage
<1>11. QED
  BY <1>9, <1>10

LEMMA ClIncidentLineage ==
  ASSUME IInv, IInv', Lineage, NEW p \in Procs, NEW ok \in BOOLEAN, ClIncident(p, ok)
  PROVE  Lineage'
<1>1. PICK r \in h[p].incidentsToClose :
        LET rest == [h[p] EXCEPT !.incidentsToClose = @ \ {r}, !.incident = ClosedRow(r)]
        IN IF ok THEN /\ incidents' = [incidents EXCEPT ![r.id] = ClosedRow(r)]
                      /\ Goto(p, [rest EXCEPT !.pc = "syFind"])
                 ELSE Goto(p, NextToClose(rest)) /\ UNCHANGED incidents
  BY DEF ClIncident
<1>2. UNCHANGED <<alarms, problems>>
  BY DEF ClIncident
<1>3. /\ h[p] \in Handler /\ TrueTo(h[p], alarms, incidents, Raised)
      /\ HandlerOK(h[p], Len(alarms), Len(incidents), Len(tickets), Len(problems))
  BY HandlerTrue
<1>4. r \in Incident /\ Placed(r, Len(incidents)) /\ IncidentTrue(r, incidents)
  BY <1>3 DEF HandlerOK, Handler, TrueTo
<1> DEFINE closed == ClosedRow(r)
           rest == [h[p] EXCEPT !.incidentsToClose = @ \ {r}, !.incident = closed]
           y == [rest EXCEPT !.pc = "syFind"]
<1>5. /\ closed \in Incident /\ Placed(closed, Len(incidents)) /\ IncidentTrue(closed, incidents)
      /\ closed.id = r.id
  BY <1>4 DEF ClosedRow, Incident, AlarmStatuses, Placed, IncidentTrue
<1>6. /\ rest \in Handler /\ rest.incidentsToClose \subseteq h[p].incidentsToClose
      /\ rest.toClose = h[p].toClose /\ rest.incident = closed
  BY <1>3, <1>5 DEF Handler
<1>7. \A a \in rest.toClose : AlarmTrue(a, alarms, Raised)
  BY <1>3, <1>6 DEF TrueTo
<1>8. \A i \in rest.incidentsToClose : IncidentTrue(i, incidents)
  BY <1>3, <1>6 DEF TrueTo
<1>9. CASE ok
  <2>1. incidents' = [incidents EXCEPT ![closed.id] = closed] /\ h' = [h EXCEPT ![p] = y]
    BY <1>1, <1>5, <1>9 DEF Goto
  <2> HIDE DEF closed, rest
  <2>2. y \in Handler /\ TrueTo(y, alarms, incidents, Raised) /\ Continues(h[p], y)
    BY <1>5, <1>6, <1>7, <1>8 DEF TrueTo, Continues, OwesIncident, Owing, Raising, UsesAlarm,
                                  UsesIncident, UsesProblem, Handler, Labels
  <2>3. QED
    BY <1>2, <1>5, <2>1, <2>2, IncidentRewritten
<1>10. CASE ~ok
  <2>1. h' = [h EXCEPT ![p] = NextToClose(rest)] /\ incidents' = incidents
    BY <1>1, <1>10 DEF Goto
  <2> HIDE DEF closed, rest
  <2>2. QED
    BY <1>2, <1>6, <1>7, <1>8, <2>1, LoopLineage
<1>11. QED
  BY <1>9, <1>10

-----------------------------------------------------------------------------
(* The requests, and the invariant *)

\* A handler starts with true copies.
LEMMA RequestLineage ==
  ASSUME IInv, IInv', Lineage, NEW p \in Procs, Request(p)
  PROVE  Lineage'
<1>1. UNCHANGED <<alarms, incidents, problems>>
  BY DEF Request, Fire, Resolve, SetInProgress, Close, CloseIncident, CloseProblem,
         UpdateTicketStatus, tables
<1>2. ASSUME NEW y, h' = [h EXCEPT ![p] = y],
             TrueTo(y, alarms, incidents, Raised), y.pc \notin Owing
      PROVE  Lineage'
  <2>1. y \in Handler
    <3>1. h'[p] = y /\ h'[p] \in Handler
      BY <1>2, TableShapes DEF IInv, TypeOK
    <3>2. QED
      BY <3>1
  <2>2. Continues(h[p], y)
    BY <1>2 DEF Continues, OwesIncident, Owing
  <2>3. QED
    BY <1>1, <1>2, <2>1, <2>2, QuietMove
<1>3. ASSUME NEW n, NEW priority, Fire(p, n, priority)
      PROVE  Lineage'
  <2> DEFINE y == [Idle EXCEPT !.pc = "ceFind", !.name = n, !.priority = priority]
  <2>1. y.pc \notin Owing /\ TrueTo(y, alarms, incidents, Raised)
    BY DEF TrueTo, Owing, Raising, UsesAlarm, UsesIncident, UsesProblem, Idle
  <2>2. h' = [h EXCEPT ![p] = y]
    BY <1>3 DEF Fire, Goto
  <2>3. QED
    BY <1>2, <2>1, <2>2
<1>4. ASSUME NEW n, Resolve(p, n)
      PROVE  Lineage'
  <2> DEFINE y == [Idle EXCEPT !.pc = "clFind", !.name = n]
  <2>1. y.pc \notin Owing /\ TrueTo(y, alarms, incidents, Raised)
    BY DEF TrueTo, Owing, Raising, UsesAlarm, UsesIncident, UsesProblem, Idle
  <2>2. h' = [h EXCEPT ![p] = y]
    BY <1>4 DEF Resolve, Goto
  <2>3. QED
    BY <1>2, <2>1, <2>2
<1>5. ASSUME NEW a \in Rows(alarms), SetInProgress(p, a)
      PROVE  Lineage'
  <2> DEFINE y == [Idle EXCEPT !.pc = "ipUpdate", !.alarm = [a EXCEPT !.status = "In Progress"]]
  <2>1. AlarmTrue([a EXCEPT !.status = "In Progress"], alarms, Raised)
    BY RowsTrue DEF AlarmTrue, Alarm
  <2>2. y.pc \notin Owing /\ TrueTo(y, alarms, incidents, Raised)
    BY <2>1 DEF TrueTo, Owing, Raising, UsesAlarm, UsesIncident, UsesProblem, Idle
  <2>3. h' = [h EXCEPT ![p] = y]
    BY <1>5 DEF SetInProgress, Goto
  <2>4. QED
    BY <1>2, <2>2, <2>3
<1>6. ASSUME NEW a \in Rows(alarms), Close(p, a)
      PROVE  Lineage'
  <2> DEFINE y == [Idle EXCEPT !.pc = "clAlarm", !.toClose = {a}]
  <2>1. AlarmTrue(a, alarms, Raised)
    BY RowsTrue
  <2>2. y.pc \notin Owing /\ TrueTo(y, alarms, incidents, Raised)
    BY <2>1 DEF TrueTo, Owing, Raising, UsesAlarm, UsesIncident, UsesProblem, Idle
  <2>3. h' = [h EXCEPT ![p] = y]
    BY <1>6 DEF Close, Goto
  <2>4. QED
    BY <1>2, <2>2, <2>3
<1>7. ASSUME NEW i \in Rows(incidents), CloseIncident(p, i)
      PROVE  Lineage'
  <2> DEFINE y == [Idle EXCEPT !.pc = "clIncident", !.incidentsToClose = {i}]
  <2>1. IncidentTrue(i, incidents)
    BY RowsTrue
  <2>2. y.pc \notin Owing /\ TrueTo(y, alarms, incidents, Raised)
    BY <2>1 DEF TrueTo, Owing, Raising, UsesAlarm, UsesIncident, UsesProblem, Idle
  <2>3. h' = [h EXCEPT ![p] = y]
    BY <1>7 DEF CloseIncident, Goto
  <2>4. QED
    BY <1>2, <2>2, <2>3
<1>8. ASSUME NEW q \in Rows(problems), CloseProblem(p, q)
      PROVE  Lineage'
  <2> DEFINE y == [Idle EXCEPT !.pc = "cpUpdate", !.problem = [q EXCEPT !.status = "Closed"]]
  <2>1. AboutRecurrence([q EXCEPT !.status = "Closed"], alarms, incidents)
    BY RowsTrue DEF AboutRecurrence, Problem
  <2>2. y.pc \notin Owing /\ TrueTo(y, alarms, incidents, Raised)
    BY <2>1 DEF TrueTo, Owing, Raising, UsesAlarm, UsesIncident, UsesProblem, Idle
  <2>3. h' = [h EXCEPT ![p] = y]
    BY <1>8 DEF CloseProblem, Goto
  <2>4. QED
    BY <1>2, <2>2, <2>3
<1>9. ASSUME NEW t \in Rows(tickets), NEW s, UpdateTicketStatus(p, t, s)
      PROVE  Lineage'
  <2> DEFINE y == [Idle EXCEPT !.pc = "utUpdate", !.ticket = [t EXCEPT !.status = s]]
  <2>1. y.pc \notin Owing /\ TrueTo(y, alarms, incidents, Raised)
    BY DEF TrueTo, Owing, Raising, UsesAlarm, UsesIncident, UsesProblem, Idle
  <2>2. h' = [h EXCEPT ![p] = y]
    BY <1>9 DEF UpdateTicketStatus, Goto
  <2>3. QED
    BY <1>2, <2>1, <2>2
<1>10. QED
  BY <1>3, <1>4, <1>5, <1>6, <1>7, <1>8, <1>9, Zenon DEF Request

LEMMA StatementLineage ==
  ASSUME IInv, IInv', Lineage, NEW p \in Procs, NEW ok \in BOOLEAN, Statement(p, ok)
  PROVE  Lineage'
<1>1. \/ CeFind(p, ok) \/ CeEscalate(p, ok) \/ CeNumber(p, ok) \/ CeInsert(p, ok)
      \/ CeLink(p, ok) \/ InNumber(p, ok) \/ InInsert(p, ok) \/ InLink(p, ok)
      => Lineage'
  BY CeFindLineage, CeEscalateLineage, NumberLineage, CeInsertLineage, CeLinkLineage,
     InInsertLineage, InLinkLineage, Zenon
<1>2. \/ TkNumber(p, ok) \/ TkInsert(p, ok) \/ TkAudit(p, ok)
      \/ PbFind(p, ok) \/ PbUpdate(p, ok) \/ PbNumber(p, ok) \/ PbInsert(p, ok)
      \/ PbLink(p, ok) \/ AuFind(p, ok) \/ AuAdd(p, ok)
      => Lineage'
  BY TicketLineage, PbFindLineage, PbUpdateLineage, NumberLineage, PbInsertLineage,
     AuFindLineage, OperatorLineage, Zenon
<1>3. \/ ClFind(p, ok) \/ ClAlarm(p, ok) \/ ClFindIncidents(p, ok) \/ ClIncident(p, ok)
      \/ SyFind(p, ok) \/ SyUpdate(p, ok) \/ SyAudit(p, ok)
      \/ IpUpdate(p, ok) \/ CpUpdate(p, ok) \/ UtUpdate(p, ok) \/ UtAudit(p, ok)
      => Lineage'
  BY ClFindLineage, ClAlarmLineage, ClIncidentLineage, SyncLineage, CeEscalateLineage,
     PbUpdateLineage, OperatorLineage, Zenon
<1>4. QED
  BY <1>1, <1>2, <1>3, Zenon DEF Statement

LEMMA InitLineage == Init => Lineage
<1> SUFFICES ASSUME Init PROVE Lineage
  OBVIOUS
<1>1. /\ DOMAIN incidents = {} /\ DOMAIN problems = {}
      /\ \A p \in Procs : h[p] = Idle
  BY DEF Init
<1>2. Idle.pc \notin Owing /\ ~OwesIncident(Idle)
  BY DEF Idle, Owing, OwesIncident
<1>3. Raised = {}
  BY <1>1, <1>2 DEF Raised
<1>4. CopiesTrue
  BY <1>1, IdleTrue DEF CopiesTrue
<1>5. QED
  BY <1>1, <1>2, <1>3, <1>4 DEF Lineage, IncidentsOfAlarms, RaisedAreHigh, ProblemsRecur,
                                OwedHasNone, OwedOnce

LEMMA NextLineage == IInv /\ IInv' /\ Lineage /\ [Next]_vars => Lineage'
<1> SUFFICES ASSUME IInv, IInv', Lineage, [Next]_vars PROVE Lineage'
  OBVIOUS
<1>1. ASSUME NEW p \in Procs, Run(p)
      PROVE  Lineage'
  <2>1. PICK ok \in BOOLEAN : Statement(p, ok)
    BY <1>1 DEF Run
  <2>2. QED
    BY <2>1, StatementLineage
<1>2. CASE Restart
  <2>1. alarms' = alarms /\ incidents' = incidents /\ problems' = problems
        /\ h' = [p \in Procs |-> Idle]
    BY <1>2 DEF Restart, tables
  <2>2. Idle.pc \notin Owing /\ ~OwesIncident(Idle)
    BY DEF Idle, Owing, OwesIncident
  <2>3. Raised' \subseteq Raised
    BY <2>1, <2>2 DEF Raised
  <2>4. CopiesTrue'
    BY <2>1, IdleTrue DEF CopiesTrue
  <2>5. OwedHasNone' /\ OwedOnce'
    BY <2>1, <2>2 DEF OwedHasNone, OwedOnce
  <2>6. IncidentsOfAlarms' /\ RaisedAreHigh' /\ ProblemsRecur'
    BY <2>1, <2>3 DEF Lineage, IncidentsOfAlarms, RaisedAreHigh, ProblemsRecur
  <2>7. QED
    BY <2>4, <2>5, <2>6 DEF Lineage
<1>3. CASE UNCHANGED vars
  <2>1. alarms' = alarms /\ incidents' = incidents /\ problems' = problems /\ h' = h
    BY <1>3 DEF vars, tables
  <2>2. Raised' = Raised
    BY <2>1 DEF Raised
  <2>3. QED
    BY <2>1, <2>2 DEF Lineage, IncidentsOfAlarms, RaisedAreHigh, ProblemsRecur, OwedHasNone,
                      OwedOnce, CopiesTrue
<1>4. QED
  BY <1>1, <1>2, <1>3, RequestLineage, Zenon DEF Next, Wait

\* What belongs to what never changes, and no copy says otherwise.
THEOREM LineageInvariance == Spec => [](IInv /\ Lineage)
<1>1. Init => IInv /\ Lineage
  BY InitIInv, InitLineage
<1>2. IInv /\ Lineage /\ [Next]_vars => (IInv /\ Lineage)'
  BY NextIInv, NextLineage
<1>3. QED
  BY <1>1, <1>2, PTL DEF Spec

\* Whatever handlers interleave, fail or die, an alarm has at most one incident,
\* and no stale copy takes an alarm that has one below High.
THEOREM HighAlarmsHaveOneIncident == Spec => []OneIncidentPerHighAlarm
<1>1. IInv /\ Lineage => OneIncidentPerHighAlarm
  BY DEF Lineage, IncidentsOfAlarms, RaisedAreHigh, Raised, OneIncidentPerHighAlarm
<1>2. QED
  BY <1>1, LineageInvariance, PTL

\* Whatever handlers interleave, a problem is about a recurrence: its incident
\* is of an alarm of its name, which has an older namesake.
THEOREM ProblemsAreAboutRecurrences == Spec => []ProblemsAreRecurrences
<1>1. ASSUME IInv, Lineage PROVE ProblemsAreRecurrences
  <2> SUFFICES ASSUME NEW q \in DOMAIN problems
               PROVE  LET a == alarms[incidents[problems[q].incident].alarm]
                      IN /\ a.name = problems[q].name
                         /\ \E b \in Rows(alarms) : b.name = a.name /\ b.id < a.id
    BY DEF ProblemsAreRecurrences, Rows
  <2> DEFINE k == incidents[problems[q].incident].alarm
  <2>1. AboutRecurrence(problems[q], alarms, incidents) /\ k \in DOMAIN alarms
    BY <1>1 DEF Lineage, ProblemsRecur, IncidentsOfAlarms, AboutRecurrence
  <2>2. PICK j \in 1..(k - 1) : alarms[j].name = alarms[k].name
    BY <2>1 DEF AboutRecurrence, Recurs
  <2>3. k \in 1..Len(alarms) /\ j \in DOMAIN alarms /\ j < k
    BY <1>1, <2>1, <2>2, TableShapes
  <2>4. alarms[j] \in Rows(alarms) /\ alarms[j].id = j /\ alarms[k].id = k
    BY <1>1, <2>1, <2>3, TableShapes DEF Rows
  <2>5. QED
    BY <2>1, <2>2, <2>3, <2>4 DEF AboutRecurrence
<1>2. QED
  BY <1>1, LineageInvariance, PTL

-----------------------------------------------------------------------------
(* Claims: how far races may go                                               *)

\* Handler x holds a copy of alarm k that it may write back, or is about to
\* insert an alarm of name n; the same for problems.
HoldsAlarm(x, k) == x.pc \in {"ceEscalate", "ceLink", "ipUpdate"} /\ x.alarm.id = k
MakesAlarm(x, n) == x.pc \in {"ceNumber", "ceInsert"} /\ x.name = n
HoldsProblem(x, k) == x.pc \in UsesProblem /\ x.problem.id = k
MakesProblem(x, n) == x.pc \in {"pbNumber", "pbInsert"} /\ x.alarm.name = n

\* Handler x has raised the incident of a recurrence of n and not counted it yet.
WillCount(x, n) == \/ x.pc \in Raising /\ x.recurring /\ x.alarm.name = n
                   \/ x.pc = "pbUpdate" /\ x.problem.name = n

\* The alarms of a name, among those a lookup reads, that are active or that a
\* stale copy may make active again; and the handlers that found none of them.
ClaimedAlarms(n) ==
  {k \in DOMAIN alarms :
     /\ k + FindLimit > Len(alarms) /\ alarms[k].name = n
     /\ IsActive(alarms[k]) \/ \E p \in Procs : HoldsAlarm(h[p], k)}
AlarmMakers(n) == {p \in Procs : MakesAlarm(h[p], n)}
AlarmsClaimed ==
  \A n \in Names :
    Cardinality(ClaimedAlarms(n)) + Cardinality(AlarmMakers(n)) <= Cardinality(Procs)

ClaimedProblems(n) ==
  {k \in DOMAIN problems :
     /\ problems[k].name = n
     /\ IsActive(problems[k]) \/ \E p \in Procs : HoldsProblem(h[p], k)}
ProblemMakers(n) == {p \in Procs : MakesProblem(h[p], n)}
ProblemsClaimed ==
  \A n \in Names :
    Cardinality(ClaimedProblems(n)) + Cardinality(ProblemMakers(n)) <= Cardinality(Procs) + faults

\* A copy of a problem has the name of its row.
CopiesNamed ==
  \A p \in Procs : h[p].pc \in UsesProblem => h[p].problem.name = problems[h[p].problem.id].name

\* The recurrences of a name pay for the counts of its problems, those that
\* handlers are about to add included.
Repeats(n, A, I) == {i \in DOMAIN I : A[I[i].alarm].name = n /\ Recurs(I[i].alarm, A)}
Repeated(n) == Cardinality(Repeats(n, alarms, incidents))
Counters(n) == {p \in Procs : WillCount(h[p], n)}
CountsPaid == \A n \in Names :
  /\ Cardinality(Counters(n)) <= Repeated(n)
  /\ \A k \in DOMAIN problems : problems[k].name = n =>
       problems[k].count + Cardinality(Counters(n)) <= Repeated(n)
  /\ \A p \in Procs : h[p].pc \in UsesProblem /\ h[p].problem.name = n =>
       h[p].problem.count + Cardinality(Counters(n) \ {p}) <= Repeated(n)

Claims == AlarmsClaimed /\ ProblemsClaimed /\ CopiesNamed /\ CountsPaid

-----------------------------------------------------------------------------
(* Lemmas about the number of claims *)

\* A part of a finite set has no more members.
LEMMA FewerMembers ==
  ASSUME NEW S, IsFiniteSet(S), NEW T, T \subseteq S
  PROVE  /\ IsFiniteSet(T) /\ Cardinality(T) \in Nat /\ Cardinality(S) \in Nat
         /\ Cardinality(T) <= Cardinality(S)
BY FS_Subset, FS_CardinalityType

\* No claim is added,
LEMMA ClaimsKept ==
  ASSUME NEW K, IsFiniteSet(K), NEW C, IsFiniteSet(C),
         NEW K2, K2 \subseteq K, NEW C2, C2 \subseteq C
  PROVE  Cardinality(K2) + Cardinality(C2) <= Cardinality(K) + Cardinality(C)
<1>1. /\ Cardinality(K2) \in Nat /\ Cardinality(K) \in Nat
      /\ Cardinality(K2) <= Cardinality(K)
  BY FewerMembers
<1>2. /\ Cardinality(C2) \in Nat /\ Cardinality(C) \in Nat
      /\ Cardinality(C2) <= Cardinality(C)
  BY FewerMembers
<1>3. QED
  BY <1>1, <1>2

\* or the row that a maker inserts takes the place of the maker,
LEMMA ClaimMade ==
  ASSUME NEW K, IsFiniteSet(K), NEW C, IsFiniteSet(C), NEW k, NEW p \in C,
         NEW K2, K2 \subseteq K \cup {k}, NEW C2, C2 \subseteq C \ {p}
  PROVE  Cardinality(K2) + Cardinality(C2) <= Cardinality(K) + Cardinality(C)
<1>1. /\ IsFiniteSet(K \cup {k}) /\ Cardinality(K) \in Nat
      /\ Cardinality(K \cup {k}) = Cardinality(K) \/ Cardinality(K \cup {k}) = Cardinality(K) + 1
  BY FS_AddElement, FS_CardinalityType
<1>2. /\ IsFiniteSet(C \ {p}) /\ Cardinality(C) \in Nat
      /\ Cardinality(C \ {p}) = Cardinality(C) - 1
  BY FS_RemoveElement, FS_CardinalityType
<1>3. Cardinality(K2) \in Nat /\ Cardinality(K2) <= Cardinality(K \cup {k})
  BY <1>1, FewerMembers
<1>4. Cardinality(C2) \in Nat /\ Cardinality(C2) <= Cardinality(C \ {p})
  BY <1>2, FewerMembers
<1>5. QED
  BY <1>1, <1>2, <1>3, <1>4

\* or one maker comes,
LEMMA MakerComes ==
  ASSUME NEW K, IsFiniteSet(K), NEW C, IsFiniteSet(C), NEW p,
         NEW K2, K2 \subseteq K, NEW C2, C2 \subseteq C \cup {p}
  PROVE  Cardinality(K2) + Cardinality(C2) <= Cardinality(K) + Cardinality(C) + 1
<1>1. /\ IsFiniteSet(C \cup {p}) /\ Cardinality(C) \in Nat
      /\ Cardinality(C \cup {p}) = Cardinality(C) \/ Cardinality(C \cup {p}) = Cardinality(C) + 1
  BY FS_AddElement, FS_CardinalityType
<1>2. /\ Cardinality(K2) \in Nat /\ Cardinality(K) \in Nat
      /\ Cardinality(K2) <= Cardinality(K)
  BY FewerMembers
<1>3. Cardinality(C2) \in Nat /\ Cardinality(C2) <= Cardinality(C \cup {p})
  BY <1>1, FewerMembers
<1>4. QED
  BY <1>1, <1>2, <1>3

\* or each claim is one handler's.
LEMMA OwnClaims ==
  ASSUME NEW K, NEW C, NEW H, H \subseteq Procs, C \subseteq Procs, H \cap C = {},
         NEW f \in [K -> H], \A k, l \in K : f[k] = f[l] => k = l
  PROVE  Cardinality(K) + Cardinality(C) <= Cardinality(Procs)
<1>1. IsFiniteSet(Procs)
  BY ProcsAssumption
<1>2. /\ IsFiniteSet(H) /\ Cardinality(H) \in Nat
      /\ IsFiniteSet(C) /\ Cardinality(C) \in Nat
  BY <1>1, FewerMembers
<1>3. Cardinality(K) <= Cardinality(H) /\ Cardinality(K) \in Nat
  <2>1. f \in Injection(K, H)
    BY DEF Injection, IsInjective
  <2>2. QED
    BY <1>2, <2>1, FS_Injection, FS_CardinalityType
<1>4. Cardinality(H \cup C) = Cardinality(H) + Cardinality(C)
  <2>1. Cardinality(H \cup C) = Cardinality(H) + Cardinality(C) - Cardinality(H \cap C)
    BY <1>2, FS_Union
  <2>2. Cardinality(H \cap C) = 0
    BY FS_EmptySet
  <2>3. QED
    BY <1>2, <2>1, <2>2
<1>5. Cardinality(H \cup C) <= Cardinality(Procs) /\ Cardinality(Procs) \in Nat
  <2>1. H \cup C \subseteq Procs
    OBVIOUS
  <2>2. QED
    BY <1>1, <2>1, FewerMembers
<1>6. QED
  BY <1>2, <1>3, <1>4, <1>5
-----------------------------------------------------------------------------
(* What a step does to the rows, and what the handler goes on with            *)

\* A handler that holds no claim.
Quiet(x) == x.pc \notin UsesProblem \cup Raising
                          \cup {"ceNumber", "ceInsert", "ceEscalate", "ceLink", "ipUpdate"}
\* Handler y goes on with what x held.
Follows(x, y) == y.name = x.name /\ y.alarm = x.alarm /\ y.recurring = x.recurring
Ticketing == {"tkNumber", "tkInsert", "tkAudit", "pbFind"}
GoesOn(x, y) == Quiet(y) \/ (x.pc \in Raising /\ y.pc \in Ticketing /\ Follows(x, y))

\* UPDATE and INSERT, row by row.
Rewritten(table, new, row) ==
  /\ Len(new) = Len(table) /\ DOMAIN new = DOMAIN table /\ row.id \in DOMAIN table
  /\ \A k \in DOMAIN table : new[k] = IF k = row.id THEN row ELSE table[k]
Appended(table, new, row) ==
  /\ Len(new) = Len(table) + 1 /\ row.id = Len(table) + 1
  /\ DOMAIN new = DOMAIN table \cup {row.id}
  /\ \A k \in DOMAIN table : new[k] = table[k]
  /\ new[row.id] = row

\* The effects of the steps of handler p.
Reads(p) ==
  /\ UNCHANGED <<alarms, incidents, problems>>
  /\ \/ GoesOn(h[p], h'[p])
     \/ h[p].pc = "ceNumber" /\ h'[p].pc = "ceInsert" /\ Follows(h[p], h'[p])
     \/ h[p].pc = "pbNumber" /\ h'[p].pc = "pbInsert" /\ Follows(h[p], h'[p])
TakesAlarm(p) ==
  /\ UNCHANGED <<alarms, incidents, problems>>
  /\ h'[p].pc \in {"ceEscalate", "ipUpdate"}
  /\ \E k \in DOMAIN alarms : IsActive(alarms[k]) /\ h'[p].alarm.id = k
FindsNoAlarm(p) ==
  /\ UNCHANGED <<alarms, incidents, problems>>
  /\ h[p].pc = "ceFind" /\ h'[p].pc = "ceNumber" /\ h'[p].name = h[p].name
  /\ \A a \in Matching(h[p].name) : ~IsActive(a)
TakesProblem(p) ==
  /\ UNCHANGED <<alarms, incidents, problems>>
  /\ h[p].pc = "idle" /\ h'[p].pc = "cpUpdate"
  /\ \E k \in DOMAIN problems :
       /\ IsActive(problems[k]) /\ h'[p].problem.id = k
       /\ h'[p].problem.name = problems[k].name /\ h'[p].problem.count = problems[k].count
FindsProblem(p) ==
  /\ UNCHANGED <<alarms, incidents, problems>>
  /\ h[p].pc = "pbFind" /\ h'[p].pc = "pbUpdate"
  /\ \E k \in DOMAIN problems :
       /\ IsActive(problems[k]) /\ h'[p].problem.id = k
       /\ problems[k].name = h[p].alarm.name
       /\ h'[p].problem.name = problems[k].name /\ h'[p].problem.count = problems[k].count + 1
FindsNoProblem(p, ok) ==
  /\ UNCHANGED <<alarms, incidents, problems>>
  /\ h[p].pc = "pbFind" /\ h'[p].pc = "pbNumber" /\ Follows(h[p], h'[p])
  /\ ~ok \/ OpenProblems(h[p].alarm.name) = {}
WritesAlarm(p) ==
  /\ UNCHANGED <<incidents, problems>> /\ Quiet(h'[p])
  /\ \E a \in Alarm : /\ Rewritten(alarms, alarms', a) /\ a.name = alarms[a.id].name
                      /\ IsActive(a) => HoldsAlarm(h[p], a.id)
InsertsAlarm(p) ==
  /\ UNCHANGED <<incidents, problems>>
  /\ h[p].pc = "ceInsert" /\ h'[p].pc = "ceLink" /\ h'[p].alarm.name = h[p].name
  /\ Appended(alarms, alarms', h'[p].alarm)
WritesIncident(p) ==
  /\ UNCHANGED <<alarms, problems>> /\ GoesOn(h[p], h'[p])
  /\ Len(incidents') = Len(incidents) /\ DOMAIN incidents' = DOMAIN incidents
  /\ \A i \in DOMAIN incidents : incidents'[i].alarm = incidents[i].alarm
InsertsIncident(p) ==
  /\ UNCHANGED <<alarms, problems>>
  /\ h[p].pc = "inInsert" /\ h'[p].pc = "inLink" /\ Follows(h[p], h'[p])
  /\ Appended(incidents, incidents', h'[p].incident) /\ h'[p].incident.alarm = h[p].alarm.id
WritesProblem(p) ==
  /\ UNCHANGED <<alarms, incidents>> /\ Quiet(h'[p])
  /\ h[p].pc \in UsesProblem /\ Rewritten(problems, problems', h[p].problem)
InsertsProblem(p) ==
  /\ UNCHANGED <<alarms, incidents>>
  /\ h[p].pc = "pbInsert" /\ h'[p].pc = "pbLink"
  /\ Appended(problems, problems', h'[p].problem)
  /\ h'[p].problem.name = h[p].alarm.name /\ h'[p].problem.count = 1
AlarmEffect(p) == TakesAlarm(p) \/ FindsNoAlarm(p) \/ WritesAlarm(p) \/ InsertsAlarm(p)
IncidentEffect(p) == WritesIncident(p) \/ InsertsIncident(p)
ProblemEffect(p, ok) == \/ TakesProblem(p) \/ FindsProblem(p) \/ FindsNoProblem(p, ok)
                        \/ WritesProblem(p) \/ InsertsProblem(p)
Effect(p, ok) == Reads(p) \/ AlarmEffect(p) \/ IncidentEffect(p) \/ ProblemEffect(p, ok)

LEMMA UpdateRewrites ==
  ASSUME NEW S, NEW table \in Seq(S), NEW row, row.id \in DOMAIN table
  PROVE  Rewritten(table, [table EXCEPT ![row.id] = row], row)
BY DEF Rewritten

LEMMA InsertAppends ==
  ASSUME NEW S, NEW table \in Seq(S), NEW row, row.id = Len(table) + 1
  PROVE  Appended(table, Append(table, row), row)
BY DEF Appended

LEMMA Moved ==
  ASSUME IInv, NEW p \in Procs, NEW y, h' = [h EXCEPT ![p] = y]
  PROVE  h'[p] = y
BY TableShapes

LEMMA IdleQuiet == Idle.pc = "idle" /\ Quiet(Idle)
BY DEF Idle, Quiet, UsesProblem, Raising

LEMMA LoopQuiet ==
  ASSUME NEW x \in Handler
  PROVE  Quiet(NextToClose(x))
<1>1. NextToClose(x).pc \in {"clIncident", "clAlarm", "idle"}
  BY IdleQuiet DEF NextToClose, Handler
<1>2. QED
  BY <1>1 DEF Quiet, UsesProblem, Raising

LEMMA AfterTicketGoesOn ==
  ASSUME NEW x \in Handler, x.pc \in Raising
  PROVE  GoesOn(x, AfterTicket(x))
<1>1. CASE x.recurring
  <2>1. "pbFind" \in Labels
    BY DEF Labels
  <2>2. AfterTicket(x) = [x EXCEPT !.pc = "pbFind"]
    BY <1>1 DEF AfterTicket
  <2>3. AfterTicket(x).pc = "pbFind" /\ Follows(x, AfterTicket(x))
    BY <2>1, <2>2 DEF Handler, Follows
  <2>4. QED
    BY <2>3 DEF GoesOn, Ticketing
<1>2. CASE ~x.recurring
  BY <1>2, IdleQuiet DEF AfterTicket, GoesOn
<1>3. QED
  BY <1>1, <1>2

\* The handler that takes the next step, and its copies.
LEMMA Held ==
  ASSUME IInv, NEW p \in Procs
  PROVE  /\ h[p] \in Handler
         /\ h[p].pc \in UsesAlarm => h[p].alarm \in Alarm /\ h[p].alarm.id \in DOMAIN alarms
         /\ h[p].pc \in UsesIncident => h[p].incident \in Incident /\ h[p].incident.id \in DOMAIN incidents
         /\ h[p].pc \in UsesProblem => h[p].problem \in Problem /\ h[p].problem.id \in DOMAIN problems
         /\ \A a \in h[p].toClose : a \in Alarm /\ a.id \in DOMAIN alarms
         /\ \A i \in h[p].incidentsToClose : i \in Incident /\ i.id \in DOMAIN incidents
<1>1. HandlerOK(h[p], Len(alarms), Len(incidents), Len(tickets), Len(problems))
  BY HandlerGood
<1>2. /\ DOMAIN alarms = 1..Len(alarms) /\ DOMAIN incidents = 1..Len(incidents)
      /\ DOMAIN problems = 1..Len(problems)
  BY DEF IInv, TypeOK
<1>3. h[p] \in Handler
  BY TableShapes
<1>4. QED
  BY <1>1, <1>2, <1>3 DEF HandlerOK, Placed, Handler

-----------------------------------------------------------------------------
(* The effect of each statement                                               *)

\* A handler that only goes on, or returns.
LEMMA OnlyReads ==
  ASSUME NEW p \in Procs, GoesOn(h[p], h'[p]), UNCHANGED <<alarms, incidents, problems>>
  PROVE  Reads(p)
BY DEF Reads

\* A row is written, or the write fails.
LEMMA MayWriteAlarm ==
  ASSUME IInv, NEW p \in Procs, NEW a \in Alarm, a.id \in DOMAIN alarms,
         alarms' = alarms \/ alarms' = [alarms EXCEPT ![a.id] = a],
         UNCHANGED <<incidents, problems>>, Quiet(h'[p]), a.name = alarms[a.id].name,
         IsActive(a) => HoldsAlarm(h[p], a.id)
  PROVE  Reads(p) \/ WritesAlarm(p)
<1>1. CASE alarms' = alarms
  BY <1>1, OnlyReads DEF GoesOn
<1>2. CASE alarms' = [alarms EXCEPT ![a.id] = a]
  <2>1. alarms \in Seq(Alarm)
    BY DEF IInv, TypeOK
  <2>2. Rewritten(alarms, [alarms EXCEPT ![a.id] = a], a)
    BY <2>1, UpdateRewrites
  <2>3. Rewritten(alarms, alarms', a)
    BY <1>2, <2>2
  <2>4. QED
    BY <2>3 DEF WritesAlarm
<1>3. QED
  BY <1>1, <1>2

LEMMA MayWriteIncident ==
  ASSUME IInv, NEW p \in Procs, NEW i \in Incident, i.id \in DOMAIN incidents,
         incidents' = incidents \/ incidents' = [incidents EXCEPT ![i.id] = i],
         UNCHANGED <<alarms, problems>>, GoesOn(h[p], h'[p]), i.alarm = incidents[i.id].alarm
  PROVE  Effect(p, TRUE) /\ Effect(p, FALSE)
<1>1. CASE incidents' = incidents
  BY <1>1, OnlyReads DEF Effect
<1>2. CASE incidents' = [incidents EXCEPT ![i.id] = i]
  <2>1. incidents \in Seq(Incident)
    BY DEF IInv, TypeOK
  <2>2. Rewritten(incidents, [incidents EXCEPT ![i.id] = i], i)
    BY <2>1, UpdateRewrites
  <2>3. Len(incidents') = Len(incidents) /\ DOMAIN incidents' = DOMAIN incidents
        /\ \A j \in DOMAIN incidents : incidents'[j].alarm = incidents[j].alarm
    BY <1>2, <2>2 DEF Rewritten
  <2>4. QED
    BY <2>3 DEF WritesIncident, IncidentEffect, Effect
<1>3. QED
  BY <1>1, <1>2

LEMMA MayWriteProblem ==
  ASSUME IInv, NEW p \in Procs, h[p].pc \in UsesProblem, Quiet(h'[p]),
         problems' = problems \/ problems' = [problems EXCEPT ![h[p].problem.id] = h[p].problem],
         UNCHANGED <<alarms, incidents>>
  PROVE  Reads(p) \/ WritesProblem(p)
<1>1. CASE problems' = problems
  BY <1>1, OnlyReads DEF GoesOn
<1>2. CASE problems' = [problems EXCEPT ![h[p].problem.id] = h[p].problem]
  <2>1. problems \in Seq(Problem)
    BY DEF IInv, TypeOK
  <2>2. h[p].problem.id \in DOMAIN problems
    BY Held
  <2>3. Rewritten(problems, [problems EXCEPT ![h[p].problem.id] = h[p].problem], h[p].problem)
    BY <2>1, <2>2, UpdateRewrites
  <2>4. Rewritten(problems, problems', h[p].problem)
    BY <1>2, <2>3
  <2>5. QED
    BY <2>4 DEF WritesProblem
<1>3. QED
  BY <1>1, <1>2

\* The copies of a handler have the names of their rows.
LEMMA HeldNames ==
  ASSUME IInv, Lineage, NEW p \in Procs
  PROVE  /\ h[p].pc \in UsesAlarm => h[p].alarm.name = alarms[h[p].alarm.id].name
         /\ \A a \in h[p].toClose : a.name = alarms[a.id].name
         /\ h[p].pc \in UsesIncident => h[p].incident.alarm = incidents[h[p].incident.id].alarm
         /\ \A i \in h[p].incidentsToClose : i.alarm = incidents[i.id].alarm
BY DEF Lineage, CopiesTrue, TrueTo, AlarmTrue, IncidentTrue

\* createOrEscalate looks the active alarm up,
LEMMA CeFindEffect ==
  ASSUME IInv, NEW p \in Procs, NEW ok \in BOOLEAN, CeFind(p, ok)
  PROVE  Effect(p, ok)
<1> DEFINE same == Matching(h[p].name)
           active == {a \in same : IsActive(a)}
<1>1. h[p].pc = "ceFind" /\ UNCHANGED <<alarms, incidents, problems>> /\ h[p] \in Handler
  BY TableShapes DEF CeFind, tables
<1>2. \A a \in active : /\ a.id \in DOMAIN alarms /\ a = alarms[a.id]
                        /\ IsActive(a) /\ a \in Alarm
  BY TableShapes DEF Matching, FindAll
<1>3. CASE Return(p)
  <2>1. h'[p] = Idle
    BY <1>3, Moved DEF Return, Goto
  <2>2. QED
    BY <1>1, <2>1, IdleQuiet, OnlyReads DEF GoesOn, Effect
<1>4. ASSUME NEW a \in active,
             Goto(p, [h[p] EXCEPT !.pc = "ceEscalate", !.alarm = [a EXCEPT !.priority = h[p].priority]])
      PROVE  TakesAlarm(p)
  <2> DEFINE row == [a EXCEPT !.priority = h[p].priority]
  <2>1. a.id \in DOMAIN alarms /\ a = alarms[a.id] /\ IsActive(a) /\ a \in Alarm
    BY <1>2
  <2>2. row.id = a.id
    BY <2>1 DEF Alarm
  <2>3. h'[p] = [h[p] EXCEPT !.pc = "ceEscalate", !.alarm = row]
    BY <1>4, Moved DEF Goto
  <2> HIDE DEF row
  <2>4. h'[p].pc = "ceEscalate" /\ h'[p].alarm = row
    BY <1>1, <2>3 DEF Handler
  <2>5. QED
    BY <1>1, <2>1, <2>2, <2>4 DEF TakesAlarm
<1>5. CASE active = {} /\ Goto(p, [h[p] EXCEPT !.pc = "ceNumber", !.recurring = (same # {})])
  <2>1. \A a \in same : ~IsActive(a)
    BY <1>5
  <2> HIDE DEF same
  <2>2. h'[p] = [h[p] EXCEPT !.pc = "ceNumber", !.recurring = (same # {})]
    BY <1>5, Moved DEF Goto
  <2>3. h'[p].pc = "ceNumber" /\ h'[p].name = h[p].name
    BY <1>1, <2>2 DEF Handler
  <2>4. FindsNoAlarm(p)
    BY <1>1, <2>1, <2>3 DEF FindsNoAlarm, same
  <2>5. QED
    BY <2>4 DEF Effect, AlarmEffect
<1>6. \/ Return(p)
      \/ \E a \in active :
           Goto(p, [h[p] EXCEPT !.pc = "ceEscalate", !.alarm = [a EXCEPT !.priority = h[p].priority]])
      \/ active = {} /\ Goto(p, [h[p] EXCEPT !.pc = "ceNumber", !.recurring = (same # {})])
  BY Zenon DEF CeFind
<1>7. QED
  BY <1>3, <1>4, <1>5, <1>6, Zenon DEF Effect, AlarmEffect

\* writes it back with the priority raised, as an operator does with its status,
LEMMA RaiseEffect ==
  ASSUME IInv, Lineage, NEW p \in Procs, NEW ok \in BOOLEAN, CeEscalate(p, ok) \/ IpUpdate(p, ok)
  PROVE  Effect(p, ok)
<1>1. /\ h[p].pc \in {"ceEscalate", "ipUpdate"}
      /\ UNCHANGED <<incidents, problems>> /\ h' = [h EXCEPT ![p] = Idle]
      /\ alarms' = alarms \/ alarms' = [alarms EXCEPT ![h[p].alarm.id] = h[p].alarm]
  BY DEF CeEscalate, IpUpdate, Return, Goto
<1>2. h[p].alarm \in Alarm /\ h[p].alarm.id \in DOMAIN alarms
  BY <1>1, Held DEF UsesAlarm
<1>3. h[p].alarm.name = alarms[h[p].alarm.id].name
  BY <1>1, HeldNames DEF UsesAlarm
<1>4. Quiet(h'[p])
  BY <1>1, Moved, IdleQuiet
<1>5. HoldsAlarm(h[p], h[p].alarm.id)
  BY <1>1 DEF HoldsAlarm
<1>6. QED
  BY <1>1, <1>2, <1>3, <1>4, <1>5, MayWriteAlarm DEF Effect, AlarmEffect

\* counts the rows of a table,
LEMMA NumberEffect ==
  ASSUME IInv, NEW p \in Procs, NEW ok \in BOOLEAN,
         CeNumber(p, ok) \/ InNumber(p, ok) \/ TkNumber(p, ok) \/ PbNumber(p, ok)
  PROVE  Effect(p, ok)
<1>1. UNCHANGED <<alarms, incidents, problems>> /\ h[p] \in Handler
  BY TableShapes DEF CeNumber, InNumber, TkNumber, PbNumber, tables
<1>2. ASSUME NEW to \in Labels, NEW n \in Nat, h' = [h EXCEPT ![p] = [h[p] EXCEPT !.pc = to, !.number = n]]
      PROVE  h'[p].pc = to /\ Follows(h[p], h'[p])
  <2>1. h'[p] = [h[p] EXCEPT !.pc = to, !.number = n]
    BY <1>2, Moved
  <2>2. QED
    BY <1>1, <2>1 DEF Handler, Follows
<1>3. CASE ~ok
  <2>1. \/ h' = [h EXCEPT ![p] = Idle]
        \/ h[p].pc = "tkNumber" /\ h' = [h EXCEPT ![p] = AfterTicket(h[p])]
    BY <1>3 DEF CeNumber, InNumber, TkNumber, PbNumber, Goto, Return
  <2>2. \/ h'[p] = Idle
        \/ h[p].pc = "tkNumber" /\ h'[p] = AfterTicket(h[p])
    BY <2>1, Moved
  <2>3. GoesOn(h[p], h'[p])
    BY <1>1, <2>2, IdleQuiet, AfterTicketGoesOn DEF GoesOn, Raising
  <2>4. QED
    BY <1>1, <2>3, OnlyReads DEF Effect
<1>4. CASE ok
  <2>1. /\ Len(alarms) + 1 \in Nat /\ Len(incidents) + 1 \in Nat
        /\ Len(tickets) + 1 \in Nat /\ Len(problems) + 1 \in Nat
        /\ {"ceInsert", "inInsert", "tkInsert", "pbInsert"} \subseteq Labels
    BY Lengths DEF Labels
  <2>2. CASE CeNumber(p, ok)
    <3>1. h[p].pc = "ceNumber" /\ h'[p].pc = "ceInsert" /\ Follows(h[p], h'[p])
      BY <1>2, <1>4, <2>1, <2>2 DEF CeNumber, Goto, NextNumber
    <3>2. QED
      BY <1>1, <3>1 DEF Reads, Effect
  <2>3. CASE InNumber(p, ok)
    <3>1. h'[p].pc = "inInsert"
      BY <1>2, <1>4, <2>1, <2>3 DEF InNumber, Goto, NextNumber
    <3>2. Quiet(h'[p])
      BY <3>1 DEF Quiet, UsesProblem, Raising
    <3>3. QED
      BY <1>1, <3>2, OnlyReads DEF GoesOn, Effect
  <2>4. CASE TkNumber(p, ok)
    <3>1. h[p].pc = "tkNumber" /\ h'[p].pc = "tkInsert" /\ Follows(h[p], h'[p])
      BY <1>2, <1>4, <2>1, <2>4 DEF TkNumber, Goto, NextNumber
    <3>2. QED
      BY <1>1, <3>1, OnlyReads DEF GoesOn, Raising, Ticketing, Effect
  <2>5. CASE PbNumber(p, ok)
    <3>1. h[p].pc = "pbNumber" /\ h'[p].pc = "pbInsert" /\ Follows(h[p], h'[p])
      BY <1>2, <1>4, <2>1, <2>5 DEF PbNumber, Goto, NextNumber
    <3>2. QED
      BY <1>1, <3>1 DEF Reads, Effect
  <2>6. QED
    BY <2>2, <2>3, <2>4, <2>5
<1>5. QED
  BY <1>3, <1>4

\* inserts the alarm,
LEMMA CeInsertEffect ==
  ASSUME IInv, NEW p \in Procs, NEW ok \in BOOLEAN, CeInsert(p, ok)
  PROVE  Effect(p, ok)
<1> DEFINE new == [id |-> Len(alarms) + 1, number |-> h[p].number, name |-> h[p].name,
                   status |-> "Open", priority |-> h[p].priority, dated |-> FALSE]
<1>1. h[p] \in Handler /\ h[p].pc = "ceInsert" /\ UNCHANGED <<incidents, problems>>
  BY Held DEF CeInsert
<1>2. CASE Return(p) /\ UNCHANGED alarms
  <2>1. h'[p] = Idle
    BY <1>2, Moved DEF Return, Goto
  <2>2. QED
    BY <1>1, <1>2, <2>1, IdleQuiet, OnlyReads DEF GoesOn, Effect
<1>3. CASE alarms' = Append(alarms, new) /\ Goto(p, [h[p] EXCEPT !.pc = "ceLink", !.alarm = new])
  <2>1. h'[p] = [h[p] EXCEPT !.pc = "ceLink", !.alarm = new]
    BY <1>3, Moved DEF Goto
  <2>2. new.id = Len(alarms) + 1 /\ new.name = h[p].name /\ alarms \in Seq(Alarm)
    BY DEF IInv, TypeOK
  <2> HIDE DEF new
  <2>3. h'[p].pc = "ceLink" /\ h'[p].alarm = new
    BY <1>1, <2>1 DEF Handler
  <2>4. Appended(alarms, alarms', new)
    BY <1>3, <2>2, InsertAppends
  <2>5. QED
    BY <1>1, <2>2, <2>3, <2>4 DEF InsertsAlarm, AlarmEffect, Effect
<1>4. QED
  BY <1>2, <1>3 DEF CeInsert

\* and writes it a second time.
LEMMA CeLinkEffect ==
  ASSUME IInv, Lineage, NEW p \in Procs, NEW ok \in BOOLEAN, CeLink(p, ok)
  PROVE  Effect(p, ok)
<1>1. /\ h[p].pc = "ceLink" /\ UNCHANGED <<incidents, problems>>
      /\ h' \in {[h EXCEPT ![p] = Idle], [h EXCEPT ![p] = [h[p] EXCEPT !.pc = "inNumber"]]}
      /\ alarms' = alarms \/ alarms' = [alarms EXCEPT ![h[p].alarm.id] = h[p].alarm]
  BY DEF CeLink, Return, Goto
<1>2. h[p] \in Handler /\ h[p].alarm \in Alarm /\ h[p].alarm.id \in DOMAIN alarms
  BY <1>1, Held DEF UsesAlarm
<1>3. h[p].alarm.name = alarms[h[p].alarm.id].name
  BY <1>1, HeldNames DEF UsesAlarm
<1>4. h'[p] = Idle \/ h'[p] = [h[p] EXCEPT !.pc = "inNumber"]
  BY <1>1, Moved
<1>5. h'[p] = Idle \/ h'[p].pc = "inNumber"
  BY <1>2, <1>4 DEF Handler
<1>6. Quiet(h'[p])
  BY <1>5, IdleQuiet DEF Quiet, UsesProblem, Raising
<1>7. HoldsAlarm(h[p], h[p].alarm.id)
  BY <1>1 DEF HoldsAlarm
<1>8. QED
  BY <1>1, <1>2, <1>3, <1>6, <1>7, MayWriteAlarm DEF Effect, AlarmEffect

\* createIncidentAndTicket inserts the incident,
LEMMA InInsertEffect ==
  ASSUME IInv, NEW p \in Procs, NEW ok \in BOOLEAN, InInsert(p, ok)
  PROVE  Effect(p, ok)
<1> DEFINE new == [id |-> Len(incidents) + 1, number |-> h[p].number,
                   alarm |-> h[p].alarm.id, status |-> "Open",
                   priority |-> h[p].alarm.priority, dated |-> FALSE]
<1>1. h[p] \in Handler /\ h[p].pc = "inInsert" /\ UNCHANGED <<alarms, problems>>
  BY Held DEF InInsert
<1>2. CASE Return(p) /\ UNCHANGED incidents
  <2>1. h'[p] = Idle
    BY <1>2, Moved DEF Return, Goto
  <2>2. QED
    BY <1>1, <1>2, <2>1, IdleQuiet, OnlyReads DEF GoesOn, Effect
<1>3. CASE incidents' = Append(incidents, new) /\ Goto(p, [h[p] EXCEPT !.pc = "inLink", !.incident = new])
  <2>1. h'[p] = [h[p] EXCEPT !.pc = "inLink", !.incident = new]
    BY <1>3, Moved DEF Goto
  <2>2. new.id = Len(incidents) + 1 /\ new.alarm = h[p].alarm.id /\ incidents \in Seq(Incident)
    BY DEF IInv, TypeOK
  <2> HIDE DEF new
  <2>3. h'[p].pc = "inLink" /\ h'[p].incident = new /\ Follows(h[p], h'[p])
    BY <1>1, <2>1 DEF Handler, Follows
  <2>4. Appended(incidents, incidents', new)
    BY <1>3, <2>2, InsertAppends
  <2>5. QED
    BY <1>1, <2>2, <2>3, <2>4 DEF InsertsIncident, IncidentEffect, Effect
<1>4. QED
  BY <1>2, <1>3 DEF InInsert

\* writes it a second time,
LEMMA InLinkEffect ==
  ASSUME IInv, Lineage, NEW p \in Procs, NEW ok \in BOOLEAN, InLink(p, ok)
  PROVE  Effect(p, ok)
<1>1. /\ h[p].pc = "inLink" /\ UNCHANGED <<alarms, problems>>
      /\ h' = [h EXCEPT ![p] = [h[p] EXCEPT !.pc = "tkNumber"]]
      /\ \/ incidents' = incidents
         \/ incidents' = [incidents EXCEPT ![h[p].incident.id] = h[p].incident]
  BY DEF InLink, Goto
<1>2. h[p] \in Handler /\ h[p].incident \in Incident /\ h[p].incident.id \in DOMAIN incidents
  BY <1>1, Held DEF UsesIncident
<1>3. h[p].incident.alarm = incidents[h[p].incident.id].alarm
  BY <1>1, HeldNames DEF UsesIncident
<1>4. h'[p] = [h[p] EXCEPT !.pc = "tkNumber"]
  BY <1>1, Moved
<1>5. h'[p].pc = "tkNumber" /\ Follows(h[p], h'[p])
  BY <1>2, <1>4 DEF Handler, Follows
<1>6. GoesOn(h[p], h'[p])
  BY <1>1, <1>5 DEF GoesOn, Raising, Ticketing
<1>7. QED
  BY <1>1, <1>2, <1>3, <1>6, MayWriteIncident

\* and createTicket inserts the ticket and the first entry of its log.
LEMMA TicketEffect ==
  ASSUME IInv, NEW p \in Procs, NEW ok \in BOOLEAN, TkInsert(p, ok) \/ TkAudit(p, ok)
  PROVE  Effect(p, ok)
<1>1. /\ h[p] \in Handler /\ h[p].pc \in {"tkInsert", "tkAudit"}
      /\ UNCHANGED <<alarms, incidents, problems>>
  BY Held DEF TkInsert, TkAudit
<1>2. \/ h' = [h EXCEPT ![p] = AfterTicket(h[p])]
      \/ \E new : h' = [h EXCEPT ![p] = [h[p] EXCEPT !.pc = "tkAudit", !.ticket = new]]
  BY Zenon DEF TkInsert, TkAudit, Goto
<1>3. CASE h' = [h EXCEPT ![p] = AfterTicket(h[p])]
  <2>1. h'[p] = AfterTicket(h[p])
    BY <1>3, Moved
  <2>2. GoesOn(h[p], h'[p])
    BY <1>1, <2>1, AfterTicketGoesOn DEF Raising
  <2>3. QED
    BY <1>1, <2>2, OnlyReads DEF Effect
<1>4. ASSUME NEW new, h' = [h EXCEPT ![p] = [h[p] EXCEPT !.pc = "tkAudit", !.ticket = new]]
      PROVE  Effect(p, ok)
  <2>1. h'[p] = [h[p] EXCEPT !.pc = "tkAudit", !.ticket = new]
    BY <1>4, Moved
  <2>2. h'[p].pc = "tkAudit" /\ Follows(h[p], h'[p])
    BY <1>1, <2>1 DEF Handler, Follows
  <2>3. GoesOn(h[p], h'[p])
    BY <1>1, <2>2 DEF GoesOn, Raising, Ticketing
  <2>4. QED
    BY <1>1, <2>3, OnlyReads DEF Effect
<1>5. QED
  BY <1>2, <1>3, <1>4, Zenon

\* createOrUpdateProblem looks an open problem up,
LEMMA PbFindEffect ==
  ASSUME IInv, NEW p \in Procs, NEW ok \in BOOLEAN, PbFind(p, ok)
  PROVE  Effect(p, ok)
<1>1. h[p] \in Handler /\ h[p].pc = "pbFind" /\ UNCHANGED <<alarms, incidents, problems>>
  BY Held DEF PbFind, tables
<1>2. ASSUME NEW q \in OpenProblems(h[p].alarm.name),
             Goto(p, [h[p] EXCEPT !.pc = "pbUpdate", !.problem = Recurred(q, h[p])])
      PROVE  FindsProblem(p)
  <2> DEFINE row == Recurred(q, h[p])
  <2>1. PICK k \in DOMAIN problems : /\ q = problems[k] /\ q.id = k /\ q \in Problem
                                     /\ IsActive(q) /\ q.name = h[p].alarm.name
    BY TableShapes DEF OpenProblems, Rows
  <2>2. row.id = q.id /\ row.name = q.name /\ row.count = q.count + 1
    BY <2>1 DEF Recurred, Problem
  <2>3. h'[p] = [h[p] EXCEPT !.pc = "pbUpdate", !.problem = row]
    BY <1>2, Moved DEF Goto
  <2> HIDE DEF row
  <2>4. h'[p].pc = "pbUpdate" /\ h'[p].problem = row
    BY <1>1, <2>3 DEF Handler
  <2>5. QED
    BY <1>1, <2>1, <2>2, <2>4 DEF FindsProblem
<1>3. CASE (~ok \/ OpenProblems(h[p].alarm.name) = {}) /\ Goto(p, [h[p] EXCEPT !.pc = "pbNumber"])
  <2>1. h'[p] = [h[p] EXCEPT !.pc = "pbNumber"]
    BY <1>3, Moved DEF Goto
  <2>2. h'[p].pc = "pbNumber" /\ Follows(h[p], h'[p])
    BY <1>1, <2>1 DEF Handler, Follows
  <2>3. FindsNoProblem(p, ok)
    BY <1>1, <1>3, <2>2, Zenon DEF FindsNoProblem
  <2>4. QED
    BY <2>3 DEF Effect, ProblemEffect
<1>4. QED
  BY <1>1, <1>2, <1>3, Zenon DEF PbFind, Effect, ProblemEffect

\* writes it back, as an operator's close does and the second write of a new one,
LEMMA ProblemWriteEffect ==
  ASSUME IInv, NEW p \in Procs, NEW ok \in BOOLEAN,
         PbUpdate(p, ok) \/ CpUpdate(p, ok) \/ PbLink(p, ok)
  PROVE  Effect(p, ok)
<1>1. /\ h[p].pc \in UsesProblem /\ UNCHANGED <<alarms, incidents>>
      /\ h' \in {[h EXCEPT ![p] = Idle], [h EXCEPT ![p] = [h[p] EXCEPT !.pc = "auFind"]]}
      /\ problems' = problems \/ problems' = [problems EXCEPT ![h[p].problem.id] = h[p].problem]
  BY DEF PbUpdate, CpUpdate, PbLink, Return, Goto, UsesProblem
<1>2. h'[p] = Idle \/ h'[p] = [h[p] EXCEPT !.pc = "auFind"]
  BY <1>1, Moved
<1>3. h'[p] = Idle \/ h'[p].pc = "auFind"
  BY <1>2, Held DEF Handler
<1>4. Quiet(h'[p])
  BY <1>3, IdleQuiet DEF Quiet, UsesProblem, Raising
<1>5. QED
  BY <1>1, <1>4, MayWriteProblem DEF Effect, ProblemEffect

\* or inserts one.
LEMMA PbInsertEffect ==
  ASSUME IInv, NEW p \in Procs, NEW ok \in BOOLEAN, PbInsert(p, ok)
  PROVE  Effect(p, ok)
<1> DEFINE new == [id |-> Len(problems) + 1, number |-> h[p].number, name |-> h[p].alarm.name,
                   incident |-> h[p].incident.id, status |-> "Open",
                   priority |-> h[p].alarm.priority, count |-> 1]
<1>1. h[p] \in Handler /\ h[p].pc = "pbInsert" /\ UNCHANGED <<alarms, incidents>>
  BY Held DEF PbInsert
<1>2. CASE Return(p) /\ UNCHANGED problems
  <2>1. h'[p] = Idle
    BY <1>2, Moved DEF Return, Goto
  <2>2. QED
    BY <1>1, <1>2, <2>1, IdleQuiet, OnlyReads DEF GoesOn, Effect
<1>3. CASE problems' = Append(problems, new) /\ Goto(p, [h[p] EXCEPT !.pc = "pbLink", !.problem = new])
  <2>1. h'[p] = [h[p] EXCEPT !.pc = "pbLink", !.problem = new]
    BY <1>3, Moved DEF Goto
  <2>2. /\ new.id = Len(problems) + 1 /\ new.name = h[p].alarm.name /\ new.count = 1
        /\ problems \in Seq(Problem)
    BY DEF IInv, TypeOK
  <2> HIDE DEF new
  <2>3. h'[p].pc = "pbLink" /\ h'[p].problem = new
    BY <1>1, <2>1 DEF Handler
  <2>4. Appended(problems, problems', new)
    BY <1>3, <2>2, InsertAppends
  <2>5. QED
    BY <1>1, <2>2, <2>3, <2>4 DEF InsertsProblem, ProblemEffect, Effect
<1>4. QED
  BY <1>2, <1>3 DEF PbInsert

\* The places of the handlers that hold no claim.
LEMMA PlaceQuiet ==
  ASSUME NEW x, x.pc \in {"idle", "ceFind", "auFind", "auAdd", "clFind", "clAlarm",
                          "clFindIncidents", "clIncident", "syFind", "syUpdate", "syAudit",
                          "utUpdate", "utAudit", "inNumber", "inInsert"}
  PROVE  Quiet(x)
BY DEF Quiet, UsesProblem, Raising

\* The statements about tickets and their logs hold no claim.
LEMMA LogEffect ==
  ASSUME IInv, NEW p \in Procs, NEW ok \in BOOLEAN,
         \/ AuFind(p, ok) \/ AuAdd(p, ok) \/ UtUpdate(p, ok) \/ UtAudit(p, ok)
         \/ SyFind(p, ok) \/ SyUpdate(p, ok) \/ SyAudit(p, ok)
  PROVE  Effect(p, ok)
<1>1. h[p] \in Handler /\ UNCHANGED <<alarms, incidents, problems>>
  BY Held, Zenon DEF AuFind, AuAdd, UtUpdate, UtAudit, SyFind, SyUpdate, SyAudit, tables
<1>2. \/ h' = [h EXCEPT ![p] = Idle] \/ h' = [h EXCEPT ![p] = NextToClose(h[p])]
      \/ \E to \in {"utAudit", "syAudit"} : h' = [h EXCEPT ![p] = [h[p] EXCEPT !.pc = to]]
      \/ \E to \in {"auAdd", "syUpdate"} : \E t :
           h' = [h EXCEPT ![p] = [h[p] EXCEPT !.pc = to, !.ticket = t]]
  BY Zenon DEF AuFind, AuAdd, UtUpdate, UtAudit, SyFind, SyUpdate, SyAudit, Goto, Return
<1>3. \/ h'[p] = Idle \/ h'[p] = NextToClose(h[p])
      \/ \E to \in {"utAudit", "syAudit"} : h'[p] = [h[p] EXCEPT !.pc = to]
      \/ \E to \in {"auAdd", "syUpdate"} : \E t : h'[p] = [h[p] EXCEPT !.pc = to, !.ticket = t]
  BY <1>2, Moved, Zenon
<1>4. Quiet(h'[p])
  <2>1. CASE h'[p] = Idle \/ h'[p] = NextToClose(h[p])
    BY <1>1, <2>1, IdleQuiet, LoopQuiet
  <2>2. ASSUME NEW to \in {"utAudit", "syAudit"}, h'[p] = [h[p] EXCEPT !.pc = to]
        PROVE  Quiet(h'[p])
    <3>1. h'[p].pc = to
      BY <1>1, <2>2 DEF Handler
    <3>2. QED
      BY <3>1, PlaceQuiet
  <2>3. ASSUME NEW to \in {"auAdd", "syUpdate"}, NEW t, h'[p] = [h[p] EXCEPT !.pc = to, !.ticket = t]
        PROVE  Quiet(h'[p])
    <3>1. h'[p].pc = to
      BY <1>1, <2>3 DEF Handler
    <3>2. QED
      BY <3>1, PlaceQuiet
  <2>4. QED
    BY <1>3, <2>1, <2>2, <2>3, Zenon
<1>5. QED
  BY <1>1, <1>4, OnlyReads DEF GoesOn, Effect

\* The closing handlers collect their work,
LEMMA CollectEffect ==
  ASSUME IInv, NEW p \in Procs, NEW ok \in BOOLEAN, ClFind(p, ok) \/ ClFindIncidents(p, ok)
  PROVE  Effect(p, ok)
<1> DEFINE active == {a \in Matching(h[p].name) : IsActive(a)}
           open == {i \in Rows(incidents) : i.alarm = h[p].alarm.id /\ IsActive(i)}
<1>1. h[p] \in Handler /\ UNCHANGED <<alarms, incidents, problems>>
  BY Held DEF ClFind, ClFindIncidents, tables
<1>2. /\ [h[p] EXCEPT !.toClose = active] \in Handler
      /\ [h[p] EXCEPT !.incidentsToClose = open] \in Handler
  <2>1. active \subseteq Alarm /\ open \subseteq Incident
    BY TableShapes DEF Matching, FindAll, Rows
  <2> HIDE DEF active, open
  <2>2. QED
    BY <1>1, <2>1 DEF Handler
<1>3. \/ h' = [h EXCEPT ![p] = Idle] \/ h' = [h EXCEPT ![p] = NextToClose(h[p])]
      \/ h' = [h EXCEPT ![p] = NextToClose([h[p] EXCEPT !.toClose = active])]
      \/ h' = [h EXCEPT ![p] = NextToClose([h[p] EXCEPT !.incidentsToClose = open])]
  BY Zenon DEF ClFind, ClFindIncidents, Goto, Return
<1> HIDE DEF active, open
<1>4. \/ h'[p] = Idle \/ h'[p] = NextToClose(h[p])
      \/ h'[p] = NextToClose([h[p] EXCEPT !.toClose = active])
      \/ h'[p] = NextToClose([h[p] EXCEPT !.incidentsToClose = open])
  BY <1>3, Moved, Zenon
<1>5. Quiet(h'[p])
  BY <1>1, <1>2, <1>4, IdleQuiet, LoopQuiet, Zenon
<1>6. QED
  BY <1>1, <1>5, OnlyReads DEF GoesOn, Effect

\* and write the rows back as Closed.
LEMMA ClAlarmEffect ==
  ASSUME IInv, Lineage, NEW p \in Procs, NEW ok \in BOOLEAN, ClAlarm(p, ok)
  PROVE  Effect(p, ok)
<1>1. h[p] \in Handler /\ h[p].pc = "clAlarm" /\ UNCHANGED <<incidents, problems>>
  BY Held DEF ClAlarm
<1>2. PICK a \in h[p].toClose :
        LET closed == ClosedRow(a)
            rest == [h[p] EXCEPT !.toClose = @ \ {a}, !.alarm = closed]
        IN IF ok THEN /\ alarms' = [alarms EXCEPT ![a.id] = closed]
                      /\ Goto(p, [rest EXCEPT !.pc = "clFindIncidents"])
                 ELSE Goto(p, NextToClose(rest)) /\ UNCHANGED alarms
  BY DEF ClAlarm
<1> DEFINE closed == ClosedRow(a)
           rest == [h[p] EXCEPT !.toClose = @ \ {a}, !.alarm = closed]
<1>3. a \in Alarm /\ a.id \in DOMAIN alarms /\ a.name = alarms[a.id].name
  BY Held, HeldNames
<1>4. closed \in Alarm /\ closed.id = a.id /\ closed.name = a.name /\ ~IsActive(closed)
  BY <1>3 DEF ClosedRow, Alarm, AlarmStatuses, IsActive
<1> HIDE DEF closed
<1>5. rest \in Handler
  BY <1>1, <1>4 DEF Handler
<1>6. alarms' = alarms \/ alarms' = [alarms EXCEPT ![closed.id] = closed]
  BY <1>2, <1>4 DEF closed
<1>7. h'[p] = NextToClose(rest) \/ h'[p] = [rest EXCEPT !.pc = "clFindIncidents"]
  BY <1>2, Moved DEF Goto, closed
<1> HIDE DEF rest
<1>8. Quiet(h'[p])
  <2>1. [rest EXCEPT !.pc = "clFindIncidents"].pc = "clFindIncidents"
    BY <1>5 DEF Handler
  <2>2. Quiet([rest EXCEPT !.pc = "clFindIncidents"])
    BY <2>1 DEF Quiet, UsesProblem, Raising
  <2>3. QED
    BY <1>5, <1>7, <2>2, LoopQuiet
<1>9. QED
  BY <1>1, <1>3, <1>4, <1>6, <1>8, MayWriteAlarm DEF Effect, AlarmEffect

LEMMA ClIncidentEffect ==
  ASSUME IInv, Lineage, NEW p \in Procs, NEW ok \in BOOLEAN, ClIncident(p, ok)
  PROVE  Effect(p, ok)
<1>1. h[p] \in Handler /\ h[p].pc = "clIncident" /\ UNCHANGED <<alarms, problems>>
  BY Held DEF ClIncident
<1>2. PICK i \in h[p].incidentsToClose :
        LET closed == ClosedRow(i)
            rest == [h[p] EXCEPT !.incidentsToClose = @ \ {i}, !.incident = closed]
        IN IF ok THEN /\ incidents' = [incidents EXCEPT ![i.id] = closed]
                      /\ Goto(p, [rest EXCEPT !.pc = "syFind"])
                 ELSE Goto(p, NextToClose(rest)) /\ UNCHANGED incidents
  BY DEF ClIncident
<1> DEFINE closed == ClosedRow(i)
           rest == [h[p] EXCEPT !.incidentsToClose = @ \ {i}, !.incident = closed]
<1>3. i \in Incident /\ i.id \in DOMAIN incidents /\ i.alarm = incidents[i.id].alarm
  BY Held, HeldNames
<1>4. closed \in Incident /\ closed.id = i.id /\ closed.alarm = i.alarm
  BY <1>3 DEF ClosedRow, Incident, AlarmStatuses
<1> HIDE DEF closed
<1>5. rest \in Handler
  BY <1>1, <1>4 DEF Handler
<1>6. incidents' = incidents \/ incidents' = [incidents EXCEPT ![closed.id] = closed]
  BY <1>2, <1>4 DEF closed
<1>7. h'[p] = NextToClose(rest) \/ h'[p] = [rest EXCEPT !.pc = "syFind"]
  BY <1>2, Moved DEF Goto, closed
<1> HIDE DEF rest
<1>8. Quiet(h'[p])
  <2>1. [rest EXCEPT !.pc = "syFind"].pc = "syFind"
    BY <1>5 DEF Handler
  <2>2. Quiet([rest EXCEPT !.pc = "syFind"])
    BY <2>1 DEF Quiet, UsesProblem, Raising
  <2>3. QED
    BY <1>5, <1>7, <2>2, LoopQuiet
<1>9. QED
  BY <1>1, <1>3, <1>4, <1>6, <1>8, MayWriteIncident DEF GoesOn

\* A request only reads, or takes a row to write back.
LEMMA RequestEffect ==
  ASSUME IInv, NEW p \in Procs, Request(p)
  PROVE  h[p].pc = "idle" /\ UNCHANGED faults /\ Effect(p, TRUE)
<1>1. h[p].pc = "idle" /\ UNCHANGED <<alarms, incidents, problems, faults>>
  BY DEF Request, Fire, Resolve, SetInProgress, Close, CloseIncident, CloseProblem,
         UpdateTicketStatus, tables
<1>2. ASSUME Quiet(h'[p]) PROVE Effect(p, TRUE)
  BY <1>1, <1>2, OnlyReads DEF GoesOn, Effect
<1>3. ASSUME NEW n \in Names, NEW priority, Fire(p, n, priority) PROVE Effect(p, TRUE)
  <2>1. h'[p] = [Idle EXCEPT !.pc = "ceFind", !.name = n, !.priority = priority]
    BY <1>3, Moved DEF Fire, Goto
  <2>2. h'[p].pc = "ceFind"
    BY <2>1 DEF Idle
  <2>3. QED
    BY <1>2, <2>2 DEF Quiet, UsesProblem, Raising
<1>4. ASSUME NEW n \in Names, Resolve(p, n) PROVE Effect(p, TRUE)
  <2>1. h'[p] = [Idle EXCEPT !.pc = "clFind", !.name = n]
    BY <1>4, Moved DEF Resolve, Goto
  <2>2. h'[p].pc = "clFind"
    BY <2>1 DEF Idle
  <2>3. QED
    BY <1>2, <2>2 DEF Quiet, UsesProblem, Raising
<1>5. ASSUME NEW a \in Rows(alarms), SetInProgress(p, a) PROVE Effect(p, TRUE)
  <2>1. PICK k \in DOMAIN alarms : a = alarms[k] /\ a.id = k /\ a \in Alarm
    BY TableShapes DEF Rows
  <2> DEFINE row == [a EXCEPT !.status = "In Progress"]
  <2>2. h'[p] = [Idle EXCEPT !.pc = "ipUpdate", !.alarm = row]
    BY <1>5, Moved DEF SetInProgress, Goto
  <2>3. row.id = k /\ IsActive(alarms[k])
    BY <1>5, <2>1 DEF SetInProgress, Alarm, IsActive
  <2> HIDE DEF row
  <2>4. h'[p].pc = "ipUpdate" /\ h'[p].alarm = row
    BY <2>2 DEF Idle
  <2>5. TakesAlarm(p)
    BY <1>1, <2>3, <2>4 DEF TakesAlarm
  <2>6. QED
    BY <2>5 DEF Effect, AlarmEffect
<1>6. ASSUME NEW a \in Rows(alarms), Close(p, a) PROVE Effect(p, TRUE)
  <2>1. h'[p] = [Idle EXCEPT !.pc = "clAlarm", !.toClose = {a}]
    BY <1>6, Moved DEF Close, Goto
  <2>2. h'[p].pc = "clAlarm"
    BY <2>1 DEF Idle
  <2>3. QED
    BY <1>2, <2>2 DEF Quiet, UsesProblem, Raising
<1>7. ASSUME NEW i \in Rows(incidents), CloseIncident(p, i) PROVE Effect(p, TRUE)
  <2>1. h'[p] = [Idle EXCEPT !.pc = "clIncident", !.incidentsToClose = {i}]
    BY <1>7, Moved DEF CloseIncident, Goto
  <2>2. h'[p].pc = "clIncident"
    BY <2>1 DEF Idle
  <2>3. QED
    BY <1>2, <2>2 DEF Quiet, UsesProblem, Raising
<1>8. ASSUME NEW q \in Rows(problems), CloseProblem(p, q) PROVE Effect(p, TRUE)
  <2>1. PICK k \in DOMAIN problems : q = problems[k] /\ q.id = k /\ q \in Problem
    BY TableShapes DEF Rows
  <2> DEFINE row == [q EXCEPT !.status = "Closed"]
  <2>2. h'[p] = [Idle EXCEPT !.pc = "cpUpdate", !.problem = row]
    BY <1>8, Moved DEF CloseProblem, Goto
  <2>3. /\ row.id = k /\ row.name = problems[k].name /\ row.count = problems[k].count
        /\ IsActive(problems[k])
    BY <1>8, <2>1 DEF CloseProblem, Problem
  <2> HIDE DEF row
  <2>4. h'[p].pc = "cpUpdate" /\ h'[p].problem = row
    BY <2>2 DEF Idle
  <2>5. TakesProblem(p)
    BY <1>1, <2>3, <2>4 DEF TakesProblem
  <2>6. QED
    BY <2>5 DEF Effect, ProblemEffect
<1>9. ASSUME NEW t \in Rows(tickets), NEW s, UpdateTicketStatus(p, t, s) PROVE Effect(p, TRUE)
  <2>1. h'[p] = [Idle EXCEPT !.pc = "utUpdate", !.ticket = [t EXCEPT !.status = s]]
    BY <1>9, Moved DEF UpdateTicketStatus, Goto
  <2>2. h'[p].pc = "utUpdate"
    BY <2>1 DEF Idle
  <2>3. QED
    BY <1>2, <2>2 DEF Quiet, UsesProblem, Raising
<1>10. Effect(p, TRUE)
  BY <1>3, <1>4, <1>5, <1>6, <1>7, <1>8, <1>9, Zenon DEF Request
<1>11. QED
  BY <1>1, <1>10

LEMMA StatementEffect ==
  ASSUME IInv, Lineage, NEW p \in Procs, NEW ok \in BOOLEAN, Statement(p, ok)
  PROVE  Effect(p, ok)
BY CeFindEffect, RaiseEffect, NumberEffect, CeInsertEffect, CeLinkEffect, InInsertEffect,
   InLinkEffect, TicketEffect, PbFindEffect, ProblemWriteEffect, PbInsertEffect, LogEffect,
   CollectEffect, ClAlarmEffect, ClIncidentEffect, Zenon DEF Statement

-----------------------------------------------------------------------------
(* Every step keeps the alarms claimed                                        *)

\* Handler p moves alone.
Others(p) == \A r \in Procs \ {p} : h'[r] = h[r]

LEMMA MovesAlone ==
  ASSUME IInv, NEW p \in Procs, GoodMove(p)
  PROVE  Others(p)
BY TableShapes DEF GoodMove, Others

LEMMA AlarmClaimsFinite ==
  ASSUME IInv, NEW n
  PROVE  IsFiniteSet(ClaimedAlarms(n)) /\ IsFiniteSet(AlarmMakers(n))
<1>1. ClaimedAlarms(n) \subseteq 1..Len(alarms) /\ AlarmMakers(n) \subseteq Procs
  BY TableShapes DEF ClaimedAlarms, AlarmMakers
<1>2. IsFiniteSet(1..Len(alarms)) /\ IsFiniteSet(Procs)
  BY Lengths, FS_Interval, ProcsAssumption
<1>3. QED
  BY <1>1, <1>2, FS_Subset

\* A claim less, or the same.
LEMMA AlarmClaimsFewer ==
  ASSUME IInv, AlarmsClaimed, NEW n \in Names,
         ClaimedAlarms(n)' \subseteq ClaimedAlarms(n), AlarmMakers(n)' \subseteq AlarmMakers(n)
  PROVE  Cardinality(ClaimedAlarms(n)') + Cardinality(AlarmMakers(n)') <= Cardinality(Procs)
<1> DEFINE K == ClaimedAlarms(n)
           K2 == ClaimedAlarms(n)'
           C == AlarmMakers(n)
           C2 == AlarmMakers(n)'
<1>1. /\ IsFiniteSet(K) /\ IsFiniteSet(C) /\ K2 \subseteq K /\ C2 \subseteq C
      /\ Cardinality(K) + Cardinality(C) <= Cardinality(Procs)
  BY AlarmClaimsFinite DEF AlarmsClaimed
<1>2. IsFiniteSet(K2) /\ IsFiniteSet(C2)
  BY <1>1, FS_Subset
<1>3. Cardinality(Procs) \in Nat
  BY ProcsAssumption, FS_CardinalityType
<1> HIDE DEF K, K2, C, C2
<1>4. /\ Cardinality(K) \in Nat /\ Cardinality(C) \in Nat
      /\ Cardinality(K2) \in Nat /\ Cardinality(C2) \in Nat
  BY <1>1, <1>2, FS_CardinalityType
<1>5. Cardinality(K2) + Cardinality(C2) <= Cardinality(K) + Cardinality(C)
  BY <1>1, ClaimsKept
<1>6. Cardinality(K2) + Cardinality(C2) <= Cardinality(Procs)
  BY <1>1, <1>3, <1>4, <1>5
<1>7. QED
  BY <1>6 DEF K2, C2

\* A handler that takes no alarm but an active one, and writes none.
LEMMA AlarmsOnlyRead ==
  ASSUME IInv, AlarmsClaimed, NEW p \in Procs, Others(p), alarms' = alarms,
         \A k \in DOMAIN alarms : HoldsAlarm(h'[p], k) => IsActive(alarms[k]),
         \A n \in Names : MakesAlarm(h'[p], n) => MakesAlarm(h[p], n)
  PROVE  AlarmsClaimed'
<1> SUFFICES ASSUME NEW n \in Names
             PROVE  Cardinality(ClaimedAlarms(n)') + Cardinality(AlarmMakers(n)') <= Cardinality(Procs)
  BY DEF AlarmsClaimed
<1>1. ClaimedAlarms(n)' \subseteq ClaimedAlarms(n)
  BY DEF ClaimedAlarms, Others
<1>2. AlarmMakers(n)' \subseteq AlarmMakers(n)
  BY DEF AlarmMakers, Others
<1>3. QED
  BY <1>1, <1>2, AlarmClaimsFewer

\* A lookup found no active alarm: each one still claimed is another handler's.
LEMMA AlarmNotFound ==
  ASSUME IInv, AlarmsClaimed, NEW p \in Procs, Others(p), FindsNoAlarm(p)
  PROVE  AlarmsClaimed'
<1> SUFFICES ASSUME NEW n \in Names
             PROVE  Cardinality(ClaimedAlarms(n)') + Cardinality(AlarmMakers(n)') <= Cardinality(Procs)
  BY DEF AlarmsClaimed
<1>1. /\ alarms' = alarms /\ h'[p].pc = "ceNumber" /\ h'[p].name = h[p].name
      /\ \A a \in Matching(h[p].name) : ~IsActive(a)
  BY DEF FindsNoAlarm
<1>2. \A k : ~HoldsAlarm(h'[p], k)
  BY <1>1 DEF HoldsAlarm
<1>3. CASE n # h[p].name
  <2>1. ClaimedAlarms(n)' \subseteq ClaimedAlarms(n)
    BY <1>1, <1>2 DEF ClaimedAlarms, Others
  <2>2. AlarmMakers(n)' \subseteq AlarmMakers(n)
    BY <1>1, <1>3 DEF AlarmMakers, MakesAlarm, Others
  <2>3. QED
    BY <2>1, <2>2, AlarmClaimsFewer
<1>4. CASE n = h[p].name
  <2> DEFINE K == ClaimedAlarms(n)'
             C == AlarmMakers(n)'
             H == Procs \ C
             f == [k \in K |-> CHOOSE r \in Procs : HoldsAlarm(h'[r], k)]
  <2>1. \A k \in K : \E r \in Procs : HoldsAlarm(h'[r], k)
    <3> SUFFICES ASSUME NEW k \in K, \A r \in Procs : ~HoldsAlarm(h'[r], k) PROVE FALSE
      OBVIOUS
    <3>1. /\ k \in DOMAIN alarms /\ k + FindLimit > Len(alarms) /\ alarms[k].name = n
          /\ IsActive(alarms[k])
      BY <1>1 DEF ClaimedAlarms
    <3>2. alarms[k] \in Matching(n)
      BY <3>1 DEF Matching, FindAll
    <3>3. QED
      BY <1>1, <1>4, <3>1, <3>2
  <2>2. \A k \in K : f[k] \in Procs /\ HoldsAlarm(h'[f[k]], k)
    BY <2>1
  <2>3. \A k \in K : f[k] \in H
    <3> SUFFICES ASSUME NEW k \in K PROVE f[k] \notin C
      BY <2>2
    <3>1. h'[f[k]].pc \notin {"ceNumber", "ceInsert"}
      BY <2>2 DEF HoldsAlarm
    <3>2. QED
      BY <3>1 DEF AlarmMakers, MakesAlarm
  <2>4. f \in [K -> H]
    BY <2>3
  <2>5. \A k, l \in K : f[k] = f[l] => k = l
    <3> SUFFICES ASSUME NEW k \in K, NEW l \in K, f[k] = f[l] PROVE k = l
      OBVIOUS
    <3>1. HoldsAlarm(h'[f[k]], k) /\ HoldsAlarm(h'[f[k]], l)
      BY <2>2
    <3>2. QED
      BY <3>1 DEF HoldsAlarm
  <2>6. H \subseteq Procs /\ C \subseteq Procs /\ H \cap C = {}
    BY DEF AlarmMakers
  <2> HIDE DEF K, C, H, f
  <2>7. Cardinality(K) + Cardinality(C) <= Cardinality(Procs)
    BY <2>4, <2>5, <2>6, OwnClaims
  <2>8. QED
    BY <2>7 DEF K, C
<1>5. QED
  BY <1>3, <1>4

\* Only a copy that claims an alarm can make it active again.
LEMMA AlarmWrittenClaims ==
  ASSUME IInv, AlarmsClaimed, NEW p \in Procs, Others(p), WritesAlarm(p)
  PROVE  AlarmsClaimed'
<1> SUFFICES ASSUME NEW n \in Names
             PROVE  Cardinality(ClaimedAlarms(n)') + Cardinality(AlarmMakers(n)') <= Cardinality(Procs)
  BY DEF AlarmsClaimed
<1>1. PICK a \in Alarm : /\ Rewritten(alarms, alarms', a) /\ a.name = alarms[a.id].name
                         /\ IsActive(a) => HoldsAlarm(h[p], a.id)
  BY DEF WritesAlarm
<1>2. (\A k : ~HoldsAlarm(h'[p], k)) /\ (\A m : ~MakesAlarm(h'[p], m))
  BY DEF WritesAlarm, Quiet, HoldsAlarm, MakesAlarm
<1>3. ClaimedAlarms(n)' \subseteq ClaimedAlarms(n)
  <2> SUFFICES ASSUME NEW k \in ClaimedAlarms(n)' PROVE k \in ClaimedAlarms(n)
    OBVIOUS
  <2>1. /\ k \in DOMAIN alarms /\ k + FindLimit > Len(alarms) /\ alarms[k].name = n
    BY <1>1 DEF ClaimedAlarms, Rewritten
  <2>2. CASE IsActive(alarms'[k])
    <3>1. IsActive(alarms[k]) \/ HoldsAlarm(h[p], k)
      BY <1>1, <2>1, <2>2 DEF Rewritten
    <3>2. QED
      BY <2>1, <3>1 DEF ClaimedAlarms
  <2>3. CASE \E r \in Procs : HoldsAlarm(h'[r], k)
    <3>1. \E r \in Procs : HoldsAlarm(h[r], k)
      BY <1>2, <2>3 DEF Others
    <3>2. QED
      BY <2>1, <3>1 DEF ClaimedAlarms
  <2>4. QED
    BY <2>2, <2>3 DEF ClaimedAlarms
<1>4. AlarmMakers(n)' \subseteq AlarmMakers(n)
  BY <1>2 DEF AlarmMakers, Others
<1>5. QED
  BY <1>3, <1>4, AlarmClaimsFewer

\* The alarm a maker inserts takes the place of the maker.
LEMMA AlarmInsertedClaims ==
  ASSUME IInv, AlarmsClaimed, NEW p \in Procs, Others(p), InsertsAlarm(p)
  PROVE  AlarmsClaimed'
<1> SUFFICES ASSUME NEW n \in Names
             PROVE  Cardinality(ClaimedAlarms(n)') + Cardinality(AlarmMakers(n)') <= Cardinality(Procs)
  BY DEF AlarmsClaimed
<1> DEFINE new == Len(alarms) + 1
<1>1. /\ h[p].pc = "ceInsert" /\ h'[p].pc = "ceLink" /\ h'[p].alarm.name = h[p].name
      /\ Appended(alarms, alarms', h'[p].alarm)
  BY DEF InsertsAlarm
<1>2. /\ h'[p].alarm.id = new /\ Len(alarms') = Len(alarms) + 1
      /\ DOMAIN alarms' = DOMAIN alarms \cup {new}
      /\ \A k \in DOMAIN alarms : alarms'[k] = alarms[k]
      /\ alarms'[new] = h'[p].alarm
  BY <1>1 DEF Appended
<1>3. (\A k : HoldsAlarm(h'[p], k) => k = new) /\ (\A m : ~MakesAlarm(h'[p], m))
  BY <1>1, <1>2 DEF HoldsAlarm, MakesAlarm
<1>4. \A k \in ClaimedAlarms(n)' : k # new => k \in ClaimedAlarms(n)
  <2> SUFFICES ASSUME NEW k \in ClaimedAlarms(n)', k # new PROVE k \in ClaimedAlarms(n)
    OBVIOUS
  <2>1. k \in DOMAIN alarms /\ alarms'[k] = alarms[k]
    BY <1>2 DEF ClaimedAlarms
  <2>2. k + FindLimit > Len(alarms)
    <3>1. k + FindLimit > Len(alarms')
      BY DEF ClaimedAlarms
    <3>2. k \in Nat /\ FindLimit \in Nat /\ Len(alarms) \in Nat
      BY <2>1, TableShapes, BoundsAssumption
    <3>3. QED
      BY <1>2, <3>1, <3>2
  <2>3. alarms[k].name = n /\ (IsActive(alarms[k]) \/ \E r \in Procs : HoldsAlarm(h[r], k))
    BY <1>3, <2>1 DEF ClaimedAlarms, Others
  <2>4. QED
    BY <2>1, <2>2, <2>3 DEF ClaimedAlarms
<1>5. AlarmMakers(n)' \subseteq AlarmMakers(n) \ {p}
  BY <1>3 DEF AlarmMakers, Others
<1>6. CASE n # h[p].name
  <2>1. new \notin ClaimedAlarms(n)'
    BY <1>1, <1>2, <1>6 DEF ClaimedAlarms
  <2>2. ClaimedAlarms(n)' \subseteq ClaimedAlarms(n)
    BY <1>4, <2>1
  <2>3. QED
    BY <1>5, <2>2, AlarmClaimsFewer
<1>7. CASE n = h[p].name
  <2> DEFINE K == ClaimedAlarms(n)
             K2 == ClaimedAlarms(n)'
             C == AlarmMakers(n)
             C2 == AlarmMakers(n)'
  <2>1. /\ IsFiniteSet(K) /\ IsFiniteSet(C) /\ K2 \subseteq K \cup {new}
        /\ C2 \subseteq C \ {p} /\ Cardinality(K) + Cardinality(C) <= Cardinality(Procs)
    BY <1>4, <1>5, AlarmClaimsFinite DEF AlarmsClaimed
  <2>2. p \in C
    BY <1>1, <1>7 DEF AlarmMakers, MakesAlarm
  <2>3. IsFiniteSet(K2) /\ IsFiniteSet(C2)
    <3>1. IsFiniteSet(K \cup {new})
      BY <2>1, FS_AddElement
    <3>2. C2 \subseteq C
      BY <2>1
    <3>3. QED
      BY <2>1, <3>1, <3>2, FS_Subset
  <2>4. Cardinality(Procs) \in Nat
    BY ProcsAssumption, FS_CardinalityType
  <2> HIDE DEF K, K2, C, C2, new
  <2>5. /\ Cardinality(K) \in Nat /\ Cardinality(C) \in Nat
        /\ Cardinality(K2) \in Nat /\ Cardinality(C2) \in Nat
    BY <2>1, <2>3, FS_CardinalityType
  <2>6. Cardinality(K2) + Cardinality(C2) <= Cardinality(K) + Cardinality(C)
    BY <2>1, <2>2, ClaimMade
  <2>7. Cardinality(K2) + Cardinality(C2) <= Cardinality(Procs)
    BY <2>1, <2>4, <2>5, <2>6
  <2>8. QED
    BY <2>7 DEF K2, C2
<1>8. QED
  BY <1>6, <1>7

LEMMA AlarmsStayClaimed ==
  ASSUME IInv, AlarmsClaimed, NEW p \in Procs, Others(p), NEW ok, Effect(p, ok)
  PROVE  AlarmsClaimed'
<1>1. CASE Reads(p)
  <2>1. /\ alarms' = alarms
        /\ \/ Quiet(h'[p]) \/ h'[p].pc \in Ticketing \/ h'[p].pc = "pbInsert"
           \/ h[p].pc = "ceNumber" /\ h'[p].pc = "ceInsert" /\ h'[p].name = h[p].name
    BY <1>1 DEF Reads, GoesOn, Follows
  <2>2. \A k : ~HoldsAlarm(h'[p], k)
    BY <2>1 DEF Quiet, HoldsAlarm, Ticketing
  <2>3. \A n : MakesAlarm(h'[p], n) => MakesAlarm(h[p], n)
    BY <2>1 DEF Quiet, MakesAlarm, Ticketing
  <2>4. QED
    BY <2>1, <2>2, <2>3, AlarmsOnlyRead
<1>2. CASE TakesAlarm(p)
  <2>1. /\ alarms' = alarms /\ h'[p].pc \in {"ceEscalate", "ipUpdate"}
        /\ \E k \in DOMAIN alarms : IsActive(alarms[k]) /\ h'[p].alarm.id = k
    BY <1>2 DEF TakesAlarm
  <2>2. \A k \in DOMAIN alarms : HoldsAlarm(h'[p], k) => IsActive(alarms[k])
    BY <2>1 DEF HoldsAlarm
  <2>3. \A n : ~MakesAlarm(h'[p], n)
    BY <2>1 DEF MakesAlarm
  <2>4. QED
    BY <2>1, <2>2, <2>3, AlarmsOnlyRead
<1>3. CASE IncidentEffect(p) \/ ProblemEffect(p, ok)
  <2>1. /\ alarms' = alarms
        /\ \/ Quiet(h'[p]) \/ h'[p].pc \in Ticketing
           \/ h'[p].pc \in UsesProblem \cup {"inLink", "pbNumber"}
    BY <1>3 DEF IncidentEffect, ProblemEffect, WritesIncident, InsertsIncident, TakesProblem,
                FindsProblem, FindsNoProblem, WritesProblem, InsertsProblem, GoesOn, UsesProblem
  <2>2. (\A k : ~HoldsAlarm(h'[p], k)) /\ (\A n : ~MakesAlarm(h'[p], n))
    BY <2>1 DEF Quiet, HoldsAlarm, MakesAlarm, Ticketing, UsesProblem
  <2>3. QED
    BY <2>1, <2>2, AlarmsOnlyRead
<1>4. QED
  BY <1>1, <1>2, <1>3, AlarmNotFound, AlarmWrittenClaims, AlarmInsertedClaims
     DEF Effect, AlarmEffect

-----------------------------------------------------------------------------
(* Every step keeps the problems claimed                                      *)

LEMMA ProblemClaimsFinite ==
  ASSUME IInv, NEW n
  PROVE  /\ IsFiniteSet(ClaimedProblems(n)) /\ IsFiniteSet(ProblemMakers(n))
         /\ Cardinality(Procs) \in Nat /\ faults \in Nat
<1>1. ClaimedProblems(n) \subseteq 1..Len(problems) /\ ProblemMakers(n) \subseteq Procs
  BY TableShapes DEF ClaimedProblems, ProblemMakers
<1>2. IsFiniteSet(1..Len(problems)) /\ IsFiniteSet(Procs)
  BY Lengths, FS_Interval, ProcsAssumption
<1>3. faults \in Nat
  BY BoundsAssumption DEF IInv, TypeOK
<1>4. QED
  BY <1>1, <1>2, <1>3, FS_Subset, FS_CardinalityType

LEMMA ProblemClaimsFewer ==
  ASSUME IInv, ProblemsClaimed, NEW n \in Names, faults' \in Nat, faults' >= faults,
         ClaimedProblems(n)' \subseteq ClaimedProblems(n), ProblemMakers(n)' \subseteq ProblemMakers(n)
  PROVE  Cardinality(ClaimedProblems(n)') + Cardinality(ProblemMakers(n)')
           <= Cardinality(Procs) + faults'
<1> DEFINE K == ClaimedProblems(n)
           K2 == ClaimedProblems(n)'
           C == ProblemMakers(n)
           C2 == ProblemMakers(n)'
<1>1. /\ IsFiniteSet(K) /\ IsFiniteSet(C) /\ K2 \subseteq K /\ C2 \subseteq C
      /\ Cardinality(K) + Cardinality(C) <= Cardinality(Procs) + faults
      /\ Cardinality(Procs) \in Nat /\ faults \in Nat
  BY ProblemClaimsFinite DEF ProblemsClaimed
<1>2. IsFiniteSet(K2) /\ IsFiniteSet(C2)
  BY <1>1, FS_Subset
<1> HIDE DEF K, K2, C, C2
<1>3. /\ Cardinality(K) \in Nat /\ Cardinality(C) \in Nat
      /\ Cardinality(K2) \in Nat /\ Cardinality(C2) \in Nat
  BY <1>1, <1>2, FS_CardinalityType
<1>4. Cardinality(K2) + Cardinality(C2) <= Cardinality(K) + Cardinality(C)
  BY <1>1, ClaimsKept
<1>5. Cardinality(K2) + Cardinality(C2) <= Cardinality(Procs) + faults'
  BY <1>1, <1>3, <1>4
<1>6. QED
  BY <1>5 DEF K2, C2

LEMMA ProblemsOnlyRead ==
  ASSUME IInv, ProblemsClaimed, NEW p \in Procs, Others(p), problems' = problems,
         faults' \in Nat, faults' >= faults,
         \A k \in DOMAIN problems : HoldsProblem(h'[p], k) => IsActive(problems[k]),
         \A n \in Names : MakesProblem(h'[p], n) => MakesProblem(h[p], n)
  PROVE  ProblemsClaimed'
<1> SUFFICES ASSUME NEW n \in Names
             PROVE  Cardinality(ClaimedProblems(n)') + Cardinality(ProblemMakers(n)')
                      <= Cardinality(Procs) + faults'
  BY DEF ProblemsClaimed
<1>1. ClaimedProblems(n)' \subseteq ClaimedProblems(n)
  BY DEF ClaimedProblems, Others
<1>2. ProblemMakers(n)' \subseteq ProblemMakers(n)
  BY DEF ProblemMakers, Others
<1>3. QED
  BY <1>1, <1>2, ProblemClaimsFewer

\* A lookup that fails brings a maker, and is counted as a fault; one that finds
\* no open problem shows that each problem still claimed is another handler's.
LEMMA ProblemNotFound ==
  ASSUME IInv, ProblemsClaimed, NEW p \in Procs, Others(p), NEW ok \in BOOLEAN,
         FindsNoProblem(p, ok), faults' = IF ok THEN faults ELSE faults + 1
  PROVE  ProblemsClaimed'
<1> SUFFICES ASSUME NEW n \in Names
             PROVE  Cardinality(ClaimedProblems(n)') + Cardinality(ProblemMakers(n)')
                      <= Cardinality(Procs) + faults'
  BY DEF ProblemsClaimed
<1>1. /\ problems' = problems /\ h'[p].pc = "pbNumber" /\ h'[p].alarm = h[p].alarm
      /\ ~ok \/ OpenProblems(h[p].alarm.name) = {}
  BY DEF FindsNoProblem, Follows
<1>2. \A k : ~HoldsProblem(h'[p], k)
  BY <1>1 DEF HoldsProblem, UsesProblem
<1>3. faults \in Nat /\ faults' \in Nat /\ faults' >= faults /\ Cardinality(Procs) \in Nat
  BY ProblemClaimsFinite
<1>4. ClaimedProblems(n)' \subseteq ClaimedProblems(n)
  BY <1>1, <1>2 DEF ClaimedProblems, Others
<1>5. CASE n # h[p].alarm.name
  <2>1. ProblemMakers(n)' \subseteq ProblemMakers(n)
    BY <1>1, <1>5 DEF ProblemMakers, MakesProblem, Others
  <2>2. QED
    BY <1>3, <1>4, <2>1, ProblemClaimsFewer
<1>6. CASE n = h[p].alarm.name /\ ~ok
  <2> DEFINE K == ClaimedProblems(n)
             K2 == ClaimedProblems(n)'
             C == ProblemMakers(n)
             C2 == ProblemMakers(n)'
  <2>1. C2 \subseteq C \cup {p}
    BY DEF ProblemMakers, Others
  <2>2. /\ IsFiniteSet(K) /\ IsFiniteSet(C) /\ K2 \subseteq K
        /\ Cardinality(K) + Cardinality(C) <= Cardinality(Procs) + faults
        /\ faults' = faults + 1
    BY <1>4, <1>6, ProblemClaimsFinite DEF ProblemsClaimed
  <2>3. IsFiniteSet(K2) /\ IsFiniteSet(C2)
    <3>1. IsFiniteSet(C \cup {p})
      BY <2>2, FS_AddElement
    <3>2. QED
      BY <2>1, <2>2, <3>1, FS_Subset
  <2> HIDE DEF K, K2, C, C2
  <2>4. /\ Cardinality(K) \in Nat /\ Cardinality(C) \in Nat
        /\ Cardinality(K2) \in Nat /\ Cardinality(C2) \in Nat
    BY <2>2, <2>3, FS_CardinalityType
  <2>5. Cardinality(K2) + Cardinality(C2) <= Cardinality(K) + Cardinality(C) + 1
    BY <2>1, <2>2, MakerComes
  <2>6. Cardinality(K2) + Cardinality(C2) <= Cardinality(Procs) + faults'
    BY <1>3, <2>2, <2>4, <2>5
  <2>7. QED
    BY <2>6 DEF K2, C2
<1>7. CASE n = h[p].alarm.name /\ OpenProblems(n) = {}
  <2> DEFINE K == ClaimedProblems(n)'
             C == ProblemMakers(n)'
             H == Procs \ C
             f == [k \in K |-> CHOOSE r \in Procs : HoldsProblem(h'[r], k)]
  <2>1. \A k \in K : \E r \in Procs : HoldsProblem(h'[r], k)
    <3> SUFFICES ASSUME NEW k \in K, \A r \in Procs : ~HoldsProblem(h'[r], k) PROVE FALSE
      OBVIOUS
    <3>1. k \in DOMAIN problems /\ problems[k].name = n /\ IsActive(problems[k])
      BY <1>1 DEF ClaimedProblems
    <3>2. problems[k] \in OpenProblems(n)
      BY <3>1 DEF OpenProblems, Rows
    <3>3. QED
      BY <1>7, <3>2
  <2>2. \A k \in K : f[k] \in Procs /\ HoldsProblem(h'[f[k]], k)
    BY <2>1
  <2>3. \A k \in K : f[k] \in H
    <3> SUFFICES ASSUME NEW k \in K PROVE f[k] \notin C
      BY <2>2
    <3>1. h'[f[k]].pc \notin {"pbNumber", "pbInsert"}
      BY <2>2 DEF HoldsProblem, UsesProblem
    <3>2. QED
      BY <3>1 DEF ProblemMakers, MakesProblem
  <2>4. f \in [K -> H]
    BY <2>3
  <2>5. \A k, l \in K : f[k] = f[l] => k = l
    <3> SUFFICES ASSUME NEW k \in K, NEW l \in K, f[k] = f[l] PROVE k = l
      OBVIOUS
    <3>1. HoldsProblem(h'[f[k]], k) /\ HoldsProblem(h'[f[k]], l)
      BY <2>2
    <3>2. QED
      BY <3>1 DEF HoldsProblem
  <2>6. H \subseteq Procs /\ C \subseteq Procs /\ H \cap C = {}
    BY DEF ProblemMakers
  <2>7. IsFiniteSet(K) /\ IsFiniteSet(C)
    BY <1>4, <2>6, ProblemClaimsFinite, ProcsAssumption, FS_Subset
  <2> HIDE DEF K, C, H, f
  <2>8. Cardinality(K) + Cardinality(C) <= Cardinality(Procs)
    BY <2>4, <2>5, <2>6, OwnClaims
  <2>9. Cardinality(K) \in Nat /\ Cardinality(C) \in Nat
    BY <2>7, FS_CardinalityType
  <2>10. Cardinality(K) + Cardinality(C) <= Cardinality(Procs) + faults'
    BY <1>3, <2>8, <2>9
  <2>11. QED
    BY <2>10 DEF K, C
<1>8. QED
  BY <1>1, <1>5, <1>6, <1>7

LEMMA ProblemWrittenClaims ==
  ASSUME IInv, ProblemsClaimed, CopiesNamed, NEW p \in Procs, Others(p), WritesProblem(p),
         faults' \in Nat, faults' >= faults
  PROVE  ProblemsClaimed'
<1> SUFFICES ASSUME NEW n \in Names
             PROVE  Cardinality(ClaimedProblems(n)') + Cardinality(ProblemMakers(n)')
                      <= Cardinality(Procs) + faults'
  BY DEF ProblemsClaimed
<1> DEFINE q == h[p].problem
<1>1. /\ Rewritten(problems, problems', q) /\ q.name = problems[q.id].name
      /\ HoldsProblem(h[p], q.id)
  BY DEF WritesProblem, CopiesNamed, HoldsProblem
<1>2. (\A k : ~HoldsProblem(h'[p], k)) /\ (\A m : ~MakesProblem(h'[p], m))
  BY DEF WritesProblem, Quiet, HoldsProblem, MakesProblem, Raising
<1> HIDE DEF q
<1>3. ClaimedProblems(n)' \subseteq ClaimedProblems(n)
  <2> SUFFICES ASSUME NEW k \in ClaimedProblems(n)' PROVE k \in ClaimedProblems(n)
    OBVIOUS
  <2>1. k \in DOMAIN problems /\ problems[k].name = n
    BY <1>1 DEF ClaimedProblems, Rewritten
  <2>2. CASE IsActive(problems'[k])
    <3>1. IsActive(problems[k]) \/ HoldsProblem(h[p], k)
      BY <1>1, <2>1, <2>2 DEF Rewritten
    <3>2. QED
      BY <2>1, <3>1 DEF ClaimedProblems
  <2>3. CASE \E r \in Procs : HoldsProblem(h'[r], k)
    <3>1. \E r \in Procs : HoldsProblem(h[r], k)
      BY <1>2, <2>3 DEF Others
    <3>2. QED
      BY <2>1, <3>1 DEF ClaimedProblems
  <2>4. QED
    BY <2>2, <2>3 DEF ClaimedProblems
<1>4. ProblemMakers(n)' \subseteq ProblemMakers(n)
  BY <1>2 DEF ProblemMakers, Others
<1>5. QED
  BY <1>3, <1>4, ProblemClaimsFewer

LEMMA ProblemInsertedClaims ==
  ASSUME IInv, ProblemsClaimed, NEW p \in Procs, Others(p), InsertsProblem(p),
         faults' \in Nat, faults' >= faults
  PROVE  ProblemsClaimed'
<1> SUFFICES ASSUME NEW n \in Names
             PROVE  Cardinality(ClaimedProblems(n)') + Cardinality(ProblemMakers(n)')
                      <= Cardinality(Procs) + faults'
  BY DEF ProblemsClaimed
<1> DEFINE new == Len(problems) + 1
<1>1. /\ h[p].pc = "pbInsert" /\ h'[p].pc = "pbLink" /\ h'[p].problem.name = h[p].alarm.name
      /\ Appended(problems, problems', h'[p].problem)
  BY DEF InsertsProblem
<1>2. /\ h'[p].problem.id = new
      /\ DOMAIN problems' = DOMAIN problems \cup {new}
      /\ \A k \in DOMAIN problems : problems'[k] = problems[k]
      /\ problems'[new] = h'[p].problem
  BY <1>1 DEF Appended
<1>3. (\A k : HoldsProblem(h'[p], k) => k = new) /\ (\A m : ~MakesProblem(h'[p], m))
  BY <1>1, <1>2 DEF HoldsProblem, MakesProblem
<1>4. \A k \in ClaimedProblems(n)' : k # new => k \in ClaimedProblems(n)
  <2> SUFFICES ASSUME NEW k \in ClaimedProblems(n)', k # new PROVE k \in ClaimedProblems(n)
    OBVIOUS
  <2>1. k \in DOMAIN problems /\ problems'[k] = problems[k]
    BY <1>2 DEF ClaimedProblems
  <2>2. problems[k].name = n /\ (IsActive(problems[k]) \/ \E r \in Procs : HoldsProblem(h[r], k))
    BY <1>3, <2>1 DEF ClaimedProblems, Others
  <2>3. QED
    BY <2>1, <2>2 DEF ClaimedProblems
<1>5. ProblemMakers(n)' \subseteq ProblemMakers(n) \ {p}
  BY <1>3 DEF ProblemMakers, Others
<1>6. CASE n # h[p].alarm.name
  <2>1. new \notin ClaimedProblems(n)'
    BY <1>1, <1>2, <1>6 DEF ClaimedProblems
  <2>2. ClaimedProblems(n)' \subseteq ClaimedProblems(n)
    BY <1>4, <2>1
  <2>3. QED
    BY <1>5, <2>2, ProblemClaimsFewer
<1>7. CASE n = h[p].alarm.name
  <2> DEFINE K == ClaimedProblems(n)
             K2 == ClaimedProblems(n)'
             C == ProblemMakers(n)
             C2 == ProblemMakers(n)'
  <2>1. /\ IsFiniteSet(K) /\ IsFiniteSet(C) /\ K2 \subseteq K \cup {new}
        /\ C2 \subseteq C \ {p} /\ Cardinality(K) + Cardinality(C) <= Cardinality(Procs) + faults
        /\ Cardinality(Procs) \in Nat /\ faults \in Nat
    BY <1>4, <1>5, ProblemClaimsFinite DEF ProblemsClaimed
  <2>2. p \in C
    BY <1>1, <1>7 DEF ProblemMakers, MakesProblem
  <2>3. IsFiniteSet(K2) /\ IsFiniteSet(C2)
    <3>1. IsFiniteSet(K \cup {new})
      BY <2>1, FS_AddElement
    <3>2. C2 \subseteq C
      BY <2>1
    <3>3. QED
      BY <2>1, <3>1, <3>2, FS_Subset
  <2> HIDE DEF K, K2, C, C2, new
  <2>5. /\ Cardinality(K) \in Nat /\ Cardinality(C) \in Nat
        /\ Cardinality(K2) \in Nat /\ Cardinality(C2) \in Nat
    BY <2>1, <2>3, FS_CardinalityType
  <2>6. Cardinality(K2) + Cardinality(C2) <= Cardinality(K) + Cardinality(C)
    BY <2>1, <2>2, ClaimMade
  <2>7. Cardinality(K2) + Cardinality(C2) <= Cardinality(Procs) + faults'
    BY <2>1, <2>5, <2>6
  <2>8. QED
    BY <2>7 DEF K2, C2
<1>8. QED
  BY <1>6, <1>7

LEMMA ProblemsStayClaimed ==
  ASSUME IInv, ProblemsClaimed, CopiesNamed, NEW p \in Procs, Others(p), NEW ok \in BOOLEAN,
         Effect(p, ok), faults' = IF ok THEN faults ELSE faults + 1
  PROVE  ProblemsClaimed'
<1>1. faults' \in Nat /\ faults' >= faults
  BY ProblemClaimsFinite
<1>2. CASE Reads(p)
  <2>1. /\ problems' = problems
        /\ \/ Quiet(h'[p]) \/ h'[p].pc \in Ticketing \/ h'[p].pc = "ceInsert"
           \/ h[p].pc = "pbNumber" /\ h'[p].pc = "pbInsert" /\ h'[p].alarm = h[p].alarm
    BY <1>2 DEF Reads, GoesOn, Follows
  <2>2. \A k : ~HoldsProblem(h'[p], k)
    BY <2>1 DEF Quiet, HoldsProblem, UsesProblem, Ticketing
  <2>3. \A n : MakesProblem(h'[p], n) => MakesProblem(h[p], n)
    BY <2>1 DEF Quiet, MakesProblem, Raising, Ticketing
  <2>4. QED
    BY <1>1, <2>1, <2>2, <2>3, ProblemsOnlyRead
<1>3. CASE TakesProblem(p) \/ FindsProblem(p)
  <2>1. /\ problems' = problems /\ h'[p].pc \in {"cpUpdate", "pbUpdate"}
        /\ \E k \in DOMAIN problems : IsActive(problems[k]) /\ h'[p].problem.id = k
    BY <1>3 DEF TakesProblem, FindsProblem
  <2>2. \A k \in DOMAIN problems : HoldsProblem(h'[p], k) => IsActive(problems[k])
    BY <2>1 DEF HoldsProblem
  <2>3. \A n : ~MakesProblem(h'[p], n)
    BY <2>1 DEF MakesProblem
  <2>4. QED
    BY <1>1, <2>1, <2>2, <2>3, ProblemsOnlyRead
<1>4. CASE IncidentEffect(p) \/ AlarmEffect(p)
  <2>1. /\ problems' = problems
        /\ \/ Quiet(h'[p]) \/ h'[p].pc \in Ticketing
           \/ h'[p].pc \in {"inLink", "ceNumber", "ceLink", "ceEscalate", "ipUpdate"}
    BY <1>4 DEF IncidentEffect, AlarmEffect, WritesIncident, InsertsIncident, TakesAlarm,
                FindsNoAlarm, WritesAlarm, InsertsAlarm, GoesOn
  <2>2. (\A k : ~HoldsProblem(h'[p], k)) /\ (\A n : ~MakesProblem(h'[p], n))
    BY <2>1 DEF Quiet, HoldsProblem, MakesProblem, Ticketing, UsesProblem, Raising
  <2>3. QED
    BY <1>1, <2>1, <2>2, ProblemsOnlyRead
<1>5. QED
  BY <1>1, <1>2, <1>3, <1>4, ProblemNotFound, ProblemWrittenClaims, ProblemInsertedClaims
     DEF Effect, ProblemEffect

\* The copies of problems keep the names of their rows.
LEMMA CopiesStayNamed ==
  ASSUME IInv, CopiesNamed, NEW p \in Procs, Others(p), NEW ok, Effect(p, ok)
  PROVE  CopiesNamed'
<1>1. CASE WritesProblem(p)
  <2>1. /\ h[p].problem.name = problems[h[p].problem.id].name
        /\ \A k \in DOMAIN problems : problems'[k] = IF k = h[p].problem.id THEN h[p].problem ELSE problems[k]
    BY <1>1 DEF WritesProblem, CopiesNamed, Rewritten
  <2>2. \A k \in DOMAIN problems : problems'[k].name = problems[k].name
    BY <2>1
  <2>3. h'[p].pc \notin UsesProblem
    BY <1>1 DEF WritesProblem, Quiet
  <2>4. \A r \in Procs : h[r].pc \in UsesProblem => h[r].problem.id \in DOMAIN problems
    BY Held
  <2>5. QED
    BY <2>2, <2>3, <2>4 DEF CopiesNamed, Others
<1>2. CASE InsertsProblem(p)
  <2>1. /\ \A k \in DOMAIN problems : problems'[k] = problems[k]
        /\ problems'[h'[p].problem.id] = h'[p].problem
    BY <1>2 DEF InsertsProblem, Appended
  <2>2. \A r \in Procs : h[r].pc \in UsesProblem => h[r].problem.id \in DOMAIN problems
    BY Held
  <2>3. QED
    BY <2>1, <2>2 DEF CopiesNamed, Others
<1>3. CASE TakesProblem(p) \/ FindsProblem(p)
  BY <1>3 DEF TakesProblem, FindsProblem, CopiesNamed, Others
<1>4. CASE Reads(p) \/ AlarmEffect(p) \/ IncidentEffect(p) \/ FindsNoProblem(p, ok)
  <2>1. problems' = problems
    BY <1>4 DEF Reads, AlarmEffect, IncidentEffect, FindsNoProblem, WritesIncident,
                InsertsIncident, TakesAlarm, FindsNoAlarm, WritesAlarm, InsertsAlarm
  <2>2. \/ Quiet(h'[p]) \/ h'[p].pc \in Ticketing
        \/ h'[p].pc \in {"inLink", "ceNumber", "ceInsert", "ceLink", "ceEscalate", "ipUpdate",
                         "pbNumber", "pbInsert"}
    BY <1>4 DEF Reads, AlarmEffect, IncidentEffect, FindsNoProblem, WritesIncident, GoesOn,
                InsertsIncident, TakesAlarm, FindsNoAlarm, WritesAlarm, InsertsAlarm
  <2>3. h'[p].pc \notin UsesProblem
    BY <2>2 DEF Quiet, UsesProblem, Ticketing
  <2>4. QED
    BY <2>1, <2>3 DEF CopiesNamed, Others
<1>5. QED
  BY <1>1, <1>2, <1>3, <1>4 DEF Effect, ProblemEffect

-----------------------------------------------------------------------------
(* Every step keeps the counts paid                                           *)

LEMMA CountsFinite ==
  ASSUME IInv, NEW n
  PROVE  /\ IsFiniteSet(Counters(n)) /\ IsFiniteSet(Repeats(n, alarms, incidents))
         /\ Repeated(n) \in Nat
<1>1. Counters(n) \subseteq Procs /\ Repeats(n, alarms, incidents) \subseteq 1..Len(incidents)
  BY TableShapes DEF Counters, Repeats
<1>2. IsFiniteSet(1..Len(incidents)) /\ IsFiniteSet(Procs)
  BY Lengths, FS_Interval, ProcsAssumption
<1>3. QED
  BY <1>1, <1>2, FS_Subset, FS_CardinalityType DEF Repeated

\* Names stay, so recurrences do.
LEMMA RepeatsStay ==
  ASSUME IInv, Lineage, NEW A2, NEW I2, Grows(alarms, incidents, A2, I2), NEW n
  PROVE  Repeats(n, alarms, incidents) \subseteq Repeats(n, A2, I2)
<1> SUFFICES ASSUME NEW i \in Repeats(n, alarms, incidents) PROVE i \in Repeats(n, A2, I2)
  OBVIOUS
<1>1. /\ i \in DOMAIN incidents /\ alarms[incidents[i].alarm].name = n
      /\ Recurs(incidents[i].alarm, alarms) /\ incidents[i].alarm \in DOMAIN alarms
  BY DEF Repeats, Lineage, IncidentsOfAlarms
<1>2. Recurs(incidents[i].alarm, A2)
  BY <1>1, RecursKept
<1>3. i \in DOMAIN I2 /\ I2[i].alarm = incidents[i].alarm
      /\ A2[incidents[i].alarm].name = alarms[incidents[i].alarm].name
  BY <1>1 DEF Grows
<1>4. QED
  BY <1>1, <1>2, <1>3 DEF Repeats

\* An effect grows the tables of alarms and incidents.
LEMMA EffectGrows ==
  ASSUME IInv, IInv', NEW p \in Procs, NEW ok, Effect(p, ok)
  PROVE  Grows(alarms, incidents, alarms', incidents')
<1>1. /\ Len(alarms) \in Nat /\ DOMAIN alarms = 1..Len(alarms)
      /\ Len(incidents) \in Nat /\ DOMAIN incidents = 1..Len(incidents)
      /\ Len(alarms') \in Nat /\ DOMAIN alarms' = 1..Len(alarms')
      /\ Len(incidents') \in Nat /\ DOMAIN incidents' = 1..Len(incidents')
  BY DEF IInv, TypeOK
<1>2. Len(alarms') >= Len(alarms) /\ \A k \in DOMAIN alarms : alarms'[k].name = alarms[k].name
  <2>1. CASE alarms' = alarms
    BY <1>1, <2>1
  <2>2. CASE WritesAlarm(p)
    BY <1>1, <2>2 DEF WritesAlarm, Rewritten
  <2>3. CASE InsertsAlarm(p)
    BY <1>1, <2>3 DEF InsertsAlarm, Appended
  <2>4. alarms' = alarms \/ WritesAlarm(p) \/ InsertsAlarm(p)
    BY DEF Effect, Reads, AlarmEffect, IncidentEffect, ProblemEffect, TakesAlarm, FindsNoAlarm,
           WritesIncident, InsertsIncident, TakesProblem, FindsProblem, FindsNoProblem,
           WritesProblem, InsertsProblem
  <2>5. QED
    BY <2>1, <2>2, <2>3, <2>4
<1>3. Len(incidents') >= Len(incidents)
      /\ \A i \in DOMAIN incidents : incidents'[i].alarm = incidents[i].alarm
  <2>1. CASE incidents' = incidents
    BY <1>1, <2>1
  <2>2. CASE WritesIncident(p)
    BY <1>1, <2>2 DEF WritesIncident
  <2>3. CASE InsertsIncident(p)
    BY <1>1, <2>3 DEF InsertsIncident, Appended
  <2>4. incidents' = incidents \/ WritesIncident(p) \/ InsertsIncident(p)
    BY DEF Effect, Reads, AlarmEffect, IncidentEffect, ProblemEffect, TakesAlarm, FindsNoAlarm,
           WritesAlarm, InsertsAlarm, TakesProblem, FindsProblem, FindsNoProblem,
           WritesProblem, InsertsProblem
  <2>5. QED
    BY <2>1, <2>2, <2>3, <2>4
<1>4. QED
  BY <1>1, <1>2, <1>3 DEF Grows

\* Recurrences T and those who will count S: neither one recurrence fewer, nor,
\* without a recurrence more, one more to count it.
LEMMA SlackKept ==
  ASSUME NEW S, IsFiniteSet(S), NEW S2, IsFiniteSet(S2), NEW T, IsFiniteSet(T),
         NEW T2, IsFiniteSet(T2), T \subseteq T2, NEW p,
         S2 \subseteq S \/ (S2 \subseteq S \cup {p} /\ \E i \in T2 : i \notin T)
  PROVE  /\ Cardinality(S) \in Nat /\ Cardinality(S2) \in Nat
         /\ Cardinality(T) \in Nat /\ Cardinality(T2) \in Nat
         /\ Cardinality(S2) + Cardinality(T) <= Cardinality(S) + Cardinality(T2)
<1>1. /\ Cardinality(S) \in Nat /\ Cardinality(S2) \in Nat
      /\ Cardinality(T) \in Nat /\ Cardinality(T2) \in Nat
  BY FS_CardinalityType
<1>2. CASE S2 \subseteq S
  <2>1. Cardinality(S2) <= Cardinality(S) /\ Cardinality(T) <= Cardinality(T2)
    BY <1>2, FewerMembers
  <2>2. QED
    BY <1>1, <2>1
<1>3. ASSUME S2 \subseteq S \cup {p}, NEW i \in T2, i \notin T
      PROVE  Cardinality(S2) + Cardinality(T) <= Cardinality(S) + Cardinality(T2)
  <2>1. /\ IsFiniteSet(S \cup {p})
        /\ Cardinality(S \cup {p}) = Cardinality(S) \/ Cardinality(S \cup {p}) = Cardinality(S) + 1
    BY FS_AddElement
  <2>2. Cardinality(S2) <= Cardinality(S \cup {p})
    BY <1>3, <2>1, FewerMembers
  <2>3. IsFiniteSet(T \cup {i}) /\ Cardinality(T \cup {i}) = Cardinality(T) + 1
    BY <1>3, FS_AddElement
  <2>4. T \cup {i} \subseteq T2
    BY <1>3
  <2>5. Cardinality(T \cup {i}) <= Cardinality(T2)
    BY <2>3, <2>4, FewerMembers
  <2>6. QED
    BY <1>1, <2>1, <2>2, <2>3, <2>5
<1>4. QED
  BY <1>1, <1>2, <1>3

\* Recurrences stay, and one who comes to count brings one.
Fair(p) == \A n \in Names :
  /\ Repeats(n, alarms, incidents) \subseteq Repeats(n, alarms', incidents')
  /\ \/ Counters(n)' \subseteq Counters(n)
     \/ /\ Counters(n)' \subseteq Counters(n) \cup {p}
        /\ \E i \in Repeats(n, alarms', incidents') : i \notin Repeats(n, alarms, incidents)

\* What was paid for stays paid for, whoever of Q is not counted.
LEMMA FairPays ==
  ASSUME IInv, IInv', NEW p \in Procs, Fair(p), NEW n \in Names, NEW Q
  PROVE  /\ Cardinality(Counters(n) \ Q) \in Nat /\ Cardinality(Counters(n)' \ Q) \in Nat
         /\ Repeated(n) \in Nat /\ Repeated(n)' \in Nat
         /\ Cardinality(Counters(n)' \ Q) + Repeated(n)
              <= Cardinality(Counters(n) \ Q) + Repeated(n)'
<1> DEFINE S == Counters(n) \ Q
           S2 == Counters(n)' \ Q
           T == Repeats(n, alarms, incidents)
           T2 == Repeats(n, alarms', incidents')
<1>1. IsFiniteSet(Counters(n)) /\ IsFiniteSet(T) /\ Repeated(n) = Cardinality(T)
  BY CountsFinite DEF Repeated
<1>2. IsFiniteSet(Counters(n)') /\ IsFiniteSet(T2)
  <2>1. Counters(n)' \subseteq Procs /\ T2 \subseteq 1..Len(incidents')
    BY DEF Counters, Repeats, IInv, TypeOK
  <2>2. IsFiniteSet(1..Len(incidents')) /\ IsFiniteSet(Procs)
    BY FS_Interval, ProcsAssumption DEF IInv, TypeOK
  <2>3. QED
    BY <2>1, <2>2, FS_Subset
<1>3. Repeated(n)' = Cardinality(T2)
  BY DEF Repeated
<1>4. IsFiniteSet(S) /\ IsFiniteSet(S2)
  BY <1>1, <1>2, FS_Subset
<1>5. T \subseteq T2 /\ (S2 \subseteq S \/ (S2 \subseteq S \cup {p} /\ \E i \in T2 : i \notin T))
  BY DEF Fair
<1> HIDE DEF S, S2, T, T2
<1>6. /\ Cardinality(S) \in Nat /\ Cardinality(S2) \in Nat
      /\ Cardinality(T) \in Nat /\ Cardinality(T2) \in Nat
      /\ Cardinality(S2) + Cardinality(T) <= Cardinality(S) + Cardinality(T2)
  BY <1>1, <1>2, <1>4, <1>5, SlackKept
<1>7. QED
  BY <1>1, <1>3, <1>6 DEF S, S2

\* A row, or a copy of one, that was there before the step stays paid for.
LEMMA StaysPaid ==
  ASSUME IInv, IInv', NEW p \in Procs, Fair(p), NEW n \in Names, NEW Q, NEW count \in Nat,
         count + Cardinality(Counters(n) \ Q) <= Repeated(n)
  PROVE  count + Cardinality(Counters(n)' \ Q) <= Repeated(n)'
<1> DEFINE S == Counters(n) \ Q
           S2 == Counters(n)' \ Q
           T == Repeated(n)
           T2 == Repeated(n)'
<1>1. /\ Cardinality(S) \in Nat /\ Cardinality(S2) \in Nat /\ T \in Nat /\ T2 \in Nat
      /\ Cardinality(S2) + T <= Cardinality(S) + T2
      /\ count + Cardinality(S) <= T
  BY FairPays
<1> HIDE DEF S, S2, T, T2
<1>2. count + Cardinality(S2) <= T2
  BY <1>1
<1>3. QED
  BY <1>2 DEF S2, T2

\* The handlers that count are finitely many, one fewer without p.
LEMMA WithoutOne ==
  ASSUME IInv, NEW n, NEW p \in Counters(n)
  PROVE  /\ Cardinality(Counters(n)) \in Nat /\ Cardinality(Counters(n) \ {p}) \in Nat
         /\ Cardinality(Counters(n) \ {p}) = Cardinality(Counters(n)) - 1
<1>1. IsFiniteSet(Counters(n))
  BY CountsFinite
<1>2. /\ IsFiniteSet(Counters(n) \ {p})
      /\ Cardinality(Counters(n) \ {p}) = Cardinality(Counters(n)) - 1
  BY <1>1, FS_RemoveElement
<1>3. QED
  BY <1>1, <1>2, FS_CardinalityType

\* The counts stay paid if those that the step brings are.
LEMMA CountsMove ==
  ASSUME IInv, IInv', CountsPaid, NEW p \in Procs, Others(p), Fair(p),
         \A n \in Names : \A k \in DOMAIN problems' : problems'[k].name = n =>
            \/ k \in DOMAIN problems /\ problems'[k] = problems[k]
            \/ problems'[k].count + Cardinality(Counters(n)') <= Repeated(n)',
         \A n \in Names : h'[p].pc \in UsesProblem /\ h'[p].problem.name = n =>
            h'[p].problem.count + Cardinality(Counters(n)' \ {p}) <= Repeated(n)'
  PROVE  CountsPaid'
<1> SUFFICES ASSUME NEW n \in Names
             PROVE  /\ Cardinality(Counters(n)') <= Repeated(n)'
                    /\ \A k \in DOMAIN problems' : problems'[k].name = n =>
                         problems'[k].count + Cardinality(Counters(n)') <= Repeated(n)'
                    /\ \A r \in Procs : h'[r].pc \in UsesProblem /\ h'[r].problem.name = n =>
                         h'[r].problem.count + Cardinality(Counters(n)' \ {r}) <= Repeated(n)'
  BY DEF CountsPaid
<1>1. Counters(n) \ {} = Counters(n) /\ Counters(n)' \ {} = Counters(n)'
  OBVIOUS
<1>2. ASSUME NEW count \in Nat, count + Cardinality(Counters(n)) <= Repeated(n)
      PROVE  count + Cardinality(Counters(n)') <= Repeated(n)'
  <2>1. count + Cardinality(Counters(n) \ {}) <= Repeated(n)
    BY <1>1, <1>2
  <2>2. count + Cardinality(Counters(n)' \ {}) <= Repeated(n)'
    BY <2>1, StaysPaid
  <2>3. QED
    BY <1>1, <2>2
<1>3. Cardinality(Counters(n)') <= Repeated(n)'
  <2>1. Cardinality(Counters(n)) \in Nat /\ Cardinality(Counters(n)') \in Nat
    BY <1>1, FairPays
  <2>2. 0 + Cardinality(Counters(n)) <= Repeated(n)
    BY <2>1 DEF CountsPaid
  <2>3. 0 + Cardinality(Counters(n)') <= Repeated(n)'
    BY <1>2, <2>2
  <2>4. QED
    BY <2>1, <2>3
<1>4. ASSUME NEW k \in DOMAIN problems', problems'[k].name = n
      PROVE  problems'[k].count + Cardinality(Counters(n)') <= Repeated(n)'
  <2>1. CASE k \in DOMAIN problems /\ problems'[k] = problems[k]
    <3>1. problems[k].count \in Nat
      BY <2>1, TableShapes DEF Problem
    <3>2. problems[k].count + Cardinality(Counters(n)) <= Repeated(n)
      BY <1>4, <2>1 DEF CountsPaid
    <3>3. QED
      BY <1>2, <2>1, <3>1, <3>2
  <2>2. QED
    BY <1>4, <2>1
<1>5. ASSUME NEW r \in Procs, h'[r].pc \in UsesProblem, h'[r].problem.name = n
      PROVE  h'[r].problem.count + Cardinality(Counters(n)' \ {r}) <= Repeated(n)'
  <2>1. CASE r # p
    <3>1. h'[r] = h[r]
      BY <2>1 DEF Others
    <3>2. h[r].problem.count \in Nat
      BY <1>5, <3>1, Held DEF Problem
    <3>3. h[r].problem.count + Cardinality(Counters(n) \ {r}) <= Repeated(n)
      BY <1>5, <3>1 DEF CountsPaid
    <3>4. h[r].problem.count + Cardinality(Counters(n)' \ {r}) <= Repeated(n)'
      BY <3>2, <3>3, StaysPaid
    <3>5. QED
      BY <3>1, <3>4
  <2>2. QED
    BY <1>5, <2>1
<1>6. QED
  BY <1>3, <1>4, <1>5

\* A step that brings no one to count is fair.
LEMMA NoneComes ==
  ASSUME IInv, IInv', Lineage, NEW p \in Procs, Others(p), NEW ok, Effect(p, ok),
         \A n \in Names : WillCount(h'[p], n) => WillCount(h[p], n)
  PROVE  Fair(p)
<1> SUFFICES ASSUME NEW n \in Names
             PROVE  /\ Repeats(n, alarms, incidents) \subseteq Repeats(n, alarms', incidents')
                    /\ Counters(n)' \subseteq Counters(n)
  BY DEF Fair
<1>1. Grows(alarms, incidents, alarms', incidents')
  BY EffectGrows
<1>2. Repeats(n, alarms, incidents) \subseteq Repeats(n, alarms', incidents')
  BY <1>1, RepeatsStay
<1>3. Counters(n)' \subseteq Counters(n)
  BY DEF Counters, Others
<1>4. QED
  BY <1>2, <1>3

\* The incident of a recurrence pays for the handler that inserted it.
LEMMA IncidentIsFair ==
  ASSUME IInv, IInv', Lineage, NEW p \in Procs, Others(p), InsertsIncident(p)
  PROVE  Fair(p)
<1> DEFINE new == Len(incidents) + 1
<1>1. /\ alarms' = alarms /\ h[p].pc = "inInsert" /\ h'[p].pc = "inLink"
      /\ h'[p].alarm = h[p].alarm /\ h'[p].recurring = h[p].recurring
      /\ h'[p].incident.alarm = h[p].alarm.id
      /\ Appended(incidents, incidents', h'[p].incident)
  BY DEF InsertsIncident, Follows
<1>2. /\ new \in DOMAIN incidents' /\ incidents'[new].alarm = h[p].alarm.id
      /\ new \notin DOMAIN incidents
  BY <1>1, TableShapes DEF Appended
<1>3. Grows(alarms, incidents, alarms', incidents')
  BY EffectGrows DEF Effect, IncidentEffect
<1>4. h[p].alarm.name = alarms[h[p].alarm.id].name
  BY <1>1, HeldNames DEF UsesAlarm
<1>5. h[p].recurring => Recurs(h[p].alarm.id, alarms)
  BY <1>1 DEF Lineage, CopiesTrue, TrueTo, Owing
<1> HIDE DEF new
<1> SUFFICES ASSUME NEW n \in Names
             PROVE  /\ Repeats(n, alarms, incidents) \subseteq Repeats(n, alarms', incidents')
                    /\ \/ Counters(n)' \subseteq Counters(n)
                       \/ /\ Counters(n)' \subseteq Counters(n) \cup {p}
                          /\ \E i \in Repeats(n, alarms', incidents') :
                               i \notin Repeats(n, alarms, incidents)
  BY DEF Fair
<1>6. Repeats(n, alarms, incidents) \subseteq Repeats(n, alarms', incidents')
  BY <1>3, RepeatsStay
<1>7. CASE h[p].recurring /\ h[p].alarm.name = n
  <2>1. new \in Repeats(n, alarms', incidents')
    BY <1>1, <1>2, <1>4, <1>5, <1>7 DEF Repeats
  <2>2. new \notin Repeats(n, alarms, incidents)
    BY <1>2 DEF Repeats
  <2>3. Counters(n)' \subseteq Counters(n) \cup {p}
    BY DEF Counters, Others
  <2>4. QED
    BY <1>6, <2>1, <2>2, <2>3
<1>8. CASE ~(h[p].recurring /\ h[p].alarm.name = n)
  <2>1. ~WillCount(h'[p], n)
    BY <1>1, <1>8 DEF WillCount
  <2>2. Counters(n)' \subseteq Counters(n)
    BY <2>1 DEF Counters, Others
  <2>3. QED
    BY <1>6, <2>2
<1>9. QED
  BY <1>7, <1>8

\* A step that neither takes a problem nor writes one.
LEMMA CountsOnlyGoOn ==
  ASSUME IInv, IInv', CountsPaid, NEW p \in Procs, Others(p), Fair(p), problems' = problems,
         h'[p].pc \notin UsesProblem
  PROVE  CountsPaid'
<1>1. \A n \in Names : \A k \in DOMAIN problems' : problems'[k].name = n =>
         \/ k \in DOMAIN problems /\ problems'[k] = problems[k]
         \/ problems'[k].count + Cardinality(Counters(n)') <= Repeated(n)'
  OBVIOUS
<1>2. \A n \in Names : h'[p].pc \in UsesProblem /\ h'[p].problem.name = n =>
         h'[p].problem.count + Cardinality(Counters(n)' \ {p}) <= Repeated(n)'
  OBVIOUS
<1>3. QED
  BY <1>1, <1>2, CountsMove

\* A handler at the problem counts a recurrence.
LEMMA ProblemCounts ==
  ASSUME IInv, Lineage, NEW p \in Procs, h[p].pc \in {"pbFind", "pbInsert"}
  PROVE  h[p].alarm.name \in Names /\ p \in Counters(h[p].alarm.name)
<1>1. h[p].recurring /\ h[p].pc \in Raising
  BY DEF Lineage, CopiesTrue, TrueTo, Raising
<1>2. h[p].alarm.name \in Names
  BY Held DEF UsesAlarm, Alarm
<1>3. QED
  BY <1>1, <1>2 DEF Counters, WillCount

\* An operator's copy is paid for as its row is,
LEMMA TakenIsPaid ==
  ASSUME IInv, IInv', Lineage, CountsPaid, NEW p \in Procs, Others(p), TakesProblem(p)
  PROVE  CountsPaid'
<1>1. /\ problems' = problems /\ h'[p].pc = "cpUpdate"
  BY DEF TakesProblem
<1>2. PICK k \in DOMAIN problems : /\ h'[p].problem.name = problems[k].name
                                   /\ h'[p].problem.count = problems[k].count
  BY DEF TakesProblem
<1>3. \A n \in Names : ~WillCount(h'[p], n)
  BY <1>1 DEF WillCount, Raising
<1>4. Fair(p)
  BY <1>3, NoneComes DEF Effect, ProblemEffect
<1>5. ASSUME NEW n \in Names, h'[p].problem.name = n
      PROVE  h'[p].problem.count + Cardinality(Counters(n)' \ {p}) <= Repeated(n)'
  <2>1. problems[k].count \in Nat
    BY TableShapes DEF Problem
  <2>2. problems[k].count + Cardinality(Counters(n)) <= Repeated(n)
    BY <1>2, <1>5 DEF CountsPaid
  <2>3. /\ Cardinality(Counters(n) \ {p}) <= Cardinality(Counters(n))
        /\ Cardinality(Counters(n) \ {p}) \in Nat /\ Cardinality(Counters(n)) \in Nat
        /\ Repeated(n) \in Nat
    BY CountsFinite, FewerMembers
  <2>4. problems[k].count + Cardinality(Counters(n) \ {p}) <= Repeated(n)
    BY <2>1, <2>2, <2>3
  <2>5. problems[k].count + Cardinality(Counters(n)' \ {p}) <= Repeated(n)'
    BY <1>4, <2>1, <2>4, StaysPaid
  <2>6. QED
    BY <1>2, <2>5
<1>6. \A n \in Names : \A j \in DOMAIN problems' : problems'[j].name = n =>
         \/ j \in DOMAIN problems /\ problems'[j] = problems[j]
         \/ problems'[j].count + Cardinality(Counters(n)') <= Repeated(n)'
  BY <1>1
<1>7. QED
  BY <1>4, <1>5, <1>6, CountsMove

\* the raised count is paid for by the handler that raises it,
LEMMA RaisedIsPaid ==
  ASSUME IInv, IInv', Lineage, CountsPaid, NEW p \in Procs, Others(p), FindsProblem(p)
  PROVE  CountsPaid'
<1>1. /\ problems' = problems /\ h[p].pc = "pbFind" /\ h'[p].pc = "pbUpdate"
  BY DEF FindsProblem
<1>2. PICK k \in DOMAIN problems : /\ problems[k].name = h[p].alarm.name
                                   /\ h'[p].problem.name = problems[k].name
                                   /\ h'[p].problem.count = problems[k].count + 1
  BY DEF FindsProblem
<1>3. h[p].alarm.name \in Names /\ p \in Counters(h[p].alarm.name)
  BY <1>1, ProblemCounts
<1>4. \A n \in Names : WillCount(h'[p], n) => WillCount(h[p], n)
  BY <1>1, <1>2, <1>3 DEF WillCount, Raising, Counters
<1>5. Fair(p)
  BY <1>4, NoneComes DEF Effect, ProblemEffect
<1>6. ASSUME NEW n \in Names, h'[p].problem.name = n
      PROVE  h'[p].problem.count + Cardinality(Counters(n)' \ {p}) <= Repeated(n)'
  <2>1. problems[k].count \in Nat
    BY TableShapes DEF Problem
  <2>2. problems[k].count + Cardinality(Counters(n)) <= Repeated(n)
    BY <1>2, <1>6 DEF CountsPaid
  <2>3. /\ Cardinality(Counters(n) \ {p}) = Cardinality(Counters(n)) - 1
        /\ Cardinality(Counters(n) \ {p}) \in Nat /\ Cardinality(Counters(n)) \in Nat
    BY <1>2, <1>3, <1>6, WithoutOne
  <2>4. Repeated(n) \in Nat
    BY CountsFinite
  <2>5. (problems[k].count + 1) + Cardinality(Counters(n) \ {p}) <= Repeated(n)
    BY <2>1, <2>2, <2>3, <2>4
  <2>6. problems[k].count + 1 \in Nat
    BY <2>1
  <2>7. (problems[k].count + 1) + Cardinality(Counters(n)' \ {p}) <= Repeated(n)'
    BY <1>5, <2>5, <2>6, StaysPaid
  <2>8. QED
    BY <1>2, <2>7
<1>7. \A n \in Names : \A j \in DOMAIN problems' : problems'[j].name = n =>
         \/ j \in DOMAIN problems /\ problems'[j] = problems[j]
         \/ problems'[j].count + Cardinality(Counters(n)') <= Repeated(n)'
  BY <1>1
<1>8. QED
  BY <1>5, <1>6, <1>7, CountsMove

\* the row takes the count of the copy,
LEMMA WrittenIsPaid ==
  ASSUME IInv, IInv', Lineage, CountsPaid, NEW p \in Procs, Others(p), WritesProblem(p)
  PROVE  CountsPaid'
<1>1. /\ h[p].pc \in UsesProblem /\ Rewritten(problems, problems', h[p].problem)
      /\ h'[p].pc \notin UsesProblem
  BY DEF WritesProblem, Quiet
<1>2. \A n \in Names : ~WillCount(h'[p], n)
  BY DEF WritesProblem, Quiet, WillCount, UsesProblem
<1>3. Fair(p)
  BY <1>2, NoneComes DEF Effect, ProblemEffect
<1>4. ASSUME NEW n \in Names, h[p].problem.name = n
      PROVE  h[p].problem.count + Cardinality(Counters(n)') <= Repeated(n)'
  <2>1. h[p].problem.count \in Nat
    BY <1>1, Held DEF Problem
  <2>2. h[p].problem.count + Cardinality(Counters(n) \ {p}) <= Repeated(n)
    BY <1>1, <1>4 DEF CountsPaid
  <2>3. h[p].problem.count + Cardinality(Counters(n)' \ {p}) <= Repeated(n)'
    BY <1>3, <2>1, <2>2, StaysPaid
  <2>4. Counters(n)' \ {p} = Counters(n)'
    BY <1>2 DEF Counters
  <2>5. QED
    BY <2>3, <2>4
<1>5. ASSUME NEW n \in Names, NEW k \in DOMAIN problems', problems'[k].name = n
      PROVE  \/ k \in DOMAIN problems /\ problems'[k] = problems[k]
             \/ problems'[k].count + Cardinality(Counters(n)') <= Repeated(n)'
  <2>1. k \in DOMAIN problems /\ problems'[k] \in {problems[k], h[p].problem}
    BY <1>1, <1>5 DEF Rewritten
  <2>2. QED
    BY <1>4, <1>5, <2>1
<1>6. \A n \in Names : h'[p].pc \in UsesProblem /\ h'[p].problem.name = n =>
         h'[p].problem.count + Cardinality(Counters(n)' \ {p}) <= Repeated(n)'
  BY <1>1
<1>7. QED
  BY <1>3, <1>5, <1>6, CountsMove

\* and a new problem counts the recurrence its handler was to count.
LEMMA InsertedIsPaid ==
  ASSUME IInv, IInv', Lineage, CountsPaid, NEW p \in Procs, Others(p), InsertsProblem(p)
  PROVE  CountsPaid'
<1>1. /\ h[p].pc = "pbInsert" /\ h'[p].pc = "pbLink"
      /\ Appended(problems, problems', h'[p].problem)
      /\ h'[p].problem.name = h[p].alarm.name /\ h'[p].problem.count = 1
  BY DEF InsertsProblem
<1>2. h[p].alarm.name \in Names /\ p \in Counters(h[p].alarm.name)
  BY <1>1, ProblemCounts
<1>3. \A n \in Names : ~WillCount(h'[p], n)
  BY <1>1 DEF WillCount, Raising
<1>4. Fair(p)
  BY <1>3, NoneComes DEF Effect, ProblemEffect
<1>5. ASSUME NEW n \in Names, h'[p].problem.name = n
      PROVE  h'[p].problem.count + Cardinality(Counters(n)') <= Repeated(n)'
  <2>1. /\ Cardinality(Counters(n) \ {p}) = Cardinality(Counters(n)) - 1
        /\ Cardinality(Counters(n) \ {p}) \in Nat /\ Cardinality(Counters(n)) \in Nat
    BY <1>1, <1>2, <1>5, WithoutOne
  <2>2. Cardinality(Counters(n)) <= Repeated(n) /\ Repeated(n) \in Nat
    BY CountsFinite DEF CountsPaid
  <2>3. 1 + Cardinality(Counters(n) \ {p}) <= Repeated(n)
    BY <2>1, <2>2
  <2>4. 1 + Cardinality(Counters(n)' \ {p}) <= Repeated(n)'
    BY <1>4, <2>3, StaysPaid
  <2>5. Counters(n)' \ {p} = Counters(n)'
    BY <1>3 DEF Counters
  <2>6. QED
    BY <1>1, <2>4, <2>5
<1>6. ASSUME NEW n \in Names, NEW k \in DOMAIN problems', problems'[k].name = n
      PROVE  \/ k \in DOMAIN problems /\ problems'[k] = problems[k]
             \/ problems'[k].count + Cardinality(Counters(n)') <= Repeated(n)'
  <2>1. \/ k \in DOMAIN problems /\ problems'[k] = problems[k]
        \/ problems'[k] = h'[p].problem
    BY <1>1, <1>6 DEF Appended
  <2>2. QED
    BY <1>5, <1>6, <2>1
<1>7. ASSUME NEW n \in Names, h'[p].problem.name = n
      PROVE  h'[p].problem.count + Cardinality(Counters(n)' \ {p}) <= Repeated(n)'
  <2>1. Counters(n)' \ {p} = Counters(n)'
    BY <1>3 DEF Counters
  <2>2. QED
    BY <1>5, <1>7, <2>1
<1>8. QED
  BY <1>4, <1>6, <1>7, CountsMove

LEMMA CountsStayPaid ==
  ASSUME IInv, IInv', Lineage, CountsPaid, NEW p \in Procs, Others(p), NEW ok, Effect(p, ok)
  PROVE  CountsPaid'
<1>1. CASE Reads(p) \/ WritesIncident(p) \/ FindsNoProblem(p, ok)
  <2>1. /\ problems' = problems
        /\ \/ Quiet(h'[p]) \/ h'[p].pc = "ceInsert"
           \/ /\ h[p].pc \in Raising /\ h'[p].pc \in Ticketing \cup {"pbNumber", "pbInsert"}
              /\ Follows(h[p], h'[p])
    BY <1>1 DEF Reads, WritesIncident, FindsNoProblem, GoesOn, Raising
  <2>2. h'[p].pc \notin UsesProblem
    BY <2>1 DEF Quiet, UsesProblem, Ticketing
  <2>3. \A n \in Names : WillCount(h'[p], n) => WillCount(h[p], n)
    BY <2>1 DEF Quiet, WillCount, Raising, Ticketing, Follows, UsesProblem
  <2>4. Fair(p)
    BY <2>3, NoneComes
  <2>5. QED
    BY <2>1, <2>2, <2>4, CountsOnlyGoOn
<1>2. CASE AlarmEffect(p)
  <2>1. /\ problems' = problems
        /\ Quiet(h'[p]) \/ h'[p].pc \in {"ceEscalate", "ipUpdate", "ceNumber", "ceLink"}
    BY <1>2 DEF AlarmEffect, TakesAlarm, FindsNoAlarm, WritesAlarm, InsertsAlarm
  <2>2. h'[p].pc \notin UsesProblem /\ \A n \in Names : ~WillCount(h'[p], n)
    BY <2>1 DEF Quiet, WillCount, Raising, UsesProblem
  <2>3. Fair(p)
    BY <2>2, NoneComes
  <2>4. QED
    BY <2>1, <2>2, <2>3, CountsOnlyGoOn
<1>3. CASE InsertsIncident(p)
  <2>1. problems' = problems /\ h'[p].pc \notin UsesProblem
    BY <1>3 DEF InsertsIncident, UsesProblem
  <2>2. Fair(p)
    BY <1>3, IncidentIsFair
  <2>3. QED
    BY <2>1, <2>2, CountsOnlyGoOn
<1>4. QED
  BY <1>1, <1>2, <1>3, TakenIsPaid, RaisedIsPaid, WrittenIsPaid, InsertedIsPaid
     DEF Effect, IncidentEffect, ProblemEffect

-----------------------------------------------------------------------------
(* The claims hold                                                            *)

LEMMA InitClaims == Init => Claims
<1> SUFFICES ASSUME Init PROVE Claims
  OBVIOUS
<1>1. /\ DOMAIN alarms = {} /\ DOMAIN incidents = {} /\ DOMAIN problems = {} /\ faults = 0
      /\ \A p \in Procs : h[p].pc = "idle"
  BY IdleQuiet DEF Init
<1>2. \A n : /\ ClaimedAlarms(n) = {} /\ AlarmMakers(n) = {} /\ ClaimedProblems(n) = {}
             /\ ProblemMakers(n) = {} /\ Counters(n) = {} /\ Repeats(n, alarms, incidents) = {}
  BY <1>1 DEF ClaimedAlarms, AlarmMakers, ClaimedProblems, ProblemMakers, Counters, Repeats,
              MakesAlarm, MakesProblem, WillCount, Raising
<1>3. Cardinality({}) = 0 /\ Cardinality(Procs) \in Nat
  BY FS_EmptySet, ProcsAssumption, FS_CardinalityType
<1>4. AlarmsClaimed
  BY <1>2, <1>3 DEF AlarmsClaimed
<1>5. ProblemsClaimed
  <2> SUFFICES ASSUME NEW n \in Names
               PROVE  Cardinality(ClaimedProblems(n)) + Cardinality(ProblemMakers(n))
                        <= Cardinality(Procs) + faults
    BY DEF ProblemsClaimed
  <2>1. Cardinality(ClaimedProblems(n)) = 0 /\ Cardinality(ProblemMakers(n)) = 0
    BY <1>2, <1>3
  <2>2. QED
    BY <1>1, <1>3, <2>1
<1>6. CopiesNamed
  BY <1>1 DEF CopiesNamed, UsesProblem
<1>7. CountsPaid
  <2> SUFFICES ASSUME NEW n \in Names PROVE Cardinality(Counters(n)) <= Repeated(n)
    BY <1>1 DEF CountsPaid, UsesProblem
  <2>1. Cardinality(Counters(n)) = 0 /\ Repeated(n) = 0
    BY <1>2, <1>3 DEF Repeated
  <2>2. QED
    BY <2>1
<1>8. QED
  BY <1>4, <1>5, <1>6, <1>7 DEF Claims

\* A restart gives every claim up.
LEMMA RestartClaims ==
  ASSUME IInv, Claims, Restart
  PROVE  Claims'
<1>1. /\ alarms' = alarms /\ incidents' = incidents /\ problems' = problems /\ faults' = faults
      /\ \A p \in Procs : h'[p] = Idle
  BY DEF Restart, tables
<1>2. \A p \in Procs : h'[p].pc = "idle"
  BY <1>1, IdleQuiet
<1>3. \A n : /\ AlarmMakers(n)' = {} /\ ProblemMakers(n)' = {} /\ Counters(n)' = {}
             /\ ClaimedAlarms(n)' \subseteq ClaimedAlarms(n)
             /\ ClaimedProblems(n)' \subseteq ClaimedProblems(n)
  BY <1>1, <1>2 DEF ClaimedAlarms, AlarmMakers, ClaimedProblems, ProblemMakers, Counters,
                    MakesAlarm, MakesProblem, WillCount, Raising, HoldsAlarm, HoldsProblem, UsesProblem
<1>4. faults' \in Nat /\ faults' >= faults
  BY <1>1, ProblemClaimsFinite
<1>5. AlarmsClaimed'
  <2> SUFFICES ASSUME NEW n \in Names
               PROVE  Cardinality(ClaimedAlarms(n)') + Cardinality(AlarmMakers(n)') <= Cardinality(Procs)
    BY DEF AlarmsClaimed
  <2>1. AlarmMakers(n)' \subseteq AlarmMakers(n) /\ ClaimedAlarms(n)' \subseteq ClaimedAlarms(n)
    BY <1>3
  <2>2. QED
    BY <2>1, AlarmClaimsFewer DEF Claims
<1>6. ProblemsClaimed'
  <2> SUFFICES ASSUME NEW n \in Names
               PROVE  Cardinality(ClaimedProblems(n)') + Cardinality(ProblemMakers(n)')
                        <= Cardinality(Procs) + faults'
    BY DEF ProblemsClaimed
  <2>1. /\ ProblemMakers(n)' \subseteq ProblemMakers(n)
        /\ ClaimedProblems(n)' \subseteq ClaimedProblems(n)
    BY <1>3
  <2>2. QED
    BY <1>4, <2>1, ProblemClaimsFewer DEF Claims
<1>7. CopiesNamed'
  BY <1>2 DEF CopiesNamed, UsesProblem
<1>8. CountsPaid'
  <2> SUFFICES ASSUME NEW n \in Names
               PROVE  /\ Cardinality(Counters(n)') <= Repeated(n)'
                      /\ \A k \in DOMAIN problems' : problems'[k].name = n =>
                           problems'[k].count + Cardinality(Counters(n)') <= Repeated(n)'
                      /\ \A r \in Procs : h'[r].pc \in UsesProblem /\ h'[r].problem.name = n =>
                           h'[r].problem.count + Cardinality(Counters(n)' \ {r}) <= Repeated(n)'
    BY DEF CountsPaid
  <2>1. Cardinality(Counters(n)') = 0
    BY <1>3, FS_EmptySet
  <2>2. Repeated(n)' = Repeated(n)
    BY <1>1 DEF Repeated
  <2>3. Repeated(n) \in Nat /\ Cardinality(Counters(n)) \in Nat
    BY CountsFinite, FS_CardinalityType
  <2>4. ASSUME NEW k \in DOMAIN problems', problems'[k].name = n
        PROVE  problems'[k].count + Cardinality(Counters(n)') <= Repeated(n)'
    <3>1. problems[k].count + Cardinality(Counters(n)) <= Repeated(n)
      BY <1>1, <2>4 DEF Claims, CountsPaid
    <3>2. problems[k].count \in Nat
      BY <1>1, <2>4, TableShapes DEF Problem
    <3>3. QED
      BY <1>1, <2>1, <2>2, <2>3, <3>1, <3>2
  <2>5. \A r \in Procs : h'[r].pc \notin UsesProblem
    BY <1>2 DEF UsesProblem
  <2>6. QED
    BY <2>1, <2>2, <2>3, <2>4, <2>5
<1>9. QED
  BY <1>5, <1>6, <1>7, <1>8 DEF Claims

LEMMA NextClaims == IInv /\ IInv' /\ Lineage /\ Claims /\ [Next]_vars => Claims'
<1> SUFFICES ASSUME IInv, IInv', Lineage, Claims, [Next]_vars PROVE Claims'
  OBVIOUS
<1>1. ASSUME NEW p \in Procs, NEW ok \in BOOLEAN, Effect(p, ok), Others(p),
             faults' = IF ok THEN faults ELSE faults + 1
      PROVE  Claims'
  <2>1. AlarmsClaimed'
    BY <1>1, AlarmsStayClaimed DEF Claims
  <2>2. ProblemsClaimed'
    BY <1>1, ProblemsStayClaimed DEF Claims
  <2>3. CopiesNamed'
    BY <1>1, CopiesStayNamed DEF Claims
  <2>4. CountsPaid'
    BY <1>1, CountsStayPaid DEF Claims
  <2>5. QED
    BY <2>1, <2>2, <2>3, <2>4 DEF Claims
<1>2. ASSUME NEW p \in Procs, Run(p) PROVE Claims'
  <2>1. PICK ok \in BOOLEAN : Statement(p, ok) /\ faults' = IF ok THEN faults ELSE faults + 1
    BY <1>2 DEF Run
  <2>2. Effect(p, ok) /\ Others(p)
    BY <2>1, StatementEffect, StatementMove, MovesAlone
  <2>3. QED
    BY <1>1, <2>1, <2>2
<1>3. ASSUME NEW p \in Procs, Request(p) PROVE Claims'
  <2>1. Effect(p, TRUE) /\ Others(p) /\ faults' = faults
    BY <1>3, RequestEffect, RequestMove, MovesAlone
  <2>2. faults' = IF TRUE THEN faults ELSE faults + 1
    BY <2>1
  <2>3. QED
    BY <1>1, <2>1, <2>2
<1>4. CASE UNCHANGED vars
  <2>1. /\ alarms' = alarms /\ incidents' = incidents /\ problems' = problems /\ h' = h
        /\ faults' = faults
    BY <1>4 DEF vars, tables, bounds
  <2>2. AlarmsClaimed'
    BY <2>1 DEF Claims, AlarmsClaimed, ClaimedAlarms, AlarmMakers
  <2>3. ProblemsClaimed'
    BY <2>1 DEF Claims, ProblemsClaimed, ClaimedProblems, ProblemMakers
  <2>4. CopiesNamed'
    BY <2>1 DEF Claims, CopiesNamed
  <2>5. CountsPaid'
    BY <2>1 DEF Claims, CountsPaid, Counters, Repeated, Repeats
  <2>6. QED
    BY <2>2, <2>3, <2>4, <2>5 DEF Claims
<1>5. QED
  BY <1>2, <1>3, <1>4, RestartClaims, Zenon DEF Next, Wait

\* Each alarm and each problem that is active, or may become so, was claimed, and
\* each count is paid for by a recurrence.
THEOREM ClaimsInvariance == Spec => [](IInv /\ Lineage /\ Claims)
<1>1. Init => Claims
  BY InitClaims
<1>2. IInv /\ IInv' /\ Lineage /\ Claims /\ [Next]_vars => Claims'
  BY NextClaims
<1>3. QED
  BY <1>1, <1>2, LineageInvariance, PTL DEF Spec

\* However handlers interleave, fail or die, and whatever stale copies they write
\* back, no more alarms of a name are active, among those that a lookup reads,
\* than there are handlers.
THEOREM ActiveAlarmsAreBounded == Spec => []ActiveAlarmsBounded
<1>1. ASSUME IInv, Claims PROVE ActiveAlarmsBounded
  <2> SUFFICES ASSUME NEW n \in Names
               PROVE  Cardinality({a \in FindAll : a.name = n /\ a.status # "Closed"})
                        <= Cardinality(Procs)
    BY DEF ActiveAlarmsBounded
  <2> DEFINE S == {a \in FindAll : a.name = n /\ a.status # "Closed"}
             K == ClaimedAlarms(n)
             C == AlarmMakers(n)
             f == [a \in S |-> a.id]
  <2>1. \A a \in S : a.id \in DOMAIN alarms /\ a = alarms[a.id] /\ a.id + FindLimit > Len(alarms)
    BY <1>1, TableShapes DEF FindAll
  <2>2. f \in [S -> K] /\ \A a, b \in S : f[a] = f[b] => a = b
    BY <2>1 DEF ClaimedAlarms, IsActive
  <2>3. /\ IsFiniteSet(K) /\ IsFiniteSet(C)
        /\ Cardinality(K) + Cardinality(C) <= Cardinality(Procs)
    BY <1>1, AlarmClaimsFinite DEF Claims, AlarmsClaimed
  <2> HIDE DEF S, K, C, f
  <2>4. f \in Injection(S, K)
    BY <2>2 DEF Injection, IsInjective
  <2>5. Cardinality(S) <= Cardinality(K) /\ Cardinality(S) \in Nat
    BY <2>3, <2>4, FS_Injection, FS_CardinalityType
  <2>6. Cardinality(K) \in Nat /\ Cardinality(C) \in Nat /\ Cardinality(Procs) \in Nat
    BY <2>3, ProcsAssumption, FS_CardinalityType
  <2>7. Cardinality(S) <= Cardinality(Procs)
    BY <2>3, <2>5, <2>6
  <2>8. QED
    BY <2>7 DEF S
<1>2. QED
  BY <1>1, ClaimsInvariance, PTL

\* No more problems of a name are open than there are handlers and lookups have
\* failed.
THEOREM OpenProblemsAreBounded == Spec => []OpenProblemsBounded
<1>1. ASSUME IInv, Claims PROVE OpenProblemsBounded
  <2> SUFFICES ASSUME NEW n \in Names
               PROVE  Cardinality({q \in Rows(problems) : q.name = n /\ q.status # "Closed"})
                        <= Cardinality(Procs) + faults
    BY DEF OpenProblemsBounded
  <2> DEFINE S == {q \in Rows(problems) : q.name = n /\ q.status # "Closed"}
             K == ClaimedProblems(n)
             C == ProblemMakers(n)
             f == [q \in S |-> q.id]
  <2>1. \A q \in S : q.id \in DOMAIN problems /\ q = problems[q.id]
    BY <1>1, TableShapes DEF Rows
  <2>2. f \in [S -> K] /\ \A a, b \in S : f[a] = f[b] => a = b
    BY <2>1 DEF ClaimedProblems, IsActive
  <2>3. /\ IsFiniteSet(K) /\ IsFiniteSet(C) /\ Cardinality(Procs) \in Nat /\ faults \in Nat
        /\ Cardinality(K) + Cardinality(C) <= Cardinality(Procs) + faults
    BY <1>1, ProblemClaimsFinite DEF Claims, ProblemsClaimed
  <2> HIDE DEF S, K, C, f
  <2>4. f \in Injection(S, K)
    BY <2>2 DEF Injection, IsInjective
  <2>5. Cardinality(S) <= Cardinality(K) /\ Cardinality(S) \in Nat
    BY <2>3, <2>4, FS_Injection, FS_CardinalityType
  <2>6. Cardinality(K) \in Nat /\ Cardinality(C) \in Nat
    BY <2>3, FS_CardinalityType
  <2>7. Cardinality(S) <= Cardinality(Procs) + faults
    BY <2>3, <2>5, <2>6
  <2>8. QED
    BY <2>7 DEF S
<1>2. QED
  BY <1>1, ClaimsInvariance, PTL

\* Whatever copies of its row handlers hold, a problem counts no recurrence that
\* has not happened.
THEOREM CountsAreNotExceeded == Spec => []NeverOvercounted
<1>1. ASSUME IInv, Lineage, Claims PROVE NeverOvercounted
  <2> SUFFICES ASSUME NEW k \in DOMAIN problems
               PROVE  problems[k].count <= Cardinality(Recurrences(problems[k].name))
    BY DEF NeverOvercounted, Rows
  <2> DEFINE n == problems[k].name
  <2>1. n \in Names /\ problems[k].count \in Nat
    BY <1>1, TableShapes DEF Problem
  <2>2. Repeats(n, alarms, incidents) = Recurrences(n)
    <3> HIDE DEF n
    <3>1. ASSUME NEW i \in DOMAIN incidents
          PROVE  /\ incidents[i].alarm \in DOMAIN alarms
                 /\ alarms[incidents[i].alarm].id = incidents[i].alarm
      BY <1>1, TableShapes DEF Lineage, IncidentsOfAlarms
    <3>2. ASSUME NEW j \in DOMAIN alarms, alarms[j].name = n
          PROVE  Recurs(j, alarms) <=> \E b \in Rows(alarms) : b.name = n /\ b.id < j
      <4>1. DOMAIN alarms = 1..Len(alarms) /\ Len(alarms) \in Nat
            /\ \A l \in DOMAIN alarms : alarms[l].id = l
        BY <1>1, TableShapes
      <4>2. ASSUME NEW l \in 1..(j - 1), alarms[l].name = alarms[j].name
            PROVE  \E b \in Rows(alarms) : b.name = n /\ b.id < j
        <5>1. l \in DOMAIN alarms /\ l < j
          BY <4>1
        <5>2. alarms[l] \in Rows(alarms) /\ alarms[l].id = l /\ alarms[l].name = n
          BY <3>2, <4>1, <4>2, <5>1 DEF Rows
        <5>3. QED
          BY <5>1, <5>2
      <4>3. ASSUME NEW b \in Rows(alarms), b.name = n, b.id < j
            PROVE  Recurs(j, alarms)
        <5>1. PICK l \in DOMAIN alarms : b = alarms[l] /\ b.id = l
          BY <4>1 DEF Rows
        <5>2. l \in 1..(j - 1) /\ alarms[l].name = alarms[j].name
          BY <3>2, <4>1, <4>3, <5>1
        <5>3. QED
          BY <5>2 DEF Recurs
      <4>4. QED
        BY <4>2, <4>3 DEF Recurs
    <3>3. ASSUME NEW i \in DOMAIN incidents
          PROVE  i \in Repeats(n, alarms, incidents) <=> i \in Recurrences(n)
      BY <3>1, <3>2 DEF Repeats, Recurrences
    <3>4. Repeats(n, alarms, incidents) \subseteq DOMAIN incidents
          /\ Recurrences(n) \subseteq DOMAIN incidents
      BY DEF Repeats, Recurrences
    <3>5. QED
      BY <3>3, <3>4
  <2>3. problems[k].count + Cardinality(Counters(n)) <= Repeated(n)
    BY <1>1, <2>1 DEF Claims, CountsPaid
  <2>4. Cardinality(Counters(n)) \in Nat /\ Repeated(n) \in Nat
    BY <1>1, CountsFinite, FS_CardinalityType
  <2>5. problems[k].count <= Repeated(n)
    BY <2>1, <2>3, <2>4
  <2>6. QED
    BY <2>2, <2>5 DEF Repeated
<1>2. QED
  BY <1>1, ClaimsInvariance, PTL
==============================================================================
