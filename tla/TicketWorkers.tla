---------------------------- MODULE TicketWorkers ----------------------------
(***************************************************************************)
(* Groups, their employees, and the employees who work on tickets          *)
(* (internal/service/group.go).  An action is one SQL statement; the read  *)
(* that starts a request is part of its action, since a request that fails *)
(* there changes nothing.  The statements that only read a row back for    *)
(* the answer are left out.                                                *)
(*                                                                         *)
(* The group of a ticket is a name, copied from the rule that raised the   *)
(* alarm, and no statement changes it: AssignedGroup is a constant.        *)
(***************************************************************************)
EXTENDS Naturals, Sequences

CONSTANTS
  GroupNames,     \* the names that administrators give to groups
  Fold,           \* Fold[n]: the name n without its case
  Emails,
  Tickets,
  AssignedGroup,  \* AssignedGroup[t]: the name in the ticket, or None
  Procs,          \* requests that may be served at the same time
  MaxSeed,        \* bound: groups, and employees, at the start
  MaxOps,         \* bound: requests served
  MaxFaults,      \* bound: SQL statements that return an error
  None            \* no row, no group

ASSUME NamesAssumption == /\ DOMAIN Fold = GroupNames
                          /\ AssignedGroup \in [Tickets -> GroupNames \cup {None}]
                          /\ None \notin GroupNames
ASSUME BoundsAssumption == MaxSeed \in Nat /\ MaxOps \in Nat /\ MaxFaults \in Nat

VARIABLES
  groups,     \* the table: groups[g] is the name of group g, None once deleted
  employees,  \* employees[e] is the row of employee e, None once deleted
  workers,    \* ticket_workers: pairs of a ticket and an employee
  h,          \* h[p]: the request that p serves
  ops, faults

tables == <<groups, employees, workers>>
bounds == <<ops, faults>>
vars == <<tables, h, bounds>>

Employee == [group : Nat, email : Emails]
ASSUME RowAssumption == None \notin Employee

Labels == {"idle", "putGroup", "deleteGroup", "insertEmployee", "newGroup",
           "putEmployee", "deleteEmployee", "matchGroup", "assign"}

\* id is the group or the employee that the request names; row is what it asks
\* for, or the copy of the employee that it read.
Request == [pc : Labels, id : Nat, name : GroupNames \cup {None},
            row : Employee \cup {None}, ticket : Tickets \cup {None}]
Idle == [pc |-> "idle", id |-> 0, name |-> None, row |-> None, ticket |-> None]

Groups == {g \in DOMAIN groups : groups[g] # None}
Employees == {e \in DOMAIN employees : employees[e] # None}

-----------------------------------------------------------------------------
(* The constraints of the tables *)

\* groups.name and employees.email are UNIQUE, for the row that is to have id i.
NameFree(name, i) == \A g \in Groups \ {i} : groups[g] # name
EmailFree(email, i) == \A e \in Employees \ {i} : employees[e].email # email

\* employees.group_id REFERENCES groups, ticket_workers.employee_id employees.
Unchecked(e) == TRUE  \* mutant: the column refers to nothing
GroupIsThere(g) == g \in Groups
EmployeeIsThere(e) == e \in Employees

\* ON DELETE CASCADE, from groups to employees and from employees to workers.
WorkersWithout(gone) == {w \in workers : w[2] \notin gone}
RemoveEmployees(gone) ==
  /\ employees' = [e \in DOMAIN employees |-> IF e \in gone THEN None ELSE employees[e]]
  /\ workers' = WorkersWithout(gone)

\* The tables as earlier requests have left them; nobody is assigned yet.
Init ==
  /\ groups \in UNION {[1..n -> GroupNames] : n \in 0..MaxSeed}
  /\ employees \in UNION {[1..n -> [group : DOMAIN groups, email : Emails]] : n \in 0..MaxSeed}
  /\ \A g \in DOMAIN groups : NameFree(groups[g], g)
  /\ \A e \in DOMAIN employees : EmailFree(employees[e].email, e)
  /\ workers = {}
  /\ h = [p \in Procs |-> Idle]
  /\ ops = 0 /\ faults = 0

-----------------------------------------------------------------------------
Goto(p, request) == h' = [h EXCEPT ![p] = request]
Return(p) == Goto(p, Idle)

Members(g) == {e \in Employees : employees[e].group = g}

(* Groups *)

\* CreateGroup is a single statement.
CreateGroup(name) ==
  /\ groups' = IF NameFree(name, Len(groups) + 1) THEN Append(groups, name) ELSE groups
  /\ UNCHANGED <<employees, workers, h>>

AskUpdateGroup(p, g, name) ==
  /\ Goto(p, [Idle EXCEPT !.pc = "putGroup", !.id = g, !.name = name])
  /\ UNCHANGED tables

\* UPDATE ... WHERE id: a group that is gone is no error.
PutGroup(p, ok) ==
  LET g == h[p].id
  IN
  /\ h[p].pc = "putGroup"
  /\ groups' = IF ok /\ g \in Groups /\ NameFree(h[p].name, g)
               THEN [groups EXCEPT ![g] = h[p].name] ELSE groups
  /\ Return(p)
  /\ UNCHANGED <<employees, workers>>

AskDeleteGroup(p, g) ==
  /\ Goto(p, [Idle EXCEPT !.pc = "deleteGroup", !.id = g])
  /\ UNCHANGED tables

DeleteGroup(p, ok) ==
  /\ h[p].pc = "deleteGroup"
  /\ IF ok THEN /\ groups' = [groups EXCEPT ![h[p].id] = None]
                /\ RemoveEmployees(Members(h[p].id))
           ELSE UNCHANGED tables
  /\ Return(p)

-----------------------------------------------------------------------------
(* Employees *)

AskCreateEmployee(p, row) ==
  /\ row.group \in Groups
  /\ Goto(p, [Idle EXCEPT !.pc = "insertEmployee", !.row = row])
  /\ UNCHANGED tables

InsertEmployee(p, ok) ==
  LET e == Len(employees) + 1
      row == h[p].row
  IN
  /\ h[p].pc = "insertEmployee"
  /\ employees' = IF ok /\ GroupIsThere(row.group) /\ EmailFree(row.email, e)
                  THEN Append(employees, row) ELSE employees
  /\ Return(p)
  /\ UNCHANGED <<groups, workers>>

\* UpdateEmployee reads the employee, then the new group, then writes all columns.
AskUpdateEmployee(p, e, row) ==
  /\ Goto(p, [Idle EXCEPT !.pc = "newGroup", !.id = e, !.row = row])
  /\ UNCHANGED tables

NewGroup(p, ok) ==
  /\ h[p].pc = "newGroup"
  /\ IF ok /\ h[p].row.group \in Groups THEN Goto(p, [h[p] EXCEPT !.pc = "putEmployee"])
                                        ELSE Return(p)
  /\ UNCHANGED tables

PutEmployee(p, ok) ==
  LET e == h[p].id
      row == h[p].row
  IN
  /\ h[p].pc = "putEmployee"
  /\ employees' = IF ok /\ e \in Employees /\ GroupIsThere(row.group) /\ EmailFree(row.email, e)
                  THEN [employees EXCEPT ![e] = row] ELSE employees
  /\ Return(p)
  /\ UNCHANGED <<groups, workers>>

AskDeleteEmployee(p, e) ==
  /\ Goto(p, [Idle EXCEPT !.pc = "deleteEmployee", !.id = e])
  /\ UNCHANGED tables

DeleteEmployee(p, ok) ==
  /\ h[p].pc = "deleteEmployee"
  /\ IF ok THEN RemoveEmployees({h[p].id}) ELSE UNCHANGED <<employees, workers>>
  /\ Return(p)
  /\ UNCHANGED <<groups>>

-----------------------------------------------------------------------------
(* Ticket workers *)

SameGroup(name, t) == Fold[name] = Fold[AssignedGroup[t]]

\* AssignToTicket reads the ticket and the employee, and the group of the copy if
\* the ticket has one.
AskAssign(p, t, e) ==
  /\ Goto(p, [Idle EXCEPT !.pc = IF AssignedGroup[t] = None THEN "assign" ELSE "matchGroup",
                          !.id = e, !.row = employees[e], !.ticket = t])
  /\ UNCHANGED tables

MatchGroup(p, ok) ==
  LET g == h[p].row.group IN
  /\ h[p].pc = "matchGroup"
  /\ IF ok /\ g \in Groups /\ SameGroup(groups[g], h[p].ticket)
     THEN Goto(p, [h[p] EXCEPT !.pc = "assign"])
     ELSE Return(p)
  /\ UNCHANGED tables

\* ON CONFLICT DO NOTHING: who works on the ticket already is no error.
Assign(p, ok) ==
  /\ h[p].pc = "assign"
  /\ workers' = IF ok /\ EmployeeIsThere(h[p].id)
                THEN workers \cup {<<h[p].ticket, h[p].id>>} ELSE workers
  /\ Return(p)
  /\ UNCHANGED <<groups, employees>>

\* UnassignFromTicket is a single statement.
Unassign(t, e) ==
  /\ workers' = workers \ {<<t, e>>}
  /\ UNCHANGED <<groups, employees, h>>

-----------------------------------------------------------------------------
Serve(p) ==
  /\ h[p].pc = "idle" /\ ops < MaxOps
  /\ ops' = ops + 1 /\ UNCHANGED faults
  /\ \/ \E name \in GroupNames : \/ CreateGroup(name)
                                 \/ \E g \in Groups : AskUpdateGroup(p, g, name)
     \/ \E g \in Groups : AskDeleteGroup(p, g)
     \/ \E row \in [group : DOMAIN groups, email : Emails] :
          \/ AskCreateEmployee(p, row)
          \/ \E e \in Employees : AskUpdateEmployee(p, e, row)
     \/ \E e \in Employees : \/ AskDeleteEmployee(p, e)
                             \/ \E t \in Tickets : AskAssign(p, t, e)
     \/ \E w \in workers : Unassign(w[1], w[2])

Statement(p, ok) ==
  \/ PutGroup(p, ok) \/ DeleteGroup(p, ok)
  \/ InsertEmployee(p, ok) \/ NewGroup(p, ok) \/ PutEmployee(p, ok) \/ DeleteEmployee(p, ok)
  \/ MatchGroup(p, ok) \/ Assign(p, ok)

\* A statement that fails ends its request.
Run(p) ==
  \E ok \in BOOLEAN :
    /\ ok \/ faults < MaxFaults
    /\ faults' = IF ok THEN faults ELSE faults + 1
    /\ UNCHANGED ops
    /\ Statement(p, ok)

Next == \E p \in Procs : Serve(p) \/ Run(p)

Spec == Init /\ [][Next]_vars

-----------------------------------------------------------------------------
(* Properties *)

TypeOK ==
  /\ groups \in Seq(GroupNames \cup {None})
  /\ employees \in Seq(Employee \cup {None})
  /\ workers \subseteq Tickets \X Nat
  /\ h \in [Procs -> Request]
  /\ ops \in 0..MaxOps /\ faults \in 0..MaxFaults

\* Whoever works on a ticket is an employee, and whoever is an employee is of a
\* group, though requests act on rows that another request has deleted since.
NothingDangles ==
  /\ \A w \in workers : w[2] \in Employees
  /\ \A e \in Employees : employees[e].group \in Groups
=============================================================================
