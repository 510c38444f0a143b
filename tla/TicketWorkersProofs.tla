------------------------- MODULE TicketWorkersProofs -------------------------
(***************************************************************************)
(* What the tables of groups, employees and ticket workers keep for any    *)
(* number of requests served at the same time.                             *)
(***************************************************************************)
EXTENDS TicketWorkers, SequenceTheorems, TLAPS

TablesType ==
  /\ groups \in Seq(GroupNames \cup {None})
  /\ employees \in Seq(Employee \cup {None})
  /\ workers \subseteq Tickets \X Nat

TablesOK == TablesType /\ NothingDangles

\* A request x whose ids are of rows that were once there.
HandlerOK(x) ==
  /\ x \in Request
  /\ x.pc \in {"putGroup", "deleteGroup"} => x.id \in DOMAIN groups
  /\ x.pc = "putGroup" => x.name \in GroupNames
  /\ x.pc \in {"insertEmployee", "newGroup", "putEmployee", "matchGroup"} => x.row \in Employee
  /\ x.pc \in {"newGroup", "putEmployee", "deleteEmployee", "matchGroup", "assign"} =>
       x.id \in DOMAIN employees
  /\ x.pc \in {"matchGroup", "assign"} => x.ticket \in Tickets

HandlersOK == h \in [Procs -> Request] /\ \A p \in Procs : HandlerOK(h[p])
BoundsOK == ops \in 0..MaxOps /\ faults \in 0..MaxFaults

\* The inductive invariant.
IInv == TablesOK /\ HandlersOK /\ BoundsOK

\* What a step does to the tables: ids stay.
Kept == DOMAIN groups \subseteq DOMAIN groups' /\ DOMAIN employees \subseteq DOMAIN employees'

GoodTables == TablesOK' /\ Kept

GoodMove(p) ==
  /\ GoodTables
  /\ \E x \in Request : h' = [h EXCEPT ![p] = x] /\ HandlerOK(x)'

-----------------------------------------------------------------------------
(* The tables *)

LEMMA TypeFacts ==
  ASSUME TablesOK
  PROVE  /\ Len(groups) \in Nat /\ DOMAIN groups = 1..Len(groups)
         /\ Len(employees) \in Nat /\ DOMAIN employees = 1..Len(employees)
         /\ \A g \in Groups : groups[g] \in GroupNames
         /\ \A e \in Employees : employees[e] \in Employee /\ employees[e].group \in Groups
  BY DEF TablesOK, TablesType, Groups, Employees, NothingDangles

LEMMA SameTables ==
  ASSUME TablesOK, UNCHANGED tables
  PROVE  GoodTables
<1>1. Groups' = Groups /\ Employees' = Employees
  BY DEF tables, Groups, Employees
<1>2. TablesOK'
  BY <1>1 DEF tables, TablesOK, TablesType, NothingDangles
<1> QED BY <1>2 DEF GoodTables, Kept, tables

\* The workers are fewer, or there is one more employee.
LEMMA WorkersGood ==
  ASSUME TablesOK, UNCHANGED <<groups, employees>>,
         workers' \subseteq Tickets \X Nat,
         \A w \in workers' \ workers : w[2] \in Employees
  PROVE  GoodTables
<1>1. Groups' = Groups /\ Employees' = Employees
  BY DEF Groups, Employees
<1>2. TablesOK'
  BY <1>1 DEF TablesOK, TablesType, NothingDangles
<1> QED BY <1>2 DEF GoodTables, Kept

LEMMA GroupAppended ==
  ASSUME TablesOK, NEW name \in GroupNames,
         groups' = Append(groups, name), UNCHANGED <<employees, workers>>
  PROVE  GoodTables
<1> DEFINE n == Len(groups) + 1
<1>1. /\ groups' \in Seq(GroupNames \cup {None}) /\ DOMAIN groups' = DOMAIN groups \cup {n}
      /\ groups'[n] = name
      /\ \A g \in DOMAIN groups : groups'[g] = groups[g]
  BY TypeFacts, AppendProperties DEF TablesOK, TablesType
<1>2. Groups \subseteq Groups' /\ Employees' = Employees
  BY <1>1 DEF Groups, Employees
<1>3. TablesType'
  BY <1>1 DEF TablesOK, TablesType
<1>4. NothingDangles'
  BY <1>2 DEF TablesOK, NothingDangles
<1> QED BY <1>1, <1>3, <1>4 DEF GoodTables, TablesOK, Kept

LEMMA GroupRenamed ==
  ASSUME TablesOK, NEW g \in Groups, NEW name \in GroupNames,
         groups' = [groups EXCEPT ![g] = name], UNCHANGED <<employees, workers>>
  PROVE  GoodTables
<1>1. /\ groups' \in Seq(GroupNames \cup {None}) /\ DOMAIN groups' = DOMAIN groups
      /\ groups'[g] = name
      /\ \A k \in DOMAIN groups : k # g => groups'[k] = groups[k]
  BY DEF TablesOK, TablesType, Groups
<1>2. Groups' = Groups /\ Employees' = Employees
  BY <1>1, NamesAssumption DEF Groups, Employees
<1>3. TablesType'
  BY <1>1 DEF TablesOK, TablesType
<1>4. NothingDangles'
  BY <1>2 DEF TablesOK, NothingDangles
<1> QED BY <1>1, <1>3, <1>4 DEF GoodTables, TablesOK, Kept

\* Employees are removed with their assignments, and perhaps a group that has no
\* other members.
LEMMA Removed ==
  ASSUME TablesOK, NEW gone, RemoveEmployees(gone),
         \/ groups' = groups
         \/ \E g \in DOMAIN groups : groups' = [groups EXCEPT ![g] = None] /\ gone = Members(g)
  PROVE  GoodTables
<1>1. /\ DOMAIN employees' = DOMAIN employees
      /\ \A e \in DOMAIN employees : employees'[e] = IF e \in gone THEN None ELSE employees[e]
      /\ Employees' = Employees \ gone
      /\ \A e \in Employees' : employees'[e] = employees[e]
  BY DEF RemoveEmployees, Employees
<1>2. employees' \in Seq(Employee \cup {None})
  <2>1. employees' \in [1..Len(employees) -> Employee \cup {None}]
    BY <1>1, TypeFacts DEF RemoveEmployees, TablesOK, TablesType
  <2> QED BY <2>1, TypeFacts
<1> DEFINE Smaller == /\ groups' \in Seq(GroupNames \cup {None}) /\ DOMAIN groups' = DOMAIN groups
                      /\ Groups' \subseteq Groups
                      /\ \A k \in Groups' : groups'[k] = groups[k]
                      /\ \A e \in Employees' : employees[e].group \in Groups'
<1>3. Smaller
  <2>1. CASE groups' = groups
    BY <1>1, <2>1, TypeFacts DEF TablesOK, TablesType, Groups
  <2>2. ASSUME NEW g \in DOMAIN groups, groups' = [groups EXCEPT ![g] = None], gone = Members(g)
        PROVE  Smaller
    <3>1. groups' \in Seq(GroupNames \cup {None}) /\ DOMAIN groups' = DOMAIN groups
      BY <2>2 DEF TablesOK, TablesType
    <3>2. Groups' = Groups \ {g} /\ \A k \in Groups' : groups'[k] = groups[k]
      BY <2>2, <3>1 DEF Groups
    <3>3. \A e \in Employees' : employees[e].group \in Groups /\ employees[e].group # g
      BY <1>1, <2>2, TypeFacts DEF Members
    <3> QED BY <3>1, <3>2, <3>3
  <2> QED BY <2>1, <2>2
<1>4. workers' \subseteq workers /\ \A w \in workers' : w[2] \notin gone
  BY DEF RemoveEmployees, WorkersWithout
<1>5. TablesType'
  BY <1>1, <1>2, <1>3, <1>4 DEF TablesOK, TablesType
<1>6. NothingDangles'
  BY <1>1, <1>3, <1>4 DEF TablesOK, NothingDangles
<1> QED BY <1>1, <1>3, <1>5, <1>6 DEF GoodTables, TablesOK, Kept

LEMMA EmployeeAppended ==
  ASSUME TablesOK, NEW row \in Employee, row.group \in Groups,
         employees' = Append(employees, row), UNCHANGED <<groups, workers>>
  PROVE  GoodTables
<1> DEFINE n == Len(employees) + 1
<1>1. /\ employees' \in Seq(Employee \cup {None}) /\ DOMAIN employees' = DOMAIN employees \cup {n}
      /\ employees'[n] = row /\ n \notin DOMAIN employees
      /\ \A e \in DOMAIN employees : employees'[e] = employees[e]
  BY TypeFacts, AppendProperties DEF TablesOK, TablesType
<1>2. /\ Employees' = Employees \cup {n} /\ Groups' = Groups
      /\ \A e \in Employees : employees'[e] = employees[e]
  BY <1>1, RowAssumption DEF Groups, Employees
<1>3. TablesType'
  BY <1>1 DEF TablesOK, TablesType
<1>4. NothingDangles'
  BY <1>1, <1>2 DEF TablesOK, NothingDangles
<1> QED BY <1>1, <1>3, <1>4 DEF GoodTables, TablesOK, Kept

LEMMA EmployeeWritten ==
  ASSUME TablesOK, NEW e \in Employees, NEW row \in Employee, row.group \in Groups,
         employees' = [employees EXCEPT ![e] = row], UNCHANGED <<groups, workers>>
  PROVE  GoodTables
<1>1. /\ employees' \in Seq(Employee \cup {None}) /\ DOMAIN employees' = DOMAIN employees
      /\ employees'[e] = row
      /\ \A k \in DOMAIN employees : k # e => employees'[k] = employees[k]
  BY DEF TablesOK, TablesType, Employees
<1>2. Employees' = Employees /\ Groups' = Groups
  BY <1>1, RowAssumption DEF Groups, Employees
<1>3. TablesType'
  BY <1>1 DEF TablesOK, TablesType
<1>4. \A k \in Employees : k # e => employees'[k] = employees[k]
  BY <1>1 DEF Employees
<1>5. NothingDangles'
  BY <1>1, <1>2, <1>4 DEF TablesOK, NothingDangles
<1> QED BY <1>1, <1>3, <1>5 DEF GoodTables, TablesOK, Kept

-----------------------------------------------------------------------------
(* Moves of a request *)

\* What a request holds stays true, whatever another does to the tables.
LEMMA HandlerKept ==
  ASSUME GoodTables, NEW x, HandlerOK(x)
  PROVE  HandlerOK(x)'
  BY DEF GoodTables, Kept, HandlerOK

LEMMA GotoMove ==
  ASSUME IInv, NEW p \in Procs, GoodTables, NEW x, Goto(p, x), HandlerOK(x)'
  PROVE  GoodMove(p)
<1>1. x \in Request
  BY DEF HandlerOK
<1> QED BY <1>1 DEF GoodMove, Goto

LEMMA IdleOK == HandlerOK(Idle) /\ HandlerOK(Idle)'
  BY DEF Idle, Request, HandlerOK, Labels

LEMMA ReturnMove ==
  ASSUME IInv, NEW p \in Procs, GoodTables, Return(p)
  PROVE  GoodMove(p)
  BY IdleOK, GotoMove DEF Return

\* A request that changes no table, and either goes on or returns.
LEMMA StayMove ==
  ASSUME IInv, NEW p \in Procs, UNCHANGED tables,
         NEW x, HandlerOK(x), Goto(p, x) \/ Return(p)
  PROVE  GoodMove(p)
<1>1. GoodTables
  BY SameTables DEF IInv
<1>2. HandlerOK(x)'
  BY <1>1, HandlerKept
<1> QED BY <1>1, <1>2, GotoMove, ReturnMove

-----------------------------------------------------------------------------
(* The statements *)

LEMMA OwnState ==
  ASSUME IInv, NEW p \in Procs
  PROVE  TablesOK /\ HandlerOK(h[p]) /\ h[p] \in Request
  BY DEF IInv, HandlersOK

LEMMA PutGroupMove ==
  ASSUME IInv, NEW p \in Procs, NEW ok \in BOOLEAN, PutGroup(p, ok)
  PROVE  GoodMove(p)
<1>1. h[p].name \in GroupNames
  BY OwnState DEF PutGroup, HandlerOK
<1>2. GoodTables
  BY <1>1, OwnState, GroupRenamed, SameTables DEF PutGroup, tables
<1> QED BY <1>2, ReturnMove DEF PutGroup

LEMMA DeleteGroupMove ==
  ASSUME IInv, NEW p \in Procs, NEW ok \in BOOLEAN, DeleteGroup(p, ok)
  PROVE  GoodMove(p)
<1>1. h[p].id \in DOMAIN groups
  BY OwnState DEF DeleteGroup, HandlerOK
<1>2. GoodTables
  BY <1>1, OwnState, Removed, SameTables DEF DeleteGroup
<1> QED BY <1>2, ReturnMove DEF DeleteGroup

LEMMA InsertEmployeeMove ==
  ASSUME IInv, NEW p \in Procs, NEW ok \in BOOLEAN, InsertEmployee(p, ok)
  PROVE  GoodMove(p)
<1>1. h[p].row \in Employee
  BY OwnState DEF InsertEmployee, HandlerOK
<1>2. GoodTables
  BY <1>1, OwnState, EmployeeAppended, SameTables DEF InsertEmployee, GroupIsThere, tables
<1> QED BY <1>2, ReturnMove DEF InsertEmployee

LEMMA NewGroupMove ==
  ASSUME IInv, NEW p \in Procs, NEW ok \in BOOLEAN, NewGroup(p, ok)
  PROVE  GoodMove(p)
<1> DEFINE x == [h[p] EXCEPT !.pc = "putEmployee"]
<1>1. /\ x \in Request /\ x.pc = "putEmployee" /\ x.row = h[p].row /\ x.id = h[p].id
  BY OwnState DEF Request, Labels
<1>2. HandlerOK(x)
  BY <1>1, OwnState DEF NewGroup, HandlerOK
<1>3. Goto(p, x) \/ Return(p)
  BY DEF NewGroup
<1> QED BY <1>2, <1>3, StayMove DEF NewGroup

LEMMA PutEmployeeMove ==
  ASSUME IInv, NEW p \in Procs, NEW ok \in BOOLEAN, PutEmployee(p, ok)
  PROVE  GoodMove(p)
<1>1. h[p].row \in Employee
  BY OwnState DEF PutEmployee, HandlerOK
<1>2. GoodTables
  BY <1>1, OwnState, EmployeeWritten, SameTables
  DEF PutEmployee, GroupIsThere, tables
<1> QED BY <1>2, ReturnMove DEF PutEmployee

LEMMA DeleteEmployeeMove ==
  ASSUME IInv, NEW p \in Procs, NEW ok \in BOOLEAN, DeleteEmployee(p, ok)
  PROVE  GoodMove(p)
<1>1. GoodTables
  BY OwnState, Removed, SameTables DEF DeleteEmployee, tables
<1> QED BY <1>1, ReturnMove DEF DeleteEmployee

LEMMA MatchGroupMove ==
  ASSUME IInv, NEW p \in Procs, NEW ok \in BOOLEAN, MatchGroup(p, ok)
  PROVE  GoodMove(p)
<1> DEFINE x == [h[p] EXCEPT !.pc = "assign"]
<1>1. /\ x \in Request /\ x.pc = "assign" /\ x.id = h[p].id /\ x.ticket = h[p].ticket
  BY OwnState DEF Request, Labels
<1>2. HandlerOK(x)
  BY <1>1, OwnState DEF MatchGroup, HandlerOK
<1>3. Goto(p, x) \/ Return(p)
  BY DEF MatchGroup
<1> QED BY <1>2, <1>3, StayMove DEF MatchGroup

LEMMA AssignMove ==
  ASSUME IInv, NEW p \in Procs, NEW ok \in BOOLEAN, Assign(p, ok)
  PROVE  GoodMove(p)
<1>1. h[p].ticket \in Tickets /\ h[p].id \in Nat
  BY OwnState DEF Assign, HandlerOK, Request
<1>2. workers' \subseteq Tickets \X Nat
  BY <1>1, OwnState DEF Assign, TablesOK, TablesType
<1>3. \A w \in workers' \ workers : w[2] \in Employees
  BY DEF Assign, EmployeeIsThere
<1>4. GoodTables
  BY <1>2, <1>3, OwnState, WorkersGood DEF Assign
<1> QED BY <1>4, ReturnMove DEF Assign

-----------------------------------------------------------------------------
(* The requests *)

LEMMA CreateGroupGood ==
  ASSUME IInv, NEW name \in GroupNames, CreateGroup(name)
  PROVE  GoodTables /\ h' = h
  BY GroupAppended, SameTables DEF CreateGroup, IInv, tables

LEMMA UnassignGood ==
  ASSUME IInv, NEW t, NEW e, Unassign(t, e)
  PROVE  GoodTables /\ h' = h
<1>1. workers' \subseteq workers /\ workers' \subseteq Tickets \X Nat
  BY DEF Unassign, IInv, TablesOK, TablesType
<1> QED BY <1>1, WorkersGood DEF Unassign, IInv

LEMMA UpdateGroupRequest ==
  ASSUME IInv, NEW p \in Procs, NEW g \in Groups, NEW name \in GroupNames,
         AskUpdateGroup(p, g, name)
  PROVE  GoodMove(p)
<1> DEFINE x == [Idle EXCEPT !.pc = "putGroup", !.id = g, !.name = name]
<1>1. g \in Nat /\ g \in DOMAIN groups
  BY TypeFacts DEF IInv, Groups
<1>2. x \in Request /\ x.pc = "putGroup" /\ x.id = g /\ x.name = name
  BY <1>1 DEF Idle, Request, Labels
<1>3. HandlerOK(x)
  BY <1>1, <1>2 DEF HandlerOK
<1> QED BY <1>3, StayMove DEF AskUpdateGroup

LEMMA DeleteGroupRequest ==
  ASSUME IInv, NEW p \in Procs, NEW g \in Groups, AskDeleteGroup(p, g)
  PROVE  GoodMove(p)
<1> DEFINE x == [Idle EXCEPT !.pc = "deleteGroup", !.id = g]
<1>1. g \in Nat /\ g \in DOMAIN groups
  BY TypeFacts DEF IInv, Groups
<1>2. x \in Request /\ x.pc = "deleteGroup" /\ x.id = g
  BY <1>1 DEF Idle, Request, Labels
<1>3. HandlerOK(x)
  BY <1>1, <1>2 DEF HandlerOK
<1> QED BY <1>3, StayMove DEF AskDeleteGroup

LEMMA CreateEmployeeRequest ==
  ASSUME IInv, NEW p \in Procs, NEW row \in Employee, AskCreateEmployee(p, row)
  PROVE  GoodMove(p)
<1> DEFINE x == [Idle EXCEPT !.pc = "insertEmployee", !.row = row]
<1>1. x \in Request /\ x.pc = "insertEmployee" /\ x.row = row
  BY DEF Idle, Request, Labels
<1>2. HandlerOK(x)
  BY <1>1 DEF HandlerOK
<1> QED BY <1>2, StayMove DEF AskCreateEmployee

LEMMA UpdateEmployeeRequest ==
  ASSUME IInv, NEW p \in Procs, NEW e \in Employees, NEW row \in Employee,
         AskUpdateEmployee(p, e, row)
  PROVE  GoodMove(p)
<1> DEFINE x == [Idle EXCEPT !.pc = "newGroup", !.id = e, !.row = row]
<1>1. e \in Nat /\ e \in DOMAIN employees
  BY TypeFacts DEF IInv, Employees
<1>2. x \in Request /\ x.pc = "newGroup" /\ x.id = e /\ x.row = row
  BY <1>1 DEF Idle, Request, Labels
<1>3. HandlerOK(x)
  BY <1>1, <1>2 DEF HandlerOK
<1> QED BY <1>3, StayMove DEF AskUpdateEmployee

LEMMA DeleteEmployeeRequest ==
  ASSUME IInv, NEW p \in Procs, NEW e \in Employees, AskDeleteEmployee(p, e)
  PROVE  GoodMove(p)
<1> DEFINE x == [Idle EXCEPT !.pc = "deleteEmployee", !.id = e]
<1>1. e \in Nat /\ e \in DOMAIN employees
  BY TypeFacts DEF IInv, Employees
<1>2. x \in Request /\ x.pc = "deleteEmployee" /\ x.id = e
  BY <1>1 DEF Idle, Request, Labels
<1>3. HandlerOK(x)
  BY <1>1, <1>2 DEF HandlerOK
<1> QED BY <1>3, StayMove DEF AskDeleteEmployee

LEMMA AssignRequest ==
  ASSUME IInv, NEW p \in Procs, NEW t \in Tickets, NEW e \in Employees, AskAssign(p, t, e)
  PROVE  GoodMove(p)
<1> DEFINE label == IF AssignedGroup[t] = None THEN "assign" ELSE "matchGroup"
           x == [Idle EXCEPT !.pc = label, !.id = e, !.row = employees[e], !.ticket = t]
<1>1. e \in Nat /\ e \in DOMAIN employees /\ employees[e] \in Employee
  BY TypeFacts DEF IInv, Employees
<1>2. label \in {"assign", "matchGroup"}
  OBVIOUS
<1> HIDE DEF label
<1>3. x \in Request /\ x.pc = label /\ x.id = e /\ x.row = employees[e] /\ x.ticket = t
  BY <1>1, <1>2 DEF Idle, Request, Labels
<1>4. HandlerOK(x)
  BY <1>1, <1>2, <1>3 DEF HandlerOK
<1>5. Goto(p, x)
  BY DEF AskAssign, label
<1> QED BY <1>4, <1>5, StayMove DEF AskAssign

-----------------------------------------------------------------------------
(* The invariant *)

LEMMA InitIInv == Init => IInv
<1> SUFFICES ASSUME Init PROVE IInv
  OBVIOUS
<1>1. PICK n \in 0..MaxSeed : groups \in [1..n -> GroupNames]
  BY DEF Init
<1>2. PICK k \in 0..MaxSeed : employees \in [1..k -> [group : DOMAIN groups, email : Emails]]
  BY DEF Init
<1>3. n \in Nat /\ k \in Nat /\ DOMAIN groups = 1..n /\ DOMAIN employees = 1..k
  BY <1>1, <1>2, BoundsAssumption
<1>4. groups \in Seq(GroupNames \cup {None}) /\ Groups = DOMAIN groups
  BY <1>1, <1>3, NamesAssumption DEF Groups
<1>5. \A e \in DOMAIN employees : employees[e] \in Employee /\ employees[e].group \in DOMAIN groups
  BY <1>2, <1>3 DEF Employee
<1>6. employees \in Seq(Employee \cup {None}) /\ Employees = DOMAIN employees
  BY <1>2, <1>3, <1>5, RowAssumption DEF Employees
<1>7. TablesType
  BY <1>4, <1>6 DEF Init, TablesType
<1>8. NothingDangles
  BY <1>4, <1>5, <1>6 DEF Init, NothingDangles
<1>9. HandlersOK
  BY IdleOK DEF Init, HandlersOK, HandlerOK
<1>10. BoundsOK
  BY BoundsAssumption DEF Init, BoundsOK
<1> QED BY <1>7, <1>8, <1>9, <1>10 DEF IInv, TablesOK

\* A good move of p keeps what the other requests hold.
LEMMA MoveKeeps ==
  ASSUME IInv, NEW p \in Procs, GoodMove(p)
  PROVE  TablesOK' /\ HandlersOK'
<1>1. PICK x \in Request : h' = [h EXCEPT ![p] = x] /\ HandlerOK(x)'
  BY DEF GoodMove
<1>2. h \in [Procs -> Request] /\ h' \in [Procs -> Request]
  BY <1>1 DEF IInv, HandlersOK
<1>3. ASSUME NEW q \in Procs
      PROVE  HandlerOK(h[q])'
  <2>1. \E y \in Request : y = h'[q] /\ HandlerOK(y)'
    <3>1. CASE q = p
      BY <1>1, <1>2, <3>1
    <3>2. CASE q # p
      <4>1. PICK y \in Request : y = h[q]
        BY DEF IInv, HandlersOK
      <4>2. HandlerOK(h[q])
        BY DEF IInv, HandlersOK
      <4>3. HandlerOK(y)
        BY <4>1, <4>2 DEF HandlerOK
      <4>4. HandlerOK(y)'
        BY <4>3, HandlerKept DEF GoodMove
      <4> QED BY <1>1, <1>2, <3>2, <4>1, <4>4
    <3> QED BY <3>1, <3>2
  <2>2. PICK y \in Request : y = h'[q] /\ HandlerOK(y)'
    BY <2>1
  <2> QED BY <2>2 DEF HandlerOK
<1> QED BY <1>2, <1>3 DEF GoodMove, GoodTables, HandlersOK

\* Requests of a single statement leave the handlers alone.
LEMMA StatementKeeps ==
  ASSUME IInv, GoodTables, h' = h
  PROVE  TablesOK' /\ HandlersOK'
<1>1. ASSUME NEW q \in Procs
      PROVE  HandlerOK(h[q])'
  <2>1. PICK y \in Request : y = h[q]
    BY DEF IInv, HandlersOK
  <2>2. HandlerOK(h[q])
    BY DEF IInv, HandlersOK
  <2>3. HandlerOK(y)
    BY <2>1, <2>2 DEF HandlerOK
  <2>4. HandlerOK(y)'
    BY <2>3, HandlerKept
  <2> QED BY <2>1, <2>4 DEF HandlerOK
<1> QED BY <1>1 DEF IInv, GoodTables, HandlersOK

LEMMA ServeIInv ==
  ASSUME IInv, NEW p \in Procs, Serve(p)
  PROVE  IInv'
<1>1. BoundsOK'
  BY BoundsAssumption DEF Serve, IInv, BoundsOK
<1>2. \A row \in [group : DOMAIN groups, email : Emails] : row \in Employee
  <2>1. DOMAIN groups \subseteq Nat
    BY TypeFacts DEF IInv
  <2> QED BY <2>1 DEF Employee
<1> DEFINE Good == GoodMove(p) \/ (GoodTables /\ h' = h)
<1>3. ASSUME NEW name \in GroupNames,
             CreateGroup(name) \/ \E g \in Groups : AskUpdateGroup(p, g, name)
      PROVE  Good
  BY <1>3, CreateGroupGood, UpdateGroupRequest
<1>4. ASSUME NEW g \in Groups, AskDeleteGroup(p, g) PROVE Good
  BY <1>4, DeleteGroupRequest
<1>5. ASSUME NEW row \in [group : DOMAIN groups, email : Emails],
             \/ AskCreateEmployee(p, row)
             \/ \E e \in Employees : AskUpdateEmployee(p, e, row)
      PROVE  Good
  BY <1>2, <1>5, CreateEmployeeRequest, UpdateEmployeeRequest
<1>6. ASSUME NEW e \in Employees,
             AskDeleteEmployee(p, e) \/ \E t \in Tickets : AskAssign(p, t, e)
      PROVE  Good
  BY <1>6, DeleteEmployeeRequest, AssignRequest
<1>7. ASSUME NEW w \in workers, Unassign(w[1], w[2]) PROVE Good
  BY <1>7, UnassignGood
<1>8. Good
  BY <1>3, <1>4, <1>5, <1>6, <1>7 DEF Serve
<1> QED BY <1>1, <1>8, MoveKeeps, StatementKeeps DEF IInv

LEMMA RunIInv ==
  ASSUME IInv, NEW p \in Procs, Run(p)
  PROVE  IInv'
<1>1. PICK ok \in BOOLEAN : /\ ok \/ faults < MaxFaults
                            /\ faults' = IF ok THEN faults ELSE faults + 1
                            /\ UNCHANGED ops /\ Statement(p, ok)
  BY DEF Run
<1>2. BoundsOK'
  BY <1>1, BoundsAssumption DEF IInv, BoundsOK
<1>3. GoodMove(p)
  BY <1>1, PutGroupMove, DeleteGroupMove, InsertEmployeeMove, NewGroupMove, PutEmployeeMove,
     DeleteEmployeeMove, MatchGroupMove, AssignMove DEF Statement
<1> QED BY <1>2, <1>3, MoveKeeps DEF IInv

LEMMA StutterIInv ==
  ASSUME IInv, UNCHANGED vars
  PROVE  IInv'
<1>1. GoodTables /\ h' = h
  BY SameTables DEF vars, tables, IInv
<1>2. BoundsOK'
  BY DEF vars, bounds, IInv, BoundsOK
<1> QED BY <1>1, <1>2, StatementKeeps DEF IInv

THEOREM Invariance == Spec => []IInv
<1>1. IInv /\ [Next]_vars => IInv'
  BY ServeIInv, RunIInv, StutterIInv DEF Next
<1> QED BY <1>1, InitIInv, PTL DEF Spec

\* Tables and handlers are well typed.
THEOREM TypeCorrect == Spec => []TypeOK
<1>1. IInv => TypeOK
  BY DEF IInv, TablesOK, TablesType, HandlersOK, BoundsOK, TypeOK
<1> QED BY <1>1, Invariance, PTL

\* Workers are employees, employees are of groups: no request brings back what
\* another deleted (DELETE ... CASCADE, REFERENCES).
THEOREM ReferencesHold == Spec => []NothingDangles
<1>1. IInv => NothingDangles
  BY DEF IInv, TablesOK
<1> QED BY <1>1, Invariance, PTL
=============================================================================
