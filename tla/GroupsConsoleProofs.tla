-------------------------- MODULE GroupsConsoleProofs --------------------------
(***************************************************************************)
(* The page of groups and employees keeps its word for any number of       *)
(* groups, employees, requests, visits, changes by others and failures.    *)
(***************************************************************************)
EXTENDS GroupsConsole, TLAPS

\* The parts of the type invariant.
TablesType == /\ groups \subseteq Groups /\ lastGroup \in Groups
              /\ staff \subseteq Employee /\ lastStaff \in 1..MaxStaff
ListsType == groupList \in Entry(SUBSET Groups) /\ staffList \in Entry(SUBSET Employee)
ScreenType == /\ onPage \in BOOLEAN /\ visit \in 0..MaxVisits
              /\ groupForm \in Form /\ staffForm \in Form
              /\ groupTarget \in Groups \cup {None} /\ staffTarget \in 0..MaxStaff
              /\ trouble \in 0..MaxTrouble
CallsType == calls \in Seq(Call)

\* Ids are given in order, and employees have a group.
TablesOK ==
  /\ \A g \in groups : g <= lastGroup
  /\ \A e \in staff : e.id <= lastStaff /\ e.group \in groups

\* A group that was there, is not, and never will be again.
Gone(g) == g <= lastGroup /\ g \notin groups

\* What the page has seen of groups: a list on its way lacks none of it but what is
\* gone, and the form keeps a group that its list lacks only if it is gone.
Seen == Listed(groupList) \cup ({staffForm.group} \ {None})
NewerOK ==
  /\ \A g \in Seen : g <= lastGroup
  /\ groupList.fetch.at = "answered" =>
       /\ groupList.fetch.data \in SUBSET Groups
       /\ \A g \in groupList.fetch.data : g <= lastGroup
       /\ \A g \in Seen \ groupList.fetch.data : Gone(g)
  /\ staffList.fetch.at = "answered" => staffList.fetch.data \in SUBSET Employee
FormOK == staffForm.group \notin Listed(groupList) \cup {None} => Gone(staffForm.group)

\* What the server has done for a request stays done.
CallOK(c) ==
  /\ c.op = "addStaff" /\ c.at = "sent" => c.shown = {c.row} \/ Gone(c.row)
  /\ c.at \in {"done", "succeeded"} =>
       /\ c.op = "addStaff" =>
            /\ c.made <= lastStaff /\ c.shown = {c.row}
            /\ \A e \in staff : e.id = c.made => e.group = c.row
       /\ c.op = "dropGroup" => Gone(c.row)
       /\ c.op = "dropStaff" => c.row <= lastStaff /\ \A e \in staff : e.id # c.row

\* A list without the rows of a set, unless it is marked for a new fetch.
Lacks(q, rows) ==
  /\ q.data # NoData /\ ~q.invalid => q.data \cap rows = {}
  /\ q.fetch.at = "answered" => q.fetch.data \cap rows = {}

StaffOf(g) == {e \in Employee : e.group = g}
StaffWith(i) == {e \in Employee : e.id = i}

ClearedOK(c) ==
  c.at = "succeeded" =>
    /\ c.op = "dropGroup" /\ "groups" \in c.seen => Lacks(groupList, {c.row})
    /\ c.op = "dropGroup" /\ "staff" \in c.seen => Lacks(staffList, StaffOf(c.row))
    /\ c.op = "dropStaff" /\ "staff" \in c.seen => Lacks(staffList, StaffWith(c.row))

CallsOK == \A n \in DOMAIN calls : CallOK(calls[n]) /\ ClearedOK(calls[n])

\* The inductive invariant.
IInv ==
  /\ TablesType /\ ListsType /\ ScreenType /\ CallsType
  /\ TablesOK /\ NewerOK /\ FormOK /\ CallsOK

LEMMA TypeParts == TablesType /\ ListsType /\ ScreenType /\ CallsType => TypeOK
BY DEF TypeOK, TablesType, ListsType, ScreenType, CallsType

USE DEF Idle, Asked, Answered

-----------------------------------------------------------------------------
(* The tables: what was deleted does not come back *)

\* Rows are added with new ids only.
Later ==
  /\ TablesType' /\ TablesOK'
  /\ lastGroup <= lastGroup' /\ lastStaff <= lastStaff'
  /\ \A g \in groups' : g \in groups \/ g > lastGroup
  /\ \A e \in staff' : e \in staff \/ e.id > lastStaff

LEMMA SameLater == TablesType /\ TablesOK /\ UNCHANGED tables => Later
<1> SUFFICES ASSUME TablesType, TablesOK, UNCHANGED tables PROVE Later
  OBVIOUS
<1>1. groups' = groups /\ lastGroup' = lastGroup /\ staff' = staff /\ lastStaff' = lastStaff
  BY DEF tables
<1>2. lastGroup \in Nat /\ lastStaff \in Nat
  BY GroupsBoundsAssumption DEF TablesType, Groups
<1> QED BY <1>1, <1>2 DEF Later, TablesType, TablesOK

LEMMA InsertGroupLater == TablesType /\ TablesOK /\ InsertGroup => Later
<1> SUFFICES ASSUME TablesType, TablesOK, InsertGroup PROVE Later
  OBVIOUS
<1>1. lastGroup \in Nat /\ lastStaff \in Nat /\ \A g \in Groups : g \in Nat
  BY GroupsBoundsAssumption DEF TablesType, Groups
<1>2. lastGroup + 1 \in Groups
  BY <1>1, GroupsBoundsAssumption DEF InsertGroup, Groups
<1>3. TablesType'
  BY <1>2 DEF InsertGroup, TablesType
<1>4. TablesOK'
  BY <1>1 DEF InsertGroup, TablesType, TablesOK
<1> QED BY <1>1, <1>3, <1>4 DEF InsertGroup, TablesType, Later

LEMMA InsertEmployeeLater ==
  ASSUME TablesType, TablesOK, NEW g \in groups, InsertEmployee(g)
  PROVE  Later /\ \A e \in staff' : e.id = lastStaff' => e.group = g
<1>1. lastGroup \in Nat /\ lastStaff \in Nat /\ \A e \in staff : e.id \in Nat
  BY GroupsBoundsAssumption DEF TablesType, Groups, Employee
<1> DEFINE new == [id |-> lastStaff + 1, group |-> g]
<1>2. new \in Employee /\ lastStaff + 1 \in 1..MaxStaff
  BY <1>1, GroupsBoundsAssumption DEF InsertEmployee, Employee, TablesType
<1>3. staff' = staff \cup {new} /\ lastStaff' = lastStaff + 1
  BY DEF InsertEmployee
<1> HIDE DEF new
<1>4. new.id = lastStaff + 1 /\ new.group = g
  BY DEF new
<1>5. TablesType'
  BY <1>2, <1>3 DEF InsertEmployee, TablesType
<1>6. TablesOK'
  BY <1>1, <1>3, <1>4 DEF InsertEmployee, TablesOK
<1>7. \A e \in staff' : e.id = lastStaff' => e.group = g
  BY <1>1, <1>3, <1>4 DEF TablesOK
<1> QED BY <1>1, <1>3, <1>4, <1>5, <1>6, <1>7 DEF InsertEmployee, Later

LEMMA DeleteGroupLater ==
  ASSUME TablesType, TablesOK, NEW g, DeleteGroup(g)
  PROVE  Later /\ g \notin groups'
<1>1. lastGroup \in Nat /\ lastStaff \in Nat
  BY GroupsBoundsAssumption DEF TablesType, Groups
<1>2. /\ groups' = groups \ {g} /\ staff' = {e \in staff : e.group # g}
      /\ lastGroup' = lastGroup /\ lastStaff' = lastStaff
  BY DEF DeleteGroup
<1>3. TablesType'
  BY <1>2 DEF TablesType
<1>4. TablesOK'
  BY <1>2 DEF TablesOK
<1> QED BY <1>1, <1>2, <1>3, <1>4 DEF Later

LEMMA DeleteEmployeeLater ==
  ASSUME TablesType, TablesOK, NEW i, DeleteEmployee(i)
  PROVE  Later /\ \A e \in staff' : e.id # i
<1>1. lastGroup \in Nat /\ lastStaff \in Nat
  BY GroupsBoundsAssumption DEF TablesType, Groups
<1> QED BY <1>1 DEF DeleteEmployee, TablesType, TablesOK, Later

\* What is gone stays gone, and what was done stays done.
LEMMA GoneStays ==
  ASSUME TablesType, Later, NEW g \in Nat, Gone(g)
  PROVE  Gone(g)'
<1>1. lastGroup \in Nat /\ lastGroup' \in Nat
  BY GroupsBoundsAssumption DEF TablesType, Groups, Later
<1> QED BY <1>1 DEF Gone, Later

LEMMA CallStays ==
  ASSUME TablesType, Later, NEW c \in Call, CallOK(c)
  PROVE  CallOK(c)'
<1>1. lastStaff \in Nat /\ lastStaff' \in Nat /\ c.row \in Nat /\ c.made \in Nat
  BY GroupsBoundsAssumption DEF TablesType, Later, Call
<1>2. Gone(c.row) => Gone(c.row)'
  BY <1>1, GoneStays
<1>3. c.made <= lastStaff => c.made <= lastStaff' /\ \A e \in staff' : e.id = c.made => e \in staff
  BY <1>1 DEF Later
<1>4. c.row <= lastStaff => c.row <= lastStaff' /\ \A e \in staff' : e.id = c.row => e \in staff
  BY <1>1 DEF Later
<1> QED BY <1>2, <1>3, <1>4 DEF CallOK

-----------------------------------------------------------------------------
(* The lists: what an entry may become *)

\* The entry waits for an answer or drops it; the mark stays.
Waits(q, r) ==
  /\ r.data = q.data /\ (q.invalid => r.invalid)
  /\ r.fetch \in {q.fetch, Idle, Asked}
ListMoves(q, r, table) ==
  \/ Waits(q, r)
  \/ r.data = q.data /\ (q.invalid => r.invalid) /\ r.fetch = Answered(table)
  \/ q.fetch.at = "answered" /\ r.data = q.fetch.data /\ r.fetch = Idle

LEMMA EntryMoves ==
  ASSUME NEW Data, NEW q \in Entry(Data), NEW table \in Data, NEW b \in BOOLEAN
  PROVE  /\ Ask(q) \in Entry(Data) /\ GiveUp(q) \in Entry(Data) /\ Answer(q, table) \in Entry(Data)
         /\ q.fetch.data \in Data => Arrive(q) \in Entry(Data)
         /\ Mount(q, b) \in Entry(Data) /\ InvalidateQueries(q, b) \in Entry(Data)
         /\ ListMoves(q, Ask(q), table) /\ ListMoves(q, GiveUp(q), table)
         /\ ListMoves(q, Answer(q, table), table)
         /\ q.fetch.at = "answered" => ListMoves(q, Arrive(q), table)
         /\ ListMoves(q, Mount(q, b), table) /\ ListMoves(q, InvalidateQueries(q, b), table)
         /\ ListMoves(q, q, table)
         /\ b /\ q.data # NoData =>
              InvalidateQueries(q, b).invalid /\ InvalidateQueries(q, b).fetch = Asked
<1> DEFINE m == [q EXCEPT !.invalid = TRUE]
<1>1. Idle \in Fetch(Data) /\ Asked \in Fetch(Data) /\ Answered(table) \in Fetch(Data)
  BY DEF Fetch
<1>2. \A e \in Entry(Data) : Ask(e) \in Entry(Data) /\ Ask(e).data = e.data
                            /\ Ask(e).invalid = e.invalid /\ Ask(e).fetch = Asked
  BY <1>1 DEF Entry, Ask
<1>3. /\ m \in Entry(Data) /\ m.data = q.data /\ m.invalid /\ m.fetch = q.fetch
  BY DEF Entry
<1>4. GiveUp(q) \in Entry(Data) /\ ListMoves(q, GiveUp(q), table)
  BY <1>1 DEF Entry, GiveUp, ListMoves, Waits
<1>5. Answer(q, table) \in Entry(Data) /\ ListMoves(q, Answer(q, table), table)
  BY <1>1 DEF Entry, Answer, ListMoves, Waits
<1>6. /\ q.fetch.data \in Data => Arrive(q) \in Entry(Data)
      /\ q.fetch.at = "answered" => ListMoves(q, Arrive(q), table)
  BY <1>1 DEF Entry, Arrive, ListMoves, Waits
<1>7. ListMoves(q, q, table) /\ ListMoves(q, Ask(q), table)
  BY <1>2 DEF ListMoves, Waits
<1>8. ListMoves(q, m, table) /\ ListMoves(q, Ask(m), table)
  BY <1>2, <1>3 DEF ListMoves, Waits
<1>9. Mount(q, b) \in {q, Ask(q)}
  BY DEF Mount
<1>10. InvalidateQueries(q, b) \in {m, Ask(m)} /\ (b /\ q.data # NoData => InvalidateQueries(q, b) = Ask(m))
  BY DEF InvalidateQueries
<1> HIDE DEF m
<1>11. Mount(q, b) \in Entry(Data) /\ ListMoves(q, Mount(q, b), table)
  BY <1>2, <1>7, <1>9
<1>12. InvalidateQueries(q, b) \in Entry(Data) /\ ListMoves(q, InvalidateQueries(q, b), table)
  BY <1>2, <1>3, <1>8, <1>10
<1> QED BY <1>2, <1>3, <1>4, <1>5, <1>6, <1>7, <1>10, <1>11, <1>12

\* A list that lacks rows lacks them later, if its table does.
LEMMA LacksStays ==
  ASSUME NEW q, NEW r, NEW table, NEW rows,
         ListMoves(q, r, table), table \cap rows = {}, Lacks(q, rows)
  PROVE  Lacks(r, rows)
<1>1. CASE Waits(q, r)
  BY <1>1 DEF Waits, Lacks
<1>2. CASE r.data = q.data /\ (q.invalid => r.invalid) /\ r.fetch = Answered(table)
  BY <1>2 DEF Lacks
<1>3. CASE q.fetch.at = "answered" /\ r.data = q.fetch.data /\ r.fetch = Idle
  BY <1>3 DEF Lacks
<1> QED BY <1>1, <1>2, <1>3 DEF ListMoves

-----------------------------------------------------------------------------
(* Steps of the lists *)

\* The tables stay, the lists move, and the form keeps its group or is closed.
ListStep ==
  /\ UNCHANGED tables
  /\ ListsType' /\ ListMoves(groupList, groupList', groups) /\ ListMoves(staffList, staffList', staff)
  /\ staffForm'.group \in {staffForm.group, None}

LEMMA ListStepNewer ==
  ASSUME TablesType, ListsType, ScreenType, TablesOK, NewerOK, FormOK, ListStep
  PROVE  NewerOK' /\ FormOK'
<1>1. groups' = groups /\ lastGroup' = lastGroup /\ staff' = staff
  BY DEF ListStep, tables
<1>2. groups \in SUBSET Groups /\ staff \in SUBSET Employee
  BY DEF TablesType
<1>3. \A g \in Seen : g \in Groups
  <2>1. \A g \in Listed(groupList) : g \in Groups
    BY DEF Listed, ListsType, Entry
  <2>2. staffForm.group \in Groups \cup {None}
    BY DEF ScreenType, Form
  <2> QED BY <2>1, <2>2 DEF Seen
<1>4. staffList'.fetch.at = "answered" => staffList'.fetch.data \in SUBSET Employee
  BY <1>2 DEF ListStep, ListMoves, Waits, NewerOK
<1>5. CASE Waits(groupList, groupList')
  <2>1. Listed(groupList)' = Listed(groupList)
    BY <1>5 DEF Waits, Listed
  <2>2. Seen' \subseteq Seen
    BY <2>1 DEF Seen, ListStep
  <2>3. FormOK'
    BY <1>1, <2>1 DEF FormOK, ListStep, Gone
  <2>4. groupList'.fetch.at = "answered" => groupList.fetch.at = "answered" /\ groupList'.fetch = groupList.fetch
    BY <1>5 DEF Waits
  <2> QED BY <1>1, <1>4, <2>2, <2>3, <2>4 DEF NewerOK, Gone
<1>6. CASE groupList'.data = groupList.data /\ groupList'.fetch = Answered(groups)
  <2>1. Listed(groupList)' = Listed(groupList)
    BY <1>6 DEF Listed
  <2>2. Seen' \subseteq Seen
    BY <2>1 DEF Seen, ListStep
  <2>3. FormOK'
    BY <1>1, <2>1 DEF FormOK, ListStep, Gone
  <2>4. groupList'.fetch.data = groups
    BY <1>6
  <2> QED BY <1>1, <1>2, <1>4, <2>2, <2>3, <2>4 DEF NewerOK, Gone, TablesOK
<1>7. CASE groupList.fetch.at = "answered" /\ groupList'.data = groupList.fetch.data /\ groupList'.fetch = Idle
  <2>1. groupList'.data \in SUBSET Groups /\ groupList'.data # NoData
    BY <1>7, NoListAssumption DEF NewerOK
  <2>2. Listed(groupList)' = groupList.fetch.data
    BY <1>7, <2>1 DEF Listed
  <2>3. Seen' \subseteq groupList.fetch.data \cup Seen
    BY <2>2 DEF Seen, ListStep
  <2>4. \A g \in Seen' : g <= lastGroup
    BY <1>7, <2>3 DEF NewerOK
  <2>5. FormOK'
    <3> SUFFICES ASSUME staffForm'.group \notin groupList.fetch.data \cup {None}
                 PROVE  Gone(staffForm'.group)
      BY <1>1, <2>2 DEF FormOK, Gone
    <3>1. staffForm'.group = staffForm.group /\ staffForm.group \in Seen
      BY DEF ListStep, Seen
    <3> QED BY <1>7, <3>1 DEF NewerOK
  <2>6. groupList'.fetch.at # "answered"
    BY <1>7
  <2> QED BY <1>1, <1>4, <2>4, <2>5, <2>6 DEF NewerOK
<1> QED BY <1>5, <1>6, <1>7 DEF ListStep, ListMoves

\* What was cleared stays cleared.
LEMMA ListStepCleared ==
  ASSUME TablesType, ListsType, TablesOK, ListStep, NEW c \in Call, CallOK(c), ClearedOK(c)
  PROVE  CallOK(c)' /\ ClearedOK(c)'
<1>1. groups' = groups /\ lastGroup' = lastGroup /\ staff' = staff /\ lastStaff' = lastStaff
  BY DEF ListStep, tables
<1>2. CallOK(c)'
  BY <1>1 DEF CallOK, Gone
<1>3. ASSUME c.at = "succeeded", c.op = "dropGroup", "groups" \in c.seen
      PROVE  Lacks(groupList, {c.row})'
  <2>1. groups \cap {c.row} = {}
    BY <1>3 DEF CallOK, Gone
  <2>2. Lacks(groupList, {c.row})
    BY <1>3 DEF ClearedOK
  <2> QED BY <2>1, <2>2, LacksStays DEF ListStep, Lacks
<1>4. ASSUME c.at = "succeeded", c.op = "dropGroup", "staff" \in c.seen
      PROVE  Lacks(staffList, StaffOf(c.row))'
  <2>1. staff \cap StaffOf(c.row) = {}
    BY <1>4 DEF CallOK, Gone, StaffOf, TablesOK
  <2>2. Lacks(staffList, StaffOf(c.row))
    BY <1>4 DEF ClearedOK
  <2> QED BY <2>1, <2>2, LacksStays DEF ListStep, Lacks, StaffOf
<1>5. ASSUME c.at = "succeeded", c.op = "dropStaff", "staff" \in c.seen
      PROVE  Lacks(staffList, StaffWith(c.row))'
  <2>1. staff \cap StaffWith(c.row) = {}
    BY <1>5 DEF CallOK, StaffWith
  <2>2. Lacks(staffList, StaffWith(c.row))
    BY <1>5 DEF ClearedOK
  <2> QED BY <2>1, <2>2, LacksStays DEF ListStep, Lacks, StaffWith
<1> QED BY <1>2, <1>3, <1>4, <1>5 DEF ClearedOK

LEMMA ListStepInv ==
  ASSUME IInv, ListStep, ScreenType', UNCHANGED calls
  PROVE  IInv'
<1>1. NewerOK' /\ FormOK'
  BY ListStepNewer DEF IInv
<1>2. TablesType' /\ TablesOK'
  BY DEF IInv, ListStep, tables, TablesType, TablesOK
<1>3. CallsType'
  BY DEF IInv, CallsType
<1>4. CallsOK'
  <2> SUFFICES ASSUME NEW n \in DOMAIN calls PROVE CallOK(calls[n])' /\ ClearedOK(calls[n])'
    BY DEF CallsOK
  <2> DEFINE c == calls[n]
  <2>1. c \in Call /\ CallOK(c) /\ ClearedOK(c) /\ c' = c
    BY DEF IInv, CallsType, CallsOK
  <2>2. \A d \in Call : CallOK(d) /\ ClearedOK(d) => CallOK(d)' /\ ClearedOK(d)'
    BY ListStepCleared DEF IInv
  <2> QED BY <2>1, <2>2 DEF CallOK, ClearedOK
<1> QED BY <1>1, <1>2, <1>3, <1>4 DEF IInv, ListStep

\* What each list action makes of one of the lists.
LEMMA ListMovesType ==
  ASSUME IInv
  PROVE  /\ groups \in SUBSET Groups /\ staff \in SUBSET Employee
         /\ groupList \in Entry(SUBSET Groups) /\ staffList \in Entry(SUBSET Employee)
         /\ groupList.fetch.at = "answered" => groupList.fetch.data \in SUBSET Groups
         /\ staffList.fetch.at = "answered" => staffList.fetch.data \in SUBSET Employee
         /\ ListMoves(groupList, groupList, groups) /\ ListMoves(staffList, staffList, staff)
BY DEF IInv, TablesType, ListsType, NewerOK, ListMoves, Waits

LEMMA OpenPageInv ==
  ASSUME IInv, NEW aged \in BOOLEAN, OpenPage(aged)
  PROVE  IInv'
<1>1. ListStep
  BY ListMovesType, EntryMoves DEF OpenPage, ListStep, ListsType, dialogs
<1>2. ScreenType'
  BY GroupsBoundsAssumption DEF IInv, ScreenType, OpenPage, dialogs
<1> QED BY <1>1, <1>2, ListStepInv DEF OpenPage

LEMMA ServerListsInv ==
  ASSUME IInv, ServerLists
  PROVE  IInv'
<1>1. ListStep
  BY ListMovesType, EntryMoves DEF ServerLists, Answers, ListStep, ListsType, dialogs
<1>2. ScreenType'
  BY DEF IInv, ScreenType, ServerLists, dialogs, page
<1> QED BY <1>1, <1>2, ListStepInv DEF ServerLists

LEMMA ListArrivesInv ==
  ASSUME IInv, ListArrives
  PROVE  IInv'
<1>1. ListStep
  BY ListMovesType, EntryMoves DEF ListArrives, Arrives, ListStep, ListsType, dialogs
<1>2. ScreenType'
  BY DEF IInv, ScreenType, ListArrives, dialogs, page
<1> QED BY <1>1, <1>2, ListStepInv DEF ListArrives

LEMMA ListLostInv ==
  ASSUME IInv, ListLost
  PROVE  IInv'
<1>1. ListStep
  BY ListMovesType, EntryMoves DEF ListLost, Fails, ListStep, ListsType, dialogs
<1>2. ScreenType'
  BY GroupsBoundsAssumption DEF IInv, ScreenType, ListLost, Fails, dialogs, page
<1> QED BY <1>1, <1>2, ListStepInv DEF ListLost

-----------------------------------------------------------------------------
(* Steps of the forms and dialogs *)

\* The tables and the lists stay, the form takes a group from its list at most, and
\* a request that was not handled yet may join.
ScreenStep ==
  /\ UNCHANGED <<tables, lists>> /\ ScreenType'
  /\ staffForm'.group \in {staffForm.group, None} \cup Listed(groupList)
  /\ \/ UNCHANGED calls
     \/ \E c \in Call : CallOK(c) /\ c.at = "sent" /\ calls' = Append(calls, c)

LEMMA ScreenStepInv == IInv /\ ScreenStep => IInv'
<1> SUFFICES ASSUME IInv, ScreenStep PROVE IInv'
  OBVIOUS
<1>1. /\ groups' = groups /\ lastGroup' = lastGroup /\ staff' = staff /\ lastStaff' = lastStaff
      /\ groupList' = groupList /\ staffList' = staffList
  BY DEF ScreenStep, tables, lists
<1>2. TablesType' /\ TablesOK' /\ ListsType'
  BY <1>1 DEF IInv, TablesType, TablesOK, ListsType
<1>3. Listed(groupList)' = Listed(groupList)
  BY <1>1 DEF Listed
<1>4. NewerOK'
  <2>1. Seen' \subseteq Seen
    BY <1>3 DEF Seen, ScreenStep
  <2> QED BY <1>1, <2>1 DEF IInv, NewerOK, Gone
<1>5. FormOK'
  BY <1>1, <1>3 DEF IInv, FormOK, ScreenStep, Gone
<1>6. \A c \in Call : (CallOK(c) => CallOK(c)') /\ (ClearedOK(c) => ClearedOK(c)')
  BY <1>1 DEF CallOK, ClearedOK, Gone, Lacks
<1>7. CASE UNCHANGED calls
  <2>1. CallsType'
    BY <1>7 DEF IInv, CallsType
  <2>2. \A n \in DOMAIN calls : calls'[n] = calls[n] /\ calls[n] \in Call
    BY <1>7 DEF IInv, CallsType
  <2>3. CallsOK'
    BY <1>6, <1>7, <2>2 DEF IInv, CallsOK, CallOK, ClearedOK
  <2> QED BY <1>2, <1>4, <1>5, <2>1, <2>3 DEF IInv, ScreenStep
<1>8. ASSUME NEW c \in Call, CallOK(c), c.at = "sent", calls' = Append(calls, c)
      PROVE  IInv'
  <2>1. CallsType'
    BY <1>8 DEF IInv, CallsType
  <2>2. \A n \in DOMAIN calls' : \/ n \in DOMAIN calls /\ calls'[n] = calls[n] /\ calls[n] \in Call
                                 \/ calls'[n] = c
    BY <1>8 DEF IInv, CallsType
  <2>3. CallOK(c)' /\ ClearedOK(c)'
    BY <1>6, <1>8 DEF ClearedOK
  <2>4. ASSUME NEW n \in DOMAIN calls' PROVE CallOK(calls[n])' /\ ClearedOK(calls[n])'
    <3>1. CASE calls'[n] = c
      BY <3>1, <2>3 DEF CallOK, ClearedOK
    <3>2. CASE n \in DOMAIN calls /\ calls'[n] = calls[n] /\ calls[n] \in Call
      BY <1>6, <3>2 DEF IInv, CallsOK, CallOK, ClearedOK
    <3> QED BY <2>2, <3>1, <3>2
  <2>5. CallsOK'
    BY <2>4 DEF CallsOK
  <2> QED BY <1>2, <1>4, <1>5, <2>1, <2>5 DEF IInv, ScreenStep
<1> QED BY <1>7, <1>8 DEF ScreenStep

\* A request that is sent is not handled yet.
LEMMA SendAdds ==
  ASSUME IInv, NEW op \in {"addGroup", "addStaff", "dropGroup", "dropStaff"},
         NEW row \in Nat, NEW shown \in SUBSET Groups, Send(op, row, shown),
         op = "addStaff" => shown = {row} \/ Gone(row)
  PROVE  /\ \E c \in Call : CallOK(c) /\ c.at = "sent" /\ calls' = Append(calls, c)
         /\ Len(calls') \in Nat
<1> DEFINE c == [op |-> op, row |-> row, visit |-> visit, at |-> "sent",
                 made |-> 0, shown |-> shown, seen |-> {}]
<1>1. visit \in Nat
  BY GroupsBoundsAssumption DEF IInv, ScreenType
<1>2. c \in Call
  BY <1>1 DEF Call
<1>3. CallOK(c)
  BY DEF CallOK
<1>4. calls' = Append(calls, c) /\ Len(calls) \in Nat /\ Len(calls') = Len(calls) + 1
  BY <1>2 DEF Send, IInv, CallsType
<1> QED BY <1>2, <1>3, <1>4

LEMMA ScreenParts ==
  ASSUME IInv
  PROVE  /\ groupForm \in Form /\ staffForm \in Form /\ Closed \in Form
         /\ \A g \in Groups \cup {None} : Opened(g) \in Form /\ Opened(g).group = g
         /\ Closed.group = None
         /\ \A f \in Form, b \in Nat :
              /\ [f EXCEPT !.busy = b] \in Form
              /\ [f EXCEPT !.busy = b].group = f.group
         /\ \A f \in Form, g \in Groups \cup {None} :
              [f EXCEPT !.group = g] \in Form /\ [f EXCEPT !.group = g].group = g
         /\ Listed(groupList) \in SUBSET Groups
         /\ \A e \in Listed(staffList) : e.id \in 1..MaxStaff
<1>1. groupForm \in Form /\ staffForm \in Form
  BY DEF IInv, ScreenType
<1>2. Closed \in Form /\ Closed.group = None
  BY DEF Form, Closed
<1>3. \A g \in Groups \cup {None} : Opened(g) \in Form /\ Opened(g).group = g
  BY DEF Form, Opened
<1>4. \A f \in Form, b \in Nat : [f EXCEPT !.busy = b] \in Form /\ [f EXCEPT !.busy = b].group = f.group
  BY DEF Form
<1>5. \A f \in Form, g \in Groups \cup {None} :
        [f EXCEPT !.group = g] \in Form /\ [f EXCEPT !.group = g].group = g
  BY DEF Form
<1>6. Listed(groupList) \in SUBSET Groups
  BY DEF IInv, ListsType, Entry, Listed
<1>7. Listed(staffList) \in SUBSET Employee
  BY DEF IInv, ListsType, Entry, Listed
<1>8. \A e \in Listed(staffList) : e.id \in 1..MaxStaff
  BY <1>7 DEF Employee
<1> QED BY <1>1, <1>2, <1>3, <1>4, <1>5, <1>6, <1>8

LEMMA LeavePageInv == IInv /\ LeavePage => IInv'
<1> SUFFICES ASSUME IInv, LeavePage PROVE ScreenStep
  BY ScreenStepInv
<1>1. ScreenType'
  <2>1. /\ onPage' = FALSE /\ visit' = visit /\ trouble' = trouble
        /\ groupForm' = Closed /\ staffForm' = Closed /\ groupTarget' = 0 /\ staffTarget' = 0
    BY DEF LeavePage, None
  <2>2. Closed \in Form
    BY ScreenParts
  <2>3. 0 \in 0..MaxStaff
    BY GroupsBoundsAssumption
  <2> QED BY <2>1, <2>2, <2>3 DEF IInv, ScreenType, None
<1> QED BY <1>1, ScreenParts DEF LeavePage, ScreenStep, tables, lists

LEMMA AddGroupInv == IInv /\ AddGroup => IInv'
<1> SUFFICES ASSUME IInv, AddGroup PROVE ScreenStep
  BY ScreenStepInv
<1>1. groupForm' \in Form
  BY ScreenParts DEF AddGroup
<1>2. onPage' = onPage /\ visit' = visit /\ staffForm' = staffForm /\ trouble' = trouble
      /\ groupTarget' = groupTarget /\ staffTarget' = staffTarget
  BY DEF AddGroup, page
<1>3. ScreenType'
  BY <1>1, <1>2 DEF IInv, ScreenType
<1> QED BY <1>3 DEF AddGroup, ScreenStep, tables, lists

LEMMA SubmitGroupInv == IInv /\ SubmitGroup => IInv'
<1> SUFFICES ASSUME IInv, SubmitGroup PROVE ScreenStep
  BY ScreenStepInv
<1>1. /\ \E c \in Call : CallOK(c) /\ c.at = "sent" /\ calls' = Append(calls, c)
      /\ Len(calls') \in Nat
  <2>1. Send("addGroup", 0, {})
    BY DEF SubmitGroup, None
  <2> QED BY <2>1, SendAdds
<1>2. groupForm' \in Form
  BY <1>1, ScreenParts DEF SubmitGroup
<1>3. ScreenType'
  BY <1>2 DEF IInv, ScreenType, SubmitGroup, page
<1> QED BY <1>1, <1>3 DEF SubmitGroup, ScreenStep

LEMMA AddEmployeeInv == IInv /\ AddEmployee => IInv'
<1> SUFFICES ASSUME IInv, AddEmployee PROVE ScreenStep
  BY ScreenStepInv
<1>1. staffForm' \in Form /\ staffForm'.group \in {None} \cup Listed(groupList)
  BY ScreenParts DEF AddEmployee
<1>2. ScreenType'
  BY <1>1 DEF IInv, ScreenType, AddEmployee, page
<1> QED BY <1>1, <1>2 DEF AddEmployee, ScreenStep

LEMMA SetGroupIdInv == ASSUME IInv, NEW g \in Groups, SetGroupId(g) PROVE IInv'
<1>1. staffForm' \in Form /\ staffForm'.group = g
  BY ScreenParts DEF SetGroupId
<1>2. ScreenType'
  BY <1>1 DEF IInv, ScreenType, SetGroupId, page
<1>3. ScreenStep
  BY <1>1, <1>2 DEF SetGroupId, ScreenStep
<1> QED BY <1>3, ScreenStepInv

LEMMA SubmitEmployeeInv == IInv /\ SubmitEmployee => IInv'
<1> SUFFICES ASSUME IInv, SubmitEmployee PROVE ScreenStep
  BY ScreenStepInv
<1>1. staffForm \in Form /\ staffForm.group \in Groups /\ staffForm.group \in Nat
  BY ScreenParts DEF SubmitEmployee, Form, Groups
<1>2. ShownGroups \in SUBSET Groups
  BY <1>1, ScreenParts DEF ShownGroups
<1>3. ShownGroups = {staffForm.group} \/ Gone(staffForm.group)
  BY DEF IInv, FormOK, ShownGroups, SubmitEmployee
<1>4. /\ \E c \in Call : CallOK(c) /\ c.at = "sent" /\ calls' = Append(calls, c)
      /\ Len(calls') \in Nat
  <2>1. Send("addStaff", staffForm.group, ShownGroups)
    BY DEF SubmitEmployee
  <2> QED BY <1>1, <1>2, <1>3, <2>1, SendAdds
<1>5. staffForm' \in Form /\ staffForm'.group = staffForm.group
  BY <1>1, <1>4, ScreenParts DEF SubmitEmployee
<1>6. ScreenType'
  BY <1>5 DEF IInv, ScreenType, SubmitEmployee, page
<1> QED BY <1>4, <1>5, <1>6 DEF SubmitEmployee, ScreenStep

LEMMA SetTargetsInv == IInv /\ (SetDeleteGroupTarget \/ SetDeleteEmployeeTarget) => IInv'
<1> SUFFICES ASSUME IInv, SetDeleteGroupTarget \/ SetDeleteEmployeeTarget PROVE ScreenStep
  BY ScreenStepInv
<1>1. CASE SetDeleteGroupTarget
  <2>1. ScreenType'
    BY <1>1, ScreenParts DEF IInv, ScreenType, SetDeleteGroupTarget, page
  <2> QED BY <1>1, <2>1 DEF SetDeleteGroupTarget, ScreenStep
<1>2. CASE SetDeleteEmployeeTarget
  <2>1. staffTarget' \in 0..MaxStaff
    BY <1>2, ScreenParts, GroupsBoundsAssumption DEF SetDeleteEmployeeTarget, None
  <2>2. ScreenType'
    BY <1>2, <2>1 DEF IInv, ScreenType, SetDeleteEmployeeTarget, page
  <2> QED BY <1>2, <2>2 DEF SetDeleteEmployeeTarget, ScreenStep
<1> QED BY <1>1, <1>2

LEMMA ConfirmsInv == IInv /\ (ConfirmDeleteGroup \/ ConfirmDeleteEmployee) => IInv'
<1> SUFFICES ASSUME IInv, ConfirmDeleteGroup \/ ConfirmDeleteEmployee PROVE ScreenStep
  BY ScreenStepInv
<1>1. groupTarget \in Nat /\ staffTarget \in Nat
  BY GroupsBoundsAssumption DEF IInv, ScreenType, Groups, None
<1>2. \E c \in Call : CallOK(c) /\ c.at = "sent" /\ calls' = Append(calls, c)
  BY <1>1, SendAdds DEF ConfirmDeleteGroup, ConfirmDeleteEmployee
<1>3. UNCHANGED <<tables, lists, page, dialogs, trouble>>
  BY DEF ConfirmDeleteGroup, ConfirmDeleteEmployee
<1>4. ScreenType'
  BY <1>3 DEF IInv, ScreenType, page, dialogs
<1> QED BY <1>2, <1>3, <1>4 DEF ScreenStep, dialogs

-----------------------------------------------------------------------------
(* Steps of the server *)

\* The tables move on, and a request may be marked as done or refused.
ServerStep ==
  /\ Later /\ ScreenType' /\ UNCHANGED lists /\ staffForm' = staffForm
  /\ \/ UNCHANGED calls
     \/ \E n \in DOMAIN calls, c \in Call :
          c.at # "succeeded" /\ CallOK(c)' /\ calls' = [calls EXCEPT ![n] = c]

LEMMA ServerStepInv == IInv /\ ServerStep => IInv'
<1> SUFFICES ASSUME IInv, ServerStep PROVE IInv'
  OBVIOUS
<1>1. groupList' = groupList /\ staffList' = staffList /\ Listed(groupList)' = Listed(groupList)
  BY DEF ServerStep, lists, Listed
<1>2. TablesType' /\ TablesOK' /\ ListsType'
  BY <1>1 DEF IInv, ServerStep, Later, ListsType
<1>3. lastGroup \in Nat /\ lastGroup' \in Nat /\ lastGroup <= lastGroup' /\ \A g \in Groups : g \in Nat
  BY GroupsBoundsAssumption DEF IInv, TablesType, Groups, ServerStep, Later
<1>4. \A g \in Groups : Gone(g) => Gone(g)'
  BY <1>3, GoneStays DEF IInv, ServerStep
<1>5. NewerOK'
  <2>1. Seen' = Seen
    BY <1>1 DEF Seen, ServerStep
  <2>2. Seen \subseteq Groups
    BY ScreenParts DEF Seen, Form
  <2> QED BY <1>1, <1>3, <1>4, <2>1, <2>2 DEF IInv, NewerOK
<1>6. FormOK'
  <2>1. staffForm.group \in Groups \cup {None}
    BY ScreenParts DEF Form
  <2> QED BY <1>1, <1>4, <2>1 DEF IInv, FormOK, ServerStep
<1>7. \A c \in Call : (CallOK(c) => CallOK(c)') /\ (ClearedOK(c) => ClearedOK(c)')
  BY <1>1, CallStays DEF IInv, ServerStep, ClearedOK, Lacks
<1>8. \A n \in DOMAIN calls : calls[n] \in Call /\ CallOK(calls[n]) /\ ClearedOK(calls[n])
  BY DEF IInv, CallsOK, CallsType
<1>9. CASE UNCHANGED calls
  <2>1. CallsType'
    BY <1>9 DEF IInv, CallsType
  <2>2. CallsOK'
    BY <1>7, <1>8, <1>9 DEF CallsOK, CallOK, ClearedOK
  <2> QED BY <1>2, <1>5, <1>6, <2>1, <2>2 DEF IInv, ServerStep
<1>10. ASSUME NEW n \in DOMAIN calls, NEW c \in Call, c.at # "succeeded", CallOK(c)',
              calls' = [calls EXCEPT ![n] = c]
       PROVE  IInv'
  <2>1. CallsType'
    BY <1>10 DEF IInv, CallsType
  <2>2. DOMAIN calls' = DOMAIN calls /\ calls'[n] = c /\ \A m \in DOMAIN calls : m # n => calls'[m] = calls[m]
    BY <1>10 DEF IInv, CallsType
  <2>3. ASSUME NEW m \in DOMAIN calls PROVE CallOK(calls[m])' /\ ClearedOK(calls[m])'
    <3>1. CASE m = n
      BY <1>10, <2>2, <3>1 DEF CallOK, ClearedOK
    <3>2. CASE m # n
      <4>1. PICK e \in Call : e = calls[m]
        BY <1>8
      <4>2. CallOK(e)' /\ ClearedOK(e)'
        BY <1>7, <1>8, <4>1
      <4>3. calls'[m] = e
        BY <2>2, <3>2, <4>1
      <4> QED BY <4>2, <4>3 DEF CallOK, ClearedOK
    <3> QED BY <3>1, <3>2
  <2>4. CallsOK'
    BY <2>2, <2>3 DEF CallsOK
  <2> QED BY <1>2, <1>5, <1>6, <2>1, <2>4 DEF IInv, ServerStep
<1> QED BY <1>9, <1>10 DEF ServerStep

LEMMA OtherChangesInv == IInv /\ OtherChanges => IInv'
<1> SUFFICES ASSUME IInv, OtherChanges PROVE ServerStep
  BY ServerStepInv
<1>1. Later
  BY InsertGroupLater, InsertEmployeeLater, DeleteGroupLater, DeleteEmployeeLater DEF IInv, OtherChanges
<1>2. ScreenType'
  BY GroupsBoundsAssumption DEF IInv, ScreenType, OtherChanges, page, dialogs
<1> QED BY <1>1, <1>2 DEF OtherChanges, ServerStep, dialogs

\* What the server does for a request.
LEMMA HandlesDone ==
  ASSUME IInv, NEW c \in Call, CallOK(c), c.at = "sent", Handles(c),
         NEW d \in Call, d = [c EXCEPT !.at = "done", !.made = lastStaff']
  PROVE  Later /\ CallOK(d)'
<1>1. d.op = c.op /\ d.at = "done" /\ d.made = lastStaff' /\ d.row = c.row /\ d.shown = c.shown
  BY DEF Call
<1>2. TablesType /\ TablesOK
  BY DEF IInv
<1>3. lastStaff \in Nat /\ lastGroup \in Nat
  BY GroupsBoundsAssumption DEF IInv, TablesType, Groups
<1>4. CASE c.op = "addGroup" /\ InsertGroup
  BY <1>1, <1>2, <1>4, InsertGroupLater DEF CallOK
<1>5. CASE c.op = "addStaff" /\ CreateEmployeeAllowed(c.row) /\ InsertEmployee(c.row)
  <2>1. c.row \in groups
    BY <1>5 DEF CreateEmployeeAllowed
  <2>2. c.shown = {c.row}
    BY <1>5, <2>1 DEF CallOK, Gone
  <2>3. Later /\ \A e \in staff' : e.id = lastStaff' => e.group = c.row
    BY <1>2, <1>5, <2>1, InsertEmployeeLater
  <2>4. lastStaff' <= lastStaff'
    BY <1>3, <2>3 DEF InsertEmployee, Later, TablesType
  <2> QED BY <1>1, <1>5, <2>2, <2>3, <2>4 DEF CallOK
<1>6. CASE c.op = "dropGroup" /\ c.row \in groups /\ DeleteGroup(c.row)
  <2>1. Later /\ c.row \notin groups'
    BY <1>2, <1>6, DeleteGroupLater
  <2>2. c.row <= lastGroup'
    BY <1>2, <1>6 DEF DeleteGroup, TablesOK
  <2> QED BY <1>1, <1>6, <2>1, <2>2 DEF CallOK, Gone
<1>7. CASE c.op = "dropStaff" /\ c.row \in {e.id : e \in staff} /\ DeleteEmployee(c.row)
  <2>1. Later /\ \A e \in staff' : e.id # c.row
    BY <1>2, <1>7, DeleteEmployeeLater
  <2>2. c.row <= lastStaff'
    BY <1>2, <1>7 DEF DeleteEmployee, TablesOK
  <2> QED BY <1>1, <1>7, <2>1, <2>2 DEF CallOK
<1> QED BY <1>4, <1>5, <1>6, <1>7 DEF Handles

LEMMA ServerHandlesInv == ASSUME IInv, NEW n \in DOMAIN calls, ServerHandles(n) PROVE IInv'
<1> DEFINE c == calls[n]
<1>1. c \in Call /\ CallOK(c) /\ c.at = "sent"
  BY DEF IInv, CallsOK, CallsType, ServerHandles
<1>2. ScreenType' /\ UNCHANGED lists /\ staffForm' = staffForm
  BY DEF IInv, ScreenType, ServerHandles, page, dialogs
<1>3. CASE Handles(c) /\ calls' = [calls EXCEPT ![n].at = "done", ![n].made = lastStaff']
  <2>1. lastStaff' \in Nat
    <3>1. TablesType /\ lastStaff \in Nat
      BY GroupsBoundsAssumption DEF IInv, TablesType
    <3> QED BY <1>3, <3>1 DEF Handles, InsertGroup, InsertEmployee, DeleteGroup, DeleteEmployee
  <2>2. PICK d \in Call : d = [c EXCEPT !.at = "done", !.made = lastStaff']
    BY <1>1, <2>1 DEF Call
  <2>3. Later /\ CallOK(d)'
    BY <1>1, <1>3, <2>2, HandlesDone
  <2>4. calls' = [calls EXCEPT ![n] = d] /\ d.at # "succeeded"
    BY <1>1, <1>3, <2>2 DEF Call, IInv, CallsType
  <2> QED BY <1>2, <2>3, <2>4, ServerStepInv DEF ServerStep
<1>4. CASE UNCHANGED tables /\ calls' = [calls EXCEPT ![n].at = "refused"]
  <2>1. PICK d \in Call : d = [c EXCEPT !.at = "refused"]
    BY <1>1 DEF Call
  <2>2. d.at = "refused"
    BY <1>1, <2>1 DEF Call
  <2>3. CallOK(d)'
    BY <2>2 DEF CallOK
  <2>4. calls' = [calls EXCEPT ![n] = d]
    BY <1>1, <1>4, <2>1 DEF IInv, CallsType
  <2>5. Later
    BY <1>4, SameLater DEF IInv
  <2> QED BY <1>2, <2>2, <2>3, <2>4, <2>5, ServerStepInv DEF ServerStep
<1> QED BY <1>3, <1>4 DEF ServerHandles

\* A request that is refused, lost or rejected says nothing any more.
LEMMA RefusedInv == ASSUME IInv, NEW n \in DOMAIN calls, CallLost(n) \/ Rejects(n) PROVE IInv'
<1> DEFINE c == calls[n]
<1>1. c \in Call
  BY DEF IInv, CallsType
<1>2. PICK at \in {"refused", "rejected"} : calls' = [calls EXCEPT ![n].at = at]
  BY DEF CallLost, Rejects
<1>3. ScreenType' /\ UNCHANGED lists /\ staffForm' = staffForm /\ UNCHANGED tables
  BY GroupsBoundsAssumption DEF IInv, ScreenType, CallLost, Rejects, page, dialogs
<1>4. PICK d \in Call : d = [c EXCEPT !.at = at]
  BY <1>1 DEF Call
<1>5. d.at = at
  BY <1>1, <1>4 DEF Call
<1>6. CallOK(d)'
  BY <1>5 DEF CallOK
<1>7. calls' = [calls EXCEPT ![n] = d]
  BY <1>1, <1>2, <1>4 DEF IInv, CallsType
<1>8. Later
  BY <1>3, SameLater DEF IInv
<1> QED BY <1>3, <1>5, <1>6, <1>7, <1>8, ServerStepInv DEF ServerStep

-----------------------------------------------------------------------------
(* A success *)

\* The lists that are on screen and loaded are marked, and fetched anew.
LEMMA SucceedsMarks ==
  ASSUME IInv, NEW n \in DOMAIN calls, Succeeds(n)
  PROVE  /\ ListStep /\ ScreenType'
         /\ onPage /\ groupList.data # NoData /\ calls[n].op = "dropGroup" =>
              groupList'.invalid /\ groupList'.fetch = Asked
         /\ onPage /\ staffList.data # NoData /\ calls[n].op \in {"dropGroup", "dropStaff"} =>
              staffList'.invalid /\ staffList'.fetch = Asked
<1> DEFINE c == calls[n]
<1>1. onPage \in BOOLEAN
  BY DEF IInv, ScreenType
<1>2. /\ groupList' = IF "groups" \in Invalidated(c.op) THEN InvalidateQueries(groupList, onPage) ELSE groupList
      /\ staffList' = IF "staff" \in Invalidated(c.op) THEN InvalidateQueries(staffList, onPage) ELSE staffList
  BY DEF Succeeds
<1>3. /\ groupList' \in Entry(SUBSET Groups) /\ staffList' \in Entry(SUBSET Employee)
      /\ ListMoves(groupList, groupList', groups) /\ ListMoves(staffList, staffList', staff)
  BY <1>1, <1>2, ListMovesType, EntryMoves
<1>4. /\ c.op = "dropGroup" => "groups" \in Invalidated(c.op) /\ "staff" \in Invalidated(c.op)
      /\ c.op = "dropStaff" => "staff" \in Invalidated(c.op)
  BY DEF Invalidated
<1>5. /\ groupForm' \in {groupForm, Closed} /\ staffForm' \in {staffForm, Closed}
      /\ groupTarget' \in {groupTarget, None} /\ staffTarget' \in {staffTarget, None}
      /\ UNCHANGED <<tables, page, trouble>>
  BY DEF Succeeds
<1>6. staffForm'.group \in {staffForm.group, None}
  BY <1>5, ScreenParts
<1>7. ListStep
  BY <1>3, <1>5, <1>6 DEF ListStep, ListsType
<1>8. ScreenType'
  <2>1. 0 \in 0..MaxStaff
    BY GroupsBoundsAssumption
  <2>2. groupForm' \in Form /\ staffForm' \in Form
    BY <1>5, ScreenParts
  <2> QED BY <1>5, <2>1, <2>2 DEF IInv, ScreenType, page, None
<1>9. onPage /\ groupList.data # NoData /\ c.op = "dropGroup" =>
        groupList'.invalid /\ groupList'.fetch = Asked
  BY <1>1, <1>2, <1>4, ListMovesType, EntryMoves
<1>10. onPage /\ staffList.data # NoData /\ c.op \in {"dropGroup", "dropStaff"} =>
         staffList'.invalid /\ staffList'.fetch = Asked
  BY <1>1, <1>2, <1>4, ListMovesType, EntryMoves
<1> QED BY <1>7, <1>8, <1>9, <1>10

LEMMA SucceedsInv == ASSUME IInv, NEW n \in DOMAIN calls, Succeeds(n) PROVE IInv'
<1> DEFINE c == calls[n]
           seen == {l \in {"groups", "staff"} : onPage /\
                      (IF l = "groups" THEN groupList ELSE staffList).data # NoData}
<1>1. c \in Call /\ CallOK(c) /\ c.at = "done"
  <2>1. c \in Call /\ CallOK(c)
    BY DEF IInv, CallsOK, CallsType
  <2>2. c.at = "done"
    BY DEF Succeeds
  <2> QED BY <2>1, <2>2
<1>2. PICK d \in Call : d = [c EXCEPT !.at = "succeeded", !.seen = seen]
  BY <1>1 DEF Call
<1>3. /\ d.op = c.op /\ d.at = "succeeded" /\ d.made = c.made /\ d.row = c.row /\ d.shown = c.shown
      /\ d.seen = seen
  BY <1>1, <1>2 DEF Call
<1>4. calls' = [calls EXCEPT ![n] = d]
  BY <1>1, <1>2 DEF Succeeds, IInv, CallsType
<1>5. "groups" \in seen => onPage /\ groupList.data # NoData
  OBVIOUS
<1>6. "staff" \in seen => onPage /\ staffList.data # NoData
  OBVIOUS
<1> HIDE DEF seen
<1>7. ListStep /\ ScreenType'
  BY SucceedsMarks
<1>8. TablesType' /\ TablesOK' /\ groups' = groups /\ lastGroup' = lastGroup /\ staff' = staff
      /\ lastStaff' = lastStaff
  BY <1>7 DEF IInv, ListStep, tables, TablesType, TablesOK
<1>9. CallOK(d)'
  <2>1. CallOK(d)
    BY <1>1, <1>3 DEF CallOK
  <2> QED BY <1>8, <2>1 DEF CallOK, Gone
<1>10. ClearedOK(d)'
  <2>0. /\ onPage /\ groupList.data # NoData /\ c.op = "dropGroup" =>
             groupList'.invalid /\ groupList'.fetch.at = "asked"
        /\ onPage /\ staffList.data # NoData /\ c.op \in {"dropGroup", "dropStaff"} =>
             staffList'.invalid /\ staffList'.fetch.at = "asked"
    BY SucceedsMarks
  <2>1. d.op = "dropGroup" /\ "groups" \in d.seen => Lacks(groupList, {d.row})'
    BY <1>3, <1>5, <2>0 DEF Lacks
  <2>2. d.op = "dropGroup" /\ "staff" \in d.seen => Lacks(staffList, StaffOf(d.row))'
    BY <1>3, <1>6, <2>0 DEF Lacks
  <2>3. d.op = "dropStaff" /\ "staff" \in d.seen => Lacks(staffList, StaffWith(d.row))'
    BY <1>3, <1>6, <2>0 DEF Lacks
  <2> QED BY <2>1, <2>2, <2>3 DEF ClearedOK
<1>11. CallsType'
  BY <1>4 DEF IInv, CallsType
<1>12. CallsOK'
  <2> SUFFICES ASSUME NEW m \in DOMAIN calls' PROVE CallOK(calls[m])' /\ ClearedOK(calls[m])'
    BY DEF CallsOK
  <2>1. m \in DOMAIN calls /\ calls'[m] = IF m = n THEN d ELSE calls[m]
    BY <1>4 DEF IInv, CallsType
  <2>2. CASE m = n
    BY <1>9, <1>10, <2>1, <2>2 DEF CallOK, ClearedOK
  <2>3. CASE m # n
    <3>1. PICK e \in Call : e = calls[m]
      BY <2>1 DEF IInv, CallsType
    <3>2. CallOK(e) /\ ClearedOK(e)
      BY <2>1, <3>1 DEF IInv, CallsOK
    <3>3. CallOK(e)' /\ ClearedOK(e)'
      BY <1>7, <3>2, ListStepCleared DEF IInv
    <3>4. calls'[m] = e
      BY <2>1, <2>3, <3>1
    <3> QED BY <3>3, <3>4 DEF CallOK, ClearedOK
  <2> QED BY <2>2, <2>3
<1>13. NewerOK' /\ FormOK'
  BY <1>7, ListStepNewer DEF IInv
<1> QED BY <1>7, <1>8, <1>11, <1>12, <1>13 DEF IInv, ListStep

-----------------------------------------------------------------------------
(* The theorems *)

LEMMA InitInv == Init => IInv
<1> SUFFICES ASSUME Init PROVE IInv
  OBVIOUS
<1>1. 1 \in Groups /\ 1 \in 1..MaxStaff /\ 0 \in 0..MaxStaff /\ 0 \in 0..MaxVisits /\ 0 \in 0..MaxTrouble
  BY GroupsBoundsAssumption DEF Groups
<1> DEFINE first == [id |-> 1, group |-> 1]
<1>2. first \in Employee /\ first.id = 1 /\ first.group = 1 /\ staff = {first}
  BY <1>1 DEF Employee, Init
<1> HIDE DEF first
<1>3. TablesType /\ TablesOK
  BY <1>1, <1>2 DEF Init, TablesType, TablesOK
<1>4. Empty \in Entry(SUBSET Groups) /\ Empty \in Entry(SUBSET Employee)
  BY DEF Empty, Entry, Fetch
<1>5. ListsType /\ Listed(groupList) = {} /\ groupList.fetch.at = "idle" /\ staffList.fetch.at = "idle"
  BY <1>4 DEF Init, ListsType, Listed, Empty
<1>6. Closed \in Form /\ Closed.group = None
  BY DEF Closed, Form
<1>7. ScreenType
  BY <1>1, <1>6 DEF Init, ScreenType, None
<1>8. NewerOK /\ FormOK
  BY <1>5, <1>6 DEF Init, NewerOK, FormOK, Seen
<1>9. CallsType /\ CallsOK
  BY DEF Init, CallsType, CallsOK
<1> QED BY <1>3, <1>5, <1>7, <1>8, <1>9 DEF IInv

LEMMA NextInv == IInv /\ [Next]_vars => IInv'
<1> SUFFICES ASSUME IInv, [Next]_vars PROVE IInv'
  OBVIOUS
<1>1. CASE Operator
  BY <1>1, OpenPageInv, LeavePageInv, AddGroupInv, SubmitGroupInv, AddEmployeeInv, SetGroupIdInv,
     SubmitEmployeeInv, SetTargetsInv, ConfirmsInv DEF Operator
<1>2. CASE ServerLists \/ ListArrives \/ ListLost \/ OtherChanges
  BY <1>2, ServerListsInv, ListArrivesInv, ListLostInv, OtherChangesInv
<1>3. CASE \E n \in DOMAIN calls : ServerHandles(n) \/ CallLost(n) \/ Succeeds(n) \/ Rejects(n)
  BY <1>3, ServerHandlesInv, RefusedInv, SucceedsInv
<1>4. CASE UNCHANGED vars
  <2>1. ScreenStep
    BY <1>4 DEF vars, IInv, ScreenStep, ScreenType, page, dialogs
  <2> QED BY <2>1, ScreenStepInv
<1> QED BY <1>1, <1>2, <1>3, <1>4 DEF Next

LEMMA Invariance == Spec => []IInv
<1> QED BY InitInv, NextInv, PTL DEF Spec

\* Every state of the page is of the declared types (GroupsPage.tsx:310-534).
THEOREM TypeCorrect == Spec => []TypeOK
<1>1. IInv => TypeOK
  BY TypeParts DEF IInv
<1> QED BY <1>1, Invariance, PTL

\* An employee is created only in the group that the form showed, whatever was
\* deleted since it was opened (GroupsPage.tsx:61, group.go:76-92).
THEOREM CreatedInShownGroup == Spec => []CreatedAsShown
<1>1. IInv => CreatedAsShown
  <2> SUFFICES ASSUME IInv, NEW n \in DOMAIN calls, calls[n].op = "addStaff",
                      calls[n].at \in {"done", "succeeded"}, NEW e \in staff, e.id = calls[n].made
               PROVE  calls[n].shown = {e.group}
    BY DEF CreatedAsShown
  <2> QED BY DEF IInv, CallsOK, CallOK
<1> QED BY <1>1, Invariance, PTL

\* What was deleted in front of a loaded list does not come back to it with any
\* later answer (useDashboardData.ts:240-287).
THEOREM DeletedIsGone == Spec => []DeletedStaysGone
<1>1. IInv => DeletedStaysGone
  <2> SUFFICES ASSUME IInv, NEW n \in DOMAIN calls, calls[n].at = "succeeded"
               PROVE  LET c == calls[n]
                      IN  /\ c.op = "dropGroup" /\ "groups" \in c.seen /\ AtRest(groupList) =>
                               c.row \notin groupList.data
                          /\ c.op = "dropGroup" /\ "staff" \in c.seen /\ AtRest(staffList) =>
                               \A e \in staffList.data : e.group # c.row
                          /\ c.op = "dropStaff" /\ "staff" \in c.seen /\ AtRest(staffList) =>
                               \A e \in staffList.data : e.id # c.row
    BY DEF DeletedStaysGone
  <2>1. ClearedOK(calls[n])
    BY DEF IInv, CallsOK
  <2>2. AtRest(staffList) => \A e \in staffList.data : e \in Employee
    BY DEF IInv, ListsType, Entry, AtRest
  <2> QED BY <2>1, <2>2 DEF ClearedOK, Lacks, AtRest, StaffOf, StaffWith
<1> QED BY <1>1, Invariance, PTL
===============================================================================
