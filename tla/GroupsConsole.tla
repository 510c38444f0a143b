----------------------------- MODULE GroupsConsole -----------------------------
(***************************************************************************)
(* The page of groups and employees (pages/GroupsPage.tsx with the hooks   *)
(* useGroups .. useDeleteEmployeeMutation): two lists that are fetched     *)
(* when the page is opened and after a change of the operator's own, two   *)
(* forms and two dialogs.  A form goes on with the groups it was opened    *)
(* with, its answer may come when it is closed, and others change the same *)
(* rows.                                                                   *)
(*                                                                         *)
(* Ids are numbers that no row gets twice.  The operator has the role that *)
(* the page asks for.  An employee belongs to a group by a foreign key     *)
(* that deletes with it (internal/repository/postgres.go, TicketWorkers).  *)
(* As in TicketNotes, the answer that lists nothing is refused.            *)
(***************************************************************************)
EXTENDS Naturals, FiniteSets, QueryCache, Sequences

CONSTANTS
  MaxGroups,    \* bound: groups that ever exist
  MaxStaff,     \* bound: employees that ever exist
  MaxCalls,     \* bound: requests of this page
  MaxVisits,    \* bound: times the page is built
  MaxTrouble    \* bound: changes by others, and requests or answers that are lost

ASSUME GroupsBoundsAssumption ==
  /\ MaxGroups \in Nat \ {0} /\ MaxStaff \in Nat \ {0}
  /\ MaxCalls \in Nat /\ MaxVisits \in Nat /\ MaxTrouble \in Nat

VARIABLES
  groups, lastGroup,   \* the table of groups, and the newest id of it
  staff, lastStaff,    \* the table of employees
  groupList,           \* the cache entry ["groups"]
  staffList,           \* the cache entry ["employees"]
  calls,               \* the mutations started so far
  onPage, visit,
  groupForm,           \* AddGroupModal
  staffForm,           \* AddEmployeeModal
  groupTarget,         \* deleteGroupTarget
  staffTarget,         \* deleteEmployeeTarget
  trouble

tables == <<groups, lastGroup, staff, lastStaff>>
lists == <<groupList, staffList>>
dialogs == <<groupForm, staffForm, groupTarget, staffTarget>>
page == <<onPage, visit>>
vars == <<tables, lists, calls, page, dialogs, trouble>>

Groups == 1..MaxGroups
Employee == [id : 1..MaxStaff, group : Groups]
None == 0

ASSUME NoListAssumption == \A list \in SUBSET Groups : list # NoData

\* busy: the last request of this form.  group: groupId, None for "".
Closed == [open |-> FALSE, busy |-> 0, group |-> None]
Opened(g) == [open |-> TRUE, busy |-> 0, group |-> g]
Form == [open : BOOLEAN, busy : Nat, group : Groups \cup {None}]

\* row: the row to delete, or the group of the employee to create; made: the id
\* of that employee.  shown (history): the groups that the select of the form may
\* have shown.
\* seen (history): the lists that were loaded and on screen on success.
Call == [op : {"addGroup", "addStaff", "dropGroup", "dropStaff"}, row : Nat, visit : Nat,
         at : {"sent", "done", "refused", "succeeded", "rejected"},
         made : Nat, shown : SUBSET Groups, seen : SUBSET {"groups", "staff"}]

Listed(q) == IF q.data = NoData THEN {} ELSE q.data

Init ==
  /\ groups = {1} /\ lastGroup = 1
  /\ staff = {[id |-> 1, group |-> 1]} /\ lastStaff = 1
  /\ groupList = Empty /\ staffList = Empty
  /\ calls = <<>>
  /\ onPage = FALSE /\ visit = 0
  /\ groupForm = Closed /\ staffForm = Closed /\ groupTarget = None /\ staffTarget = None
  /\ trouble = 0

-----------------------------------------------------------------------------
(* The page and its lists *)

OpenPage(aged) ==
  /\ ~onPage /\ visit < MaxVisits
  /\ onPage' = TRUE /\ visit' = visit + 1
  /\ groupList' = Mount(groupList, aged) /\ staffList' = Mount(staffList, aged)
  /\ UNCHANGED <<tables, calls, dialogs, trouble>>

LeavePage ==
  /\ onPage
  /\ onPage' = FALSE
  /\ groupForm' = Closed /\ staffForm' = Closed /\ groupTarget' = None /\ staffTarget' = None
  /\ UNCHANGED <<tables, lists, calls, visit, trouble>>

\* What becomes of a fetch: it is answered; the answer arrives, or names no row
\* and is refused, twice; or it is lost.
Answers(q, rows, next) == q.fetch = Asked /\ next = Answer(q, rows)
Arrives(q, next) ==
  /\ q.fetch.at = "answered"
  /\ IF q.fetch.data # {} THEN next = Arrive(q) ELSE next \in {Ask(q), GiveUp(q)}
Fails(q, next) == q.fetch # Idle /\ trouble < MaxTrouble /\ next = GiveUp(q)

ServerLists ==
  /\ \/ Answers(groupList, groups, groupList') /\ UNCHANGED staffList
     \/ Answers(staffList, staff, staffList') /\ UNCHANGED groupList
  /\ UNCHANGED <<tables, calls, page, dialogs, trouble>>

ListArrives ==
  /\ \/ Arrives(groupList, groupList') /\ UNCHANGED staffList
     \/ Arrives(staffList, staffList') /\ UNCHANGED groupList
  /\ UNCHANGED <<tables, calls, page, dialogs, trouble>>

ListLost ==
  /\ \/ Fails(groupList, groupList') /\ UNCHANGED staffList
     \/ Fails(staffList, staffList') /\ UNCHANGED groupList
  /\ trouble' = trouble + 1
  /\ UNCHANGED <<tables, calls, page, dialogs>>

-----------------------------------------------------------------------------
(* Forms and dialogs *)

Send(op, row, shown) ==
  /\ Len(calls) < MaxCalls
  /\ calls' = Append(calls, [op |-> op, row |-> row, visit |-> visit, at |-> "sent",
                             made |-> 0, shown |-> shown, seen |-> {}])

IsPending(form) == form.busy # 0 /\ calls[form.busy].at \in {"sent", "done", "refused"}

\* An overlay covers the page while a form or a dialog is open.
Uncovered ==
  onPage /\ ~groupForm.open /\ ~staffForm.open /\ groupTarget = None /\ staffTarget = None

AddGroup ==
  /\ \/ Uncovered /\ groupForm' = Opened(None)
     \/ groupForm.open /\ groupForm' = Closed
  /\ UNCHANGED <<tables, lists, calls, page, staffForm, groupTarget, staffTarget, trouble>>

SubmitGroup ==
  /\ groupForm.open /\ ~IsPending(groupForm)
  /\ Send("addGroup", None, {})
  /\ groupForm' = [groupForm EXCEPT !.busy = Len(calls')]
  /\ UNCHANGED <<tables, lists, page, staffForm, groupTarget, staffTarget, trouble>>

\* The form opens with the first group of the list as it is then, "" if none.
AddEmployee ==
  /\ \/ staffForm.open /\ staffForm' = Closed
     \/ /\ Uncovered
        /\ \E g \in IF Listed(groupList) = {} THEN {None} ELSE Listed(groupList) :
             staffForm' = Opened(g)
  /\ UNCHANGED <<tables, lists, calls, page, groupForm, groupTarget, staffTarget, trouble>>

\* CustomSelect shows the option of the value, or else the first one.
ShownGroups == IF staffForm.group \in Listed(groupList) THEN {staffForm.group} ELSE Listed(groupList)

\* An option of CustomSelect.
SetGroupId(g) ==
  /\ staffForm.open /\ g \in Listed(groupList)
  /\ staffForm' = [staffForm EXCEPT !.group = g]
  /\ UNCHANGED <<tables, lists, calls, page, groupForm, groupTarget, staffTarget, trouble>>

SubmitEmployee ==
  /\ staffForm.open /\ ~IsPending(staffForm)
  /\ staffForm.group # None
  /\ Send("addStaff", staffForm.group, ShownGroups)
  /\ staffForm' = [staffForm EXCEPT !.busy = Len(calls')]
  /\ UNCHANGED <<tables, lists, page, groupForm, groupTarget, staffTarget, trouble>>

\* Delete in a row opens the dialog, and Cancel closes it.
SetDeleteGroupTarget ==
  /\ \/ Uncovered /\ groupTarget' \in Listed(groupList)
     \/ groupTarget # None /\ groupTarget' = None
  /\ UNCHANGED <<tables, lists, calls, page, groupForm, staffForm, staffTarget, trouble>>

SetDeleteEmployeeTarget ==
  /\ \/ Uncovered /\ staffTarget' \in {e.id : e \in Listed(staffList)}
     \/ staffTarget # None /\ staffTarget' = None
  /\ UNCHANGED <<tables, lists, calls, page, groupForm, staffForm, groupTarget, trouble>>

\* Delete in the dialog: it stays until the answer, and may be pressed again.
ConfirmDeleteGroup ==
  /\ groupTarget # None
  /\ Send("dropGroup", groupTarget, {})
  /\ UNCHANGED <<tables, lists, page, dialogs, trouble>>

ConfirmDeleteEmployee ==
  /\ staffTarget # None
  /\ Send("dropStaff", staffTarget, {})
  /\ UNCHANGED <<tables, lists, page, dialogs, trouble>>

-----------------------------------------------------------------------------
(* The server *)

InsertGroup ==
  /\ lastGroup < MaxGroups
  /\ lastGroup' = lastGroup + 1 /\ groups' = groups \cup {lastGroup + 1}
  /\ UNCHANGED <<staff, lastStaff>>
InsertEmployee(g) ==
  /\ lastStaff < MaxStaff
  /\ lastStaff' = lastStaff + 1 /\ staff' = staff \cup {[id |-> lastStaff + 1, group |-> g]}
  /\ UNCHANGED <<groups, lastGroup>>
DeleteGroup(g) ==
  /\ groups' = groups \ {g} /\ staff' = {e \in staff : e.group # g}
  /\ UNCHANGED <<lastGroup, lastStaff>>
DeleteEmployee(i) ==
  /\ staff' = {e \in staff : e.id # i}
  /\ UNCHANGED <<groups, lastGroup, lastStaff>>

CreateEmployeeUnchecked(g) == TRUE  \* mutant: no look at the group, and no foreign key
CreateEmployeeAllowed(g) == g \in groups

Handles(c) ==
  \/ c.op = "addGroup" /\ InsertGroup
  \/ c.op = "addStaff" /\ CreateEmployeeAllowed(c.row) /\ InsertEmployee(c.row)
  \/ c.op = "dropGroup" /\ c.row \in groups /\ DeleteGroup(c.row)
  \/ c.op = "dropStaff" /\ c.row \in {e.id : e \in staff} /\ DeleteEmployee(c.row)

Refuses(c) ==
  \/ c.op = "addStaff" /\ ~CreateEmployeeAllowed(c.row)
  \/ c.op = "dropGroup" /\ c.row \notin groups
  \/ c.op = "dropStaff" /\ c.row \notin {e.id : e \in staff}

ServerHandles(n) ==
  /\ calls[n].at = "sent"
  /\ \/ /\ Handles(calls[n])
        /\ calls' = [calls EXCEPT ![n].at = "done", ![n].made = lastStaff']
     \/ /\ Refuses(calls[n])
        /\ calls' = [calls EXCEPT ![n].at = "refused"]
        /\ UNCHANGED tables
  /\ UNCHANGED <<lists, page, dialogs, trouble>>

CallLost(n) ==
  /\ calls[n].at \in {"sent", "done"} /\ trouble < MaxTrouble
  /\ trouble' = trouble + 1
  /\ calls' = [calls EXCEPT ![n].at = "refused"]
  /\ UNCHANGED <<tables, lists, page, dialogs>>

OtherChanges ==
  /\ trouble < MaxTrouble
  /\ trouble' = trouble + 1
  /\ \/ InsertGroup
     \/ \E g \in groups : InsertEmployee(g) \/ DeleteGroup(g)
     \/ \E e \in staff : DeleteEmployee(e.id)
  /\ UNCHANGED <<lists, calls, page, dialogs>>

-----------------------------------------------------------------------------
(* The answers *)

\* What onSuccess of each mutation fetches anew.
InvalidatedOnlyTable(op) ==  \* mutant: deleting a group leaves the employees
  IF op \in {"addGroup", "dropGroup"} THEN {"groups"} ELSE {"staff"}
Invalidated(op) ==
  CASE op = "addGroup" -> {"groups"}
    [] op = "dropGroup" -> {"groups", "staff"}
    [] OTHER -> {"staff"}

Succeeds(n) ==
  LET c == calls[n]
      Fresh(q, name) == IF name \in Invalidated(c.op) THEN InvalidateQueries(q, onPage) ELSE q
      mine == onPage /\ c.visit = visit
  IN  /\ c.at = "done"
      /\ groupList' = Fresh(groupList, "groups") /\ staffList' = Fresh(staffList, "staff")
      /\ calls' = [calls EXCEPT ![n].at = "succeeded",
           ![n].seen = {l \in {"groups", "staff"} : onPage /\
                          (IF l = "groups" THEN groupList ELSE staffList).data # NoData}]
      \* After the await: the form or dialog of this page, even one opened since.
      /\ groupForm' = IF mine /\ c.op = "addGroup" THEN Closed ELSE groupForm
      /\ staffForm' = IF mine /\ c.op = "addStaff" THEN Closed ELSE staffForm
      /\ groupTarget' = IF mine /\ c.op = "dropGroup" THEN None ELSE groupTarget
      /\ staffTarget' = IF mine /\ c.op = "dropStaff" THEN None ELSE staffTarget
      /\ UNCHANGED <<tables, page, trouble>>

\* mutateAsync rejects, and nothing catches it: forms and lists stay.
Rejects(n) ==
  /\ calls[n].at = "refused"
  /\ calls' = [calls EXCEPT ![n].at = "rejected"]
  /\ UNCHANGED <<tables, lists, page, dialogs, trouble>>

-----------------------------------------------------------------------------

Operator ==
  \/ \E aged \in BOOLEAN : OpenPage(aged)
  \/ LeavePage \/ AddGroup \/ SubmitGroup \/ AddEmployee \/ SubmitEmployee
  \/ \E g \in Groups : SetGroupId(g)
  \/ SetDeleteGroupTarget \/ SetDeleteEmployeeTarget
  \/ ConfirmDeleteGroup \/ ConfirmDeleteEmployee

Next ==
  \/ Operator \/ ServerLists \/ ListArrives \/ ListLost \/ OtherChanges
  \/ \E n \in DOMAIN calls : ServerHandles(n) \/ CallLost(n) \/ Succeeds(n) \/ Rejects(n)

Spec == Init /\ [][Next]_vars

-----------------------------------------------------------------------------
(* Properties *)

TypeOK ==
  /\ groups \subseteq Groups /\ lastGroup \in Groups
  /\ staff \subseteq Employee /\ lastStaff \in 1..MaxStaff
  /\ groupList \in Entry(SUBSET Groups) /\ staffList \in Entry(SUBSET Employee)
  /\ calls \in Seq(Call)
  /\ onPage \in BOOLEAN /\ visit \in 0..MaxVisits
  /\ groupForm \in Form /\ staffForm \in Form
  /\ groupTarget \in Groups \cup {None} /\ staffTarget \in 0..MaxStaff
  /\ trouble \in 0..MaxTrouble

\* An employee is created only in the group that the form showed.  The form
\* keeps the id of a group after the group left the list, and then shows another
\* one (CustomSelect.tsx:25): such a group is gone for good, because no list is
\* older than the one before, and the server refuses it (GroupsPage.tsx:61).
CreatedAsShown ==
  \A n \in DOMAIN calls :
    calls[n].op = "addStaff" /\ calls[n].at \in {"done", "succeeded"} =>
      \A e \in staff : e.id = calls[n].made => calls[n].shown = {e.group}

AtRest(q) == onPage /\ q.fetch = Idle /\ q.data # NoData /\ ~q.failed /\ ~q.invalid

\* A change that succeeded in front of a loaded list is never missing from it
\* when it is at rest: what was deleted is gone, with the employees of a deleted
\* group, and comes back with no later answer (useDashboardData.ts:240-287).
DeletedStaysGone ==
  \A n \in DOMAIN calls :
    LET c == calls[n]
    IN  c.at = "succeeded" =>
          /\ c.op = "dropGroup" /\ "groups" \in c.seen /\ AtRest(groupList) =>
               c.row \notin groupList.data
          /\ c.op = "dropGroup" /\ "staff" \in c.seen /\ AtRest(staffList) =>
               \A e \in staffList.data : e.group # c.row
          /\ c.op = "dropStaff" /\ "staff" \in c.seen /\ AtRest(staffList) =>
               \A e \in staffList.data : e.id # c.row
===============================================================================
