----------------------------- MODULE TicketStatus -----------------------------
(***************************************************************************)
(* The tickets page of the dashboard (pages/OperationsPage.tsx, its        *)
(* TicketStatusEditor, and useUpdateTicketStatusMutation): an operator     *)
(* changes the status of a ticket, the row shows the change before the     *)
(* server has it, and the list is fetched every 30 seconds and after every *)
(* change.  Answers come late or never, changes overlap, other people and  *)
(* the server's own workers write the same tickets.                        *)
(*                                                                         *)
(* A row carries the server's last_modified_date, which here counts its    *)
(* writes.  onMutate is one action: nothing but microtasks runs between    *)
(* its cancelQueries and its setQueryData.                                 *)
(***************************************************************************)
EXTENDS Naturals, Sequences, QueryCache

CONSTANTS
  Tickets,
  Statuses,
  MaxEdits,     \* bound: changes that the operator makes
  MaxOther,     \* bound: writes of others
  MaxVisits,    \* bound: times the page is built anew
  MaxFails      \* bound: requests or answers that are lost

ASSUME BoundsAssumption ==
  MaxEdits \in Nat /\ MaxOther \in Nat /\ MaxVisits \in Nat /\ MaxFails \in Nat

VARIABLES
  log,      \* log[t]: the statuses that the row of ticket t has had in the database
  list,     \* the cache entry ["operations", "tickets"]
  edits,    \* the changes made so far, in the order of their clicks
  menu,     \* the tickets whose menu of statuses is open
  onPage,   \* the page is on screen
  visit,    \* how often it was built anew
  acked,    \* history: the newest row of each ticket that the page was told of
  others, fails

exchange == <<list, edits>>
screen == <<menu, onPage, visit>>
bounds == <<others, fails>>
vars == <<log, exchange, screen, acked, bounds>>

Row == [status : Statuses, modified : Nat]
ASSUME NoDataAssumption == NoData \notin [Tickets -> Row]

\* before is the list that onMutate keeps, reply the row that the server returns.
Edit == [ticket : Tickets, status : Statuses, visit : Nat, before : [Tickets -> Row],
         at : {"sent", "saved", "failed", "settled"}, reply : Row \cup {NoData}]

RowAt(t, n) == [status |-> log[t][n], modified |-> n]
RowOf(t) == RowAt(t, Len(log[t]))
Table == [t \in Tickets |-> RowOf(t)]

Pending == {e \in DOMAIN edits : edits[e].at # "settled"}

Init ==
  /\ log \in [Tickets -> {<<s>> : s \in Statuses}]
  /\ list = Empty
  /\ edits = <<>>
  /\ menu = {} /\ onPage = FALSE /\ visit = 0
  /\ acked = [t \in Tickets |-> 0]
  /\ others = 0 /\ fails = 0

-----------------------------------------------------------------------------
(* The list *)

\* The page is opened, or reached again from the page of another queue: then
\* the router keeps its component, and with it the mutation it watches.
Open(anew, aged) ==
  /\ ~onPage
  /\ anew \/ visit > 0
  /\ visit' = IF anew THEN visit + 1 ELSE visit
  /\ visit' <= MaxVisits
  /\ onPage' = TRUE
  /\ list' = Mount(list, aged)
  /\ UNCHANGED <<log, edits, menu, acked, bounds>>

\* The operator goes to a page that does not list tickets; a fetch goes on.
Leave ==
  /\ onPage
  /\ onPage' = FALSE /\ menu' = {}
  /\ UNCHANGED <<log, exchange, visit, acked, bounds>>

\* refetchInterval: a fetch under way is joined.
PollUntilFailed ==  \* mutant: a failure ends the polling
  /\ onPage /\ list.fetch = Idle /\ ~list.failed
  /\ list' = Ask(list)
  /\ UNCHANGED <<log, edits, screen, acked, bounds>>
Poll ==
  /\ onPage /\ list.fetch = Idle
  /\ list' = Ask(list)
  /\ UNCHANGED <<log, edits, screen, acked, bounds>>

ServerLists ==
  /\ list.fetch = Asked
  /\ list' = Answer(list, Table)
  /\ UNCHANGED <<log, edits, screen, acked, bounds>>

ListArrives ==
  /\ list.fetch.at = "answered"
  /\ list' = Arrive(list)
  /\ acked' = [t \in Tickets |-> list.fetch.data[t].modified]
  /\ UNCHANGED <<log, edits, screen, bounds>>

ListLost ==
  /\ list.fetch # Idle /\ fails < MaxFails
  /\ fails' = fails + 1
  /\ list' = GiveUp(list)
  /\ UNCHANGED <<log, edits, screen, acked, others>>

-----------------------------------------------------------------------------
(* TicketStatusEditor *)

\* The page watches its latest mutation only: pendingTicketId.
NeverPending(t) == FALSE  \* mutant: the editor is never disabled
IsPending(t) ==
  /\ edits # <<>>
  /\ LET latest == edits[Len(edits)]
     IN  latest.visit = visit /\ latest.at # "settled" /\ latest.ticket = t

\* The trigger; a click elsewhere has closed any other menu.
ToggleMenu(t) ==
  /\ onPage /\ list.data # NoData
  /\ ~IsPending(t)
  /\ menu' = {t} \ menu
  /\ UNCHANGED <<log, exchange, onPage, visit, acked, bounds>>

\* A click outside, or Escape.
DismissMenu ==
  /\ menu # {}
  /\ menu' = {}
  /\ UNCHANGED <<log, exchange, onPage, visit, acked, bounds>>

WithStatus(rows, t, s) == [rows EXCEPT ![t].status = s]

\* mutate, and onMutate: the fetch under way is abandoned, the list is kept for
\* a failure, and the row shows the new status.
OnMutate(t, s) ==
  SetQueryData(CancelQueries(list), WithStatus(list.data, t, s))

Mutate(t, s) ==
  /\ edits' = Append(edits, [ticket |-> t, status |-> s, visit |-> visit,
                             before |-> list.data, at |-> "sent", reply |-> NoData])
  /\ list' = OnMutate(t, s)

\* An option of the menu, which is not disabled; the status it has is ignored.
ChooseStatus(t, s) ==
  /\ t \in menu
  /\ menu' = {}
  /\ Len(edits) < MaxEdits
  /\ IF list.data[t].status # s THEN Mutate(t, s) ELSE UNCHANGED exchange
  /\ UNCHANGED <<log, onPage, visit, acked, bounds>>

-----------------------------------------------------------------------------
(* The server *)

\* UpdateTicketStatus: the row is written and returned.
ServerSaves(e) ==
  LET t == edits[e].ticket
  IN  /\ edits[e].at = "sent"
      /\ log' = [log EXCEPT ![t] = Append(@, edits[e].status)]
      /\ edits' = [edits EXCEPT
           ![e].at = "saved",
           ![e].reply = [status |-> edits[e].status, modified |-> Len(log[t]) + 1]]
      /\ UNCHANGED <<list, screen, acked, bounds>>

\* The request fails or is lost, or its answer is.
PatchLost(e) ==
  /\ edits[e].at \in {"sent", "saved"} /\ fails < MaxFails
  /\ fails' = fails + 1
  /\ edits' = [edits EXCEPT ![e].at = "failed"]
  /\ UNCHANGED <<log, list, screen, acked, others>>

\* The server's workers, and dashboards elsewhere.
OtherWrites(t, s) ==
  /\ others < MaxOther
  /\ others' = others + 1
  /\ log' = [log EXCEPT ![t] = Append(@, s)]
  /\ UNCHANGED <<exchange, screen, acked, fails>>

-----------------------------------------------------------------------------
(* useUpdateTicketStatusMutation *)

\* onSettled; the overview, which it fetches anew as well, is not of this model.
OnSettledWithout(q) == q  \* mutant: onSettled does nothing
OnSettled(q) == InvalidateQueries(q, onPage)

\* onSuccess: the row of the answer replaces the one in the list.
OnSuccess(e) ==
  /\ edits[e].at = "saved"
  /\ LET t == edits[e].ticket
         rows == [list.data EXCEPT ![t] = edits[e].reply]
     IN  /\ list' = OnSettled(SetQueryData(list, rows))
         /\ acked' = IF onPage /\ edits[e].reply.modified > acked[t]
                     THEN [acked EXCEPT ![t] = edits[e].reply.modified] ELSE acked
  /\ edits' = [edits EXCEPT ![e].at = "settled"]
  /\ UNCHANGED <<log, screen, bounds>>

\* onError: the list that onMutate kept is put back, with all of its rows.
OnError(e) ==
  /\ edits[e].at = "failed"
  /\ list' = OnSettled(SetQueryData(list, edits[e].before))
  /\ edits' = [edits EXCEPT ![e].at = "settled"]
  /\ UNCHANGED <<log, screen, acked, bounds>>

-----------------------------------------------------------------------------

Server == ServerLists \/ \E e \in DOMAIN edits : ServerSaves(e)
Settle == \E e \in DOMAIN edits : OnSuccess(e) \/ OnError(e)
Lost == ListLost \/ \E e \in DOMAIN edits : PatchLost(e)
Operator ==
  \/ \E anew, aged \in BOOLEAN : Open(anew, aged)
  \/ Leave
  \/ DismissMenu
  \/ \E t \in Tickets : ToggleMenu(t) \/ \E s \in Statuses : ChooseStatus(t, s)

Next ==
  \/ Operator \/ Poll \/ Server \/ ListArrives \/ Settle \/ Lost
  \/ \E t \in Tickets, s \in Statuses : OtherWrites(t, s)

Spec == Init /\ [][Next]_vars

\* The interval fires, the server answers what reaches it, and callbacks run.
Fairness ==
  /\ WF_vars(Poll) /\ WF_vars(ServerLists) /\ WF_vars(ListArrives)
  /\ \A e \in 1..MaxEdits :
       /\ WF_vars(e \in DOMAIN edits /\ ServerSaves(e))
       /\ WF_vars(e \in DOMAIN edits /\ (OnSuccess(e) \/ OnError(e)))

FairSpec == Spec /\ Fairness

-----------------------------------------------------------------------------
(* Properties *)

TypeOK ==
  /\ log \in [Tickets -> Seq(Statuses)]
  /\ list \in Entry([Tickets -> Row])
  /\ edits \in Seq(Edit)
  /\ menu \subseteq Tickets /\ onPage \in BOOLEAN /\ visit \in 0..MaxVisits
  /\ acked \in [Tickets -> Nat]
  /\ others \in 0..MaxOther /\ fails \in 0..MaxFails

\* The page waits for nothing and reports no failure.
AtRest ==
  /\ Pending = {} /\ list.fetch = Idle
  /\ list.data # NoData /\ ~list.failed /\ ~list.invalid

\* At rest the page shows rows that the server really had, none of them older
\* than an answer that the page got before while it was on screen: neither the
\* optimistic rows, nor a list that onError puts back, nor a list that was asked
\* for before a change outlives the exchange (useDashboardData.ts:109-135).
Board == INSTANCE TicketBoard WITH
  Unsure <- NoData, known <- acked, shown <- IF AtRest THEN list.data ELSE NoData
ImplementsBoard == Board!Spec

\* Two changes of one ticket are under way at once only when the operator
\* changed another ticket in between, or built the page anew: the editor is
\* disabled by the latest mutation alone (OperationsPage.tsx:384 and 424).
OverlapNeedsAnother ==
  \A d, e \in Pending :
    d < e /\ edits[d].ticket = edits[e].ticket =>
      \/ edits[d].visit # edits[e].visit
      \/ \E between \in (d + 1)..(e - 1) : edits[between].ticket # edits[d].ticket

\* A page that stays on screen comes to show what the server has, whatever was
\* lost, undone or overtaken before (useDashboardData.ts:70 and 132).
ShowsTable == list.data = Table
ViewConverges == <>[]onPage => <>[]ShowsTable
===============================================================================
