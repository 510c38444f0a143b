-------------------------- MODULE TicketStatusProofs --------------------------
(***************************************************************************)
(* The tickets page implements TicketBoard, and changes of one ticket      *)
(* overlap in the known way only: for every set of tickets and statuses    *)
(* and any number of changes, visits, writes of others and failures.       *)
(*                                                                         *)
(* The second part is about the notes of a ticket (TicketNotes), which the *)
(* same page shows in a popup: for any number of notes, however posts      *)
(* fail, overlap or are overtaken, the list at rest is one that the        *)
(* database had, and holds every note saved while the popup was open.      *)
(***************************************************************************)
EXTENDS TicketStatus, TicketNotes, Integers, FiniteSetTheorems, TLAPS

Data == [Tickets -> Row]

\* A row that ticket t has had in the database.
Genuine(t, row) == row.modified \in 1..Len(log[t]) /\ row = RowAt(t, row.modified)

\* What the server has answered, and the page was not told of yet, is genuine,
\* and no list on its way is older than an answer the page was told of.
LogOK == \A t \in Tickets : Len(log[t]) >= 1 /\ acked[t] <= Len(log[t])
FetchOK ==
  list.fetch.at = "answered" =>
    /\ list.fetch.data \in Data
    /\ \A t \in Tickets : Genuine(t, list.fetch.data[t])
                          /\ acked[t] <= list.fetch.data[t].modified
RepliesOK ==
  \A e \in DOMAIN edits : edits[e].at = "saved" =>
    edits[e].reply \in Row /\ Genuine(edits[e].ticket, edits[e].reply)

\* Whatever an optimistic change or a roll back leaves in the list, its end marks
\* the list as invalid; only an answer of the server takes the mark away.
ShownOK ==
  Pending = {} /\ ~list.invalid /\ list.data # NoData =>
    \A t \in Tickets : acked[t] > 0 /\ list.data[t] = RowAt(t, acked[t])

ScreenOK ==
  /\ edits # <<>> \/ menu # {} => list.data # NoData
  /\ menu # {} => onPage

\* The inductive invariant of the refinement.
IInv == TypeOK /\ LogOK /\ FetchOK /\ RepliesOK /\ ShownOK /\ ScreenOK

\* A change that is under way shares its ticket with a later one only if the
\* operator changed another ticket in between or came to a page built anew.
MenusOK == \A t \in menu : ~IsPending(t)
VisitsOK ==
  /\ \A e \in DOMAIN edits : edits[e].visit <= visit
  /\ \A d, e \in DOMAIN edits : d < e => edits[d].visit <= edits[e].visit
OverlapsOK ==
  \A d \in Pending, e \in DOMAIN edits :
    d < e /\ edits[d].ticket = edits[e].ticket =>
      \/ edits[d].visit # edits[e].visit
      \/ \E between \in (d + 1)..(e - 1) : edits[between].ticket # edits[d].ticket
OverlapInv == MenusOK /\ VisitsOK /\ OverlapsOK

-----------------------------------------------------------------------------
(* The list: what an entry of the cache may become *)

USE DEF Idle, Asked, Answered

\* The operations of the cache keep the type of an entry.
LEMMA EntryAsked ==
  ASSUME NEW D, NEW q \in Entry(D), NEW b \in BOOLEAN
  PROVE  /\ Ask(q) \in Entry(D) /\ GiveUp(q) \in Entry(D) /\ CancelQueries(q) \in Entry(D)
         /\ InvalidateQueries(q, b) \in Entry(D) /\ Mount(q, b) \in Entry(D)
BY DEF Entry, Fetch, Ask, GiveUp, CancelQueries, InvalidateQueries, Mount

LEMMA EntryAnswered ==
  ASSUME NEW D, NEW q \in Entry(D), NEW d \in D
  PROVE  /\ Answer(q, d) \in Entry(D) /\ SetQueryData(q, d) \in Entry(D)
         /\ q.fetch.data \in D => Arrive(q) \in Entry(D)
BY DEF Entry, Fetch, Answer, SetQueryData, Arrive

\* What the list may become as long as the page is told of nothing: its data stay,
\* it stays invalid if it was, and a fetch ends or begins.
Waits ==
  /\ list' \in Entry(Data)
  /\ list'.data = list.data
  /\ list.invalid => list'.invalid
  /\ list'.fetch \in {list.fetch, Idle, Asked}

LEMMA WaitsKeeps ==
  ASSUME IInv, Waits, UNCHANGED <<log, edits, acked>>
  PROVE  LogOK' /\ FetchOK' /\ RepliesOK' /\ ShownOK'
<1>1. LogOK' /\ RepliesOK'
  BY DEF IInv, LogOK, RepliesOK, Genuine, RowAt
<1>2. FetchOK'
  BY DEF IInv, FetchOK, Genuine, RowAt, Waits
<1>3. ShownOK'
  BY DEF IInv, ShownOK, Pending, RowAt, Waits
<1> QED BY <1>1, <1>2, <1>3

\* Asking anew, giving up and mounting are of this kind.
LEMMA ListWaits ==
  ASSUME TypeOK, NEW b \in BOOLEAN, list' \in {list, Ask(list), GiveUp(list), Mount(list, b)}
  PROVE  Waits
<1>1. list \in Entry(Data)
  BY DEF TypeOK, Data
<1>2. list' \in Entry(Data)
  BY <1>1, EntryAsked
<1>3. /\ list'.data = list.data
      /\ list.invalid => list'.invalid
      /\ list'.fetch \in {list.fetch, Idle, Asked}
  BY <1>1 DEF Entry, Ask, GiveUp, Mount
<1> QED BY <1>2, <1>3 DEF Waits

LEMMA InitIInv == Init => IInv
<1> SUFFICES ASSUME Init PROVE IInv
  OBVIOUS
<1>1. \A s \in Statuses : <<s>> \in Seq(Statuses) /\ Len(<<s>>) = 1
  OBVIOUS
<1>2. /\ log \in [Tickets -> Seq(Statuses)]
      /\ \A t \in Tickets : Len(log[t]) = 1
  BY <1>1 DEF Init
<1>3. list \in Entry(Data) /\ edits \in Seq(Edit)
  BY DEF Init, Entry, Fetch, Empty
<1>4. /\ acked \in [Tickets -> Nat] /\ menu \subseteq Tickets /\ onPage \in BOOLEAN
      /\ visit \in 0..MaxVisits /\ others \in 0..MaxOther /\ fails \in 0..MaxFails
  <2>1. /\ acked = [t \in Tickets |-> 0] /\ menu = {} /\ onPage = FALSE /\ visit = 0
        /\ others = 0 /\ fails = 0
    BY DEF Init
  <2>2. acked \in [Tickets -> Nat] /\ menu \subseteq Tickets /\ onPage \in BOOLEAN
    BY <2>1
  <2>3. visit \in 0..MaxVisits
    BY <2>1, BoundsAssumption
  <2>4. others \in 0..MaxOther
    BY <2>1, BoundsAssumption
  <2>5. fails \in 0..MaxFails
    BY <2>1, BoundsAssumption
  <2> QED BY <2>2, <2>3, <2>4, <2>5
<1>5. TypeOK
  BY <1>2, <1>3, <1>4 DEF TypeOK, Data
<1>6. ASSUME NEW t \in Tickets PROVE Len(log[t]) >= 1 /\ acked[t] <= Len(log[t])
  <2>1. acked[t] = 0
    BY DEF Init
  <2>2. Len(log[t]) = 1
    BY <1>2
  <2> QED BY <2>1, <2>2
<1>7. FetchOK /\ RepliesOK /\ ShownOK /\ ScreenOK
  BY DEF Init, Empty, FetchOK, RepliesOK, ShownOK, ScreenOK
<1> QED BY <1>5, <1>6, <1>7 DEF IInv, LogOK

\* A step that leaves everything but the list and the screen as it was.
LEMMA QuietStep ==
  ASSUME IInv, Waits, UNCHANGED <<log, edits, acked>>, UNCHANGED bounds,
         menu' \subseteq Tickets, onPage' \in BOOLEAN, visit' \in 0..MaxVisits, ScreenOK'
  PROVE  IInv'
<1>1. TypeOK'
  BY DEF IInv, TypeOK, Waits, bounds, Data
<1> QED BY <1>1, WaitsKeeps DEF IInv

LEMMA OpenKeeps ==
  ASSUME IInv, NEW anew \in BOOLEAN, NEW aged \in BOOLEAN, Open(anew, aged)
  PROVE  IInv'
<1>1. Waits
  BY ListWaits DEF IInv, Open
<1>2. visit' \in 0..MaxVisits
  BY BoundsAssumption DEF IInv, TypeOK, Open
<1>3. ScreenOK'
  BY <1>1 DEF IInv, ScreenOK, Open, Waits
<1> QED BY <1>1, <1>2, <1>3, QuietStep DEF Open, bounds, IInv, TypeOK

LEMMA PollKeeps == IInv /\ Poll => IInv'
<1> SUFFICES ASSUME IInv, Poll PROVE IInv'
  OBVIOUS
<1>1. Waits
  BY ListWaits DEF IInv, Poll
<1>2. ScreenOK'
  BY <1>1 DEF IInv, ScreenOK, Poll, Waits, screen
<1> QED BY <1>1, <1>2, QuietStep DEF Poll, screen, bounds, IInv, TypeOK

LEMMA ListLostKeeps == IInv /\ ListLost => IInv'
<1> SUFFICES ASSUME IInv, ListLost PROVE IInv'
  OBVIOUS
<1>1. Waits
  BY ListWaits DEF IInv, ListLost
<1>2. TypeOK'
  BY <1>1, BoundsAssumption DEF IInv, TypeOK, ListLost, screen, Waits, Data
<1>3. ScreenOK'
  BY <1>1 DEF IInv, ScreenOK, ListLost, Waits, screen
<1> QED BY <1>1, <1>2, <1>3, WaitsKeeps DEF ListLost, IInv

\* The page is left, or a menu is opened or closed.
LEMMA MenuKeeps ==
  ASSUME IInv, Leave \/ DismissMenu \/ \E t \in Tickets : ToggleMenu(t)
  PROVE  IInv'
<1>1. Waits
  BY ListWaits DEF IInv, Leave, ToggleMenu, DismissMenu, exchange
<1>2. /\ UNCHANGED <<log, edits, acked, visit>> /\ UNCHANGED bounds
      /\ menu' \subseteq Tickets /\ onPage' \in BOOLEAN /\ ScreenOK'
  BY DEF IInv, TypeOK, ScreenOK, Leave, ToggleMenu, DismissMenu, exchange, bounds
<1>3. visit' \in 0..MaxVisits
  BY <1>2 DEF IInv, TypeOK
<1> QED BY <1>1, <1>2, <1>3, QuietStep

\* The server lists the table: rows that it has, and none older than an answer.
LEMMA ServerListsKeeps == IInv /\ ServerLists => IInv'
<1> SUFFICES ASSUME IInv, ServerLists PROVE IInv'
  OBVIOUS
<1>1. Table \in Data /\ \A t \in Tickets : Genuine(t, Table[t]) /\ acked[t] <= Table[t].modified
  BY DEF IInv, TypeOK, LogOK, Table, Data, Row, RowOf, RowAt, Genuine
<1>2. list' \in Entry(Data) /\ list'.fetch = Answered(Table)
      /\ list'.data = list.data /\ list'.invalid = list.invalid
  BY <1>1, EntryAnswered DEF IInv, TypeOK, ServerLists, Answer, Entry, Data
<1>3. TypeOK'
  BY <1>2 DEF IInv, TypeOK, ServerLists, screen, bounds, Data
<1>4. LogOK' /\ RepliesOK'
  BY DEF IInv, LogOK, RepliesOK, Genuine, RowAt, ServerLists
<1>5. FetchOK'
  BY <1>1, <1>2 DEF FetchOK, Genuine, RowAt, ServerLists
<1>6. ShownOK' /\ ScreenOK'
  BY <1>2 DEF IInv, ShownOK, ScreenOK, Pending, RowAt, ServerLists, screen
<1> QED BY <1>3, <1>4, <1>5, <1>6 DEF IInv

\* The answer arrives: the page is told of its rows and shows them.
LEMMA ListArrivesKeeps == IInv /\ ListArrives => IInv'
<1> SUFFICES ASSUME IInv, ListArrives PROVE IInv'
  OBVIOUS
<1>1. /\ list.fetch.data \in Data
      /\ \A t \in Tickets : Genuine(t, list.fetch.data[t])
  BY DEF IInv, FetchOK, ListArrives
<1>2. list' \in Entry(Data) /\ list'.data = list.fetch.data /\ list'.fetch = Idle
  BY <1>1, EntryAnswered DEF IInv, TypeOK, ListArrives, Arrive, Entry, Data
<1>3. acked' = [t \in Tickets |-> list.fetch.data[t].modified] /\ acked' \in [Tickets -> Nat]
  BY <1>1 DEF ListArrives, Data, Row
<1>4. TypeOK'
  BY <1>2, <1>3 DEF IInv, TypeOK, ListArrives, screen, bounds, Data
<1>5. LogOK'
  BY <1>1, <1>3 DEF IInv, LogOK, Genuine, ListArrives
<1>6. ShownOK'
  BY <1>1, <1>2, <1>3 DEF ShownOK, Genuine, RowAt, ListArrives
<1>7. FetchOK' /\ RepliesOK' /\ ScreenOK'
  BY <1>1, <1>2, NoDataAssumption
  DEF IInv, FetchOK, RepliesOK, ScreenOK, Genuine, RowAt, ListArrives, screen, Data
<1> QED BY <1>4, <1>5, <1>6, <1>7 DEF IInv

-----------------------------------------------------------------------------
(* The changes *)

\* One change moves on, the others stay.
LEMMA EditKept ==
  ASSUME NEW S, NEW s \in Seq(S), NEW e \in DOMAIN s, NEW x \in S
  PROVE  LET new == [s EXCEPT ![e] = x]
         IN  /\ new \in Seq(S) /\ DOMAIN new = DOMAIN s /\ Len(new) = Len(s) /\ new[e] = x
             /\ \A d \in DOMAIN s : d # e => new[d] = s[d]
OBVIOUS

\* What a step does to the change e: its place becomes `at', its reply r.
Moves(e, at, r) ==
  /\ edits' \in Seq(Edit) /\ DOMAIN edits' = DOMAIN edits
  /\ \A d \in DOMAIN edits : d # e => edits'[d] = edits[d]
  /\ edits'[e] = [edits[e] EXCEPT !.at = at, !.reply = r]

LEMMA EditMoves ==
  ASSUME edits \in Seq(Edit), NEW e \in DOMAIN edits,
         NEW at \in {"sent", "saved", "failed", "settled"}, NEW r \in Row \cup {NoData},
         \/ edits' = [edits EXCEPT ![e].at = at, ![e].reply = r]
         \/ edits' = [edits EXCEPT ![e].at = at] /\ r = edits[e].reply
  PROVE  Moves(e, at, r)
<1> DEFINE x == [edits[e] EXCEPT !.at = at, !.reply = r]
<1>1. edits[e] \in Edit
  OBVIOUS
<1>2. x \in Edit
  BY <1>1 DEF Edit
<1>3. edits' = [edits EXCEPT ![e] = x]
  BY <1>1 DEF Edit
<1> QED BY <1>2, <1>3, EditKept DEF Moves

\* A row that the database had stays one when another is written.
LEMMA Written ==
  ASSUME IInv, NEW t \in Tickets, NEW s \in Statuses,
         log' = [log EXCEPT ![t] = Append(@, s)]
  PROVE  /\ log' \in [Tickets -> Seq(Statuses)]
         /\ Len(log'[t]) = Len(log[t]) + 1 /\ log'[t][Len(log[t]) + 1] = s
         /\ \A u \in Tickets : Len(log[u]) \in Nat /\ Len(log'[u]) >= Len(log[u])
         /\ \A u \in Tickets, n \in Nat : n \in 1..Len(log[u]) => log'[u][n] = log[u][n]
<1>1. \A u \in Tickets : log[u] \in Seq(Statuses) /\ Len(log[u]) \in Nat
  BY DEF IInv, TypeOK
<1>2. log' \in [Tickets -> Seq(Statuses)]
  BY <1>1 DEF IInv, TypeOK
<1>3. log'[t] = Append(log[t], s) /\ \A u \in Tickets : u # t => log'[u] = log[u]
  BY DEF IInv, TypeOK
<1> QED BY <1>1, <1>2, <1>3

LEMMA GenuineKept ==
  ASSUME IInv, NEW t \in Tickets, NEW s \in Statuses,
         log' = [log EXCEPT ![t] = Append(@, s)],
         NEW u \in Tickets, NEW row, Genuine(u, row)
  PROVE  /\ row.modified \in 1..Len(log'[u])
         /\ row = [status |-> log'[u][row.modified], modified |-> row.modified]
BY Written DEF Genuine, RowAt

\* A row is written: of the list and of the answers under way nothing changes.
LEMMA TableGrows ==
  ASSUME IInv, NEW t \in Tickets, NEW s \in Statuses,
         log' = [log EXCEPT ![t] = Append(@, s)],
         UNCHANGED <<list, acked>>, Pending' = Pending
  PROVE  LogOK' /\ FetchOK' /\ ShownOK'
<1>1. \A u \in Tickets : Len(log[u]) \in Nat /\ Len(log'[u]) >= Len(log[u])
  BY Written
<1>2. LogOK'
  BY <1>1 DEF IInv, LogOK, TypeOK
<1>3. FetchOK'
  BY GenuineKept DEF IInv, FetchOK, Genuine, RowAt
<1>4. ASSUME Pending = {}, ~list.invalid, list.data # NoData, NEW u \in Tickets
      PROVE  acked[u] > 0 /\ list.data[u] = RowAt(u, acked[u])'
  <2>1. acked[u] > 0 /\ list.data[u] = RowAt(u, acked[u])
    BY <1>4 DEF IInv, ShownOK
  <2>2. acked[u] \in Nat /\ acked[u] \in 1..Len(log[u])
    BY <2>1, <1>1 DEF IInv, LogOK, TypeOK
  <2>3. log'[u][acked[u]] = log[u][acked[u]]
    BY <2>2, Written
  <2> QED BY <2>1, <2>3 DEF RowAt
<1>5. ShownOK'
  BY <1>4 DEF ShownOK, RowAt
<1> QED BY <1>2, <1>3, <1>5

LEMMA OtherWritesKeeps ==
  ASSUME IInv, NEW t \in Tickets, NEW s \in Statuses, OtherWrites(t, s)
  PROVE  IInv'
<1>1. log' = [log EXCEPT ![t] = Append(@, s)] /\ UNCHANGED <<list, edits, acked, fails>>
      /\ UNCHANGED screen /\ Pending' = Pending
  BY DEF OtherWrites, exchange, Pending
<1>2. others' \in 0..MaxOther
  BY BoundsAssumption DEF IInv, TypeOK, OtherWrites
<1>3. TypeOK'
  <2>1. log' \in [Tickets -> Seq(Statuses)]
    BY <1>1, Written
  <2> QED BY <1>1, <1>2, <2>1 DEF IInv, TypeOK, screen
<1>4. ASSUME NEW e \in DOMAIN edits, edits[e].at = "saved"
      PROVE  edits[e].reply \in Row /\ Genuine(edits[e].ticket, edits[e].reply)'
  <2>1. edits[e] \in Edit
    BY DEF IInv, TypeOK
  <2>2. /\ edits[e].ticket \in Tickets /\ edits[e].reply \in Row
        /\ Genuine(edits[e].ticket, edits[e].reply)
    BY <2>1, <1>4 DEF IInv, RepliesOK, Edit
  <2>3. /\ edits[e].reply.modified \in 1..Len(log'[edits[e].ticket])
        /\ edits[e].reply = [status |-> log'[edits[e].ticket][edits[e].reply.modified],
                             modified |-> edits[e].reply.modified]
    BY <1>1, <2>2, GenuineKept
  <2> QED BY <1>1, <2>2, <2>3 DEF Genuine, RowAt
<1>5. ScreenOK'
  BY <1>1 DEF IInv, ScreenOK, screen
<1>6. RepliesOK'
  BY <1>1, <1>4 DEF RepliesOK
<1> QED BY <1>1, <1>3, <1>5, <1>6, TableGrows DEF IInv

\* The server writes the row and returns it: the reply is genuine.
LEMMA ServerSavesKeeps ==
  ASSUME IInv, NEW e \in DOMAIN edits, ServerSaves(e)
  PROVE  IInv'
<1> DEFINE t == edits[e].ticket
           s == edits[e].status
           n == Len(log[t]) + 1
           r == [status |-> s, modified |-> n]
<1>1. edits \in Seq(Edit) /\ t \in Tickets /\ s \in Statuses
  <2>1. edits[e] \in Edit
    BY DEF IInv, TypeOK
  <2> QED BY <2>1 DEF IInv, TypeOK, Edit
<1>2. /\ log' = [log EXCEPT ![t] = Append(@, s)]
      /\ edits' = [edits EXCEPT ![e].at = "saved", ![e].reply = r]
      /\ edits[e].at = "sent"
      /\ UNCHANGED <<list, acked>> /\ UNCHANGED screen /\ UNCHANGED bounds
  BY DEF ServerSaves
<1> HIDE DEF t, s
<1>3. n \in Nat /\ r \in Row
  BY <1>1 DEF IInv, TypeOK, Row
<1> HIDE DEF n, r
<1>4. Moves(e, "saved", r)
  BY <1>1, <1>2, <1>3, EditMoves
<1>5. edits'[e].at = "saved" /\ edits'[e].reply = r /\ edits'[e].ticket = t
  <2>1. edits[e] \in Edit
    BY <1>1
  <2> QED BY <1>4, <2>1 DEF Moves, Edit, t
<1>6. Pending' = Pending
  BY <1>2, <1>4, <1>5 DEF Pending, Moves
<1>7. LogOK' /\ FetchOK' /\ ShownOK'
  BY <1>1, <1>2, <1>6, TableGrows
<1>8. log' \in [Tickets -> Seq(Statuses)] /\ Len(log'[t]) = n /\ log'[t][n] = s
  BY <1>1, <1>2, Written DEF n
<1>9. TypeOK'
  BY <1>2, <1>4, <1>8 DEF IInv, TypeOK, screen, bounds, Moves
<1>10. RepliesOK'
  <2> SUFFICES ASSUME NEW d \in DOMAIN edits', edits'[d].at = "saved"
               PROVE  edits'[d].reply \in Row /\ Genuine(edits[d].ticket, edits[d].reply)'
    BY DEF RepliesOK
  <2>1. CASE d = e
    <3>1. n >= 1
      BY <1>1 DEF n, IInv, TypeOK
    <3>2. r.modified = n /\ r = [status |-> s, modified |-> n]
      BY DEF r
    <3>3. n \in 1..Len(log'[t])
      BY <1>3, <1>8, <3>1
    <3> QED BY <2>1, <1>3, <1>5, <1>8, <3>2, <3>3 DEF Genuine, RowAt
  <2>2. CASE d # e
    <3>1. d \in DOMAIN edits /\ edits'[d] = edits[d]
      BY <2>2, <1>4 DEF Moves
    <3>2. edits[d] \in Edit
      BY <1>1, <3>1
    <3>3. edits[d].ticket \in Tickets /\ edits[d].reply \in Row
          /\ Genuine(edits[d].ticket, edits[d].reply)
      BY <3>1, <3>2 DEF IInv, RepliesOK, Edit
    <3>4. /\ edits[d].reply.modified \in 1..Len(log'[edits[d].ticket])
          /\ edits[d].reply = [status |-> log'[edits[d].ticket][edits[d].reply.modified],
                               modified |-> edits[d].reply.modified]
      BY <1>1, <1>2, <3>3, GenuineKept
    <3> QED BY <3>1, <3>3, <3>4 DEF Genuine, RowAt
  <2> QED BY <2>1, <2>2
<1>11. ScreenOK'
  <2>1. edits # <<>>
    BY <1>1
  <2> QED BY <1>2, <2>1 DEF IInv, ScreenOK, screen
<1> QED BY <1>7, <1>9, <1>10, <1>11 DEF IInv

\* A step that ends a change or loses it: nothing is written.
LEMMA RepliesKept ==
  ASSUME IInv, NEW e \in DOMAIN edits, UNCHANGED log,
         NEW at \in {"failed", "settled"}, Moves(e, at, edits[e].reply)
  PROVE  RepliesOK' /\ edits' # <<>> /\ edits # <<>>
<1>1. edits[e] \in Edit
  BY DEF IInv, TypeOK
<1>2. edits'[e].at = at
  BY <1>1 DEF Edit, Moves
<1>3. RepliesOK'
  BY <1>2 DEF IInv, RepliesOK, Moves, Genuine, RowAt
<1> QED BY <1>3 DEF IInv, TypeOK, Moves

LEMMA PatchLostKeeps ==
  ASSUME IInv, NEW e \in DOMAIN edits, PatchLost(e)
  PROVE  IInv'
<1>1. edits \in Seq(Edit) /\ edits[e].reply \in Row \cup {NoData}
  <2>1. edits[e] \in Edit
    BY DEF IInv, TypeOK
  <2> QED BY <2>1 DEF IInv, TypeOK, Edit
<1>2. Moves(e, "failed", edits[e].reply)
  BY <1>1, EditMoves DEF PatchLost
<1>3. Pending' = Pending
  <2>1. edits'[e].at = "failed" /\ edits[e].at # "settled"
    <3>1. edits[e] \in Edit
      BY <1>1
    <3> QED BY <1>2, <3>1 DEF Moves, PatchLost, Edit
  <2> QED BY <1>2, <2>1 DEF Pending, Moves
<1>4. fails' \in 0..MaxFails
  BY BoundsAssumption DEF IInv, TypeOK, PatchLost
<1>5. TypeOK'
  BY <1>2, <1>4 DEF IInv, TypeOK, PatchLost, screen, Moves
<1>6. LogOK' /\ FetchOK' /\ ShownOK'
  BY <1>3 DEF IInv, LogOK, FetchOK, ShownOK, Genuine, RowAt, PatchLost
<1>7. RepliesOK' /\ ScreenOK'
  BY <1>2, RepliesKept DEF PatchLost, IInv, ScreenOK, screen
<1> QED BY <1>5, <1>6, <1>7 DEF IInv

\* A new change: the row shows it, and no fetch is left that could end it early.
LEMMA MutateKeeps ==
  ASSUME IInv, NEW t \in Tickets, NEW s \in Statuses, list.data # NoData, Mutate(t, s),
         UNCHANGED <<log, onPage, visit, acked>>, UNCHANGED bounds, menu' = {}
  PROVE  IInv' /\ Pending' # {}
<1> DEFINE x == [ticket |-> t, status |-> s, visit |-> visit, before |-> list.data,
                 at |-> "sent", reply |-> NoData]
           rows == WithStatus(list.data, t, s)
<1>1. list \in Entry(Data) /\ list.data \in Data /\ edits \in Seq(Edit)
  BY DEF IInv, TypeOK, Entry, Data
<1>2. x \in Edit
  BY <1>1 DEF IInv, TypeOK, Edit, Data
<1>3. rows \in Data
  BY <1>1 DEF WithStatus, Data, Row
<1>4. edits' = Append(edits, x)
  BY DEF Mutate
<1> HIDE DEF x, rows
<1>5. /\ edits' \in Seq(Edit) /\ Len(edits') = Len(edits) + 1 /\ edits'[Len(edits) + 1] = x
      /\ \A d \in DOMAIN edits : edits'[d] = edits[d]
  BY <1>1, <1>2, <1>4
<1>6. x.at = "sent"
  BY DEF x
<1>7. list' = SetQueryData(CancelQueries(list), rows)
  BY DEF Mutate, OnMutate, rows
<1>8. list' \in Entry(Data) /\ list'.data = rows /\ list'.fetch = Idle
  BY <1>1, <1>3, <1>7, EntryAsked, EntryAnswered, NoDataAssumption
  DEF SetQueryData, CancelQueries, Entry, Data
<1>9. TypeOK'
  BY <1>5, <1>8 DEF IInv, TypeOK, bounds, Data
<1>10. Pending' # {}
  BY <1>1, <1>5, <1>6 DEF Pending
<1>11. LogOK' /\ FetchOK' /\ ShownOK'
  BY <1>8, <1>10 DEF IInv, LogOK, FetchOK, ShownOK
<1>12. RepliesOK'
  <2> SUFFICES ASSUME NEW d \in DOMAIN edits', edits'[d].at = "saved"
               PROVE  (edits[d].reply \in Row /\ Genuine(edits[d].ticket, edits[d].reply))'
    BY DEF RepliesOK
  <2>1. d \in DOMAIN edits /\ edits'[d] = edits[d]
    BY <1>1, <1>5, <1>6
  <2> QED BY <2>1 DEF IInv, RepliesOK, Genuine, RowAt
<1>13. ScreenOK'
  BY <1>3, <1>8, NoDataAssumption DEF ScreenOK, Data
<1> QED BY <1>9, <1>10, <1>11, <1>12, <1>13 DEF IInv

LEMMA ChooseStatusKeeps ==
  ASSUME IInv, NEW t \in Tickets, NEW s \in Statuses, ChooseStatus(t, s)
  PROVE  IInv' /\ (Pending' # {} \/ UNCHANGED exchange)
<1>1. list.data # NoData /\ menu' = {}
  BY DEF ChooseStatus, IInv, ScreenOK
<1>2. CASE list.data[t].status # s
  BY <1>1, <1>2, MutateKeeps DEF ChooseStatus
<1>3. CASE ~(list.data[t].status # s)
  <2>1. UNCHANGED exchange
    BY <1>3 DEF ChooseStatus
  <2>2. Waits
    BY <2>1, ListWaits DEF IInv, exchange
  <2>3. ScreenOK'
    BY <2>1, <1>1 DEF IInv, ScreenOK, exchange
  <2>4. UNCHANGED <<log, edits, acked, onPage, visit>> /\ UNCHANGED bounds
    BY <2>1 DEF ChooseStatus, exchange
  <2> QED BY <1>1, <2>1, <2>2, <2>3, <2>4, QuietStep DEF IInv, TypeOK
<1> QED BY <1>2, <1>3

\* The end of a change, well or ill: the list gets other rows and is asked for anew.
LEMMA SettledKeeps ==
  ASSUME IInv, NEW e \in DOMAIN edits, NEW rows \in Data,
         edits' = [edits EXCEPT ![e].at = "settled"],
         list' = OnSettled(SetQueryData(list, rows)),
         UNCHANGED log, UNCHANGED screen, UNCHANGED bounds,
         acked' \in [Tickets -> Nat],
         \A t \in Tickets : acked'[t] <= Len(log[t]) /\ (~onPage => acked'[t] = acked[t])
  PROVE  IInv' /\ list'.invalid
<1>1. list \in Entry(Data) /\ edits \in Seq(Edit) /\ list.data # NoData /\ onPage \in BOOLEAN
  BY DEF IInv, TypeOK, ScreenOK, Data
<1>2. /\ list'.data = rows /\ list'.invalid
      /\ list'.fetch = IF onPage THEN Asked ELSE list.fetch
  BY <1>1, NoDataAssumption
  DEF OnSettled, InvalidateQueries, SetQueryData, Ask, Entry, Data
<1>3. list' \in Entry(Data)
  BY <1>1, EntryAnswered, EntryAsked DEF OnSettled
<1>4. Moves(e, "settled", edits[e].reply)
  <2>1. edits[e] \in Edit
    BY <1>1
  <2>2. edits[e].reply \in Row \cup {NoData}
    BY <2>1 DEF Edit
  <2> QED BY <1>1, <2>2, EditMoves
<1>5. RepliesOK' /\ edits' # <<>>
  BY <1>4, RepliesKept
<1>6. TypeOK'
  BY <1>3, <1>4 DEF IInv, TypeOK, Moves, screen, bounds, Data
<1>7. LogOK'
  BY DEF IInv, LogOK
<1>8. FetchOK'
  BY <1>2 DEF IInv, FetchOK, Genuine, RowAt
<1>9. ShownOK' /\ ScreenOK'
  BY <1>2, NoDataAssumption DEF IInv, ShownOK, ScreenOK, screen, Data
<1> QED BY <1>2, <1>5, <1>6, <1>7, <1>8, <1>9 DEF IInv

LEMMA OnSuccessKeeps ==
  ASSUME IInv, NEW e \in DOMAIN edits, OnSuccess(e)
  PROVE  /\ IInv' /\ list'.invalid
         /\ \A t \in Tickets : acked'[t] \in Nat /\ acked[t] <= acked'[t]
<1> DEFINE t == edits[e].ticket
           rows == [list.data EXCEPT ![t] = edits[e].reply]
<1>1. edits[e] \in Edit /\ list.data \in Data
  BY DEF IInv, TypeOK, ScreenOK, Entry, Data
<1>2. t \in Tickets /\ edits[e].reply \in Row /\ Genuine(t, edits[e].reply)
  BY <1>1 DEF IInv, RepliesOK, OnSuccess, Edit
<1>3. rows \in Data
  BY <1>1, <1>2 DEF Data
<1>4. acked' = IF onPage /\ edits[e].reply.modified > acked[t]
               THEN [acked EXCEPT ![t] = edits[e].reply.modified] ELSE acked
  BY DEF OnSuccess
<1>5. acked \in [Tickets -> Nat] /\ edits[e].reply.modified \in Nat
      /\ edits[e].reply.modified <= Len(log[t])
  BY <1>2 DEF IInv, TypeOK, Row, Genuine
<1> HIDE DEF t
<1>6. acked' \in [Tickets -> Nat]
  BY <1>2, <1>4, <1>5
<1>7. \A u \in Tickets : acked'[u] <= Len(log[u]) /\ (~onPage => acked'[u] = acked[u])
                          /\ acked[u] <= acked'[u]
  BY <1>2, <1>4, <1>5 DEF IInv, LogOK
<1> QED BY <1>3, <1>6, <1>7, SettledKeeps DEF OnSuccess, t

LEMMA OnErrorKeeps ==
  ASSUME IInv, NEW e \in DOMAIN edits, OnError(e)
  PROVE  IInv' /\ list'.invalid
<1>1. edits[e] \in Edit
  BY DEF IInv, TypeOK
<1>2. edits[e].before \in Data
  BY <1>1 DEF Edit, Data
<1>3. acked' \in [Tickets -> Nat]
      /\ \A t \in Tickets : acked'[t] <= Len(log[t]) /\ (~onPage => acked'[t] = acked[t])
  BY DEF IInv, TypeOK, LogOK, OnError
<1> QED BY <1>2, <1>3, SettledKeeps DEF OnError

LEMMA NextIInv == IInv /\ [Next]_vars => IInv'
<1> SUFFICES ASSUME IInv, [Next]_vars PROVE IInv'
  OBVIOUS
<1>1. CASE Operator
  BY <1>1, OpenKeeps, MenuKeeps, ChooseStatusKeeps DEF Operator
<1>2. CASE Poll \/ Server \/ ListArrives
  BY <1>2, PollKeeps, ServerListsKeeps, ServerSavesKeeps, ListArrivesKeeps DEF Server
<1>3. CASE Settle \/ Lost
  BY <1>3, OnSuccessKeeps, OnErrorKeeps, ListLostKeeps, PatchLostKeeps DEF Settle, Lost
<1>4. CASE \E t \in Tickets, s \in Statuses : OtherWrites(t, s)
  BY <1>4, OtherWritesKeeps
<1>5. CASE UNCHANGED vars
  BY <1>5 DEF IInv, TypeOK, LogOK, FetchOK, RepliesOK, ShownOK, ScreenOK, Genuine, RowAt,
              Pending, vars, exchange, screen, bounds
<1> QED BY <1>1, <1>2, <1>3, <1>4, <1>5 DEF Next

\* The inductive invariant holds throughout.
LEMMA Invariance == Spec => []IInv
BY InitIInv, NextIInv, PTL DEF Spec

\* The exchange stays well typed, for every set of tickets and every bound.
THEOREM TypeCorrect == Spec => []TypeOK
<1>1. IInv => TypeOK
  BY DEF IInv
<1> QED BY <1>1, Invariance, PTL

-----------------------------------------------------------------------------
(* The refinement *)

Shown == IF AtRest THEN list.data ELSE NoData

\* What a step may do to the board, in the terms of the page.
Nothing == UNCHANGED <<log, acked>> /\ Shown' = Shown
Doubts == UNCHANGED <<log, acked>> /\ Shown' = NoData

LEMMA BoardQuiet == Nothing \/ Doubts => [Board!Next]_Board!vars
BY DEF Nothing, Doubts, Shown, Board!Next, Board!Doubt, Board!vars

LEMMA BoardLearns ==
  ASSUME UNCHANGED log, acked' \in [Tickets -> Nat],
         \A t \in Tickets : acked[t] <= acked'[t] /\ acked'[t] <= Len(log[t]),
         \/ Shown' = NoData
         \/ /\ \A t \in Tickets : acked'[t] > 0
            /\ Shown' = [t \in Tickets |-> RowAt(t, acked'[t])]
  PROVE  [Board!Next]_Board!vars
BY DEF Shown, RowAt, Board!Next, Board!Learn, Board!RowAt

LEMMA BoardChanges ==
  ASSUME NEW t \in Tickets, NEW s \in Statuses,
         log' = [log EXCEPT ![t] = Append(@, s)], UNCHANGED acked, Shown' = Shown
  PROVE  [Board!Next]_Board!vars
BY DEF Shown, Board!Next, Board!Change

\* Opening, leaving, polling and losing an answer: the page shows what it showed
\* or begins to wait.
LEMMA ScreenOnBoard ==
  ASSUME IInv, \/ \E anew, aged \in BOOLEAN : Open(anew, aged)
               \/ Leave \/ DismissMenu \/ Poll \/ ListLost
               \/ \E t \in Tickets : ToggleMenu(t)
  PROVE  [Board!Next]_Board!vars
<1>1. list \in Entry(Data)
  BY DEF IInv, TypeOK, Data
<1>2. UNCHANGED <<log, acked, edits>>
  BY DEF Open, Leave, DismissMenu, Poll, ListLost, ToggleMenu, exchange
<1>3. Pending' = Pending
  BY <1>2 DEF Pending
<1>4. list' = list \/ list'.fetch = Asked \/ list'.failed
  BY <1>1 DEF Open, Leave, DismissMenu, Poll, ListLost, ToggleMenu, exchange, Mount, Ask,
              GiveUp, Entry
<1>5. Shown' = Shown \/ Shown' = NoData
  BY <1>3, <1>4 DEF Shown, AtRest
<1> QED BY <1>2, <1>5, BoardQuiet DEF Nothing, Doubts

\* The answer of the list tells the page of rows that it may show at once.
LEMMA ListOnBoard ==
  ASSUME IInv, IInv', ServerLists \/ ListArrives
  PROVE  [Board!Next]_Board!vars
<1>1. CASE ServerLists
  <2>1. list.fetch # Idle /\ list'.fetch # Idle /\ UNCHANGED <<log, acked>>
    BY <1>1 DEF ServerLists, Answer, IInv, TypeOK, Entry
  <2>2. Shown = NoData /\ Shown' = NoData
    BY <2>1 DEF Shown, AtRest
  <2> QED BY <2>1, <2>2, BoardQuiet DEF Nothing
<1>2. CASE ListArrives
  <2>1. /\ list.fetch.data \in Data
        /\ \A t \in Tickets : acked[t] <= list.fetch.data[t].modified
    BY <1>2 DEF IInv, FetchOK, ListArrives
  <2>2. acked' = [t \in Tickets |-> list.fetch.data[t].modified]
        /\ list'.data = list.fetch.data /\ UNCHANGED log
    BY <1>2 DEF ListArrives, Arrive
  <2>3. acked' \in [Tickets -> Nat] /\ list'.data \in Data
    BY <2>1, <2>2 DEF IInv, TypeOK
  <2>4. \A t \in Tickets : acked[t] <= acked'[t] /\ acked'[t] <= Len(log[t])
    BY <2>1, <2>2 DEF IInv, LogOK
  <2>5. CASE ~AtRest'
    <3>1. Shown' = NoData
      BY <2>5 DEF Shown
    <3> QED BY <2>2, <2>3, <2>4, <3>1, BoardLearns
  <2>6. CASE AtRest'
    <3>1. \A t \in Tickets : acked'[t] > 0 /\ list'.data[t] = RowAt(t, acked[t])'
      BY <2>6 DEF IInv, ShownOK, AtRest
    <3>2. list'.data = [t \in Tickets |-> RowAt(t, acked'[t])]
      BY <2>2, <2>3, <3>1 DEF RowAt, Data
    <3>3. Shown' = [t \in Tickets |-> RowAt(t, acked'[t])]
      BY <2>6, <3>2 DEF Shown
    <3> QED BY <2>2, <2>3, <2>4, <3>1, <3>3, BoardLearns
  <2> QED BY <2>5, <2>6
<1> QED BY <1>1, <1>2

\* While a change is under way the page is not at rest; its end makes the page wait.
LEMMA ChangeOnBoard ==
  ASSUME IInv, IInv', NEW e \in DOMAIN edits,
         ServerSaves(e) \/ PatchLost(e) \/ OnSuccess(e) \/ OnError(e)
  PROVE  [Board!Next]_Board!vars
<1>1. edits[e] \in Edit /\ edits \in Seq(Edit)
  BY DEF IInv, TypeOK
<1>2. Pending # {} /\ Shown = NoData
  BY DEF Pending, Shown, AtRest, ServerSaves, PatchLost, OnSuccess, OnError
<1>3. CASE ServerSaves(e)
  <2>1. edits'[e].at = "saved" /\ e \in DOMAIN edits'
    BY <1>1, <1>3 DEF ServerSaves, Edit
  <2>2. Shown' = NoData
    BY <2>1 DEF Pending, Shown, AtRest
  <2>3. edits[e].ticket \in Tickets /\ edits[e].status \in Statuses
    BY <1>1 DEF Edit
  <2> QED BY <1>2, <1>3, <2>2, <2>3, BoardChanges DEF ServerSaves
<1>4. CASE PatchLost(e)
  <2>1. edits'[e].at = "failed" /\ e \in DOMAIN edits'
    BY <1>1, <1>4 DEF PatchLost, Edit
  <2>2. Shown' = NoData
    BY <2>1 DEF Pending, Shown, AtRest
  <2> QED BY <1>4, <2>2, BoardQuiet DEF Doubts, PatchLost
<1>5. CASE OnSuccess(e)
  <2>1. list'.invalid /\ \A t \in Tickets : acked[t] <= acked'[t]
    BY <1>5, OnSuccessKeeps
  <2>2. Shown' = NoData
    BY <2>1 DEF Shown, AtRest
  <2>3. acked' \in [Tickets -> Nat] /\ UNCHANGED log
    BY <1>5 DEF IInv, TypeOK, OnSuccess
  <2>4. \A t \in Tickets : acked'[t] <= Len(log[t])
    BY <2>3 DEF IInv, LogOK
  <2> QED BY <2>1, <2>2, <2>3, <2>4, BoardLearns
<1>6. CASE OnError(e)
  <2>1. list'.invalid
    BY <1>6, OnErrorKeeps
  <2>2. Shown' = NoData
    BY <2>1 DEF Shown, AtRest
  <2> QED BY <1>6, <2>2, BoardQuiet DEF Doubts, OnError
<1> QED BY <1>3, <1>4, <1>5, <1>6

LEMMA ChoiceOnBoard ==
  ASSUME IInv, NEW t \in Tickets, NEW s \in Statuses, ChooseStatus(t, s) \/ OtherWrites(t, s)
  PROVE  [Board!Next]_Board!vars
<1>1. CASE ChooseStatus(t, s)
  <2>1. Pending' # {} \/ UNCHANGED exchange
    BY <1>1, ChooseStatusKeeps
  <2>2. Shown' = NoData \/ Shown' = Shown
    BY <2>1 DEF Shown, AtRest, Pending, exchange
  <2> QED BY <1>1, <2>2, BoardQuiet DEF ChooseStatus, Nothing, Doubts
<1>2. CASE OtherWrites(t, s)
  <2>1. Shown' = Shown
    BY <1>2 DEF OtherWrites, exchange, Shown, AtRest, Pending
  <2> QED BY <1>2, <2>1, BoardChanges DEF OtherWrites
<1> QED BY <1>1, <1>2

LEMMA NextOnBoard == IInv /\ IInv' /\ [Next]_vars => [Board!Next]_Board!vars
<1> SUFFICES ASSUME IInv, IInv', [Next]_vars PROVE [Board!Next]_Board!vars
  OBVIOUS
<1>1. CASE Operator
  BY <1>1, ScreenOnBoard, ChoiceOnBoard DEF Operator
<1>2. CASE Poll \/ Server \/ ListArrives
  BY <1>2, ScreenOnBoard, ListOnBoard, ChangeOnBoard DEF Server
<1>3. CASE Settle \/ Lost
  BY <1>3, ScreenOnBoard, ChangeOnBoard DEF Settle, Lost
<1>4. CASE \E t \in Tickets, s \in Statuses : OtherWrites(t, s)
  BY <1>4, ChoiceOnBoard
<1>5. CASE UNCHANGED vars
  <2>1. Nothing
    BY <1>5 DEF vars, exchange, Nothing, Shown, AtRest, Pending
  <2> QED BY <2>1, BoardQuiet
<1> QED BY <1>1, <1>2, <1>3, <1>4, <1>5 DEF Next

LEMMA InitOnBoard == Init => Board!Init
BY DEF Init, Empty, AtRest, Board!Init

\* The page implements the board: what it shows at rest are rows the server had,
\* none older than what the page was told before.
THEOREM PageImplementsBoard == Spec => ImplementsBoard
BY InitOnBoard, NextOnBoard, Invariance, PTL DEF Spec, ImplementsBoard, Board!Spec

-----------------------------------------------------------------------------
(* Changes that overlap *)

\* What the changes look like to the editors: only new ones come, and a change
\* that has settled stays so.
Continues ==
  /\ Len(edits') = Len(edits)
  /\ \A e \in DOMAIN edits :
       /\ edits'[e].ticket = edits[e].ticket
       /\ edits'[e].visit = edits[e].visit
       /\ edits[e].at = "settled" => edits'[e].at = "settled"

LEMMA ContinuesKeeps ==
  ASSUME TypeOK, TypeOK', OverlapInv, Continues, visit' >= visit,
         \A t \in menu' : ~IsPending(t)
  PROVE  OverlapInv'
<1>1. edits \in Seq(Edit) /\ edits' \in Seq(Edit)
  BY DEF TypeOK
<1>2. Len(edits') = Len(edits) /\ DOMAIN edits' = DOMAIN edits /\ DOMAIN edits = 1..Len(edits)
  BY <1>1 DEF Continues
<1>3. visit \in Nat /\ visit' \in Nat
  BY BoundsAssumption DEF TypeOK
<1>4. ASSUME NEW e \in DOMAIN edits
      PROVE  /\ edits[e].visit \in Nat /\ edits[e].visit <= visit
             /\ edits'[e].visit = edits[e].visit /\ edits'[e].ticket = edits[e].ticket
             /\ edits[e].at = "settled" => edits'[e].at = "settled"
  <2>1. edits[e] \in Edit
    BY <1>1
  <2>2. edits[e].visit \in Nat
    BY <2>1 DEF Edit
  <2>3. edits[e].visit <= visit
    BY DEF OverlapInv, VisitsOK
  <2>4. /\ edits'[e].visit = edits[e].visit /\ edits'[e].ticket = edits[e].ticket
        /\ edits[e].at = "settled" => edits'[e].at = "settled"
    BY DEF Continues
  <2> QED BY <2>2, <2>3, <2>4
<1>5. VisitsOK'
  <2>1. \A e \in DOMAIN edits : edits'[e].visit <= visit'
    BY <1>3, <1>4
  <2>2. \A d, e \in DOMAIN edits : d < e => edits'[d].visit <= edits'[e].visit
    BY <1>4 DEF OverlapInv, VisitsOK
  <2> QED BY <1>2, <2>1, <2>2 DEF VisitsOK
<1>6. ASSUME NEW d \in Pending', NEW e \in DOMAIN edits', d < e,
             edits'[d].ticket = edits'[e].ticket, edits'[d].visit = edits'[e].visit
      PROVE  \E between \in (d + 1)..(e - 1) : edits'[between].ticket # edits'[d].ticket
  <2>1. d \in DOMAIN edits /\ d \in Pending /\ e \in DOMAIN edits
    BY <1>2, <1>4, <1>6 DEF Pending
  <2>2. PICK b \in (d + 1)..(e - 1) : edits[b].ticket # edits[d].ticket
    BY <1>4, <1>6, <2>1 DEF OverlapInv, OverlapsOK
  <2>3. b \in DOMAIN edits
    BY <1>1, <1>2, <2>1
  <2> QED BY <1>4, <2>1, <2>2, <2>3
<1>7. OverlapsOK'
  BY <1>6 DEF OverlapsOK
<1>8. MenusOK'
  <2> SUFFICES ASSUME NEW t \in menu', IsPending(t)' PROVE FALSE
    BY DEF MenusOK
  <2> DEFINE n == Len(edits)
  <2>1. edits' # <<>> /\ edits'[n].visit = visit' /\ edits'[n].at # "settled" /\ edits'[n].ticket = t
    BY <1>2 DEF IsPending
  <2>2. n \in DOMAIN edits /\ edits # <<>>
    BY <1>1, <1>2, <2>1
  <2>3. edits[n].visit = visit' /\ edits[n].at # "settled" /\ edits[n].ticket = t
    BY <1>4, <2>1, <2>2
  <2>4. visit' = visit
    BY <1>3, <1>4, <2>2, <2>3
  <2>5. IsPending(t)
    BY <2>2, <2>3, <2>4 DEF IsPending
  <2> QED BY <2>5
<1> QED BY <1>5, <1>7, <1>8 DEF OverlapInv

\* A new change: the one before it is of another ticket, has settled, or was made
\* before the page was built anew.
LEMMA MutateOverlaps ==
  ASSUME TypeOK, TypeOK', OverlapInv, NEW t \in Tickets, NEW s \in Statuses,
         t \in menu, Mutate(t, s), UNCHANGED visit, menu' = {}
  PROVE  OverlapInv'
<1> DEFINE n == Len(edits)
<1>1. edits \in Seq(Edit) /\ n \in Nat /\ visit \in Nat
  BY BoundsAssumption DEF TypeOK
<1>2. PICK x : edits' = Append(edits, x) /\ x.ticket = t /\ x.visit = visit
  BY DEF Mutate
<1>3. /\ Len(edits') = n + 1 /\ DOMAIN edits' = 1..(n + 1) /\ DOMAIN edits = 1..n
      /\ edits'[n + 1].ticket = t /\ edits'[n + 1].visit = visit
      /\ \A e \in DOMAIN edits : edits'[e] = edits[e]
  <2>1. edits' \in Seq(Edit)
    BY DEF TypeOK
  <2>2. Len(edits') = n + 1 /\ edits'[n + 1] = x /\ \A e \in 1..n : edits'[e] = edits[e]
    BY <1>1, <1>2
  <2> QED BY <1>1, <1>2, <2>1, <2>2
<1>4. ASSUME NEW e \in DOMAIN edits PROVE edits[e].visit \in Nat
  <2>1. edits[e] \in Edit
    BY <1>1
  <2> QED BY <2>1 DEF Edit
<1>5. VisitsOK'
  BY <1>1, <1>3, <1>4 DEF OverlapInv, VisitsOK
<1>6. MenusOK'
  BY DEF MenusOK
<1>7. ~IsPending(t)
  BY DEF OverlapInv, MenusOK
<1>8. ASSUME NEW d \in Pending', NEW e \in DOMAIN edits', d < e,
             edits'[d].ticket = edits'[e].ticket, edits'[d].visit = edits'[e].visit
      PROVE  \E between \in (d + 1)..(e - 1) : edits'[between].ticket # edits'[d].ticket
  <2>1. d \in Nat /\ d \in 1..n /\ edits'[d] = edits[d] /\ d \in Pending
    BY <1>1, <1>3, <1>8 DEF Pending
  <2>2. CASE e \in 1..n
    <3>1. edits'[e] = edits[e]
      BY <1>3, <2>2
    <3>2. PICK b \in (d + 1)..(e - 1) : edits[b].ticket # edits[d].ticket
      BY <1>3, <1>8, <2>1, <2>2, <3>1 DEF OverlapInv, OverlapsOK
    <3>3. b \in DOMAIN edits
      BY <1>3, <2>1, <2>2
    <3> QED BY <1>3, <2>1, <3>2, <3>3
  <2>3. CASE e = n + 1
    <3>1. n >= 1 /\ n \in DOMAIN edits /\ edits # <<>> /\ edits'[n] = edits[n]
      BY <1>1, <1>3, <2>1
    <3>2. edits[d].ticket = t /\ edits[d].visit = visit
      BY <1>3, <1>8, <2>1, <2>3
    <3>3. CASE edits[n].ticket # t
      <4>1. d # n
        BY <3>2, <3>3
      <4>2. n \in (d + 1)..(e - 1)
        BY <1>1, <2>1, <2>3, <4>1
      <4> QED BY <2>1, <3>1, <3>2, <3>3, <4>2
    <3>4. CASE edits[n].ticket = t
      <4>1. edits[n].visit # visit \/ edits[n].at = "settled"
        BY <1>7, <3>1, <3>4 DEF IsPending
      <4>2. d # n
        BY <2>1, <3>2, <4>1 DEF Pending
      <4>3. d < n
        BY <1>1, <2>1, <4>2
      <4>4. edits[n].visit = visit
        BY <1>1, <1>3, <1>4, <2>1, <3>1, <3>2, <4>3 DEF OverlapInv, VisitsOK
      <4>5. PICK b \in (d + 1)..(n - 1) : edits[b].ticket # edits[d].ticket
        BY <2>1, <3>1, <3>2, <3>4, <4>3, <4>4 DEF OverlapInv, OverlapsOK
      <4>6. b \in DOMAIN edits /\ b \in (d + 1)..(e - 1)
        BY <1>1, <1>3, <2>1, <2>3
      <4> QED BY <1>3, <2>1, <4>5, <4>6
    <3> QED BY <3>3, <3>4
  <2> QED BY <1>1, <1>3, <2>2, <2>3
<1>9. OverlapsOK'
  BY <1>8 DEF OverlapsOK
<1> QED BY <1>5, <1>6, <1>9 DEF OverlapInv

LEMMA NextOverlaps == TypeOK /\ TypeOK' /\ OverlapInv /\ [Next]_vars => OverlapInv'
<1> SUFFICES ASSUME TypeOK, TypeOK', OverlapInv, [Next]_vars PROVE OverlapInv'
  OBVIOUS
<1>1. edits \in Seq(Edit) /\ visit \in Nat
  BY BoundsAssumption DEF TypeOK
<1>2. ASSUME UNCHANGED edits, visit' \in {visit, visit + 1},
             \A t \in menu' : t \in menu \/ ~IsPending(t)
      PROVE  OverlapInv'
  BY <1>1, <1>2, ContinuesKeeps DEF Continues, OverlapInv, MenusOK
<1>3. ASSUME NEW e \in DOMAIN edits, ServerSaves(e) \/ OnSuccess(e) \/ OnError(e) \/ PatchLost(e)
      PROVE  OverlapInv'
  <2>1. edits[e] \in Edit /\ UNCHANGED screen
    BY <1>1, <1>3 DEF ServerSaves, OnSuccess, OnError, PatchLost
  <2>2. edits[e].at # "settled"
    BY <1>3 DEF ServerSaves, OnSuccess, OnError, PatchLost
  <2>3. \E at, r : edits' = [edits EXCEPT ![e].at = at, ![e].reply = r]
    <3>1. CASE ServerSaves(e)
      BY <3>1 DEF ServerSaves
    <3>2. CASE OnSuccess(e) \/ OnError(e) \/ PatchLost(e)
      <4>1. PICK at : edits' = [edits EXCEPT ![e].at = at]
        BY <3>2 DEF OnSuccess, OnError, PatchLost
      <4>2. [edits[e] EXCEPT !.at = at] = [edits[e] EXCEPT !.at = at, !.reply = edits[e].reply]
        BY <2>1 DEF Edit
      <4>3. edits' = [edits EXCEPT ![e].at = at, ![e].reply = edits[e].reply]
        BY <1>1, <4>1, <4>2
      <4> QED BY <4>3
    <3> QED BY <1>3, <3>1, <3>2
  <2>4. /\ Len(edits') = Len(edits)
        /\ edits'[e].ticket = edits[e].ticket /\ edits'[e].visit = edits[e].visit
        /\ \A d \in DOMAIN edits : d # e => edits'[d] = edits[d]
    <3>1. PICK at, r : edits' = [edits EXCEPT ![e].at = at, ![e].reply = r]
      BY <2>3
    <3> QED BY <1>1, <2>1, <3>1 DEF Edit
  <2>5. Continues
    BY <2>2, <2>4 DEF Continues
  <2> QED BY <1>1, <2>1, <2>5, ContinuesKeeps DEF screen, OverlapInv, MenusOK
<1>4. ASSUME NEW t \in Tickets, NEW s \in Statuses, ChooseStatus(t, s) PROVE OverlapInv'
  <2>1. t \in menu /\ menu' = {} /\ UNCHANGED visit /\ (Mutate(t, s) \/ UNCHANGED exchange)
    BY <1>4 DEF ChooseStatus
  <2> QED BY <1>2, <2>1, MutateOverlaps DEF exchange
<1>5. CASE Operator
  <2>1. ASSUME NEW anew \in BOOLEAN, NEW aged \in BOOLEAN, Open(anew, aged) PROVE OverlapInv'
    BY <1>2, <2>1 DEF Open
  <2>2. CASE Leave \/ DismissMenu
    BY <1>2, <2>2 DEF Leave, DismissMenu, exchange
  <2>3. ASSUME NEW t \in Tickets, ToggleMenu(t) PROVE OverlapInv'
    BY <1>2, <2>3 DEF ToggleMenu, exchange
  <2> QED BY <1>4, <1>5, <2>1, <2>2, <2>3 DEF Operator
<1>6. CASE Poll \/ Server \/ ListArrives
  BY <1>2, <1>3, <1>6 DEF Poll, Server, ServerLists, ListArrives, screen
<1>7. CASE Settle \/ Lost
  BY <1>2, <1>3, <1>7 DEF Settle, Lost, ListLost, screen
<1>8. CASE \E t \in Tickets, s \in Statuses : OtherWrites(t, s)
  BY <1>2, <1>8 DEF OtherWrites, exchange, screen
<1>9. CASE UNCHANGED vars
  BY <1>2, <1>9 DEF vars, exchange, screen
<1> QED BY <1>5, <1>6, <1>7, <1>8, <1>9 DEF Next

\* Two changes of one ticket overlap only with a change of another in between, or
\* when the page was built anew, however many changes there are.
THEOREM OverlapsExplained == Spec => []OverlapNeedsAnother
<1>1. Init => OverlapInv
  BY DEF Init, OverlapInv, MenusOK, VisitsOK, OverlapsOK, Pending
<1>2. OverlapInv => OverlapNeedsAnother
  BY DEF OverlapInv, OverlapsOK, OverlapNeedsAnother, Pending
<1> QED BY <1>1, <1>2, NextOverlaps, TypeCorrect, PTL DEF Spec

-----------------------------------------------------------------------------
(* The notes of a ticket, on the same page *)

\* Induction over the numbers: no number is the least that S lacks.
LEMMA Induction ==
  ASSUME NEW S, 0 \in S, \A n \in Nat : n \in S => n + 1 \in S
  PROVE  Nat \subseteq S
<1> SUFFICES ASSUME NEW m \in Nat, m \notin S PROVE FALSE
  OBVIOUS
<1> DEFINE Missed == {0..n : n \in Nat \ S}
<1>1. Missed \subseteq FiniteSubsetsOf(Nat)
  <2> SUFFICES ASSUME NEW n \in Nat PROVE 0..n \in FiniteSubsetsOf(Nat)
    OBVIOUS
  <2>1. IsFiniteSet(0..n)
    BY FS_Interval
  <2>2. QED
    BY <2>1 DEF FiniteSubsetsOf
<1>2. Missed # {}
  OBVIOUS
<1>3. PICK x \in Missed : \A y \in Missed : <<y, x>> \notin StrictSubsetOrdering(Nat)
  <2>1. IsWellFoundedOn(StrictSubsetOrdering(Nat), FiniteSubsetsOf(Nat))
    BY FS_StrictSubsetOrderingWellFounded
  <2> HIDE DEF Missed
  <2>2. QED
    BY <2>1, <1>1, <1>2, WFMin
<1>4. PICK n \in Nat \ S : x = 0..n
  BY <1>3
<1>5. n - 1 \in Nat \ S
  BY <1>4
<1>6. 0..(n - 1) \in Missed
  BY <1>5
<1>7. <<0..(n - 1), 0..n>> \in StrictSubsetOrdering(Nat)
  BY <1>5 DEF StrictSubsetOrdering
<1>8. QED
  BY <1>3, <1>4, <1>6, <1>7

\* What OnSuccess keeps of a list is a list of notes: by induction over its places
\* the function that filters it exists, and is a list at every place.
LEMMA RealNotesTyped ==
  ASSUME NEW s \in Seq(Int)
  PROVE  RealNotes(s) \in Seq(Int)
<1> DEFINE Kept(g, i) == IF i = 0 THEN <<>>
                         ELSE IF s[i] > 0 THEN Append(g[i - 1], s[i]) ELSE g[i - 1]
           Until(n, g) == g \in [0..n -> Seq(Int)] /\ \A i \in 0..n : g[i] = Kept(g, i)
           f == CHOOSE f : f = [i \in 0..Len(s) |-> Kept(f, i)]
<1>1. \E g : Until(Len(s), g)
  <2> DEFINE Done == {n \in Nat : n <= Len(s) => \E g : Until(n, g)}
  <2>1. 0 \in Done
    <3> DEFINE g == [i \in 0..0 |-> <<>>]
    <3>1. g \in [0..0 -> Seq(Int)]
      OBVIOUS
    <3>2. \A i \in 0..0 : i = 0 /\ g[i] = <<>>
      OBVIOUS
    <3> HIDE DEF g
    <3>3. QED
      BY <3>1, <3>2
  <2>2. ASSUME NEW n \in Nat, n \in Done PROVE n + 1 \in Done
    <3> SUFFICES ASSUME n + 1 <= Len(s) PROVE \E g : Until(n + 1, g)
      OBVIOUS
    <3>1. PICK g : Until(n, g)
      <4> HIDE DEF Until
      <4>1. QED
        BY <2>2
    <3> DEFINE h == [i \in 0..(n + 1) |-> IF i = n + 1 THEN Kept(g, n + 1) ELSE g[i]]
    <3>2. Kept(g, n + 1) \in Seq(Int)
      BY <3>1
    <3>3. h \in [0..(n + 1) -> Seq(Int)]
      <4> HIDE DEF Kept
      <4>1. QED
        BY <3>1, <3>2
    <3>4. \A i \in 0..(n + 1) : h[i] = Kept(h, i)
      <4> SUFFICES ASSUME NEW i \in 0..(n + 1) PROVE h[i] = Kept(h, i)
        OBVIOUS
      <4>1. i # 0 => h[i - 1] = g[i - 1]
        OBVIOUS
      <4>2. i # n + 1 => h[i] = g[i] /\ g[i] = Kept(g, i)
        <5> SUFFICES ASSUME i # n + 1 PROVE h[i] = g[i] /\ g[i] = Kept(g, i)
          OBVIOUS
        <5>1. i \in 0..n
          OBVIOUS
        <5>2. h[i] = g[i]
          OBVIOUS
        <5>3. QED
          BY <3>1, <5>1, <5>2
      <4>3. h[n + 1] = Kept(g, n + 1)
        OBVIOUS
      <4> HIDE DEF h
      <4>4. QED
        BY <4>1, <4>2, <4>3
    <3>5. QED
      BY <3>3, <3>4
  <2>3. Nat \subseteq Done
    <3> HIDE DEF Done
    <3>1. QED
      BY <2>1, <2>2, Induction
  <2>4. QED
    <3> HIDE DEF Until
    <3>1. QED
      BY <2>3
<1>2. f = [i \in 0..Len(s) |-> Kept(f, i)]
  <2>1. PICK g : Until(Len(s), g)
    BY <1>1
  <2>2. g = [i \in 0..Len(s) |-> Kept(g, i)]
    BY <2>1
  <2>3. QED
    BY <2>2
<1>3. \A i \in 0..Len(s) : f[i] \in Seq(Int)
  <2> HIDE DEF f
  <2> DEFINE Typed == {n \in Nat : n <= Len(s) => f[n] \in Seq(Int)}
  <2>1. 0 \in Typed
    BY <1>2
  <2>2. ASSUME NEW n \in Nat, n \in Typed PROVE n + 1 \in Typed
    <3> SUFFICES ASSUME n + 1 <= Len(s) PROVE f[n + 1] \in Seq(Int)
      OBVIOUS
    <3>1. f[n] \in Seq(Int)
      BY <2>2
    <3>2. n + 1 \in 0..Len(s) /\ n + 1 # 0 /\ (n + 1) - 1 = n /\ s[n + 1] \in Int
      OBVIOUS
    <3>3. f[n + 1] = Kept(f, n + 1)
      <4> HIDE DEF Kept
      <4>1. QED
        BY <1>2, <3>2
    <3>4. QED
      BY <3>1, <3>2, <3>3
  <2>3. Nat \subseteq Typed
    <3> HIDE DEF Typed
    <3>1. QED
      BY <2>1, <2>2, Induction
  <2>4. QED
    BY <2>3
<1>4. RealNotes(s) = f[Len(s)]
  BY DEF RealNotes
<1>5. QED
  BY <1>3, <1>4

\* A list that the database had, of all notes up to some place.
ListOK(d) == d \in NoteLists /\ Len(d) <= stored /\ \A i \in 1..Len(d) : d[i] = i

\* The answer on its way is a list that the database had;
NotesFetchOK == notes.fetch.at = "answered" => ListOK(notes.fetch.data)
\* so is what the popup shows when no post is under way and nothing marks it as stale.
NotesShownOK ==
  PendingPosts = {} /\ ~notes.invalid /\ notes.data # NoData =>
    ListOK(notes.data) /\ notes.data # <<>>

\* A saved note is in the database, and a note is watched only by an open popup.
PostsOK ==
  \A k \in DOMAIN posts :
    /\ posts[k].at \in {"saved", "kept"} => posts[k].id \in 1..stored
    /\ posts[k].watched => Watching
\* After a first post the entry holds a list, so that the end of a post abandons
\* the fetch under way (invalidateQueries spares the first fetch of an empty entry).
KnownOK == posts # <<>> => notes.data # NoData

\* A watched note is in the answer on its way and in the list at rest.
KeptOK ==
  \A k \in DOMAIN posts : posts[k].at = "kept" /\ posts[k].watched =>
    /\ notes.fetch.at = "answered" => posts[k].id <= Len(notes.fetch.data)
    /\ PendingPosts = {} /\ ~notes.invalid => posts[k].id <= Len(notes.data)

\* The inductive invariant of the notes.
NotesInv == NotesTypeOK /\ NotesFetchOK /\ NotesShownOK /\ PostsOK /\ KnownOK /\ KeptOK

USE DEF NoteLists

\* The popup is told of nothing: the data stay, the mark stays, and a fetch ends
\* or begins.
NotesWait ==
  /\ notes' \in Entry(NoteLists)
  /\ notes'.data = notes.data
  /\ notes.invalid => notes'.invalid
  /\ notes'.fetch \in {notes.fetch, Idle, Asked}

LEMMA NotesWaiting ==
  ASSUME NotesInv, NEW b \in BOOLEAN,
         notes' \in {notes, Ask(notes), GiveUp(notes), Mount(notes, b)}
  PROVE  NotesWait
<1>1. notes \in Entry(NoteLists)
  BY DEF NotesInv, NotesTypeOK, NoteLists
<1>2. notes' \in Entry(NoteLists)
  BY <1>1, EntryAsked
<1>3. QED
  BY <1>1, <1>2 DEF NotesWait, Entry, Fetch, Ask, GiveUp, Mount

\* While the popup is told of nothing and no post moves, the invariant is kept.
LEMMA NotesWaitKeeps ==
  ASSUME NotesInv, NotesWait, UNCHANGED <<stored, posts>>, Watching => Watching'
  PROVE  NotesFetchOK' /\ NotesShownOK' /\ PostsOK' /\ KnownOK' /\ KeptOK'
<1>1. PendingPosts' = PendingPosts
  BY DEF PendingPosts
<1>2. notes'.fetch.at = "answered" => notes'.fetch = notes.fetch
  BY DEF NotesWait
<1>3. QED
  BY <1>1, <1>2 DEF NotesInv, NotesWait, NotesFetchOK, NotesShownOK, PostsOK, KnownOK, KeptOK, ListOK

\* So it is when the popup closes: then no post is watched any more.
LEMMA NotesUnwatchKeeps ==
  ASSUME NotesInv, Unwatch, UNCHANGED <<stored, notes>>
  PROVE  /\ NotesFetchOK' /\ NotesShownOK' /\ PostsOK' /\ KnownOK' /\ KeptOK'
         /\ posts' \in Seq(Post)
<1>1. posts \in Seq(Post)
  BY DEF NotesInv, NotesTypeOK
<1>2. \A k \in DOMAIN posts : posts[k] \in Post
  BY <1>1
<1>3. posts' \in Seq(Post) /\ DOMAIN posts' = DOMAIN posts
  <2>1. \A k \in DOMAIN posts : [posts[k] EXCEPT !.watched = FALSE] \in Post
    BY <1>2 DEF Post
  <2>2. QED
    BY <1>1, <2>1 DEF Unwatch
<1>4. \A k \in DOMAIN posts : /\ posts'[k].at = posts[k].at /\ posts'[k].id = posts[k].id
                              /\ posts'[k].watched = FALSE
  BY <1>2 DEF Unwatch, Post
<1>5. PendingPosts' = PendingPosts
  BY <1>3, <1>4 DEF PendingPosts
<1>6. posts' # <<>> => posts # <<>>
  BY <1>1, <1>3
<1>7. QED
  BY <1>3, <1>4, <1>5, <1>6 DEF NotesInv, NotesFetchOK, NotesShownOK, PostsOK, KnownOK, KeptOK, ListOK

\* The row comes or goes, the popup opens or closes.
LEMMA RowOrPopup ==
  ASSUME NotesInv, NEW b \in BOOLEAN,
         \/ RowComes(b) \/ RowGoes(b) \/ OpenNotes(b)
         \/ CloseNotes \/ TypeDraft
  PROVE  NotesInv'
<1> USE DEF notesVars, popup, notesBounds, Watching, Watching
<1>1. ASSUME RowGoes(b) \/ CloseNotes PROVE NotesInv'
  <2>1. Unwatch /\ UNCHANGED <<stored, notes>>
    BY <1>1 DEF RowGoes, CloseNotes
  <2>2. NotesTypeOK'
    BY <1>1, <2>1, NotesUnwatchKeeps DEF NotesInv, NotesTypeOK, RowGoes, CloseNotes
  <2>3. QED
    BY <2>1, <2>2, NotesUnwatchKeeps DEF NotesInv
<1>2. ASSUME RowComes(b) \/ OpenNotes(b) \/ TypeDraft PROVE NotesInv'
  <2>1. NotesWait
    BY <1>2, NotesWaiting DEF RowComes, OpenNotes, TypeDraft
  <2>2. UNCHANGED <<stored, posts>> /\ (Watching => Watching')
    BY <1>2 DEF RowComes, OpenNotes, TypeDraft
  <2>3. NotesTypeOK'
    <3>1. mount \in 0..MaxRows /\ NotesTypeOK
      BY DEF NotesInv, NotesTypeOK
    <3>2. mount' \in 0..MaxRows
      BY <1>2, <3>1, NotesBoundsAssumption DEF RowComes, OpenNotes, TypeDraft
    <3>3. open' \in BOOLEAN /\ onScreen' \in BOOLEAN /\ draft' \in BOOLEAN
      BY <1>2, <3>1, Zenon DEF NotesTypeOK, RowComes, OpenNotes, TypeDraft
    <3>4. UNCHANGED <<noted, lost>>
      BY <1>2 DEF RowComes, OpenNotes, TypeDraft
    <3>5. QED
      BY <2>1, <2>2, <3>1, <3>2, <3>3, <3>4 DEF NotesTypeOK, NotesWait, NoteLists
  <2>4. QED
    BY <2>1, <2>2, <2>3, NotesWaitKeeps DEF NotesInv
<1>3. QED
  BY <1>1, <1>2

\* A fetch is answered, arrives, is refused or lost.
LEMMA ListFetched ==
  ASSUME NotesInv,
         ServerListsNotes \/ NotesRefused \/ NotesLost \/ NotesArrive
  PROVE  NotesInv'
<1> USE DEF notesVars, popup, notesBounds, Watching, Watching
<1>1. notes \in Entry(NoteLists) /\ stored \in Nat
  BY DEF NotesInv, NotesTypeOK, NoteLists
<1>2. ASSUME NotesRefused \/ NotesLost PROVE NotesInv'
  <2>1. NotesWait
    BY <1>2, NotesWaiting DEF NotesRefused, NotesLost
  <2>2. UNCHANGED <<stored, posts, onScreen, open>>
    BY <1>2 DEF NotesRefused, NotesLost
  <2>3. NotesTypeOK'
    BY <1>2, <2>1, <2>2, NotesBoundsAssumption
    DEF NotesInv, NotesTypeOK, NotesWait, NotesRefused, NotesLost, NoteLists
  <2>4. QED
    BY <2>1, <2>2, <2>3, NotesWaitKeeps DEF NotesInv
<1>3. ASSUME ServerListsNotes PROVE NotesInv'
  <2>1. /\ notes'.fetch = [at |-> "answered", data |-> Stored]
        /\ notes'.data = notes.data /\ notes'.invalid = notes.invalid
    BY <1>1, <1>3 DEF ServerListsNotes, Answer, Entry
  <2>2. Stored \in NoteLists /\ Len(Stored) = stored /\ ListOK(Stored)
    BY <1>1 DEF Stored, ListOK
  <2>3. notes' \in Entry(NoteLists)
    BY <1>1, <1>3, <2>2, EntryAnswered DEF ServerListsNotes
  <2>4. UNCHANGED <<stored, posts, onScreen, open>>
    BY <1>3 DEF ServerListsNotes
  <2>5. NotesTypeOK'
    BY <1>3, <2>3 DEF NotesInv, NotesTypeOK, ServerListsNotes, NoteLists
  <2>6. NotesFetchOK'
    BY <2>1, <2>2, <2>4 DEF NotesFetchOK, ListOK
  <2>7. PendingPosts' = PendingPosts
    BY <2>4 DEF PendingPosts
  <2>8. KeptOK'
    BY <2>1, <2>2, <2>4, <2>7 DEF NotesInv, KeptOK, PostsOK
  <2>9. QED
    BY <2>1, <2>4, <2>5, <2>6, <2>7, <2>8 DEF NotesInv, NotesShownOK, PostsOK, KnownOK, ListOK
<1>4. ASSUME NotesArrive PROVE NotesInv'
  <2>1. /\ notes'.fetch.at = "idle" /\ notes'.data = notes.fetch.data
        /\ notes.fetch.data # <<>>
    BY <1>1, <1>4 DEF NotesArrive, Arrive, Entry
  <2>2. ListOK(notes.fetch.data)
    BY <1>4 DEF NotesInv, NotesFetchOK, NotesArrive
  <2>3. notes' \in Entry(NoteLists) /\ notes.fetch.data # NoData
    BY <1>1, <1>4, <2>2, EntryAnswered, NoNotesAssumption DEF NotesArrive, ListOK
  <2>4. UNCHANGED <<stored, posts, onScreen, open>>
    BY <1>4 DEF NotesArrive
  <2>5. NotesTypeOK'
    BY <1>4, <2>3 DEF NotesInv, NotesTypeOK, NotesArrive, NoteLists
  <2>6. NotesShownOK' /\ NotesFetchOK'
    BY <2>1, <2>2, <2>4 DEF NotesShownOK, ListOK, NotesFetchOK
  <2>7. KeptOK'
    BY <1>4, <2>1, <2>4 DEF NotesInv, KeptOK, NotesArrive
  <2>8. QED
    BY <2>1, <2>3, <2>4, <2>5, <2>6, <2>7 DEF NotesInv, PostsOK, KnownOK
<1>5. QED
  BY <1>2, <1>3, <1>4

\* A post begins: it is under way, and the fetch before it is abandoned.
LEMMA NoteSubmitted ==
  ASSUME NotesInv, Submit
  PROVE  NotesInv'
<1> USE DEF notesVars, popup, notesBounds, Watching, Watching
<1> DEFINE current == IF notes.data = NoData THEN <<>> ELSE notes.data
           longer == Append(current, -(Len(posts) + 1))
           post == [at |-> "sent", id |-> 0, before |-> notes.data, row |-> mount, watched |-> TRUE]
<1>1. notes \in Entry(NoteLists) /\ stored \in Nat /\ posts \in Seq(Post)
  BY DEF NotesInv, NotesTypeOK, NoteLists
<1>2. longer \in NoteLists /\ longer # NoData
  <2>1. current \in NoteLists
    BY <1>1 DEF Entry
  <2> HIDE DEF current
  <2>2. longer \in NoteLists
    BY <1>1, <2>1
  <2>3. QED
    BY <2>2, NoNotesAssumption
<1>3. notes' = SetQueryData(CancelQueries(notes), longer) /\ posts' = Append(posts, post)
  BY DEF Submit
<1> HIDE DEF longer
<1>4. /\ notes' \in Entry(NoteLists)
      /\ notes'.data = longer /\ notes'.fetch.at = "idle"
  <2>1. CancelQueries(notes) \in Entry(NoteLists)
    BY <1>1, EntryAsked
  <2>2. notes' \in Entry(NoteLists)
    BY <1>2, <1>3, <2>1, EntryAnswered
  <2>3. QED
    BY <1>1, <1>2, <1>3, <2>2 DEF Entry, CancelQueries, SetQueryData
<1>5. post \in Post
  <2>1. mount \in Nat /\ notes.data \in NoteLists \cup {NoData}
    BY <1>1, NoNotesAssumption DEF NotesInv, NotesTypeOK, Entry, NoteLists
  <2>2. QED
    BY <2>1 DEF Post
<1> HIDE DEF post
<1>6. /\ posts' \in Seq(Post) /\ Len(posts') = Len(posts) + 1
      /\ \A k \in DOMAIN posts : k \in DOMAIN posts' /\ posts'[k] = posts[k]
      /\ posts'[Len(posts) + 1] = post
      /\ DOMAIN posts' = DOMAIN posts \cup {Len(posts) + 1}
  BY <1>1, <1>3, <1>5
<1>7. post.at = "sent" /\ post.watched = TRUE
  BY DEF post
<1>8. UNCHANGED <<stored, onScreen, open, mount, draft, noted, lost>> /\ Watching
  BY DEF Submit
<1>9. NotesTypeOK'
  BY <1>4, <1>6, <1>8 DEF NotesInv, NotesTypeOK, NoteLists
<1>10. Len(posts) + 1 \in PendingPosts'
  BY <1>6, <1>7 DEF PendingPosts
<1>11. PostsOK'
  BY <1>6, <1>7, <1>8 DEF NotesInv, PostsOK
<1>12. KeptOK'
  BY <1>4, <1>6, <1>7, <1>10 DEF NotesInv, KeptOK
<1>13. QED
  BY <1>2, <1>4, <1>9, <1>10, <1>11, <1>12 DEF NotesInv, NotesShownOK, KnownOK, NotesFetchOK

\* What a step does to the state of one post.
PostBecomes(k, at, id) ==
  /\ posts' \in Seq(Post) /\ DOMAIN posts' = DOMAIN posts
  /\ \A j \in DOMAIN posts : /\ posts'[j].watched = posts[j].watched
                             /\ j # k => posts'[j] = posts[j]
  /\ posts'[k].at = at /\ posts'[k].id = id

LEMMA PostMoves ==
  ASSUME NotesInv, NEW k \in DOMAIN posts
  PROVE  /\ \A at \in {"failed", "kept", "dropped"} :
              posts' = [posts EXCEPT ![k].at = at] => PostBecomes(k, at, posts[k].id)
         /\ posts' = [posts EXCEPT ![k].at = "saved", ![k].id = stored + 1] =>
              PostBecomes(k, "saved", stored + 1)
         /\ posts[k] \in Post
<1>1. posts \in Seq(Post) /\ stored \in Nat
  BY DEF NotesInv, NotesTypeOK
<1>2. posts[k] \in Post
  BY <1>1
<1>3. ASSUME NEW post \in Post, post.watched = posts[k].watched, posts' = [posts EXCEPT ![k] = post]
      PROVE  PostBecomes(k, post.at, post.id)
  BY <1>1, <1>3 DEF PostBecomes
<1>4. ASSUME NEW at \in {"failed", "kept", "dropped"}, posts' = [posts EXCEPT ![k].at = at]
      PROVE  PostBecomes(k, at, posts[k].id)
  <2> DEFINE post == [posts[k] EXCEPT !.at = at]
  <2>1. post \in Post /\ post.watched = posts[k].watched /\ post.at = at /\ post.id = posts[k].id
    BY <1>2 DEF Post
  <2>2. posts' = [posts EXCEPT ![k] = post]
    BY <1>4
  <2> HIDE DEF post
  <2>3. QED
    BY <1>3, <2>1, <2>2
<1>5. ASSUME posts' = [posts EXCEPT ![k].at = "saved", ![k].id = stored + 1]
      PROVE  PostBecomes(k, "saved", stored + 1)
  <2> DEFINE saved == [posts[k] EXCEPT !.at = "saved"]
             post == [saved EXCEPT !.id = stored + 1]
  <2>1. post \in Post /\ post.watched = posts[k].watched /\ post.at = "saved" /\ post.id = stored + 1
    <3>1. saved \in Post /\ saved.watched = posts[k].watched /\ saved.at = "saved"
      BY <1>2 DEF Post
    <3>2. stored + 1 \in Nat
      BY <1>1
    <3> HIDE DEF saved
    <3>3. QED
      BY <3>1, <3>2 DEF Post
  <2>2. posts' = [posts EXCEPT ![k] = post]
    BY <1>1, <1>2, <1>5
  <2> HIDE DEF post
  <2>3. QED
    BY <1>3, <2>1, <2>2
<1>6. QED
  BY <1>2, <1>4, <1>5

\* The database gets a note, a post is saved or lost: the list is not touched.
LEMMA ServerMoves ==
  ASSUME NotesInv,
         \/ OtherNotes
         \/ \E k \in DOMAIN posts : ServerSavesNote(k) \/ PostLost(k)
  PROVE  NotesInv'
<1> USE DEF notesVars, popup, notesBounds, Watching, Watching
<1>1. notes \in Entry(NoteLists) /\ stored \in Nat /\ posts \in Seq(Post)
  BY DEF NotesInv, NotesTypeOK, NoteLists
<1>2. ASSUME OtherNotes PROVE NotesInv'
  <2>1. stored' = stored + 1 /\ UNCHANGED <<notes, posts, open, onScreen, mount, draft>>
    BY <1>2 DEF OtherNotes
  <2>2. NotesTypeOK'
    BY <1>1, <1>2, <2>1, NotesBoundsAssumption DEF NotesInv, NotesTypeOK, OtherNotes
  <2>3. PendingPosts' = PendingPosts
    BY <2>1 DEF PendingPosts
  <2>4. QED
    BY <1>1, <2>1, <2>2, <2>3 DEF NotesInv, NotesFetchOK, NotesShownOK, PostsOK, KnownOK, KeptOK, ListOK
<1>3. ASSUME NEW k \in DOMAIN posts, ServerSavesNote(k) \/ PostLost(k) PROVE NotesInv'
  <2>1. /\ UNCHANGED <<notes, open, onScreen, mount, draft>>
        /\ \/ stored' = stored + 1 /\ PostBecomes(k, "saved", stored + 1) /\ UNCHANGED lost
           \/ stored' = stored /\ PostBecomes(k, "failed", posts[k].id) /\ lost < MaxLost /\ lost' = lost + 1
        /\ posts[k].at \in {"sent", "saved"}
        /\ UNCHANGED noted
    BY <1>3, PostMoves DEF ServerSavesNote, PostLost
  <2>2. NotesTypeOK'
    BY <1>1, <2>1, NotesBoundsAssumption DEF NotesInv, NotesTypeOK, PostBecomes
  <2>3. k \in PendingPosts /\ k \in PendingPosts'
    BY <2>1 DEF PendingPosts, PostBecomes
  <2>4. PostsOK'
    <3>1. stored' >= stored /\ stored' \in Nat
      BY <1>1, <2>1
    <3>2. \A j \in DOMAIN posts' : j \in DOMAIN posts /\ posts'[j].watched = posts[j].watched
                                   /\ (j # k => posts'[j] = posts[j])
      BY <2>1 DEF PostBecomes
    <3>3. posts'[k].at \in {"saved", "kept"} => posts'[k].id \in 1..stored'
      BY <1>1, <2>1 DEF PostBecomes
    <3>4. QED
      BY <1>1, <2>1, <3>1, <3>2, <3>3 DEF NotesInv, PostsOK
  <2>5. KeptOK'
    BY <2>1, <2>3 DEF NotesInv, KeptOK, PostBecomes
  <2>6. NotesFetchOK' /\ NotesShownOK' /\ KnownOK'
    BY <1>1, <2>1, <2>3 DEF NotesInv, NotesFetchOK, NotesShownOK, KnownOK, ListOK
  <2>7. QED
    BY <2>2, <2>4, <2>5, <2>6 DEF NotesInv
<1>4. QED
  BY <1>2, <1>3

\* A post ends: whatever its end puts in the list, the list is marked, and if the
\* popup is open the fetch under way is abandoned for a new one.
LEMMA PostEnds ==
  ASSUME NotesInv, NEW k \in DOMAIN posts, OnPostSuccess(k) \/ OnPostError(k)
  PROVE  NotesInv'
<1> USE DEF notesVars, popup, notesBounds, Watching, Watching
<1>1. notes \in Entry(NoteLists) /\ stored \in Nat /\ posts \in Seq(Post)
  BY DEF NotesInv, NotesTypeOK, NoteLists
<1>2. posts[k] \in Post /\ notes.data # NoData
  <2>1. posts[k] \in Post /\ posts # <<>>
    BY <1>1
  <2>2. QED
    BY <2>1 DEF NotesInv, KnownOK
<1>3. PICK put \in NoteLists \cup {NoData} :
        notes' = InvalidateQueries(SetQueryData(notes, put), Watching)
  <2>1. ASSUME OnPostError(k) PROVE posts[k].before \in NoteLists \cup {NoData}
    BY <1>2 DEF Post, NoteLists
  <2>2. ASSUME OnPostSuccess(k) PROVE Append(RealNotes(notes.data), posts[k].id) \in NoteLists
    <3>1. notes.data \in NoteLists /\ posts[k].id \in Int
      BY <1>1, <1>2 DEF Entry, Post
    <3>2. RealNotes(notes.data) \in NoteLists
      BY <3>1, RealNotesTyped
    <3>3. QED
      BY <3>1, <3>2
  <2>3. QED
    BY <1>2, <2>1, <2>2 DEF OnPostSuccess, OnPostError, OnPostSettled
<1>4. /\ notes' \in Entry(NoteLists)
      /\ notes'.data # NoData /\ notes'.invalid = TRUE
      /\ notes'.fetch = IF Watching THEN Asked ELSE notes.fetch
  <2> DEFINE set == SetQueryData(notes, put)
  <2>1. set \in Entry(NoteLists) /\ set.data # NoData /\ set.fetch = notes.fetch
    BY <1>1, <1>2, EntryAnswered DEF SetQueryData, Entry
  <2>2. Watching \in BOOLEAN
    BY DEF NotesInv, NotesTypeOK
  <2> HIDE DEF set, Watching
  <2>3. notes' \in Entry(NoteLists)
    BY <1>3, <2>1, <2>2, EntryAsked DEF set
  <2>4. notes' = InvalidateQueries(set, Watching)
    BY <1>3 DEF set
  <2>5. QED
    BY <2>1, <2>3, <2>4 DEF InvalidateQueries, Ask, Entry
<1>5. /\ \/ posts[k].at = "saved" /\ PostBecomes(k, "kept", posts[k].id)
         \/ PostBecomes(k, "dropped", posts[k].id)
      /\ UNCHANGED <<stored, open, onScreen, mount, noted, lost>>
      /\ draft' \in BOOLEAN
  <2>1. draft \in BOOLEAN
    BY DEF NotesInv, NotesTypeOK
  <2>2. draft' \in BOOLEAN
    BY <2>1, Zenon DEF OnPostSuccess, OnPostError
  <2>3. QED
    BY <2>2, PostMoves DEF OnPostSuccess, OnPostError
<1>6. NotesTypeOK'
  BY <1>4, <1>5 DEF NotesInv, NotesTypeOK, PostBecomes, NoteLists
<1>7. PostsOK'
  BY <1>5 DEF NotesInv, PostsOK, PostBecomes
<1>8. NotesFetchOK' /\ NotesShownOK' /\ KnownOK'
  BY <1>4, <1>5 DEF NotesInv, NotesFetchOK, NotesShownOK, KnownOK, ListOK
<1>9. KeptOK'
  BY <1>4, <1>5, <1>7 DEF KeptOK, PostsOK
<1>10. QED
  BY <1>6, <1>7, <1>8, <1>9 DEF NotesInv

\* The list, the posts and the answers under way are as NotesInv says, always.
THEOREM NotesInvariance == NotesSpec => []NotesInv
<1>1. NotesInit => NotesInv
  <2> SUFFICES ASSUME NotesInit PROVE NotesInv
    OBVIOUS
  <2>1. NotesTypeOK
    <3>1. notes \in Entry(NoteLists)
      BY DEF NotesInit, Empty, Entry, Fetch
    <3>2. posts \in Seq(Post)
      BY DEF NotesInit
    <3>3. open \in BOOLEAN /\ onScreen \in BOOLEAN /\ draft \in BOOLEAN
      BY Zenon DEF NotesInit
    <3>4. stored \in Nat /\ mount \in 0..MaxRows /\ noted \in 0..MaxOtherNotes /\ lost \in 0..MaxLost
      BY NotesBoundsAssumption DEF NotesInit
    <3>5. QED
      BY <3>1, <3>2, <3>3, <3>4, Zenon DEF NotesTypeOK
  <2>2. QED
    BY <2>1 DEF NotesInit, NotesInv, Empty, NotesFetchOK, NotesShownOK, PostsOK, KnownOK, KeptOK
<1>2. ASSUME NotesInv, [NotesNext]_notesVars PROVE NotesInv'
  <2>1. ASSUME UNCHANGED notesVars PROVE NotesInv'
    BY <1>2, <2>1 DEF notesVars, popup, notesBounds, NotesInv, NotesTypeOK, NotesFetchOK, NotesShownOK,
                      PostsOK, KnownOK, KeptOK, PendingPosts, Watching, ListOK
  <2>2. ASSUME NotesNext PROVE NotesInv'
    BY <1>2, <2>2, RowOrPopup, NoteSubmitted, ListFetched, ServerMoves, PostEnds, Zenon DEF NotesNext
  <2>3. QED
    BY <1>2, <2>1, <2>2
<1>3. QED
  BY <1>1, <1>2, PTL DEF NotesSpec

\* However posts fail, overlap or are overtaken by other notes, the popup at rest
\* shows a list that the database had (useCreateTicketNoteMutation): the end of
\* every post marks the list, and only an answer of the server takes the mark away.
THEOREM NotesAreReal == NotesSpec => []NoPhantomNotes
<1>1. ASSUME NotesInv PROVE NoPhantomNotes
  BY <1>1 DEF NotesInv, NotesShownOK, NoPhantomNotes, NotesAtRest, ListOK
<1>2. QED
  BY <1>1, NotesInvariance, PTL

\* A note saved while its popup stayed open is in the list at rest: the answer that
\* could lack it was abandoned when the post ended (onSettled).
THEOREM SavedNotesAreShown == NotesSpec => []WatchedNotesShown
<1>1. ASSUME NotesInv PROVE WatchedNotesShown
  <2> SUFFICES ASSUME NotesAtRest, NEW k \in DOMAIN posts, posts[k].at = "kept", posts[k].watched
               PROVE  Contains(notes.data, posts[k].id)
    BY DEF WatchedNotesShown
  <2>1. posts[k].id \in 1..stored /\ posts[k].id <= Len(notes.data) /\ ListOK(notes.data)
    BY <1>1 DEF NotesInv, NotesShownOK, PostsOK, KeptOK, NotesAtRest
  <2>2. QED
    BY <2>1 DEF Contains, ListOK
<1>2. QED
  BY <1>1, NotesInvariance, PTL
===============================================================================
