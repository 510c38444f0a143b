----------------------------- MODULE TicketBoard -----------------------------
(***************************************************************************)
(* What the tickets page promises to an operator, without the exchange of  *)
(* messages that TicketStatus keeps it with: whenever the page is at rest, *)
(* every row it shows is one the server really had, and no row is older    *)
(* than what the page has been told before, be it by a list or by the      *)
(* answer to a change of the operator's own.                               *)
(***************************************************************************)
EXTENDS Naturals, Sequences

CONSTANTS
  Tickets,
  Statuses,
  Unsure    \* shown while the page waits for an answer

VARIABLES
  log,      \* log[t]: the statuses that ticket t has had, the last one is its status
  known,    \* known[t]: the newest entry of log[t] that the page was told of
  shown     \* the rows on the page, or Unsure

vars == <<log, known, shown>>

RowAt(t, n) == [status |-> log[t][n], modified |-> n]

Init ==
  /\ log \in [Tickets -> {<<s>> : s \in Statuses}]
  /\ known = [t \in Tickets |-> 0]
  /\ shown = Unsure

\* Anyone changes a ticket.
Change ==
  /\ \E t \in Tickets, s \in Statuses : log' = [log EXCEPT ![t] = Append(@, s)]
  /\ UNCHANGED <<known, shown>>

\* The page asks for something.
Doubt == shown' = Unsure /\ UNCHANGED <<log, known>>

\* The page is told of some rows: it may wait for others, or show them.
Learn ==
  /\ known' \in [Tickets -> Nat]
  /\ \A t \in Tickets : known[t] <= known'[t] /\ known'[t] <= Len(log[t])
  /\ \/ shown' = Unsure
     \/ /\ \A t \in Tickets : known'[t] > 0
        /\ shown' = [t \in Tickets |-> RowAt(t, known'[t])]
  /\ UNCHANGED log

Next == Change \/ Doubt \/ Learn

Spec == Init /\ [][Next]_vars
==============================================================================
