---------------------------- MODULE MCTicketWorkers ----------------------------
(* A small instance of TicketWorkers for TLC: two names that differ in their   *)
(* case only, and a third.  Requests are interchangeable, and so are emails.   *)
EXTENDS TicketWorkers, TLC

MCNames == {"Network Team", "network team", "Server Team"}
MCFold == [n \in MCNames |-> IF n = "Server Team" THEN "server" ELSE "network"]
MCAssignedGroup == [t \in {"TKT0001", "TKT0002"} |-> IF t = "TKT0001" THEN "Network Team" ELSE None]
Symmetry == Permutations(Procs) \cup Permutations(Emails)
=============================================================================
