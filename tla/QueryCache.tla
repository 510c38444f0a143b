------------------------------ MODULE QueryCache ------------------------------
(***************************************************************************)
(* An entry of the cache of TanStack Query 5, the library through which    *)
(* the dashboard reads the API.  Its code is not in the repository: this   *)
(* is what src/dashboard-frontend/src/hooks/useDashboardData.ts relies on. *)
(*                                                                         *)
(* A fetch that is abandoned is not aborted, since no query function takes *)
(* the signal: its answer is dropped.  A fetch that fails is retried once  *)
(* before it counts (lib/queryClient.ts), which here is one failure.       *)
(***************************************************************************)
CONSTANT NoData  \* the entry holds nothing yet

Idle == [at |-> "idle", data |-> NoData]
Asked == [at |-> "asked", data |-> NoData]
Answered(d) == [at |-> "answered", data |-> d]
Fetch(Data) == [at : {"idle", "asked", "answered"}, data : Data \cup {NoData}]

\* failed: the last fetch failed.  invalid: marked for the next mount to fetch.
Entry(Data) ==
  [data : Data \cup {NoData}, fetch : Fetch(Data), failed : BOOLEAN, invalid : BOOLEAN]

Empty == [data |-> NoData, fetch |-> Idle, failed |-> FALSE, invalid |-> FALSE]

Ask(q) == [q EXCEPT !.fetch = Asked]
Answer(q, d) == [q EXCEPT !.fetch = Answered(d)]
Arrive(q) == [data |-> q.fetch.data, fetch |-> Idle, failed |-> FALSE, invalid |-> FALSE]
GiveUp(q) == [q EXCEPT !.fetch = Idle, !.failed = TRUE, !.invalid = TRUE]

\* cancelQueries: the entry goes back to the data it has.
CancelQueries(q) == [q EXCEPT !.fetch = Idle]

\* setQueryData: undefined changes nothing, and a fetch under way goes on.
SetQueryData(q, d) ==
  IF d = NoData THEN q ELSE [q EXCEPT !.data = d, !.failed = FALSE, !.invalid = FALSE]

\* invalidateQueries: an entry on screen is fetched anew, and a fetch under way
\* is abandoned for it, except the first one of an entry that holds nothing.
InvalidateQueries(q, onScreen) ==
  LET marked == [q EXCEPT !.invalid = TRUE]
  IN  IF onScreen /\ (q.data # NoData \/ q.fetch = Idle) THEN Ask(marked) ELSE marked

\* A component that reads the entry is mounted; aged: the staleTime is over.
Mount(q, aged) ==
  IF q.fetch = Idle /\ (q.data = NoData \/ q.invalid \/ aged) THEN Ask(q) ELSE q
===============================================================================
