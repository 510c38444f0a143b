---------------------------- MODULE MetricArchiver ----------------------------
(***************************************************************************)
(* The archiver of metrics (internal/service/metric_archiver.go and        *)
(* InsertFromMetrics, DeleteBefore of the repositories): once a day, and   *)
(* whenever the server starts, the raw samples older than the retention    *)
(* period are summed up in a row for each day and then deleted.            *)
(*                                                                         *)
(* Rows are grouped by device and metric type, so the model follows the    *)
(* samples of one such pair.  A sample is its timestamp, counted in slots, *)
(* Day of them to a day, from 0 on; the client sets it, so a sample may    *)
(* come before its time or long after it, between the two statements too.  *)
(* A summary is the set of samples that it counts.  The two statements     *)
(* commit one by one.                                                      *)
(***************************************************************************)
EXTENDS Integers, FiniteSets

CONSTANTS
  Day,        \* slots in a day; runInterval is a day
  Retention,  \* the retention period in slots (30 days in the code)
  MaxSkew,    \* bound: slots between a sample's timestamp and its arrival, either way
  MaxTime,    \* bound: the last slot
  MaxSamples, \* bound: samples stored
  MaxFaults,  \* bound: SQL statements that return an error
  MaxCrashes  \* bound: restarts of the server

ASSUME DayAssumption == Day \in Nat \ {0}
ASSUME RetentionAssumption == Retention \in Nat
ASSUME BoundsAssumption == /\ MaxTime \in Nat /\ MaxSamples \in Nat /\ MaxSkew \in Nat
                           /\ MaxFaults \in Nat /\ MaxCrashes \in Nat

VARIABLES
  now,
  raw,       \* the samples in the metrics table
  archive,   \* archive[d]: the samples that the summary of day d counts
  recorded,  \* history: all samples ever stored
  base,      \* history: base[t]: t, or later if the sample t was old when it came: from
             \* base[t] + Retention on it is both stored and old
  fresh,     \* history: the samples that came between the statements of this run
  pc,        \* the worker: before its run, or between its two statements
  cutoff,    \* the cutoff of the current or last run
  since,     \* when the ticker was started: after the first run, or -1
  pending,   \* a run is due: the first one, or a tick in the channel
  prompt,    \* history: every run so far has ended before the slot did
  faults, crashes

vars ==
  <<now, raw, archive, recorded, base, fresh, pc, cutoff, since, pending, prompt, faults, crashes>>

Times == 0..MaxTime
DayOf(t) == t \div Day
Days == {DayOf(t) : t \in Times}

Init ==
  /\ now = 0
  /\ raw = {} /\ recorded = {} /\ fresh = {}
  /\ base = [t \in Times |-> t]
  /\ archive = [d \in Days |-> {}]
  /\ pc = "wait" /\ cutoff = -Retention
  /\ since = -1 /\ pending = TRUE /\ prompt = TRUE
  /\ faults = 0 /\ crashes = 0

\* A batch with its own timestamp, whatever it is, is stored.
Ingest(t) ==
  /\ t \in Times \ recorded
  /\ now - t <= MaxSkew /\ t - now <= MaxSkew
  /\ Cardinality(recorded) < MaxSamples
  /\ raw' = raw \cup {t}
  /\ recorded' = recorded \cup {t}
  /\ base' = [base EXCEPT ![t] = IF now - Retention > t THEN now - Retention ELSE t]
  /\ fresh' = IF pc = "delete" THEN fresh \cup {t} ELSE fresh
  /\ UNCHANGED <<now, archive, pc, cutoff, since, pending, prompt, faults, crashes>>

\* The channel of the ticker holds one tick.
Tick ==
  /\ now < MaxTime
  /\ now' = now + 1
  /\ prompt' = (prompt /\ pc = "wait" /\ ~pending)
  /\ pending' = (pending \/ (since >= 0 /\ (now + 1 - since) % Day = 0))
  /\ UNCHANGED <<raw, archive, recorded, base, fresh, pc, cutoff, since, faults, crashes>>

\* timestamp < cutoff
UpToCutoff(t, limit) == t <= limit  \* mutant: the boundary belongs to both
IsOld(t, limit) == t < limit

\* INSERT ... SELECT ... GROUP BY day ON CONFLICT DO NOTHING.
InsertFromMetrics(limit) ==
  [d \in Days |->
     IF archive[d] = {} THEN {t \in raw : IsOld(t, limit) /\ DayOf(t) = d} ELSE archive[d]]

\* After the first run the ticker starts; later runs leave it alone.
Done == /\ pc' = "wait"
        /\ since' = IF since = -1 THEN now ELSE since

Answered(ok) == /\ ok \/ faults < MaxFaults
                /\ faults' = IF ok THEN faults ELSE faults + 1

\* runOnce begins: a failed INSERT ends the run, and nothing is deleted.
DeleteAnyway(ok) ==  \* mutant: a failed INSERT does not end the run
  /\ pc = "wait" /\ pending
  /\ pending' = FALSE
  /\ cutoff' = now - Retention
  /\ archive' = IF ok THEN InsertFromMetrics(cutoff') ELSE archive
  /\ pc' = "delete"
  /\ UNCHANGED <<now, raw, recorded, base, fresh, since, prompt, crashes>>
NoTicker(ok) ==  \* mutant: when the first run fails the ticker is not started
  /\ pc = "wait" /\ pending
  /\ pending' = FALSE
  /\ cutoff' = now - Retention
  /\ archive' = IF ok THEN InsertFromMetrics(cutoff') ELSE archive
  /\ pc' = IF ok THEN "delete" ELSE "wait"
  /\ UNCHANGED <<now, raw, recorded, base, fresh, since, prompt, crashes>>
Insert(ok) ==
  /\ pc = "wait" /\ pending
  /\ pending' = FALSE
  /\ cutoff' = now - Retention
  /\ IF ok THEN /\ archive' = InsertFromMetrics(cutoff')
                /\ pc' = "delete" /\ UNCHANGED since
           ELSE Done /\ UNCHANGED archive
  /\ UNCHANGED <<now, raw, recorded, base, fresh, prompt, crashes>>

Delete(ok) ==
  /\ pc = "delete"
  /\ raw' = IF ok THEN {t \in raw : ~IsOld(t, cutoff)} ELSE raw
  /\ fresh' = {}
  /\ Done
  /\ UNCHANGED <<now, archive, recorded, base, cutoff, pending, prompt, crashes>>

Run == \E ok \in BOOLEAN : Answered(ok) /\ (Insert(ok) \/ Delete(ok))

\* The server stops, perhaps between the two statements, and starts again.
Restart ==
  /\ crashes < MaxCrashes
  /\ crashes' = crashes + 1
  /\ pc' = "wait" /\ since' = -1 /\ pending' = TRUE /\ fresh' = {}
  /\ UNCHANGED <<now, raw, archive, recorded, base, cutoff, prompt, faults>>

End == now = MaxTime /\ UNCHANGED vars

Next == \/ \E t \in Times : Ingest(t)
        \/ Tick \/ Run \/ Restart \/ End

Spec == Init /\ [][Next]_vars

-----------------------------------------------------------------------------
(* Properties *)

TypeOK ==
  /\ now \in Times
  /\ raw \subseteq recorded /\ recorded \subseteq Times /\ fresh \subseteq Times
  /\ base \in [Times -> Int] /\ \A t \in Times : t <= base[t]
  /\ \A d \in Days : archive[d] \subseteq recorded
  /\ DOMAIN archive = Days
  /\ pc \in {"wait", "delete"}
  /\ cutoff \in -Retention..(now - Retention)
  /\ since \in -1..now /\ pending \in BOOLEAN /\ prompt \in BOOLEAN
  /\ faults \in 0..MaxFaults /\ crashes \in 0..MaxCrashes

\* The samples of the retention period are kept raw: "older than
\* RetentionPeriod" (MetricArchiverService), whatever run is cut short.
RecentIsRaw == \A t \in recorded : now - t <= Retention => t \in raw

\* What a run deletes and its INSERT could see leaves a trace, the summary of its
\* day, whatever runs failed, died or were repeated before: Archive deletes only
\* after an INSERT with the same cutoff.  A late sample that comes in between is
\* deleted unseen, and its day may vanish.
DeletedLeavesTrace ==
  [][\A t \in raw \ raw' : t \in fresh \/ archive[DayOf(t)] # {}]_vars

\* While no run is late, a sample outlives the retention period, or its arrival if
\* that is later, by a day at most, and by a day more for each statement that
\* fails; restarts cost nothing, since each starts a run (StartWorker).
OldIsDeleted ==
  prompt /\ pc = "wait" /\ ~pending =>
    \A t \in raw : now - base[t] < Retention + (1 + faults) * Day

\* Every sample is raw or counted in the summary of its day: "aggregates raw
\* metrics older than RetentionPeriod into daily summaries [...] then deletes
\* the originals" (MetricArchiverService, l.12), "Safe to call multiple times"
\* (Archive, l.68).
EverySampleCounted == \A t \in recorded : t \in raw \cup archive[DayOf(t)]
=============================================================================
