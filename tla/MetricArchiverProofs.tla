------------------------- MODULE MetricArchiverProofs -------------------------
(***************************************************************************)
(* What the archiver keeps for every length of a day, every retention      *)
(* period, samples however late, and any number of failures and restarts:  *)
(* what is recent stays raw, what a run deletes after its INSERT could see *)
(* it leaves a trace (IInv), and what is old goes in time (Aging).         *)
(***************************************************************************)
EXTENDS MetricArchiver, TLAPS

\* Between the two statements every sample that is about to be deleted, and was
\* there at the first one, has a summary of its day.
Summarised ==
  pc = "delete" => \A t \in raw \ fresh : IsOld(t, cutoff) => archive[DayOf(t)] # {}

\* The inductive invariant.
IInv == TypeOK /\ RecentIsRaw /\ Summarised

-----------------------------------------------------------------------------
LEMMA NowIsTime == ASSUME TypeOK PROVE now \in Nat /\ Times \subseteq Nat
  BY BoundsAssumption DEF TypeOK, Times

\* A run adds samples to empty summaries only, and skips no day that has an old
\* sample.
LEMMA InsertAdds ==
  ASSUME TypeOK, NEW limit \in Int,
         archive' = InsertFromMetrics(limit)
  PROVE  /\ DOMAIN archive' = Days
         /\ \A d \in Days : /\ archive[d] \subseteq archive'[d]
                            /\ archive'[d] \subseteq recorded
         /\ \A t \in raw : IsOld(t, limit) => archive'[DayOf(t)] # {}
<1>1. /\ DOMAIN archive' = Days
      /\ \A d \in Days : archive'[d] =
           IF archive[d] = {} THEN {t \in raw : IsOld(t, limit) /\ DayOf(t) = d} ELSE archive[d]
  BY DEF InsertFromMetrics
<1>2. \A d \in Days : archive[d] \subseteq archive'[d] /\ archive'[d] \subseteq recorded
  BY <1>1 DEF TypeOK
<1>3. ASSUME NEW t \in raw, IsOld(t, limit)
      PROVE  archive'[DayOf(t)] # {}
  <2>1. DayOf(t) \in Days
    BY NowIsTime DEF TypeOK, Days
  <2>2. CASE archive[DayOf(t)] = {}
    <3>1. t \in archive'[DayOf(t)]
      BY <1>1, <1>3, <2>1, <2>2
    <3> QED BY <3>1
  <2>3. CASE archive[DayOf(t)] # {}
    BY <1>1, <2>1, <2>3
  <2> QED BY <2>2, <2>3
<1> QED BY <1>1, <1>2, <1>3

-----------------------------------------------------------------------------
LEMMA InitIInv == Init => IInv
<1> SUFFICES ASSUME Init PROVE IInv
  OBVIOUS
<1>1. 0 \in Times
  BY BoundsAssumption DEF Times
<1>2. TypeOK
  BY <1>1, BoundsAssumption, RetentionAssumption DEF Init, TypeOK, Times
<1> QED BY <1>2 DEF Init, IInv, RecentIsRaw, Summarised

\* A sample that comes between the statements is fresh.
LEMMA IngestIInv ==
  ASSUME IInv, NEW t \in Times, Ingest(t)
  PROVE  IInv'
<1>1. TypeOK /\ now \in Nat /\ Retention \in Nat /\ Times \subseteq Nat
  BY NowIsTime, RetentionAssumption DEF IInv
<1>2. raw' = raw \cup {t} /\ recorded' = recorded \cup {t}
  BY DEF Ingest
<1>3. UNCHANGED <<now, archive, pc, cutoff, since, pending, prompt, faults, crashes>>
  BY DEF Ingest
<1>4. base' \in [Times -> Int] /\ (\A u \in Times : u <= base'[u]) /\ fresh' \subseteq Times
  <2>1. /\ base \in [Times -> Int] /\ (\A u \in Times : u <= base[u]) /\ fresh \subseteq Times
    BY <1>1 DEF TypeOK
  <2> DEFINE b == IF now - Retention > t THEN now - Retention ELSE t
  <2>2. base' = [base EXCEPT ![t] = b] /\ fresh' \subseteq fresh \cup {t}
    BY DEF Ingest
  <2>3. b \in Int /\ t <= b
    BY <1>1
  <2> HIDE DEF b
  <2> QED BY <2>1, <2>2, <2>3
<1>5. TypeOK'
  BY <1>1, <1>2, <1>3, <1>4 DEF TypeOK
<1>6. RecentIsRaw'
  BY <1>2, <1>3 DEF IInv, RecentIsRaw
<1>7. Summarised'
  BY <1>2, <1>3 DEF IInv, Summarised, IsOld, DayOf, Ingest
<1> QED BY <1>5, <1>6, <1>7 DEF IInv

LEMMA TickIInv ==
  ASSUME IInv, Tick
  PROVE  IInv'
<1>1. now \in Nat /\ now' = now + 1 /\ now' \in Times
  BY NowIsTime, BoundsAssumption DEF IInv, TypeOK, Tick, Times
<1>2. UNCHANGED <<raw, archive, recorded, base, fresh, pc, cutoff, since, faults, crashes>>
  BY DEF Tick
<1>3. pending' \in BOOLEAN /\ prompt' \in BOOLEAN
  BY DEF Tick, IInv, TypeOK
<1>4. TypeOK'
  BY <1>1, <1>2, <1>3, RetentionAssumption DEF IInv, TypeOK
<1>5. RecentIsRaw'
  <2> SUFFICES ASSUME NEW t \in recorded, now' - t <= Retention PROVE t \in raw
    BY <1>2 DEF RecentIsRaw
  <2>1. t \in Nat /\ Retention \in Nat
    BY NowIsTime, RetentionAssumption DEF IInv, TypeOK
  <2>2. now - t <= Retention
    BY <1>1, <2>1
  <2> QED BY <2>2 DEF IInv, RecentIsRaw
<1>6. Summarised'
  BY <1>2 DEF IInv, Summarised, IsOld, DayOf
<1> QED BY <1>4, <1>5, <1>6 DEF IInv

LEMMA InsertIInv ==
  ASSUME IInv, NEW ok \in BOOLEAN, Answered(ok), Insert(ok)
  PROVE  IInv'
<1>1. cutoff' = now - Retention /\ cutoff' \in Int /\ now \in Nat /\ Retention \in Nat
  BY NowIsTime, RetentionAssumption DEF IInv, Insert
<1>2. UNCHANGED <<now, raw, recorded, base, fresh, prompt, crashes>> /\ pending' = FALSE
  BY DEF Insert
<1>3. faults' \in 0..MaxFaults
  BY BoundsAssumption DEF IInv, TypeOK, Answered
<1>4. since' \in -1..now /\ pc' \in {"wait", "delete"}
  BY <1>1 DEF IInv, TypeOK, Insert, Done
<1>5. cutoff' \in -Retention..(now - Retention) /\ pending' \in BOOLEAN /\ prompt' \in BOOLEAN
  <2>1. cutoff' \in -Retention..(now - Retention)
    BY <1>1
  <2>2. pending' \in BOOLEAN /\ prompt' \in BOOLEAN
    BY <1>2, Zenon DEF IInv, TypeOK
  <2> QED BY <2>1, <2>2
<1>6. CASE ok
  <2>1. archive' = InsertFromMetrics(cutoff')
    BY <1>6 DEF Insert
  <2>2. /\ DOMAIN archive' = Days
        /\ \A d \in Days : archive[d] \subseteq archive'[d] /\ archive'[d] \subseteq recorded
        /\ \A t \in raw : IsOld(t, cutoff') => archive'[DayOf(t)] # {}
    BY <1>1, <2>1, InsertAdds DEF IInv
  <2>3. TypeOK'
    BY <1>2, <1>3, <1>4, <1>5, <2>2 DEF IInv, TypeOK
  <2>4. RecentIsRaw'
    BY <1>2 DEF IInv, RecentIsRaw
  <2>5. Summarised'
    BY <1>2, <2>2 DEF Summarised, IsOld, DayOf
  <2> QED BY <2>3, <2>4, <2>5 DEF IInv
<1>7. CASE ~ok
  <2>1. archive' = archive /\ pc' = "wait"
    BY <1>7 DEF Insert, Done
  <2>2. TypeOK'
    BY <1>2, <1>3, <1>4, <1>5, <2>1 DEF IInv, TypeOK
  <2>3. RecentIsRaw' /\ Summarised'
    BY <1>2, <2>1 DEF IInv, RecentIsRaw, Summarised, DayOf
  <2> QED BY <2>2, <2>3 DEF IInv
<1> QED BY <1>6, <1>7

LEMMA DeleteIInv ==
  ASSUME IInv, NEW ok \in BOOLEAN, Answered(ok), Delete(ok)
  PROVE  IInv'
<1>1. /\ pc = "delete" /\ pc' = "wait" /\ fresh' = {}
      /\ UNCHANGED <<now, archive, recorded, base, cutoff, pending, prompt, crashes>>
  BY DEF Delete, Done
<1>2. faults' \in 0..MaxFaults
  BY BoundsAssumption DEF IInv, TypeOK, Answered
<1>3. now \in Nat /\ since' \in -1..now
  BY NowIsTime DEF IInv, TypeOK, Delete, Done
<1>4. raw' \subseteq raw /\ \A t \in raw : ~IsOld(t, cutoff) => t \in raw'
  BY DEF Delete
<1>5. TypeOK'
  BY <1>1, <1>2, <1>3, <1>4 DEF IInv, TypeOK
<1>6. RecentIsRaw'
  <2> SUFFICES ASSUME NEW t \in recorded, now - t <= Retention PROVE t \in raw'
    BY <1>1 DEF RecentIsRaw
  <2>1. t \in raw /\ t \in Nat
    BY NowIsTime DEF IInv, RecentIsRaw, TypeOK
  <2>2. ~IsOld(t, cutoff)
    BY <1>3, <2>1, RetentionAssumption DEF IInv, TypeOK, IsOld
  <2> QED BY <1>4, <2>1, <2>2
<1>7. Summarised'
  BY <1>1 DEF Summarised
<1> QED BY <1>5, <1>6, <1>7 DEF IInv

LEMMA RestartIInv ==
  ASSUME IInv, Restart
  PROVE  IInv'
<1>1. /\ pc' = "wait" /\ since' = -1 /\ pending' = TRUE /\ fresh' = {}
      /\ UNCHANGED <<now, raw, archive, recorded, base, cutoff, prompt, faults>>
  BY DEF Restart
<1>2. now \in Nat /\ crashes' \in 0..MaxCrashes
  BY NowIsTime, BoundsAssumption DEF IInv, TypeOK, Restart
<1>3. TypeOK'
  BY <1>1, <1>2 DEF IInv, TypeOK
<1> QED BY <1>1, <1>3 DEF IInv, RecentIsRaw, Summarised

LEMMA NextIInv == IInv /\ [Next]_vars => IInv'
<1> SUFFICES ASSUME IInv, [Next]_vars PROVE IInv'
  OBVIOUS
<1>1. ASSUME NEW t \in Times, Ingest(t) PROVE IInv'
  BY <1>1, IngestIInv
<1>2. CASE Tick
  BY <1>2, TickIInv
<1>3. CASE Run
  BY <1>3, InsertIInv, DeleteIInv DEF Run
<1>4. CASE Restart
  BY <1>4, RestartIInv
<1>5. CASE UNCHANGED vars
  BY <1>5 DEF vars, IInv, TypeOK, RecentIsRaw, Summarised, IsOld, DayOf
<1>6. CASE End
  BY <1>5, <1>6 DEF End
<1> QED BY <1>1, <1>2, <1>3, <1>4, <1>5, <1>6 DEF Next

-----------------------------------------------------------------------------
THEOREM Invariance == Spec => []IInv
<1> QED BY InitIInv, NextIInv, PTL DEF Spec

\* The worker, its ticker and its tables stay well typed.
THEOREM TypeCorrect == Spec => []TypeOK
<1>1. IInv => TypeOK
  BY DEF IInv
<1> QED BY <1>1, Invariance, PTL

\* No run, however it is interrupted or repeated, deletes a sample that is not
\* older than the retention period (Archive).
THEOREM NothingRecentIsDeleted == Spec => []RecentIsRaw
<1>1. IInv => RecentIsRaw
  BY DEF IInv
<1> QED BY <1>1, Invariance, PTL

\* However late samples come and runs are interrupted or repeated, a sample that
\* is deleted and was stored when the run's INSERT ran has a summary of its day
\* (Archive).
THEOREM TracesAreLeft == Spec => DeletedLeavesTrace
<1>1. IInv /\ [Next]_vars => [\A t \in raw \ raw' : t \in fresh \/ archive[DayOf(t)] # {}]_vars
  <2> SUFFICES ASSUME IInv, Next, NEW t \in raw \ raw', t \notin fresh
               PROVE  archive[DayOf(t)] # {}
    OBVIOUS
  <2>1. PICK ok \in BOOLEAN : Delete(ok)
    BY DEF Next, Ingest, Tick, Run, Insert, Restart, End, vars
  <2>2. pc = "delete" /\ IsOld(t, cutoff)
    BY <2>1 DEF Delete
  <2> QED BY <2>2 DEF IInv, Summarised
<1> QED BY <1>1, Invariance, PTL DEF Spec, DeletedLeavesTrace

\* A day has a whole number of slots before it and a phase within it.
LEMMA DivMod ==
  ASSUME NEW d \in Nat
  PROVE  /\ d % Day \in 0..(Day - 1) /\ d = Day * (d \div Day) + (d % Day) /\ d \div Day \in Int
BY DayAssumption

\* The phase moves on by one, and starts again after the last slot of a day.
LEMMA Phase ==
  ASSUME NEW d \in Nat
  PROVE  (d + 1) % Day = IF d % Day = Day - 1 THEN 0 ELSE (d % Day) + 1
<1>1. /\ d % Day \in 0..(Day - 1) /\ d = Day * (d \div Day) + (d % Day) /\ d \div Day \in Int
  BY DivMod
<1>2. /\ (d+1) % Day \in 0..(Day - 1) /\ d+1 = Day * ((d+1) \div Day) + ((d+1) % Day) /\ (d+1) \div Day \in Int
  BY DivMod
<1> DEFINE q == (d+1) \div Day - d \div Day
<1>3. q \in Int /\ 1 = Day * q + (((d+1) % Day) - (d % Day))
  BY <1>1, <1>2, DayAssumption
<1>4. q \in {0, 1}
  <2>1. CASE q >= 2
    <3>1. Day * q >= Day * 2
      BY <1>3, <2>1, DayAssumption
    <3> HIDE DEF q
    <3>2. QED
      BY <1>1, <1>2, <1>3, <3>1, DayAssumption
  <2>2. CASE q <= -1
    <3>1. Day * q <= -Day
      BY <1>3, <2>2, DayAssumption
    <3> HIDE DEF q
    <3>2. QED
      BY <1>1, <1>2, <1>3, <3>1, DayAssumption
  <2>3. QED
    BY <1>3, <2>1, <2>2
<1>5. CASE q = 0
  <2> HIDE DEF q
  <2> QED BY <1>1, <1>2, <1>3, <1>5, DayAssumption
<1>6. CASE q = 1
  <2> HIDE DEF q
  <2> QED BY <1>1, <1>2, <1>3, <1>6, DayAssumption
<1> QED BY <1>4, <1>5, <1>6

\* The slots since the worker last came due.
PhaseOf(time) == IF since = -1 THEN 0 ELSE (time - since) % Day

\* How old raw samples get while no run is late: when a run is due, a day more
\* than the failures account for; when none is, no older than they were at the
\* start of the last one.
Aging ==
  /\ since = -1 => pending \/ pc = "delete"
  /\ prompt /\ pc = "delete" => cutoff = now - Retention
  /\ prompt /\ (pending \/ pc = "delete") =>
       /\ PhaseOf(now) = 0
       /\ \A t \in raw : now - base[t] <= Retention + (1 + faults) * Day
  /\ prompt /\ ~pending /\ pc = "wait" =>
       \A t \in raw : now - PhaseOf(now) - base[t] <= Retention + faults * Day

LEMMA PhaseBounds ==
  ASSUME TypeOK
  PROVE  PhaseOf(now) \in 0..(Day - 1)
<1>1. now \in Nat /\ (since # -1 => now - since \in Nat) /\ Day \in Nat \ {0}
  BY NowIsTime, DayAssumption DEF TypeOK
<1> QED BY <1>1, DivMod DEF PhaseOf

\* A day more of patience for a failure.
LEMMA OneMoreFault ==
  ASSUME NEW k \in Nat
  PROVE  /\ k * Day \in Nat /\ (1 + k) * Day \in Nat
         /\ (1 + k) * Day = Day + (k * Day) /\ (k + 1) * Day = Day + (k * Day)
BY DayAssumption

LEMMA InitAging == Init => Aging
<1> SUFFICES ASSUME Init PROVE Aging
  OBVIOUS
<1> QED BY DEF Init, Aging, PhaseOf

LEMMA IngestAging ==
  ASSUME TypeOK, Aging, NEW t \in Times, Ingest(t)
  PROVE  Aging'
<1>1. /\ raw' = raw \cup {t} /\ base' = [base EXCEPT ![t] = base'[t]]
      /\ UNCHANGED <<now, cutoff, pc, since, pending, prompt, faults>>
  BY DEF Ingest, TypeOK
<1>2. now \in Nat /\ Retention \in Nat /\ faults \in Nat /\ PhaseOf(now) \in Nat
  BY NowIsTime, RetentionAssumption, PhaseBounds DEF TypeOK
<1>3. base'[t] \in Int /\ now - base'[t] <= Retention
  <2>1. t \in Nat /\ base \in [Times -> Int]
    BY NowIsTime DEF TypeOK
  <2>2. base'[t] = IF now - Retention > t THEN now - Retention ELSE t
    BY <2>1 DEF Ingest
  <2> QED BY <1>2, <2>1, <2>2
<1>4. /\ now - base'[t] <= Retention + (1 + faults) * Day
      /\ now - PhaseOf(now) - base'[t] <= Retention + faults * Day
  BY <1>2, <1>3, OneMoreFault
<1>5. PhaseOf(now)' = PhaseOf(now)
  BY <1>1 DEF PhaseOf
<1>6. \A u \in raw' : u = t \/ (u \in raw /\ base'[u] = base[u])
  BY <1>1 DEF TypeOK
<1> QED BY <1>1, <1>4, <1>5, <1>6 DEF Aging

LEMMA TickAging ==
  ASSUME TypeOK, Aging, Tick
  PROVE  Aging'
<1>1. /\ now' = now + 1 /\ prompt' = (prompt /\ pc = "wait" /\ ~pending)
      /\ pending' = (pending \/ (since >= 0 /\ (now + 1 - since) % Day = 0))
      /\ UNCHANGED <<raw, base, cutoff, pc, since, faults>>
  BY DEF Tick
<1>2. /\ now \in Nat /\ Retention \in Nat /\ faults \in Nat /\ raw \subseteq Int /\ (\A t \in raw : base[t] \in Int /\ t <= base[t])
      /\ since \in Int /\ since >= -1 /\ pc \in {"wait", "delete"}
  BY NowIsTime, RetentionAssumption DEF TypeOK
<1>3. since = -1 => pending \/ pc = "delete"
  BY DEF Aging
<1>4. CASE ~prompt'
  BY <1>1, <1>3, <1>4 DEF Aging
<1>5. CASE prompt'
  <2>0. prompt /\ pc = "wait" /\ ~pending
    BY <1>1, <1>5, Zenon
  <2>1. prompt /\ pc = "wait" /\ ~pending /\ since # -1 /\ since >= 0
    <3>1. pc # "delete"
      BY <2>0
    <3>2. since # -1
      BY <1>3, <2>0, <3>1, Zenon
    <3> QED BY <1>2, <2>0, <3>2
  <2>2. \A t \in raw : now - PhaseOf(now) - base[t] <= Retention + faults * Day
    BY <2>1 DEF Aging
  <2>3. now - since \in Nat /\ now + 1 - since = (now - since) + 1
    BY <1>2, <2>1 DEF TypeOK
  <2>4. PhaseOf(now) = (now - since) % Day /\ PhaseOf(now)' = ((now - since) + 1) % Day
    <3>1. PhaseOf(now)' = (now' - since') % Day
      BY <1>1, <2>1 DEF PhaseOf
    <3>2. now' - since' = (now - since) + 1
      BY <1>1, <1>2
    <3> QED BY <2>1, <3>1, <3>2 DEF PhaseOf
  <2>5. PhaseOf(now)' = IF PhaseOf(now) = Day - 1 THEN 0 ELSE PhaseOf(now) + 1
    BY <2>3, <2>4, Phase
  <2>6. pending' <=> PhaseOf(now)' = 0
    BY <1>1, <2>1, <2>3, <2>4
  <2>7. PhaseOf(now) \in 0..(Day - 1) /\ Day \in Nat
    BY PhaseBounds, DayAssumption
  <2>8. CASE PhaseOf(now) = Day - 1
    <3>1. \A t \in raw : now' - base[t] <= Retention + (1 + faults) * Day
      BY <1>1, <1>2, <2>2, <2>7, <2>8, OneMoreFault
    <3>2. pending' /\ PhaseOf(now)' = 0
      BY <2>5, <2>6, <2>8
    <3> QED BY <1>1, <2>1, <3>1, <3>2 DEF Aging
  <2>9. CASE PhaseOf(now) # Day - 1
    <3>1. ~pending' /\ PhaseOf(now)' = PhaseOf(now) + 1
      BY <2>5, <2>6, <2>7, <2>9
    <3>2. \A t \in raw : now' - PhaseOf(now)' - base[t] <= Retention + faults * Day
      BY <1>1, <1>2, <2>2, <2>7, <3>1
    <3> QED BY <1>1, <2>1, <3>1, <3>2 DEF Aging
  <2> QED BY <2>8, <2>9
<1> QED BY <1>4, <1>5

LEMMA RunAging ==
  ASSUME TypeOK, Aging, NEW ok \in BOOLEAN, Answered(ok), Insert(ok) \/ Delete(ok)
  PROVE  Aging'
<1>1. /\ now \in Nat /\ Retention \in Nat /\ faults \in Nat /\ raw \subseteq Int /\ (\A t \in raw : base[t] \in Int /\ t <= base[t])
      /\ since \in Int /\ since >= -1 /\ pc \in {"wait", "delete"}
      /\ now' = now /\ base' = base /\ prompt' = prompt /\ pending \in BOOLEAN
  BY NowIsTime, RetentionAssumption DEF TypeOK, Insert, Delete
<1>2. prompt => /\ PhaseOf(now) = 0
                /\ \A t \in raw : now - base[t] <= Retention + (1 + faults) * Day
  BY DEF Aging, Insert, Delete
<1>3. CASE Insert(ok) /\ ok
  <2>1. /\ raw' = raw /\ cutoff' = now - Retention /\ pc' = "delete" /\ since' = since
        /\ faults' = faults
    BY <1>3 DEF Insert, Answered
  <2>2. PhaseOf(now)' = PhaseOf(now)
    BY <1>1, <2>1 DEF PhaseOf
  <2> QED BY <1>1, <1>2, <2>1, <2>2 DEF Aging
<1>4. CASE ~(Insert(ok) /\ ok)
  <2>1. /\ pc' = "wait" /\ since' = (IF since = -1 THEN now ELSE since)
        /\ raw' = (IF ok THEN {t \in raw : ~IsOld(t, cutoff)} ELSE raw)
        /\ faults' = (IF ok THEN faults ELSE faults + 1)
        /\ ok => pc = "delete"
    BY <1>4 DEF Insert, Delete, Done, Answered
  <2>2. since' # -1
    BY <1>1, <2>1
  <2>3. prompt => PhaseOf(now)' = 0
    <3>1. (now - now) % Day = 0
      BY <1>1, DayAssumption
    <3> QED BY <1>1, <1>2, <2>1, <2>2, <3>1 DEF PhaseOf
  <2>4. faults' \in Nat /\ raw' \subseteq raw
    BY <1>1, <2>1
  <2>5. prompt => \A t \in raw' : now - base[t] <= Retention + faults' * Day
    <3>1. CASE ok
      <4>1. prompt => cutoff = now - Retention
        BY <2>1, <3>1 DEF Aging
      <4>2. prompt => \A t \in raw' : now - base[t] <= Retention
        BY <1>1, <2>1, <3>1, <4>1 DEF IsOld
      <4> QED BY <1>1, <2>4, <4>2, OneMoreFault
    <3>2. CASE ~ok
      BY <1>1, <1>2, <2>1, <3>2, OneMoreFault
    <3> QED BY <3>1, <3>2
  <2>6. prompt => /\ \A t \in raw' : now - base[t] <= Retention + (1 + faults') * Day
                  /\ \A t \in raw' : now - PhaseOf(now)' - base[t] <= Retention + faults' * Day
    <3>1. /\ faults' * Day \in Nat /\ (1 + faults') * Day = Day + (faults' * Day)
          /\ Day \in Nat
      BY <2>4, DayAssumption, OneMoreFault
    <3>2. \A t \in raw' : base[t] \in Int
      BY <1>1, <2>4
    <3>3. \A t \in raw' : /\ now - base[t] <= Retention + faults' * Day
                              => now - base[t] <= Retention + (1 + faults') * Day
                          /\ now - 0 - base[t] = now - base[t]
      BY <1>1, <3>1, <3>2
    <3> QED BY <2>3, <2>5, <3>2, <3>3
  <2> QED BY <1>1, <2>1, <2>2, <2>3, <2>6 DEF Aging
<1> QED BY <1>3, <1>4

LEMMA RestartAging ==
  ASSUME TypeOK, Aging, Restart
  PROVE  Aging'
<1>1. /\ pc' = "wait" /\ since' = -1 /\ pending' = TRUE
      /\ UNCHANGED <<now, raw, base, cutoff, prompt, faults>>
  BY DEF Restart
<1>2. /\ now \in Nat /\ Retention \in Nat /\ faults \in Nat /\ raw \subseteq Int /\ (\A t \in raw : base[t] \in Int /\ t <= base[t])
      /\ pc \in {"wait", "delete"} /\ Day \in Nat
  BY NowIsTime, RetentionAssumption, DayAssumption DEF TypeOK
<1>3. prompt => \A t \in raw : now - base[t] <= Retention + (1 + faults) * Day
  <2>1. CASE pending \/ pc = "delete"
    BY <2>1 DEF Aging
  <2>2. CASE ~pending /\ pc = "wait"
    <3>1. prompt => \A t \in raw : now - PhaseOf(now) - base[t] <= Retention + faults * Day
      BY <2>2 DEF Aging
    <3> QED BY <1>2, <3>1, PhaseBounds, OneMoreFault
  <2> QED BY <1>2, <2>1, <2>2
<1> QED BY <1>1, <1>3 DEF Aging, PhaseOf

LEMMA NextAging == IInv /\ Aging /\ [Next]_vars => Aging'
<1> SUFFICES ASSUME IInv, Aging, [Next]_vars PROVE Aging'
  OBVIOUS
<1> USE DEF IInv
<1>1. ASSUME NEW t \in Times, Ingest(t) PROVE Aging'
  BY <1>1, IngestAging
<1>2. CASE Tick
  BY <1>2, TickAging
<1>3. CASE Run
  BY <1>3, RunAging DEF Run
<1>4. CASE Restart
  BY <1>4, RestartAging
<1>5. CASE UNCHANGED vars
  BY <1>5 DEF vars, Aging, PhaseOf
<1>6. CASE End
  BY <1>5, <1>6 DEF End
<1> QED BY <1>1, <1>2, <1>3, <1>4, <1>5, <1>6 DEF Next

\* While no run is late, no raw sample outlives the retention period, or a later
\* arrival, by more than a day, and a day more for each statement that failed: a
\* restart starts the worker's day anew, and its first run makes up for it
\* (StartWorker).
THEOREM OldSamplesAreDeleted == Spec => []OldIsDeleted
<1>1. IInv /\ Aging => OldIsDeleted
  <2> SUFFICES ASSUME IInv, Aging, prompt, pc = "wait", ~pending, NEW t \in raw
               PROVE  now - base[t] < Retention + (1 + faults) * Day
    BY DEF OldIsDeleted
  <2>1. now - PhaseOf(now) - base[t] <= Retention + faults * Day
    BY DEF Aging
  <2>2. now \in Nat /\ Retention \in Nat /\ faults \in Nat /\ base[t] \in Int /\ Day \in Nat
    BY NowIsTime, RetentionAssumption, DayAssumption DEF IInv, TypeOK
  <2>3. PhaseOf(now) \in 0..(Day - 1)
    BY PhaseBounds DEF IInv
  <2> QED BY <2>1, <2>2, <2>3, OneMoreFault
<1>2. Init => IInv /\ Aging
  BY InitIInv, InitAging
<1>3. IInv /\ Aging /\ [Next]_vars => (IInv /\ Aging)'
  BY NextIInv, NextAging
<1> QED BY <1>1, <1>2, <1>3, PTL DEF Spec
=============================================================================
