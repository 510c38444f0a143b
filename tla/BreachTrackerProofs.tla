------------------------- MODULE BreachTrackerProofs -------------------------
(***************************************************************************)
(* The timers of the breach tracker for all rules, metrics and labels: an  *)
(* alarm is fired neither before its tier's duration nor never.            *)
(***************************************************************************)
EXTENDS BreachTracker, SequenceTheorems, TLAPS

\* The longest time between two starts of a timer that has not fired.
Turn(m) == Duration(m, 1) + MaxSilence

\* What relates the timer tr of m to its readings: ls the last one, rn the length
\* of the breach, fr whether it has fired, sl the time since the last reading.
TimerOK(m, tr, ls, rn, fr, sl) ==
  /\ tr # None <=> ls = "breach"
  /\ ls # "breach" => rn = 0
  /\ tr # None => tr.age <= rn
  /\ tr # None /\ fr = FALSE => /\ tr.age <= Duration(m, 1) + sl
                                /\ rn <= (tr.tier - 1) * Turn(m) + tr.age

TimersOK == \A m \in Metrics : TimerOK(m, tracker[m], last[m], run[m], fired[m], silence[m])

\* The inductive invariant.
IInv == TypeOK /\ TimersOK

-----------------------------------------------------------------------------
(* The rules *)

LEMMA RuleFacts ==
  ASSUME NEW m \in Metrics
  PROVE  /\ Tiers(m) = 1..Len(Rules[m].tiers) /\ Len(Rules[m].tiers) \in Nat \ {0}
         /\ \A i \in Tiers(m) : /\ Duration(m, i) \in Nat
                                /\ PriorityOf(m, i) \in 1..3
                                /\ Duration(m, i) <= Duration(m, 1)
         /\ Turn(m) \in Nat \ {0}
<1> DEFINE tiers == Rules[m].tiers
<1>1. tiers \in Seq([min : Nat, priority : 1..3, duration : Nat]) /\ tiers # <<>>
  BY RulesAssumption
<1>2. DOMAIN tiers = 1..Len(tiers) /\ Len(tiers) \in Nat \ {0}
  BY <1>1
<1>3. \A i \in 1..Len(tiers) : tiers[i] \in [min : Nat, priority : 1..3, duration : Nat]
  BY <1>1, ElementOfSeq
<1>4. \A i \in Tiers(m) : Duration(m, i) \in Nat /\ PriorityOf(m, i) \in 1..3
  BY <1>2, <1>3 DEF Tiers, Duration, PriorityOf
<1>5. \A i \in Tiers(m) : 1 < i => Duration(m, i) <= Duration(m, 1)
  BY <1>2, RulesAssumption DEF Tiers
<1>6. \A i \in Tiers(m) : Duration(m, i) <= Duration(m, 1)
  BY <1>2, <1>4, <1>5 DEF Tiers
<1>7. Turn(m) \in Nat \ {0}
  BY <1>2, <1>4, BoundsAssumption DEF Turn, Tiers
<1> QED BY <1>2, <1>4, <1>6, <1>7 DEF Tiers

\* A tier that is reached from a milder one is a turn further at least.
LEMMA NextTurn ==
  ASSUME NEW k \in Nat, NEW i \in Nat, k < i, NEW T \in Nat, NEW x \in Nat, x <= T
  PROVE  (k - 1) * T + x <= (i - 1) * T
<1>1. (i - 1) * T = (k - 1) * T + (i - k) * T
  OBVIOUS
<1>2. (i - k) * T >= T
  <2>1. i - k - 1 \in Nat
    OBVIOUS
  <2>2. (i - k - 1) * T >= 0
    BY <2>1
  <2> QED BY <2>2
<1> QED BY <1>1, <1>2

LEMMA BoundFacts ==
  ASSUME NEW m \in Metrics
  PROVE  /\ Bound(m) \in Nat
         /\ \A k \in Tiers(m) : k * Turn(m) < Bound(m)
<1>1. Len(Rules[m].tiers) \in Nat /\ Turn(m) \in Nat /\ Tiers(m) = 1..Len(Rules[m].tiers)
  BY RuleFacts
<1>2. Bound(m) = Len(Rules[m].tiers) * Turn(m) + MaxSilence
  BY DEF Bound, Turn
<1>3. ASSUME NEW k \in Tiers(m) PROVE k * Turn(m) <= Len(Rules[m].tiers) * Turn(m)
  <2>1. Len(Rules[m].tiers) - k \in Nat /\ k \in Nat
    BY <1>1
  <2>2. (Len(Rules[m].tiers) - k) * Turn(m) >= 0
    BY <1>1, <2>1
  <2> QED BY <1>1, <2>1, <2>2
<1>4. Len(Rules[m].tiers) * Turn(m) \in Nat
  BY <1>1
<1>5. \A k \in Tiers(m) : k * Turn(m) \in Int
  BY <1>1
<1> QED BY <1>2, <1>3, <1>4, <1>5, BoundsAssumption

-----------------------------------------------------------------------------
(* Names of alarms, and goroutines *)

LEMMA AlarmName ==
  ASSUME TypeOK, NEW m \in Metrics, NEW l \in Names, alarmName(m, l)
  PROVE  cache' \in DeviceLabels \cup {None}
  BY DEF TypeOK, alarmName, deviceLabel

\* A goroutine more: of its kind there is one more copy, of the others as many.
LEMMA StartFacts ==
  ASSUME TypeOK, NEW j \in Jobs, Start(j)
  PROVE  /\ IsABag(work') /\ BagToSet(work') \subseteq Jobs
         /\ \A k \in Jobs : Count(k, work') > Count(k, work) => k = j
<1>1. /\ work \in [DOMAIN work -> {n \in Nat : n > 0}] /\ DOMAIN work \subseteq Jobs
      /\ work' = [e \in DOMAIN work \cup {j} |->
                    (IF e \in DOMAIN work THEN work[e] ELSE 0) + (IF e \in {j} THEN 1 ELSE 0)]
  BY DEF TypeOK, IsABag, BagToSet, Start, SetToBag, (+)
<1>2. DOMAIN work' = DOMAIN work \cup {j}
  BY <1>1
<1>3. \A e \in DOMAIN work' : work'[e] \in {n \in Nat : n > 0}
  BY <1>1, <1>2
<1>4. IsABag(work') /\ BagToSet(work') \subseteq Jobs
  BY <1>1, <1>2, <1>3 DEF IsABag, BagToSet
<1>5. ASSUME NEW k \in Jobs, k # j PROVE Count(k, work') = Count(k, work)
  BY <1>1, <1>2, <1>5 DEF Count, BagIn, BagToSet
<1>6. \A k \in Jobs : Count(k, work) \in Nat
  BY <1>1 DEF Count, BagIn, BagToSet
<1> QED BY <1>4, <1>5, <1>6

\* A goroutine less.
LEMMA EndFacts ==
  ASSUME TypeOK, NEW j \in Jobs, work' = work (-) SetToBag({j})
  PROVE  /\ IsABag(work') /\ BagToSet(work') \subseteq Jobs
         /\ \A k \in Jobs : ~(Count(k, work') > Count(k, work))
<1> DEFINE B == [e \in DOMAIN work |-> IF e \in {j} THEN work[e] - 1 ELSE work[e]]
<1>1. work \in [DOMAIN work -> {n \in Nat : n > 0}] /\ DOMAIN work \subseteq Jobs
  BY DEF TypeOK, IsABag, BagToSet
<1>2. work' = [e \in {d \in DOMAIN B : B[d] > 0} |-> B[e]]
  BY DEF SetToBag, (-)
<1>3. DOMAIN work' = {d \in DOMAIN work : B[d] > 0}
  BY <1>2
<1>4. \A e \in DOMAIN work : B[e] \in Nat /\ B[e] <= work[e]
  BY <1>1
<1> HIDE DEF B
<1>5. \A e \in DOMAIN work' : work'[e] = B[e] /\ work'[e] \in {n \in Nat : n > 0}
  BY <1>2, <1>3, <1>4
<1>6. IsABag(work') /\ BagToSet(work') \subseteq Jobs
  BY <1>1, <1>2, <1>3, <1>5 DEF IsABag, BagToSet
<1>7. ASSUME NEW k \in Jobs PROVE Count(k, work') <= Count(k, work)
  BY <1>1, <1>3, <1>4, <1>5 DEF Count, BagIn, BagToSet
<1>8. \A k \in Jobs : Count(k, work') \in Nat /\ Count(k, work) \in Nat
  BY <1>1, <1>3, <1>5 DEF Count, BagIn, BagToSet
<1> QED BY <1>6, <1>7, <1>8

LEMMA EmptyFacts ==
  IsABag(EmptyBag) /\ BagToSet(EmptyBag) \subseteq Jobs /\ \A k : Count(k, EmptyBag) = 0
  BY DEF IsABag, BagToSet, EmptyBag, SetToBag, Count, BagIn

-----------------------------------------------------------------------------
(* Readings *)

\* A reading changes nothing of the other metrics.
LEMMA OtherTimers ==
  ASSUME IInv, NEW m \in Metrics, NEW r,
         Record(m, r),
         TimerOK(m, tracker'[m], last'[m], run'[m], fired'[m], silence'[m]),
         \A n \in Metrics \ {m} : tracker'[n] = tracker[n] /\ fired'[n] = fired[n]
  PROVE  TimersOK'
<1> SUFFICES ASSUME NEW n \in Metrics
             PROVE  TimerOK(n, tracker'[n], last'[n], run'[n], fired'[n], silence'[n])
  BY DEF TimersOK, TimerOK, Turn, Duration
<1>1. CASE n = m
  BY <1>1
<1>2. CASE n # m
  <2>1. last'[n] = last[n] /\ run'[n] = run[n] /\ silence'[n] = silence[n]
    BY <1>2 DEF IInv, TypeOK, Record
  <2>2. TimerOK(n, tracker[n], last[n], run[n], fired[n], silence[n])
    BY DEF IInv, TimersOK
  <2> QED BY <1>2, <2>1, <2>2
<1> QED BY <1>1, <1>2

LEMMA RecordType ==
  ASSUME TypeOK, NEW m \in Metrics, NEW r \in {"normal", "breach"}, Record(m, r)
  PROVE  /\ last' \in [Metrics -> {"none", "normal", "breach"}] /\ last'[m] = r
         /\ run' \in [Metrics -> Nat] /\ run'[m] = IF r = last[m] THEN run[m] ELSE 0
         /\ silence' \in [Metrics -> 0..MaxSilence] /\ silence'[m] = 0
         /\ \A n \in Metrics \ {m} : last'[n] = last[n]
  BY BoundsAssumption DEF TypeOK, Record

LEMMA NormalIInv ==
  ASSUME IInv, NEW m \in Metrics, m \in reports, Normal(m)
  PROVE  IInv'
<1>1. PICK l \in Names : alarmName(m, l) /\ Start(Job(m, l, 0))
  BY DEF Normal
<1>2. cache' \in DeviceLabels \cup {None}
  BY <1>1, AlarmName DEF IInv
<1>3. /\ Record(m, "normal")
      /\ tracker' = [tracker EXCEPT ![m] = None] /\ fired' = [fired EXCEPT ![m] = FALSE]
      /\ UNCHANGED <<reports, alarms, label>>
  BY DEF Normal, Calm
<1>4. IsABag(work') /\ BagToSet(work') \subseteq Jobs
  BY <1>1, StartFacts DEF IInv, Job, Jobs
<1>5. TypeOK'
  BY <1>2, <1>3, <1>4, RecordType DEF IInv, TypeOK, Tiers
<1>6. TimersOK'
  <2>1. TimerOK(m, tracker'[m], last'[m], run'[m], fired'[m], silence'[m])
    BY <1>3, RecordType DEF IInv, TypeOK, TimersOK, TimerOK
  <2>2. \A n \in Metrics \ {m} : tracker'[n] = tracker[n] /\ fired'[n] = fired[n]
    BY <1>3 DEF IInv, TypeOK
  <2> QED BY <1>3, <2>1, <2>2, OtherTimers
<1> QED BY <1>5, <1>6 DEF IInv

\* A timer that starts at a worse tier.
LEMMA CrossTimer ==
  ASSUME IInv, NEW m \in Metrics, NEW i \in Tiers(m), Cross(m, i)
  PROVE  TimerOK(m, tracker'[m], last'[m], run'[m], fired'[m], silence'[m])
<1>1. /\ tracker'[m] = [tier |-> i, age |-> 0] /\ fired'[m] = fired[m]
      /\ last'[m] = "breach" /\ silence'[m] = 0
      /\ run'[m] = IF "breach" = last[m] THEN run[m] ELSE 0
  BY RecordType DEF IInv, TypeOK, Cross
<1>2. /\ TimerOK(m, tracker[m], last[m], run[m], fired[m], silence[m])
      /\ run[m] \in Nat /\ silence[m] \in 0..MaxSilence
      /\ tracker[m] # None => /\ tracker[m].tier \in Tiers(m)
                              /\ tracker[m].age \in Nat
  BY DEF IInv, TypeOK, TimersOK
<1>3. /\ Turn(m) \in Nat /\ i \in Nat \ {0} /\ Duration(m, 1) \in Nat
      /\ Tiers(m) \subseteq Nat
  BY RuleFacts
<1>4. tracker'[m] # None
  BY <1>1, <1>3, NoneAssumption
<1>5. 0 <= (i - 1) * Turn(m)
  BY <1>3
<1>6. run'[m] \in Nat
  BY <1>1, <1>2
<1>7. ASSUME fired[m] = FALSE
      PROVE  run'[m] <= (i - 1) * Turn(m)
  <2>1. CASE last[m] # "breach"
    BY <1>1, <1>5, <2>1
  <2>2. CASE last[m] = "breach"
    <3> DEFINE k == tracker[m].tier
               x == tracker[m].age
    <3>1. tracker[m] # None /\ k \in Nat /\ k < i
      BY <1>2, <1>3, <2>2 DEF TimerOK, Cross, Worsens, Reached
    <3>2. x \in Nat /\ x <= Turn(m) /\ run[m] <= (k - 1) * Turn(m) + x
      BY <1>2, <1>3, <1>7, <3>1, BoundsAssumption DEF TimerOK, Turn
    <3>3. (k - 1) * Turn(m) + x <= (i - 1) * Turn(m)
      BY <1>3, <3>1, <3>2, NextTurn
    <3>4. (k - 1) * Turn(m) \in Int /\ (i - 1) * Turn(m) \in Int
      BY <1>3, <3>1
    <3>5. run[m] <= (i - 1) * Turn(m)
      <4> HIDE DEF k, x
      <4> DEFINE low == (k - 1) * Turn(m)
                 high == (i - 1) * Turn(m)
      <4>1. /\ low \in Int /\ high \in Int /\ x \in Nat /\ run[m] \in Nat
            /\ run[m] <= low + x /\ low + x <= high
        BY <1>2, <3>2, <3>3, <3>4
      <4> HIDE DEF low, high
      <4>2. run[m] <= high
        BY <4>1
      <4> QED BY <4>2 DEF high
    <3> QED BY <1>1, <2>2, <3>5
  <2> QED BY <2>1, <2>2
<1>8. (i - 1) * Turn(m) \in Int
  BY <1>3
<1>9. tracker'[m].tier = i /\ tracker'[m].age = 0
  BY <1>1
<1>10. fired[m] = FALSE => /\ 0 <= Duration(m, 1) + 0
                          /\ run'[m] <= (i - 1) * Turn(m) + 0
  <2> DEFINE high == (i - 1) * Turn(m)
  <2>1. high \in Int /\ (fired[m] = FALSE => run'[m] <= high)
    BY <1>7, <1>8
  <2> HIDE DEF high
  <2>2. fired[m] = FALSE => 0 <= Duration(m, 1) + 0 /\ run'[m] <= high + 0
    BY <1>3, <1>6, <2>1
  <2> QED BY <2>2 DEF high
<1>11. last'[m] = "breach" /\ fired'[m] = fired[m] /\ silence'[m] = 0
  BY <1>1
<1>12. tracker'[m].age <= run'[m]
  BY <1>6, <1>9
<1>13. fired'[m] = FALSE =>
         /\ tracker'[m].age <= Duration(m, 1) + silence'[m]
         /\ run'[m] <= (tracker'[m].tier - 1) * Turn(m) + tracker'[m].age
  BY <1>9, <1>10, <1>11, Zenon
<1> QED BY <1>4, <1>11, <1>12, <1>13, Zenon DEF TimerOK

\* A reading of a tier that the timer has reached already: Wait and Fire.
LEMMA ReachedFacts ==
  ASSUME IInv, NEW m \in Metrics, NEW i \in Tiers(m), ~Worsens(m, i)
  PROVE  tracker[m] # None /\ last[m] = "breach" /\ tracker[m].age <= run[m]
<1>1. i \in Nat \ {0}
  BY RuleFacts
<1>2. tracker[m] # None
  BY <1>1 DEF Worsens, Reached
<1>3. TimerOK(m, tracker[m], last[m], run[m], fired[m], silence[m])
  BY DEF IInv, TimersOK
<1> QED BY <1>2, <1>3 DEF TimerOK

LEMMA WaitTimer ==
  ASSUME IInv, NEW m \in Metrics, NEW i \in Tiers(m), Wait(m, i)
  PROVE  TimerOK(m, tracker'[m], last'[m], run'[m], fired'[m], silence'[m])
<1>1. tracker[m] # None /\ last[m] = "breach" /\ tracker[m].age < Duration(m, i)
  BY ReachedFacts DEF Wait
<1>2. /\ tracker' = tracker /\ fired' = fired
      /\ last'[m] = "breach" /\ silence'[m] = 0 /\ run'[m] = run[m]
  BY <1>1, RecordType DEF IInv, Wait
<1>3. tracker[m].age \in Nat /\ Duration(m, i) \in Nat /\ Duration(m, 1) \in Nat
      /\ Duration(m, i) <= Duration(m, 1)
  <2>1. 1 \in Tiers(m)
    BY RuleFacts
  <2>2. tracker[m].age \in Nat
    BY <1>1 DEF IInv, TypeOK
  <2> QED BY <2>1, <2>2, RuleFacts
<1>4. tracker[m].age <= Duration(m, 1) + 0
  BY <1>1, <1>3
<1>5. TimerOK(m, tracker[m], last[m], run[m], fired[m], silence[m])
  BY DEF IInv, TimersOK
<1> QED BY <1>1, <1>2, <1>4, <1>5 DEF TimerOK

LEMMA FireTimer ==
  ASSUME IInv, NEW m \in Metrics, NEW i \in Tiers(m), Fire(m, i)
  PROVE  TimerOK(m, tracker'[m], last'[m], run'[m], fired'[m], silence'[m])
<1>1. tracker[m] # None /\ last[m] = "breach" /\ tracker[m].age <= run[m]
  BY ReachedFacts DEF Fire
<1>2. /\ tracker' = tracker /\ fired'[m] = TRUE
      /\ last'[m] = "breach" /\ run'[m] = run[m]
  BY <1>1, RecordType DEF IInv, TypeOK, Fire
<1> QED BY <1>1, <1>2 DEF TimerOK

\* Cross and Wait leave the goroutines alone, Fire starts one.
LEMMA BreachWork ==
  ASSUME IInv, NEW m \in Metrics, NEW i \in Tiers(m), Breach(m, i)
  PROVE  /\ IsABag(work') /\ BagToSet(work') \subseteq Jobs
         /\ cache' \in DeviceLabels \cup {None}
<1>1. ASSUME Fire(m, i) PROVE
        /\ IsABag(work') /\ BagToSet(work') \subseteq Jobs
        /\ cache' \in DeviceLabels \cup {None}
  <2>1. PICK l \in Names : alarmName(m, l) /\ Start(Job(m, l, PriorityOf(m, i)))
    BY <1>1 DEF Fire
  <2>2. Job(m, l, PriorityOf(m, i)) \in Jobs
    BY RuleFacts DEF Job, Jobs
  <2> QED BY <2>1, <2>2, StartFacts, AlarmName DEF IInv
<1>2. ASSUME Cross(m, i) \/ Wait(m, i)
      PROVE  work' = work /\ cache' \in DeviceLabels \cup {None}
  BY <1>2, AlarmName DEF IInv, Cross, Wait
<1> QED BY <1>1, <1>2 DEF Breach, IInv, TypeOK

LEMMA BreachIInv ==
  ASSUME IInv, NEW m \in Metrics, m \in reports, NEW i \in Tiers(m), Breach(m, i)
  PROVE  IInv'
<1>1. Record(m, "breach") /\ UNCHANGED <<reports, alarms, label>>
  BY DEF Breach, Cross, Wait, Fire
<1>2. /\ tracker' \in [Metrics -> [tier : Nat, age : Nat] \cup {None}]
      /\ \A n \in Metrics : tracker'[n] # None => tracker'[n].tier \in Tiers(n)
      /\ fired' \in [Metrics -> BOOLEAN]
      /\ \A n \in Metrics \ {m} : tracker'[n] = tracker[n] /\ fired'[n] = fired[n]
  <2>1. CASE Cross(m, i)
    <3>1. i \in Nat
      BY RuleFacts
    <3>2. tracker' = [tracker EXCEPT ![m] = [tier |-> i, age |-> 0]] /\ fired' = fired
      BY <2>1 DEF Cross
    <3> QED BY <3>1, <3>2 DEF IInv, TypeOK
  <2>2. CASE Wait(m, i)
    BY <2>2 DEF Wait, IInv, TypeOK
  <2>3. CASE Fire(m, i)
    BY <2>3 DEF Fire, IInv, TypeOK
  <2> QED BY <2>1, <2>2, <2>3 DEF Breach
<1>3. TypeOK'
  BY <1>1, <1>2, BreachWork, RecordType DEF IInv, TypeOK, Tiers
<1>4. TimersOK'
  <2>1. TimerOK(m, tracker'[m], last'[m], run'[m], fired'[m], silence'[m])
    BY CrossTimer, WaitTimer, FireTimer DEF Breach
  <2> QED BY <1>1, <1>2, <2>1, OtherTimers
<1> QED BY <1>3, <1>4 DEF IInv

-----------------------------------------------------------------------------
(* The rest of the world *)

\* A minute later.
LEMMA TickTimer ==
  ASSUME IInv, Tick, NEW m \in Metrics, m \in reports
  PROVE  TimerOK(m, tracker'[m], last'[m], run'[m], fired'[m], silence'[m])
<1>1. /\ TimerOK(m, tracker[m], last[m], run[m], fired[m], silence[m])
      /\ run[m] \in Nat /\ silence[m] \in 0..MaxSilence /\ silence[m] < MaxSilence
      /\ tracker[m] # None => tracker[m] \in [tier : Nat, age : Nat]
      /\ tracker[m] # None => tracker[m].tier \in Tiers(m)
  BY DEF IInv, TypeOK, TimersOK, Tick
<1>2. /\ last'[m] = last[m] /\ fired'[m] = fired[m] /\ silence'[m] = silence[m] + 1
      /\ run'[m] = IF last[m] = "breach" THEN Older(m, run[m]) ELSE 0
  BY DEF Tick
<1>3. CASE tracker[m] = None
  <2>1. tracker'[m] = None /\ last[m] # "breach"
    BY <1>1, <1>3 DEF Tick, TimerOK
  <2> QED BY <1>2, <2>1 DEF TimerOK
<1>4. CASE tracker[m] # None
  <2> DEFINE x == tracker[m].age
             k == tracker[m].tier
  <2>1. last[m] = "breach" /\ x \in Nat /\ k \in Tiers(m) /\ x <= run[m]
    BY <1>1, <1>4 DEF TimerOK
  <2>2. tracker'[m] = [tracker[m] EXCEPT !.age = Older(m, x)]
    BY <1>4 DEF Tick
  <2>3. Bound(m) \in Nat /\ Older(m, x) \in Nat /\ Older(m, run[m]) \in Nat
    BY <1>1, <2>1, BoundFacts DEF Older
  <2>4. tracker'[m] # None /\ tracker'[m].age = Older(m, x) /\ tracker'[m].tier = k
    BY <1>1, <1>4, <2>2, <2>3, NoneAssumption
  <2>5. Older(m, x) <= Older(m, run[m])
    BY <1>1, <2>1, <2>3 DEF Older
  <2>6. ASSUME fired[m] = FALSE
        PROVE  /\ Older(m, x) <= Duration(m, 1) + (silence[m] + 1)
               /\ Older(m, run[m]) <= (k - 1) * Turn(m) + Older(m, x)
    <3>1. x <= Duration(m, 1) + silence[m] /\ run[m] <= (k - 1) * Turn(m) + x
      BY <1>1, <1>4, <2>6 DEF TimerOK
    <3>2. Duration(m, 1) \in Nat /\ Turn(m) \in Nat /\ k \in Nat /\ 1 \in Tiers(m)
      BY <2>1, RuleFacts
    <3>3. x < Turn(m)
      BY <1>1, <2>1, <3>1, <3>2, BoundsAssumption DEF Turn
    <3>4. 1 * Turn(m) < Bound(m)
      BY <3>2, BoundFacts
    <3>5. Older(m, x) = x + 1
      BY <2>1, <2>3, <3>2, <3>3, <3>4 DEF Older
    <3>6. Older(m, run[m]) <= run[m] + 1
      BY <1>1, <2>3 DEF Older
    <3>7. (k - 1) * Turn(m) \in Int
      BY <3>2
    <3> DEFINE low == (k - 1) * Turn(m)
    <3> HIDE DEF low, x
    <3>8. low \in Int /\ run[m] <= low + x /\ x <= Duration(m, 1) + silence[m] /\ x \in Nat
      BY <2>1, <3>1, <3>7 DEF low, x
    <3>9. Older(m, x) <= Duration(m, 1) + (silence[m] + 1) /\ Older(m, run[m]) <= low + Older(m, x)
      BY <1>1, <2>3, <3>2, <3>5, <3>6, <3>8
    <3> QED BY <3>9 DEF low
  <2> HIDE DEF x, k
  <2>7. fired'[m] = FALSE =>
          /\ tracker'[m].age <= Duration(m, 1) + silence'[m]
          /\ run'[m] <= (tracker'[m].tier - 1) * Turn(m) + tracker'[m].age
    BY <1>2, <2>1, <2>4, <2>6, Zenon
  <2>8. tracker'[m].age <= run'[m] /\ last'[m] = "breach"
    BY <1>2, <2>1, <2>4, <2>5
  <2> QED BY <2>4, <2>7, <2>8, Zenon DEF TimerOK
<1> QED BY <1>3, <1>4

LEMMA TickIInv ==
  ASSUME IInv, Tick
  PROVE  IInv'
<1>1. TimersOK'
  <2> SUFFICES ASSUME NEW m \in Metrics
               PROVE  TimerOK(m, tracker'[m], last'[m], run'[m], fired'[m], silence'[m])
    BY DEF TimersOK, TimerOK, Turn, Duration
  <2>1. CASE m \in reports
    BY <2>1, TickTimer
  <2>2. CASE m \notin reports
    <3>1. last[m] = "none" /\ tracker[m] = None
      BY <2>2 DEF IInv, TypeOK, TimersOK, TimerOK
    <3>2. last'[m] = "none" /\ tracker'[m] = None /\ run'[m] = 0
      BY <3>1 DEF Tick
    <3> QED BY <3>2 DEF TimerOK
  <2> QED BY <2>1, <2>2
<1>2. UNCHANGED <<reports, work, alarms, label, cache, last, fired>>
  BY DEF Tick
<1>4. \A m \in Metrics : \A age \in Nat : Older(m, age) \in Nat
  BY DEF Older
<1>5. silence' \in [Metrics -> 0..MaxSilence] /\ run' \in [Metrics -> Nat]
  <2>1. \A m \in Metrics : (IF m \in reports THEN silence[m] + 1 ELSE silence[m]) \in 0..MaxSilence
    BY BoundsAssumption DEF IInv, TypeOK, Tick
  <2> QED BY <1>4, <2>1 DEF IInv, TypeOK, Tick
<1>6. ASSUME NEW m \in Metrics
      PROVE  /\ tracker'[m] \in [tier : Nat, age : Nat] \cup {None}
             /\ tracker'[m] # None => tracker'[m].tier \in Tiers(m)
  <2>1. /\ tracker[m] \in [tier : Nat, age : Nat] \cup {None}
        /\ tracker[m] # None => tracker[m].tier \in Tiers(m)
    BY DEF IInv, TypeOK
  <2>2. tracker'[m] = IF tracker[m] = None THEN None
                      ELSE [tracker[m] EXCEPT !.age = Older(m, @)]
    BY DEF Tick
  <2> QED BY <1>4, <2>1, <2>2
<1>7. tracker' \in [Metrics -> [tier : Nat, age : Nat] \cup {None}]
  BY <1>6 DEF Tick
<1>8. TypeOK'
  BY <1>2, <1>5, <1>6, <1>7 DEF IInv, TypeOK, Tiers
<1> QED BY <1>1, <1>8 DEF IInv

LEMMA RestartIInv ==
  ASSUME IInv, Restart
  PROVE  IInv'
<1>1. /\ tracker' = [m \in Metrics |-> None] /\ last' = [m \in Metrics |-> "none"]
      /\ run' = [m \in Metrics |-> 0] /\ fired' = [m \in Metrics |-> FALSE]
      /\ work' = EmptyBag
      /\ UNCHANGED <<reports, alarms, label, cache, silence>>
  BY DEF Restart
<1>2. TypeOK'
  BY <1>1, EmptyFacts DEF IInv, TypeOK
<1>3. TimersOK'
  BY <1>1 DEF TimersOK, TimerOK
<1> QED BY <1>2, <1>3 DEF IInv

\* Steps that leave the timers and their history alone.
LEMMA OtherIInv ==
  ASSUME IInv, UNCHANGED <<reports, tracker, last, run, fired, silence>>,
         IsABag(work'), BagToSet(work') \subseteq Jobs,
         alarms' \in [Metrics -> [Names -> 0..3]],
         label' \in DeviceLabels, cache' \in DeviceLabels \cup {None}
  PROVE  IInv'
<1>1. TypeOK'
  BY DEF IInv, TypeOK, Tiers
<1>2. TimersOK'
  BY DEF IInv, TimersOK, TimerOK, Turn, Duration
<1> QED BY <1>1, <1>2 DEF IInv

LEMMA WorkIInv ==
  ASSUME IInv, NEW j \in BagToSet(work), Work(j) \/ Fail(j)
  PROVE  IInv'
<1>1. /\ alarms \in [Metrics -> [Names -> 0..3]] /\ j \in Jobs
      /\ label \in DeviceLabels /\ cache \in DeviceLabels \cup {None}
  BY DEF IInv, TypeOK
<1>2. IsABag(work') /\ BagToSet(work') \subseteq Jobs
  BY <1>1, EndFacts DEF IInv, Work, Fail
<1>3. alarms' \in [Metrics -> [Names -> 0..3]]
  <2>1. \A active \in 0..3 : Outcome(j, active) \in 0..3
    BY <1>1 DEF Outcome, Jobs
  <2>2. j.metric \in Metrics /\ j.name \in Names
    BY <1>1 DEF Jobs
  <2>3. alarms[j.metric] \in [Names -> 0..3] /\ alarms[j.metric][j.name] \in 0..3
    BY <1>1, <2>2
  <2>4. Outcome(j, alarms[j.metric][j.name]) \in 0..3
    BY <2>1, <2>3
  <2>5. alarms' = alarms \/ alarms' = [alarms EXCEPT ![j.metric] =
          [alarms[j.metric] EXCEPT ![j.name] = Outcome(j, alarms[j.metric][j.name])]]
    BY DEF Work, Fail
  <2> QED BY <1>1, <2>2, <2>3, <2>4, <2>5
<1> QED BY <1>1, <1>2, <1>3, OtherIInv DEF Work, Fail, history

-----------------------------------------------------------------------------
LEMMA InitIInv == Init => IInv
<1> SUFFICES ASSUME Init PROVE IInv
  OBVIOUS
<1>1. TypeOK
  BY BoundsAssumption, AgentsAssumption, EmptyFacts DEF Init, TypeOK
<1>2. TimersOK
  BY DEF Init, TimersOK, TimerOK
<1> QED BY <1>1, <1>2 DEF IInv

LEMMA NextIInv == IInv /\ [Next]_vars => IInv'
<1> SUFFICES ASSUME IInv, [Next]_vars PROVE IInv'
  OBVIOUS
<1> USE DEF IInv, TypeOK
<1>1. ASSUME NEW m \in reports, Reading(m) PROVE IInv'
  <2> HIDE DEF IInv, TypeOK
  <2>1. m \in Metrics
    BY DEF IInv, TypeOK
  <2> QED BY <1>1, <2>1, NormalIInv, BreachIInv DEF Reading
<1>2. CASE LookUp
  BY <1>2, OtherIInv DEF LookUp, history
<1>3. ASSUME NEW j \in BagToSet(work), Work(j) \/ Fail(j) PROVE IInv'
  <2> HIDE DEF IInv, TypeOK
  <2> QED BY <1>3, WorkIInv
<1>4. CASE Tick
  <2> HIDE DEF IInv, TypeOK
  <2> QED BY <1>4, TickIInv
<1>5. ASSUME NEW l \in DeviceLabels, Rename(l) PROVE IInv'
  BY <1>5, OtherIInv DEF Rename, history
<1>6. CASE Expire
  BY <1>6, OtherIInv DEF Expire, history
<1>7. ASSUME NEW m \in Metrics, NEW l \in Names, Close(m, l) PROVE IInv'
  BY <1>7, OtherIInv DEF Close, history
<1>8. CASE Restart
  <2> HIDE DEF IInv, TypeOK
  <2> QED BY <1>8, RestartIInv
<1>9. CASE UNCHANGED vars
  BY <1>9, OtherIInv DEF vars
<1> HIDE DEF IInv, TypeOK
<1> QED BY <1>1, <1>2, <1>3, <1>4, <1>5, <1>6, <1>7, <1>8, <1>9 DEF Next

-----------------------------------------------------------------------------
THEOREM Invariance == Spec => []IInv
<1> QED BY InitIInv, NextIInv, PTL DEF Spec

\* The tracker holds a tier of its rule, and an alarm a priority.
THEOREM TypeCorrect == Spec => []TypeOK
<1>1. IInv => TypeOK
  BY DEF IInv
<1> QED BY <1>1, Invariance, PTL

\* Whatever the rules, an alarm is fired only after a breach without a break has
\* lasted for the duration of the tier (evaluateMetric).
THEOREM NoAlarmTooEarly == Spec => FiredAfterBreach
<1> DEFINE Due(j) == \E i \in Tiers(j.metric) : /\ PriorityOf(j.metric, i) = j.rank
                                                /\ run'[j.metric] >= Duration(j.metric, i)
           Fired == \A j \in Jobs : j.rank > 0 /\ Count(j, work') > Count(j, work) => Due(j)
<1>1. IInv /\ [Next]_vars => [Fired]_vars
  <2> SUFFICES ASSUME IInv, Next, NEW j \in Jobs,
                      j.rank > 0, Count(j, work') > Count(j, work)
               PROVE  Due(j)
    OBVIOUS
  <2>1. \A k \in Jobs : Count(k, work) \in Nat
    BY DEF IInv, TypeOK, IsABag, Count, BagIn, BagToSet
  <2>2. work' # work
    BY <2>1
  <2>3. \A k \in BagToSet(work) : ~(Work(k) \/ Fail(k))
    BY EndFacts DEF Work, Fail, IInv, TypeOK
  <2>4. ~Restart
    BY <2>1, EmptyFacts DEF Restart
  <2>5. PICK m \in reports : Reading(m)
    BY <2>2, <2>3, <2>4 DEF Next, LookUp, Tick, Rename, Expire, Close
  <2>6. m \in Metrics
    BY DEF IInv, TypeOK
  <2>7. ~Normal(m)
    <3>1. \A l \in Names : Job(m, l, 0) \in Jobs /\ j # Job(m, l, 0)
      BY <2>6 DEF Job, Jobs
    <3> QED BY <2>6, <3>1, StartFacts DEF Normal, IInv
  <2>8. PICK i \in Tiers(m) : Fire(m, i)
    BY <2>2, <2>5, <2>7 DEF Reading, Breach, Cross, Wait
  <2>9. PICK l \in Names : Start(Job(m, l, PriorityOf(m, i)))
    BY <2>8 DEF Fire
  <2>10. Job(m, l, PriorityOf(m, i)) \in Jobs
    BY <2>6, RuleFacts DEF Job, Jobs
  <2>11. j = Job(m, l, PriorityOf(m, i))
    BY <2>9, <2>10, StartFacts DEF IInv
  <2>12. j.metric = m /\ j.rank = PriorityOf(m, i)
    BY <2>11 DEF Job
  <2>13. run'[m] = run[m] /\ tracker[m].age <= run[m] /\ tracker[m].age >= Duration(m, i)
    BY <2>6, <2>8, ReachedFacts, RecordType DEF IInv, Fire
  <2>14. run[m] \in Nat /\ tracker[m].age \in Nat /\ Duration(m, i) \in Nat
    BY <2>6, <2>8, ReachedFacts, RuleFacts DEF IInv, TypeOK, Fire
  <2> QED BY <2>12, <2>13, <2>14
<1> QED BY <1>1, Invariance, PTL DEF Spec, FiredAfterBreach

\* Whatever the rules, a breach that is reported at least every MaxSilence
\* minutes fires after Bound minutes at the latest (evaluateMetric).
THEOREM NoBreachUnnoticed == Spec => []SustainedIsFired
<1>1. IInv => SustainedIsFired
  <2> SUFFICES ASSUME IInv, NEW m \in Metrics, run[m] >= Bound(m), fired[m] = FALSE
               PROVE  FALSE
    BY DEF SustainedIsFired, IInv, TypeOK
  <2>1. /\ TimerOK(m, tracker[m], last[m], run[m], fired[m], silence[m])
        /\ run[m] \in Nat /\ silence[m] \in 0..MaxSilence
        /\ tracker[m] # None => /\ tracker[m].tier \in Tiers(m)
                                /\ tracker[m].age \in Nat
    BY DEF IInv, TypeOK, TimersOK
  <2>2. 1 \in Tiers(m) /\ Turn(m) \in Nat \ {0} /\ Duration(m, 1) \in Nat /\ Tiers(m) \subseteq Nat
    BY RuleFacts
  <2>3. Bound(m) \in Nat /\ 1 * Turn(m) < Bound(m)
    BY <2>2, BoundFacts
  <2>4. tracker[m] # None
    BY <2>1, <2>2, <2>3 DEF TimerOK
  <2> DEFINE k == tracker[m].tier
             x == tracker[m].age
  <2>5. x <= Turn(m) /\ run[m] <= (k - 1) * Turn(m) + x /\ x \in Nat /\ k \in Tiers(m)
    BY <2>1, <2>2, <2>4, BoundsAssumption DEF TimerOK, Turn
  <2>6. k * Turn(m) < Bound(m)
    BY <2>5, BoundFacts
  <2>7. k \in Nat /\ (k - 1) * Turn(m) + Turn(m) = k * Turn(m)
    BY <2>2, <2>5
  <2>8. (k - 1) * Turn(m) \in Int /\ k * Turn(m) \in Int
    BY <2>2, <2>7
  <2> DEFINE low == (k - 1) * Turn(m)
             high == k * Turn(m)
  <2>9. /\ low \in Int /\ high \in Int /\ run[m] <= low + x /\ low + Turn(m) = high
        /\ high < Bound(m)
    BY <2>5, <2>6, <2>7, <2>8
  <2> HIDE DEF low, high, k, x
  <2> QED BY <2>1, <2>2, <2>3, <2>5, <2>9
<1> QED BY <1>1, Invariance, PTL
=============================================================================
