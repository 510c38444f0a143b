---------------------------- MODULE BreachTracker ----------------------------
(***************************************************************************)
(* EvaluateMetrics of internal/service/alarm.go for one device: the        *)
(* readings an agent sends drive a timer per metric (breachTracker), and   *)
(* the timer starts goroutines that fire and close alarms by name.         *)
(*                                                                         *)
(* An evaluation looks the label of the device up, in Redis or in the      *)
(* database, before it takes breachMu; it holds breachMu while it moves    *)
(* the timer and starts a goroutine, and this part is one action.  The     *)
(* evaluations of concurrent batches come in any order, with a label that  *)
(* may be an old one by then.  The goroutines run in any order too, and    *)
(* one may fail or be lost with the server.  Each is taken here as what    *)
(* createOrEscalate and closeAlarmByName promise: the races of their       *)
(* statements are the subject of AlarmEscalation.  Time is counted in      *)
(* minutes, since every Duration is a number of minutes, and only ages     *)
(* are kept.                                                               *)
(***************************************************************************)
EXTENDS Integers, Sequences, Bags

CONSTANTS
  Metrics,     \* the metric types
  Agents,      \* the sets of metric types that the agent of a device may report
  Rules,       \* Rules[m]: the tiers of metric m
  Values,      \* Values[m]: the values that it takes
  DeviceLabels,\* the labels "hostname (ip)" that the device may have
  DeviceId,    \* its id, which names alarms too
  LookupFails, \* whether reading the device may fail
  MaxSilence,  \* bound: the longest time without a reading of a metric
  MaxWork,     \* bound: the number of goroutines at work
  None         \* nothing tracked, nothing cached

Tiers(m) == DOMAIN Rules[m].tiers
Duration(m, i) == Rules[m].tiers[i].duration
PriorityOf(m, i) == Rules[m].tiers[i].priority

\* "Tiers must be listed from least to most severe."
ASSUME RulesAssumption ==
  /\ \A m \in Metrics :
       /\ Rules[m].tiers \in Seq([min : Nat, priority : 1..3, duration : Nat])
       /\ Rules[m].tiers # <<>>
       /\ Rules[m].inverse \in BOOLEAN
       /\ Values[m] \subseteq Nat
  /\ \A m \in Metrics : \A i, j \in Tiers(m) : i < j =>
       /\ PriorityOf(m, i) < PriorityOf(m, j)
       /\ Duration(m, j) <= Duration(m, i)
       /\ IF Rules[m].inverse THEN Rules[m].tiers[j].min < Rules[m].tiers[i].min
                              ELSE Rules[m].tiers[i].min < Rules[m].tiers[j].min
ASSUME NamesAssumption == DeviceId \notin DeviceLabels /\ None \notin DeviceLabels
ASSUME NoneAssumption == None \notin [tier : Nat, age : Nat]
ASSUME AgentsAssumption == Agents \subseteq SUBSET Metrics
ASSUME BoundsAssumption ==
  MaxSilence \in Nat \ {0} /\ MaxWork \in Nat \ {0} /\ LookupFails \in BOOLEAN

VARIABLES
  reports,  \* the metric types that the agent reports
  tracker,  \* tracker[m]: the tier that m has reached and how long ago, or None
  work,     \* the bag of the goroutines at work
  alarms,   \* alarms[m][l]: the rank of the active alarm of m named after l, or 0
  label,    \* the label of the device in the database
  cache,    \* the label in Redis, or in an evaluation that waits for breachMu, or None
  last,     \* last[m]: what the last reading of m was, in this life of the server
  run,      \* run[m]: how long all readings of m have been a breach
  fired,    \* fired[m]: an alarm has been fired in this run of readings
  silence   \* silence[m]: the time since the last reading

\* What the server keeps; run, fired and silence are history the properties use.
vars == <<reports, tracker, work, alarms, label, cache, last, run, fired, silence>>
history == <<last, run, fired>>

Names == DeviceLabels \cup {DeviceId}

\* A goroutine: createOrEscalate to a rank, or closeAlarmByName with rank 0.
Jobs == [metric : Metrics, name : Names, rank : 0..3]
Job(m, l, r) == [metric |-> m, name |-> l, rank |-> r]
Count(j, bag) == IF BagIn(j, bag) THEN bag[j] ELSE 0
Start(j) == BagCardinality(work) < MaxWork /\ work' = work (+) SetToBag({j})

\* A breach of this length must have fired: the timer starts again at most once
\* for each tier.
Bound(m) == Len(Rules[m].tiers) * (Duration(m, 1) + MaxSilence) + MaxSilence

\* Ages are not told apart beyond this one.
Older(m, age) == IF age < Bound(m) THEN age + 1 ELSE age

Init ==
  /\ reports \in Agents
  /\ work = EmptyBag
  /\ tracker = [m \in Metrics |-> None]
  /\ alarms = [m \in Metrics |-> [l \in Names |-> 0]]
  /\ label \in DeviceLabels
  /\ cache = None
  /\ last = [m \in Metrics |-> "none"]
  /\ run = [m \in Metrics |-> 0]
  /\ fired = [m \in Metrics |-> FALSE]
  /\ silence = [m \in Metrics |-> 0]

-----------------------------------------------------------------------------
(* The evaluation of a reading *)

Meets(m, value, i) ==
  IF Rules[m].inverse THEN value <= Rules[m].tiers[i].min ELSE value >= Rules[m].tiers[i].min

\* Tier i is the worst that the value meets.
matchedIdx(m, value, i) ==
  /\ Meets(m, value, i)
  /\ \A j \in Tiers(m) : Meets(m, value, j) => j <= i

\* The label in Redis, else the one in the database, which is then cached (a
\* Redis that fails is a miss); else, when the device cannot be read, its id.
deviceLabel(l) ==
  \/ cache # None /\ l = cache /\ UNCHANGED cache
  \/ l = label /\ cache' \in {cache, label}
  \/ LookupFails /\ l = DeviceId /\ UNCHANGED cache

\* The alarms of ports are named after the device id, the others after the label.
alarmName(m, l) ==
  IF m = "port_status" THEN l = DeviceId /\ UNCHANGED cache ELSE deviceLabel(l)

\* The history that a reading leaves behind.
Record(m, reading) ==
  /\ last' = [last EXCEPT ![m] = reading]
  /\ run' = [run EXCEPT ![m] = IF reading = last[m] THEN @ ELSE 0]
  /\ silence' = [silence EXCEPT ![m] = 0]

\* Back to normal: the timer is cleared, and a goroutine closes the alarm of
\* that name, whether the tracker knew of a breach or not.
Calm(m) == Record(m, "normal") /\ fired' = [fired EXCEPT ![m] = FALSE]
KeepTimer(m) ==  \* mutant: the timer is not cleared
  /\ Calm(m)
  /\ \E l \in Names : alarmName(m, l) /\ Start(Job(m, l, 0))
  /\ UNCHANGED <<reports, tracker, alarms, label>>
CloseTracked(m) ==  \* mutant: only the end of a breach that is tracked closes the alarm
  /\ Calm(m)
  /\ tracker' = [tracker EXCEPT ![m] = None]
  /\ \E l \in Names :
       /\ alarmName(m, l)
       /\ IF tracker[m] # None THEN Start(Job(m, l, 0)) ELSE UNCHANGED work
  /\ UNCHANGED <<reports, alarms, label>>
Normal(m) ==
  /\ Calm(m)
  /\ tracker' = [tracker EXCEPT ![m] = None]
  /\ \E l \in Names : alarmName(m, l) /\ Start(Job(m, l, 0))
  /\ UNCHANGED <<reports, alarms, label>>

\* A first breach, or a worse one, starts the timer.
Reached(m) == IF tracker[m] = None THEN 0 ELSE tracker[m].tier

Changes(m, i) == i # Reached(m)  \* mutant: a milder reading does, too
Worsens(m, i) == i > Reached(m)

Cross(m, i) ==
  /\ Worsens(m, i)
  /\ Record(m, "breach")
  /\ tracker' = [tracker EXCEPT ![m] = [tier |-> i, age |-> 0]]
  /\ \E l \in Names : alarmName(m, l)
  /\ UNCHANGED <<reports, work, alarms, label, fired>>

\* Not sustained for as long as the tier of this reading asks for.
Wait(m, i) ==
  /\ ~Worsens(m, i)
  /\ tracker[m].age < Duration(m, i)
  /\ Record(m, "breach")
  /\ \E l \in Names : alarmName(m, l)
  /\ UNCHANGED <<reports, tracker, work, alarms, label, fired>>

\* Sustained: a goroutine creates the alarm, or escalates it.
Fire(m, i) ==
  /\ ~Worsens(m, i)
  /\ tracker[m].age >= Duration(m, i)
  /\ Record(m, "breach")
  /\ fired' = [fired EXCEPT ![m] = TRUE]
  /\ \E l \in Names : alarmName(m, l) /\ Start(Job(m, l, PriorityOf(m, i)))
  /\ UNCHANGED <<reports, tracker, alarms, label>>

Breach(m, i) == Cross(m, i) \/ Wait(m, i) \/ Fire(m, i)

Reading(m) == \E value \in Values[m] :
  \/ (\A i \in Tiers(m) : ~Meets(m, value, i)) /\ Normal(m)
  \/ \E i \in Tiers(m) : matchedIdx(m, value, i) /\ Breach(m, i)

\* A lookup whose evaluation then waits for breachMu: the label that it holds is
\* as good, and as old, as one that Redis keeps.
LookUp ==
  /\ cache = None
  /\ cache' = label
  /\ UNCHANGED <<reports, tracker, work, alarms, label, history, silence>>

-----------------------------------------------------------------------------
(* The goroutines *)

\* The alarm is created, escalated or left at its priority; or closed.
Outcome(j, active) ==
  IF j.rank = 0 THEN 0 ELSE IF j.rank > active THEN j.rank ELSE active

Work(j) ==
  /\ BagIn(j, work)
  /\ work' = work (-) SetToBag({j})
  /\ alarms' = [alarms EXCEPT ![j.metric][j.name] = Outcome(j, @)]
  /\ UNCHANGED <<reports, tracker, label, cache, history, silence>>

\* A statement of the goroutine fails: it logs and returns.
Fail(j) ==
  /\ BagIn(j, work)
  /\ work' = work (-) SetToBag({j})
  /\ UNCHANGED <<reports, tracker, alarms, label, cache, history, silence>>

-----------------------------------------------------------------------------
(* The rest of the world *)

Tick ==
  /\ \A m \in reports : silence[m] < MaxSilence
  /\ silence' = [m \in Metrics |-> IF m \in reports THEN silence[m] + 1 ELSE silence[m]]
  /\ tracker' = [m \in Metrics |->
                   IF tracker[m] = None THEN None
                   ELSE [tracker[m] EXCEPT !.age = Older(m, @)]]
  /\ run' = [m \in Metrics |-> IF last[m] = "breach" THEN Older(m, run[m]) ELSE 0]
  /\ UNCHANGED <<reports, work, alarms, label, cache, last, fired>>

\* Update of the device's name, hostname or address: the cached label stays.
Rename(l) ==
  /\ label' = l
  /\ UNCHANGED <<reports, tracker, work, alarms, cache, history, silence>>

\* The five minutes of the cached label are over.
Expire ==
  /\ cache # None
  /\ cache' = None
  /\ UNCHANGED <<reports, tracker, work, alarms, label, history, silence>>

\* An operator closes an alarm while the breach lasts.
Close(m, l) ==
  /\ alarms[m][l] > 0
  /\ alarms' = [alarms EXCEPT ![m][l] = 0]
  /\ UNCHANGED <<reports, tracker, work, label, cache, history, silence>>

\* The server starts again with an empty tracker, its goroutines are lost; Redis
\* and the database stay.
Restart ==
  /\ work' = EmptyBag
  /\ tracker' = [m \in Metrics |-> None]
  /\ last' = [m \in Metrics |-> "none"]
  /\ run' = [m \in Metrics |-> 0]
  /\ fired' = [m \in Metrics |-> FALSE]
  /\ UNCHANGED <<reports, alarms, label, cache, silence>>

Next ==
  \/ \E m \in reports : Reading(m)
  \/ LookUp
  \/ \E j \in BagToSet(work) : Work(j) \/ Fail(j)
  \/ Tick
  \/ \E l \in DeviceLabels : Rename(l)
  \/ Expire
  \/ \E m \in Metrics, l \in Names : Close(m, l)
  \/ Restart

Spec == Init /\ [][Next]_vars

\* The agent goes on to report.  Goroutines that have been started run, and of
\* those that are started for ever not all fail, the ones that close an alarm as
\* little as those that raise one.
Closes(j) == j.rank = 0 /\ Work(j)
Raises(j) == j.rank > 0 /\ Work(j)
Fairness ==
  /\ WF_vars(\E m \in reports : Reading(m))
  /\ SF_vars(\E j \in BagToSet(work) : Closes(j))
  /\ SF_vars(\E j \in BagToSet(work) : Raises(j))
FairSpec == Spec /\ Fairness

-----------------------------------------------------------------------------
(* Properties *)

TypeOK ==
  /\ reports \subseteq Metrics
  /\ IsABag(work) /\ BagToSet(work) \subseteq Jobs
  /\ tracker \in [Metrics -> [tier : Nat, age : Nat] \cup {None}]
  /\ \A m \in Metrics : tracker[m] # None => tracker[m].tier \in Tiers(m)
  /\ alarms \in [Metrics -> [Names -> 0..3]]
  /\ label \in DeviceLabels /\ cache \in DeviceLabels \cup {None}
  /\ last \in [Metrics -> {"none", "normal", "breach"}]
  /\ \A m \in Metrics \ reports : last[m] = "none"
  /\ run \in [Metrics -> Nat]
  /\ fired \in [Metrics -> BOOLEAN]
  /\ silence \in [Metrics -> 0..MaxSilence]

\* An alarm is fired with the priority of a tier only after the readings have
\* been out of the normal range, without a break, for the Duration of that tier
\* (evaluateMetric, evaluatePortStatus).
FiredAfterBreach ==
  [][\A j \in Jobs : j.rank > 0 /\ Count(j, work') > Count(j, work) =>
       \E i \in Tiers(j.metric) : /\ PriorityOf(j.metric, i) = j.rank
                                  /\ run'[j.metric] >= Duration(j.metric, i)]_vars

\* A breach that the agent keeps reporting does fire, however often it changes
\* its tier: each tier starts the timer again at most once.
SustainedIsFired == \A m \in Metrics : run[m] >= Bound(m) => fired[m]

\* "The alarm auto-closes when the port recovers": a port that stays up has its
\* alarm closed for good in the end.  A fire may land after the close that
\* followed it, a close may fail and a restart forgets the breach, but every
\* reading that is normal closes anew (evaluatePortStatus).
RecoveredIsClosed ==
  \A m \in Metrics : m = "port_status" =>
    (<>[](m \in reports /\ last[m] = "normal") => <>[](\A l \in Names : alarms[m][l] = 0))
=============================================================================
