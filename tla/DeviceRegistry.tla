---------------------------- MODULE DeviceRegistry ----------------------------
(***************************************************************************)
(* The device inventory (internal/service/device.go): the requests of      *)
(* agents and monitors, which register a device on first contact and keep  *)
(* it online, the requests of administrators, and the worker of the alarm  *)
(* service that marks silent devices offline.                              *)
(*                                                                         *)
(* As in AlarmEscalation an action is one SQL statement, and a handler     *)
(* h[p] holds a copy of the row it read: Update writes every column of     *)
(* the row from it.  Time appears as ages: a row's age is the time since   *)
(* its last_seen, and copies age as rows do.                               *)
(***************************************************************************)
EXTENDS Naturals, Sequences

CONSTANTS
  IPs,         \* the addresses of the network
  DeviceTypes, \* the types that agents and monitors report
  DeviceNames, \* the names that administrators give
  Procs,       \* requests that may be served at the same time
  Timeout,     \* HEARTBEAT_TIMEOUT_MINUTES
  MaxOps,      \* bound: requests served
  MaxFaults,   \* bound: SQL statements that return an error
  None         \* no row, no last_seen

ASSUME TypesAssumption == "server" \in DeviceTypes
ASSUME BoundsAssumption == Timeout \in Nat /\ MaxOps \in Nat /\ MaxFaults \in Nat
ASSUME NoneAssumption == None \notin Nat

VARIABLES
  devices,   \* the table: row i has the id i, None once it is deleted
  measured,  \* the ids that rows of the metrics table refer to
  h,         \* h[p]: where request p is and what it holds
  stale,     \* the devices the worker still has to mark
  ops, faults

bounds == <<ops, faults>>
vars == <<devices, measured, h, stale, bounds>>

\* Ages beyond the timeout are not told apart; None is a NULL last_seen.
Old == Timeout + 1
Ages == 0..Old \cup {None}

\* A name is one that an administrator gave, or the hostname of first contact.
Device == [id : Nat, ip : IPs, name : DeviceNames \cup {"hostname"}, type : DeviceTypes,
           status : {"unknown", "online", "offline"}, age : Ages]
ASSUME RowAssumption == None \notin Device

Labels == {"idle", "find", "upgrade", "create", "store", "beat",
           "get", "put", "check", "delete"}
Kinds == {"metrics", "heartbeat", "event", "admin"}
Request == [pc : Labels, kind : Kinds, ip : IPs \cup {None}, type : DeviceTypes \cup {None},
            id : Nat, name : DeviceNames \cup {None}, row : Device \cup {None}]

Idle == [pc |-> "idle", kind |-> "admin", ip |-> None, type |-> None,
         id |-> 0, name |-> None, row |-> None]

Init ==
  /\ devices = <<>> /\ measured = {}
  /\ h = [p \in Procs |-> Idle]
  /\ stale = {}
  /\ ops = 0 /\ faults = 0

-----------------------------------------------------------------------------
Ids == {i \in DOMAIN devices : devices[i] # None}
AtIP(ip) == {i \in Ids : devices[i].ip = ip}

\* The UNIQUE constraint on ip_address, for a row that is to have the id i.
IPTaken(ip, i) == AtIP(ip) \ {i} # {}

\* UPDATE devices ... WHERE id: no row is no error.
Update(row) == devices' = [devices EXCEPT ![row.id] = IF @ = None THEN None ELSE row]

\* UpdateStatus writes both columns, with the time of the call.
UpdateStatus(i, status) ==
  devices' = [devices EXCEPT ![i] = IF @ = None THEN None
                                    ELSE [@ EXCEPT !.status = status, !.age = 0]]

Goto(p, request) == h' = [h EXCEPT ![p] = request]
Return(p) == Goto(p, Idle)

\* With a device at hand, Metrics stores the batch, Heartbeat goes on to the
\* status, and Event is done (its alarm is not modelled here).
WithDevice(p, i) ==
  CASE h[p].kind = "metrics"   -> Goto(p, [Idle EXCEPT !.pc = "store", !.id = i])
    [] h[p].kind = "heartbeat" -> Goto(p, [Idle EXCEPT !.pc = "beat", !.id = i])
    [] OTHER                   -> Return(p)

-----------------------------------------------------------------------------
(* EnsureDevice *)

Upgrades(type, row) == type # "server" /\ row.type = "server"

Find(p, ok) ==
  /\ h[p].pc = "find"
  /\ \/ ~ok /\ Return(p)
     \/ /\ ok /\ AtIP(h[p].ip) = {}
        /\ Goto(p, [h[p] EXCEPT !.pc = "create"])
     \/ /\ ok
        /\ \E i \in AtIP(h[p].ip) :
             IF Upgrades(h[p].type, devices[i])
             THEN Goto(p, [h[p] EXCEPT !.pc = "upgrade",
                                       !.row = [devices[i] EXCEPT !.type = h[p].type]])
             ELSE WithDevice(p, i)
  /\ UNCHANGED <<devices, measured, stale>>

\* The result of this Update is dropped.
Upgrade(p, ok) ==
  /\ h[p].pc = "upgrade"
  /\ IF ok /\ ~IPTaken(h[p].row.ip, h[p].row.id) THEN Update(h[p].row) ELSE UNCHANGED devices
  /\ WithDevice(p, h[p].row.id)
  /\ UNCHANGED <<measured, stale>>

Create(p, ok) ==
  LET i == Len(devices) + 1
      new == [id |-> i, ip |-> h[p].ip, name |-> "hostname", type |-> h[p].type,
              status |-> "online", age |-> 0]
  IN
  /\ h[p].pc = "create"
  /\ IF ok /\ ~IPTaken(h[p].ip, i)
     THEN devices' = Append(devices, new) /\ WithDevice(p, i)
     ELSE Return(p) /\ UNCHANGED devices
  /\ UNCHANGED <<measured, stale>>

(* Ingest and ProcessHeartbeat *)

\* The rows of metrics refer to the device.
Store(p, ok) ==
  /\ h[p].pc = "store"
  /\ IF ok /\ h[p].id \in Ids
     THEN /\ measured' = measured \cup {h[p].id}
          /\ Goto(p, [h[p] EXCEPT !.pc = "beat"])
     ELSE Return(p) /\ UNCHANGED measured
  /\ UNCHANGED <<devices, stale>>

Beat(p, ok) ==
  /\ h[p].pc = "beat"
  /\ IF ok THEN UpdateStatus(h[p].id, "online") ELSE UNCHANGED devices
  /\ Return(p)
  /\ UNCHANGED <<measured, stale>>

-----------------------------------------------------------------------------
(* The administrators' Update and Delete *)

\* The row with the fields that the request names; the others are None there.
Edited(row, request) ==
  [row EXCEPT !.name = IF request.name = None THEN @ ELSE request.name,
              !.ip = IF request.ip = None THEN @ ELSE request.ip,
              !.type = IF request.type = None THEN @ ELSE request.type]

Get(p, ok) ==
  /\ h[p].pc = "get"
  /\ IF ok /\ h[p].id \in Ids
     THEN Goto(p, [Idle EXCEPT !.pc = "put", !.row = Edited(devices[h[p].id], h[p])])
     ELSE Return(p)
  /\ UNCHANGED <<devices, measured, stale>>

Put(p, ok) ==
  /\ h[p].pc = "put"
  /\ IF ok /\ ~IPTaken(h[p].row.ip, h[p].row.id) THEN Update(h[p].row) ELSE UNCHANGED devices
  /\ Return(p)
  /\ UNCHANGED <<measured, stale>>

\* Delete reads the device first, only to answer 404.
Check(p, ok) ==
  /\ h[p].pc = "check"
  /\ IF ok /\ h[p].id \in Ids THEN Goto(p, [h[p] EXCEPT !.pc = "delete"]) ELSE Return(p)
  /\ UNCHANGED <<devices, measured, stale>>

\* The metrics table refers to devices without ON DELETE: a device that has rows
\* there stays.
Delete(p, ok) ==
  /\ h[p].pc = "delete"
  /\ devices' = IF ok /\ h[p].id \notin measured THEN [devices EXCEPT ![h[p].id] = None]
                                                 ELSE devices
  /\ Return(p)
  /\ UNCHANGED <<measured, stale>>

-----------------------------------------------------------------------------
(* The workers: the archiver and checkOfflineDevices *)

\* The archiver deletes the last measurements of a device, which are older than
\* the retention period (DeleteBefore).
Archive(i) ==
  /\ i \in measured
  /\ measured' = measured \ {i}
  /\ UNCHANGED <<devices, h, stale, bounds>>

\* FindStale: not offline, and last_seen NULL or before now - timeout.
AnySilent(row) == row.age = Old  \* mutant: NULL is before nothing
IsStale(row) == row.status # "offline" /\ row.age \in {None, Old}

FindStale(ok) ==
  /\ stale = {}
  /\ stale' = IF ok THEN {i \in Ids : IsStale(devices[i])} ELSE {}
  /\ UNCHANGED <<devices, measured, h>>

MarkOffline(ok) ==
  /\ \E i \in stale :
       /\ stale' = stale \ {i}
       /\ IF ok THEN UpdateStatus(i, "offline") ELSE UNCHANGED devices
  /\ UNCHANGED <<measured, h>>

-----------------------------------------------------------------------------
Contact(p, ip, type, kind) ==
  /\ Goto(p, [Idle EXCEPT !.pc = "find", !.kind = kind, !.ip = ip, !.type = type])
  /\ UNCHANGED devices

AdminUpdate(p, i, name, ip, type) ==
  /\ Goto(p, [Idle EXCEPT !.pc = "get", !.id = i, !.name = name, !.ip = ip, !.type = type])
  /\ UNCHANGED devices

AdminDelete(p, i) ==
  /\ Goto(p, [Idle EXCEPT !.pc = "check", !.id = i])
  /\ UNCHANGED devices

\* The Create of the API is a single statement.
AdminCreate(ip, type, name) ==
  LET i == Len(devices) + 1 IN
  /\ devices' = IF IPTaken(ip, i) THEN devices
                ELSE Append(devices, [id |-> i, ip |-> ip, name |-> name, type |-> type,
                                      status |-> "unknown", age |-> None])
  /\ UNCHANGED h

Serve(p) ==
  /\ h[p].pc = "idle" /\ ops < MaxOps
  /\ ops' = ops + 1
  /\ \/ \E ip \in IPs, type \in DeviceTypes, kind \in Kinds \ {"admin"} : Contact(p, ip, type, kind)
     \/ \E i \in Ids, name \in DeviceNames \cup {None}, ip \in IPs \cup {None},
           type \in DeviceTypes \cup {None} : AdminUpdate(p, i, name, ip, type)
     \/ \E i \in Ids : AdminDelete(p, i)
     \/ \E ip \in IPs, type \in DeviceTypes, name \in DeviceNames : AdminCreate(ip, type, name)
  /\ UNCHANGED <<measured, stale, faults>>

Statement(p, ok) ==
  \/ Find(p, ok) \/ Upgrade(p, ok) \/ Create(p, ok) \/ Store(p, ok) \/ Beat(p, ok)
  \/ Get(p, ok) \/ Put(p, ok) \/ Check(p, ok) \/ Delete(p, ok)

Answered(ok) ==
  /\ ok \/ faults < MaxFaults
  /\ faults' = IF ok THEN faults ELSE faults + 1
  /\ UNCHANGED ops

Run(p) == \E ok \in BOOLEAN : Answered(ok) /\ Statement(p, ok)
Worker == \E ok \in BOOLEAN : Answered(ok) /\ (FindStale(ok) \/ MarkOffline(ok))

\* A minute passes for the rows and for the copies.
Aged(age) == IF age \in 0..Timeout THEN age + 1 ELSE age
AgedRow(row) == IF row = None THEN None ELSE [row EXCEPT !.age = Aged(@)]
Tick ==
  /\ devices' = [i \in DOMAIN devices |-> AgedRow(devices[i])]
  /\ h' = [p \in Procs |-> [h[p] EXCEPT !.row = AgedRow(@)]]
  /\ UNCHANGED <<measured, stale, bounds>>

Next == \/ \E p \in Procs : Serve(p) \/ Run(p)
        \/ Worker
        \/ \E i \in measured : Archive(i)
        \/ Tick

Spec == Init /\ [][Next]_vars

\* The worker's ticker, the handlers and the clock go on.
FairSpec == Spec /\ WF_vars(Worker) /\ WF_vars(Tick) /\ \A p \in Procs : WF_vars(Run(p))

-----------------------------------------------------------------------------
(* Properties *)

TypeOK ==
  /\ devices \in Seq(Device \cup {None})
  /\ \A i \in Ids : devices[i].id = i
  /\ measured \subseteq Ids
  /\ h \in [Procs -> Request]
  /\ stale \subseteq DOMAIN devices
  /\ ops \in 0..MaxOps /\ faults \in 0..MaxFaults

\* A device that nobody hears from is marked offline in the end, whatever stale
\* copy brings it back online: "A background worker that marks devices offline
\* when heartbeats stop arriving" (alarm.go, l.5).
SilentGoesOffline ==
  \A i \in 1..MaxOps :
    (i \in Ids /\ devices[i].age \in {None, Old}) ~>
    (i \in Ids => devices[i].status = "offline" \/ devices[i].age \notin {None, Old})
=============================================================================
