------------------------- MODULE DeviceRegistryProofs -------------------------
(***************************************************************************)
(* The device table for any number of requests served at the same time,    *)
(* any addresses and any number of failed statements.                      *)
(***************************************************************************)
EXTENDS DeviceRegistry, SequenceTheorems, TLAPS

DevicesOK ==
  /\ devices \in Seq(Device \cup {None})
  /\ \A i \in Ids : devices[i].id = i /\ devices[i] \in Device

\* A request x whose ids and copies are of the first n rows.
HandlerOK(x, n) ==
  /\ x \in Request
  /\ x.pc \in {"find", "create"} => x.ip \in IPs /\ x.type \in DeviceTypes
  /\ x.pc \in {"upgrade", "put"} => x.row \in Device /\ x.row.id \in 1..n
  /\ x.pc \in {"store", "beat", "get", "check", "delete"} => x.id \in 1..n

HandlersOK == h \in [Procs -> Request] /\ \A p \in Procs : HandlerOK(h[p], Len(devices))

\* The inductive invariant.
IInv == TypeOK /\ DevicesOK /\ HandlersOK

\* What a step does to the table: no row is lost that something refers to.
GoodTable ==
  /\ DevicesOK'
  /\ Len(devices') >= Len(devices)
  /\ measured' \subseteq Ids'

\* And to the request that takes it.
GoodMove(p) ==
  /\ GoodTable
  /\ \E x \in Request : h' = [h EXCEPT ![p] = x] /\ HandlerOK(x, Len(devices'))

-----------------------------------------------------------------------------
(* Writes to the table *)

LEMMA SameTable ==
  ASSUME IInv, devices' = devices, measured' \subseteq Ids
  PROVE  GoodTable
<1>1. Ids' = Ids /\ Len(devices') = Len(devices) /\ Len(devices) \in Nat
  BY DEF Ids, IInv, DevicesOK
<1> QED BY <1>1 DEF IInv, GoodTable, DevicesOK

\* Writes in place: the addresses are those of before, but for one row whose
\* address is free.
LEMMA InPlace ==
  ASSUME IInv, NEW i \in DOMAIN devices, NEW row,
         row \in Device, row.id = i,
         devices' = [devices EXCEPT ![i] = IF @ = None THEN None ELSE row],
         measured' = measured
  PROVE  GoodTable
<1>1. devices \in Seq(Device \cup {None}) /\ row \in Device \cup {None} /\ row # None
  BY RowAssumption DEF IInv, DevicesOK
<1>2. /\ devices' \in Seq(Device \cup {None}) /\ Len(devices') = Len(devices)
      /\ DOMAIN devices' = DOMAIN devices /\ Len(devices) \in Nat
  BY <1>1
<1>3. Ids' = Ids
  BY <1>1, <1>2 DEF Ids
<1>4. \A j \in Ids : devices'[j] = IF j = i THEN row ELSE devices[j]
  BY <1>1 DEF Ids
<1>5. DevicesOK'
  BY <1>2, <1>3, <1>4 DEF IInv, DevicesOK
<1>6. measured' \subseteq Ids'
  BY <1>3 DEF IInv, TypeOK
<1> QED BY <1>2, <1>5, <1>6 DEF GoodTable

LEMMA UpdateGood ==
  ASSUME IInv, NEW row, row \in Device, row.id \in 1..Len(devices),
         Update(row), measured' = measured
  PROVE  GoodTable
<1>1. row.id \in DOMAIN devices
  BY DEF IInv, DevicesOK
<1> QED BY <1>1, InPlace DEF Update

\* UpdateStatus gives the row an age, and a status that is not unknown.
LEMMA StatusGood ==
  ASSUME IInv, NEW i \in 1..Len(devices), NEW status \in {"online", "offline"},
         UpdateStatus(i, status), measured' = measured
  PROVE  GoodTable
<1>1. i \in DOMAIN devices
  BY DEF IInv, DevicesOK
<1>2. CASE devices[i] = None
  <2>1. devices' = devices
    BY <1>1, <1>2 DEF UpdateStatus, IInv, DevicesOK
  <2> QED BY <2>1, SameTable DEF IInv, TypeOK
<1>3. CASE devices[i] # None
  <2> DEFINE row == [devices[i] EXCEPT !.status = status, !.age = 0]
  <2>1. i \in Ids /\ devices[i] \in Device /\ devices[i].id = i
    BY <1>1, <1>3 DEF Ids, IInv, DevicesOK
  <2>2. 0 \in Ages /\ 0 # None
    BY BoundsAssumption, NoneAssumption DEF Ages, Old
  <2>3. row \in Device /\ row.status = status /\ row.age = 0 /\ row.id = i
        /\ row.ip = devices[i].ip
    BY <2>1, <2>2 DEF Device
  <2>4. row \in Device
    BY <2>2, <2>3
  <2>5. devices' = [devices EXCEPT ![i] = IF @ = None THEN None ELSE row]
    BY <1>1, <1>3 DEF UpdateStatus
  <2> HIDE DEF row
  <2> QED BY <1>1, <2>3, <2>4, <2>5, InPlace
<1> QED BY <1>2, <1>3

LEMMA AppendGood ==
  ASSUME IInv, NEW new, new \in Device, new.id = Len(devices) + 1,
         devices' = Append(devices, new), measured' = measured
  PROVE  GoodTable /\ Len(devices') = Len(devices) + 1
<1>1. devices \in Seq(Device \cup {None}) /\ new \in Device \cup {None} /\ new # None
  BY RowAssumption DEF IInv, DevicesOK
<1>2. /\ devices' \in Seq(Device \cup {None}) /\ Len(devices') = Len(devices) + 1
      /\ Len(devices) \in Nat /\ DOMAIN devices = 1..Len(devices)
      /\ DOMAIN devices' = 1..(Len(devices) + 1)
      /\ devices'[Len(devices) + 1] = new
      /\ \A j \in 1..Len(devices) : devices'[j] = devices[j]
  BY <1>1, AppendProperties
<1>3. Ids' = Ids \cup {Len(devices) + 1} /\ Len(devices) + 1 \notin Ids
  <2>1. DOMAIN devices' = DOMAIN devices \cup {Len(devices) + 1}
    BY <1>2
  <2>2. Len(devices) + 1 \notin DOMAIN devices
    BY <1>2
  <2> QED BY <1>1, <1>2, <2>1, <2>2 DEF Ids
<1>4. \A j \in Ids : devices'[j] = devices[j]
  BY <1>2 DEF Ids
<1>5. DevicesOK'
  BY <1>2, <1>3, <1>4 DEF IInv, DevicesOK
<1>6. measured' \subseteq Ids'
  BY <1>3 DEF IInv, TypeOK
<1> QED BY <1>2, <1>5, <1>6 DEF GoodTable

LEMMA DeleteGood ==
  ASSUME IInv, NEW i \in 1..Len(devices), i \notin measured,
         devices' = [devices EXCEPT ![i] = None], measured' = measured
  PROVE  GoodTable
<1>1. devices \in Seq(Device \cup {None})
  BY DEF IInv, DevicesOK
<1>2. /\ devices' \in Seq(Device \cup {None}) /\ Len(devices') = Len(devices)
      /\ DOMAIN devices' = DOMAIN devices /\ Len(devices) \in Nat
  BY <1>1
<1>3. Ids' = Ids \ {i} /\ \A j \in Ids' : devices'[j] = devices[j]
  BY <1>1, <1>2 DEF Ids
<1>4. DevicesOK'
  BY <1>2, <1>3 DEF IInv, DevicesOK
<1>5. measured' \subseteq Ids'
  BY <1>3 DEF IInv, TypeOK
<1> QED BY <1>2, <1>4, <1>5 DEF GoodTable

-----------------------------------------------------------------------------
(* Moves of a request *)

LEMMA IdleOK == Idle \in Request /\ \A n \in Nat : HandlerOK(Idle, n)
  BY DEF Idle, Request, HandlerOK, Labels, Kinds

LEMMA LenType == IInv => Len(devices) \in Nat /\ DOMAIN devices = 1..Len(devices)
  BY DEF IInv, DevicesOK

LEMMA ReturnMove ==
  ASSUME IInv, NEW p \in Procs, GoodTable, Return(p)
  PROVE  GoodMove(p)
<1>1. Len(devices') \in Nat
  BY DEF GoodTable, DevicesOK
<1> QED BY <1>1, IdleOK DEF GoodMove, Return, Goto

LEMMA GotoMove ==
  ASSUME IInv, NEW p \in Procs, GoodTable, NEW x, Goto(p, x), x \in Request,
         HandlerOK(x, Len(devices'))
  PROVE  GoodMove(p)
  BY DEF GoodMove, Goto

LEMMA WithDeviceMove ==
  ASSUME IInv, NEW p \in Procs, GoodTable, NEW i \in 1..Len(devices'), WithDevice(p, i)
  PROVE  GoodMove(p)
<1> DEFINE store == [Idle EXCEPT !.pc = "store", !.id = i]
           beat == [Idle EXCEPT !.pc = "beat", !.id = i]
<1>1. Idle \in Request /\ Len(devices') \in Nat
  BY IdleOK DEF GoodTable, DevicesOK
<1>2. /\ store \in Request /\ store.pc = "store" /\ store.id = i
      /\ beat \in Request /\ beat.pc = "beat" /\ beat.id = i
  <2>1. i \in Nat
    BY <1>1
  <2>2. store \in Request /\ store.pc = "store" /\ store.id = i
    BY <1>1, <2>1 DEF Request, Labels
  <2>3. beat \in Request /\ beat.pc = "beat" /\ beat.id = i
    BY <1>1, <2>1 DEF Request, Labels
  <2> HIDE DEF store, beat
  <2> QED BY <2>2, <2>3
<1> HIDE DEF store, beat
<1>3. HandlerOK(store, Len(devices')) /\ HandlerOK(beat, Len(devices'))
  BY <1>2 DEF HandlerOK
<1>4. CASE h[p].kind = "metrics"
  <2>1. Goto(p, store)
    BY <1>4 DEF WithDevice, store
  <2> QED BY <1>2, <1>3, <2>1, GotoMove
<1>5. CASE h[p].kind = "heartbeat"
  <2>1. Goto(p, beat)
    BY <1>5 DEF WithDevice, beat
  <2> QED BY <1>2, <1>3, <2>1, GotoMove
<1>6. CASE h[p].kind # "metrics" /\ h[p].kind # "heartbeat"
  BY <1>6, ReturnMove DEF WithDevice
<1> QED BY <1>4, <1>5, <1>6

-----------------------------------------------------------------------------
(* The statements *)

LEMMA FindMove ==
  ASSUME IInv, NEW p \in Procs, NEW ok \in BOOLEAN, Find(p, ok)
  PROVE  GoodMove(p)
<1>1. GoodTable /\ Len(devices') = Len(devices)
  BY SameTable DEF Find, IInv, TypeOK
<1>2. h[p] \in Request /\ h[p].pc = "find" /\ h[p].ip \in IPs /\ h[p].type \in DeviceTypes
  BY DEF Find, IInv, HandlersOK, HandlerOK
<1>3. CASE Return(p)
  BY <1>1, <1>3, ReturnMove
<1>4. CASE Goto(p, [h[p] EXCEPT !.pc = "create"])
  <2> DEFINE x == [h[p] EXCEPT !.pc = "create"]
  <2>1. x \in Request /\ x.pc = "create" /\ x.ip = h[p].ip /\ x.type = h[p].type
    BY <1>2 DEF Request, Labels
  <2>2. HandlerOK(x, Len(devices'))
    BY <1>2, <2>1 DEF HandlerOK
  <2> QED BY <1>1, <1>4, <2>1, <2>2, GotoMove
<1>5. ASSUME NEW i \in AtIP(h[p].ip), WithDevice(p, i)
      PROVE  GoodMove(p)
  <2>1. i \in 1..Len(devices')
    BY <1>1, LenType DEF AtIP, Ids
  <2> QED BY <1>1, <1>5, <2>1, WithDeviceMove
<1>6. ASSUME NEW i \in AtIP(h[p].ip),
             Goto(p, [h[p] EXCEPT !.pc = "upgrade",
                                  !.row = [devices[i] EXCEPT !.type = h[p].type]])
      PROVE  GoodMove(p)
  <2> DEFINE row == [devices[i] EXCEPT !.type = h[p].type]
             x == [h[p] EXCEPT !.pc = "upgrade", !.row = row]
  <2>1. i \in 1..Len(devices) /\ devices[i] \in Device /\ devices[i].id = i
    BY LenType DEF AtIP, Ids, IInv, DevicesOK
  <2>2. row \in Device /\ row.id = i
    BY <1>2, <2>1 DEF Device
  <2> HIDE DEF row
  <2>3. x \in Request /\ x.pc = "upgrade" /\ x.row = row
    BY <1>2, <2>2 DEF Request, Labels
  <2>4. HandlerOK(x, Len(devices'))
    BY <1>1, <2>1, <2>2, <2>3 DEF HandlerOK
  <2> QED BY <1>1, <1>6, <2>3, <2>4, GotoMove DEF row
<1> QED BY <1>3, <1>4, <1>5, <1>6 DEF Find

LEMMA UpgradeMove ==
  ASSUME IInv, NEW p \in Procs, NEW ok \in BOOLEAN, Upgrade(p, ok)
  PROVE  GoodMove(p)
<1>1. h[p].row \in Device /\ h[p].row.id \in 1..Len(devices)
  BY DEF Upgrade, IInv, HandlersOK, HandlerOK
<1>2. GoodTable
  BY <1>1, UpdateGood, SameTable DEF Upgrade, IInv, TypeOK
<1>3. h[p].row.id \in 1..Len(devices')
  BY <1>1, <1>2, LenType DEF GoodTable, DevicesOK
<1> QED BY <1>2, <1>3, WithDeviceMove DEF Upgrade

LEMMA CreateMove ==
  ASSUME IInv, NEW p \in Procs, NEW ok \in BOOLEAN, Create(p, ok)
  PROVE  GoodMove(p)
<1> DEFINE i == Len(devices) + 1
           new == [id |-> i, ip |-> h[p].ip, name |-> "hostname", type |-> h[p].type,
                   status |-> "online", age |-> 0]
<1>1. h[p].ip \in IPs /\ h[p].type \in DeviceTypes
  BY DEF Create, IInv, HandlersOK, HandlerOK
<1>2. i \in Nat /\ 0 \in Ages /\ 0 # None
  BY LenType, BoundsAssumption, NoneAssumption DEF Ages, Old
<1>3. new \in Device /\ new.id = i /\ new.ip = h[p].ip
  BY <1>1, <1>2 DEF Device
<1> HIDE DEF new
<1>4. CASE ok /\ ~IPTaken(h[p].ip, i)
  <2>1. devices' = Append(devices, new) /\ WithDevice(p, i) /\ measured' = measured
    BY <1>4 DEF Create, new
  <2>2. GoodTable /\ Len(devices') = Len(devices) + 1
    BY <1>3, <1>4, <2>1, AppendGood
  <2>3. i \in 1..Len(devices')
    BY <1>2, <2>2, LenType
  <2> QED BY <2>1, <2>2, <2>3, WithDeviceMove
<1>5. CASE ~(ok /\ ~IPTaken(h[p].ip, i))
  <2>1. GoodTable /\ Return(p)
    BY <1>5, SameTable DEF Create, IInv, TypeOK
  <2> QED BY <2>1, ReturnMove
<1> QED BY <1>4, <1>5

LEMMA StoreMove ==
  ASSUME IInv, NEW p \in Procs, NEW ok \in BOOLEAN, Store(p, ok)
  PROVE  GoodMove(p)
<1>1. h[p] \in Request /\ h[p].id \in 1..Len(devices)
  BY DEF Store, IInv, HandlersOK, HandlerOK
<1>2. devices' = devices /\ measured' \subseteq Ids
  BY DEF Store, IInv, TypeOK
<1>3. GoodTable
  BY <1>2, SameTable
<1>4. CASE Goto(p, [h[p] EXCEPT !.pc = "beat"])
  <2> DEFINE x == [h[p] EXCEPT !.pc = "beat"]
  <2>1. x \in Request /\ x.pc = "beat" /\ x.id = h[p].id
    BY <1>1 DEF Request, Labels
  <2>2. HandlerOK(x, Len(devices'))
    BY <1>1, <1>2, <2>1 DEF HandlerOK
  <2> QED BY <1>3, <1>4, <2>1, <2>2, GotoMove
<1>5. CASE Return(p)
  BY <1>3, <1>5, ReturnMove
<1> QED BY <1>4, <1>5 DEF Store

LEMMA BeatMove ==
  ASSUME IInv, NEW p \in Procs, NEW ok \in BOOLEAN, Beat(p, ok)
  PROVE  GoodMove(p)
<1>1. h[p].id \in 1..Len(devices)
  BY DEF Beat, IInv, HandlersOK, HandlerOK
<1>2. GoodTable
  BY <1>1, StatusGood, SameTable DEF Beat, IInv, TypeOK
<1> QED BY <1>2, ReturnMove DEF Beat

LEMMA GetMove ==
  ASSUME IInv, NEW p \in Procs, NEW ok \in BOOLEAN, Get(p, ok)
  PROVE  GoodMove(p)
<1>1. GoodTable /\ Len(devices') = Len(devices)
  BY SameTable DEF Get, IInv, TypeOK
<1>2. h[p] \in Request /\ Idle \in Request
  BY IdleOK DEF IInv, HandlersOK
<1>3. CASE h[p].id \in Ids /\ Goto(p, [Idle EXCEPT !.pc = "put",
                                                   !.row = Edited(devices[h[p].id], h[p])])
  <2> DEFINE old == devices[h[p].id]
             row == Edited(old, h[p])
             x == [Idle EXCEPT !.pc = "put", !.row = row]
  <2>1. h[p].id \in 1..Len(devices) /\ old \in Device /\ old.id = h[p].id
    BY <1>3, LenType DEF Ids, IInv, DevicesOK
  <2>2. row \in Device /\ row.id = old.id /\ row.status = old.status /\ row.age = old.age
    BY <1>2, <2>1 DEF Edited, Device, Request
  <2>3. row \in Device
    BY <2>1, <2>2
  <2> HIDE DEF row
  <2>4. x \in Request /\ x.pc = "put" /\ x.row = row
    BY <1>2, <2>2 DEF Request, Labels
  <2>5. HandlerOK(x, Len(devices'))
    BY <1>1, <2>1, <2>2, <2>3, <2>4 DEF HandlerOK
  <2> QED BY <1>1, <1>3, <2>4, <2>5, GotoMove DEF row
<1>4. CASE Return(p)
  BY <1>1, <1>4, ReturnMove
<1> QED BY <1>3, <1>4 DEF Get

LEMMA PutMove ==
  ASSUME IInv, NEW p \in Procs, NEW ok \in BOOLEAN, Put(p, ok)
  PROVE  GoodMove(p)
<1>1. h[p].row \in Device /\ h[p].row.id \in 1..Len(devices)
  BY DEF Put, IInv, HandlersOK, HandlerOK
<1>2. GoodTable
  BY <1>1, UpdateGood, SameTable DEF Put, IInv, TypeOK
<1> QED BY <1>2, ReturnMove DEF Put

LEMMA CheckMove ==
  ASSUME IInv, NEW p \in Procs, NEW ok \in BOOLEAN, Check(p, ok)
  PROVE  GoodMove(p)
<1>1. GoodTable /\ Len(devices') = Len(devices)
  BY SameTable DEF Check, IInv, TypeOK
<1>2. h[p] \in Request /\ h[p].id \in 1..Len(devices)
  BY DEF Check, IInv, HandlersOK, HandlerOK
<1>3. CASE Goto(p, [h[p] EXCEPT !.pc = "delete"])
  <2> DEFINE x == [h[p] EXCEPT !.pc = "delete"]
  <2>1. x \in Request /\ x.pc = "delete" /\ x.id = h[p].id
    BY <1>2 DEF Request, Labels
  <2>2. HandlerOK(x, Len(devices'))
    BY <1>1, <1>2, <2>1 DEF HandlerOK
  <2> QED BY <1>1, <1>3, <2>1, <2>2, GotoMove
<1>4. CASE Return(p)
  BY <1>1, <1>4, ReturnMove
<1> QED BY <1>3, <1>4 DEF Check

LEMMA DeleteMove ==
  ASSUME IInv, NEW p \in Procs, NEW ok \in BOOLEAN, Delete(p, ok)
  PROVE  GoodMove(p)
<1>1. h[p].id \in 1..Len(devices)
  BY DEF Delete, IInv, HandlersOK, HandlerOK
<1>2. GoodTable
  BY <1>1, DeleteGood, SameTable DEF Delete, IInv, TypeOK
<1> QED BY <1>2, ReturnMove DEF Delete

-----------------------------------------------------------------------------
(* The invariant *)

\* What a good table and good requests make of the invariant.
LEMMA GoodTableKeeps ==
  ASSUME IInv, GoodTable, HandlersOK', stale' \subseteq DOMAIN devices,
         ops' \in 0..MaxOps, faults' \in 0..MaxFaults
  PROVE  IInv'
<1>1. DOMAIN devices \subseteq DOMAIN devices'
  BY LenType DEF GoodTable, DevicesOK
<1>2. /\ devices' \in Seq(Device \cup {None}) /\ \A i \in Ids' : devices'[i].id = i
      /\ measured' \subseteq Ids' /\ h' \in [Procs -> Request]
  BY DEF GoodTable, DevicesOK, HandlersOK
<1>3. TypeOK'
  BY <1>1, <1>2 DEF TypeOK
<1> QED BY <1>3 DEF GoodTable, IInv

LEMMA MoreRows ==
  ASSUME NEW x, NEW m \in Nat, NEW n \in Nat, m <= n, HandlerOK(x, m)
  PROVE  HandlerOK(x, n)
<1>1. 1..m \subseteq 1..n
  OBVIOUS
<1> QED BY <1>1 DEF HandlerOK

LEMMA GoodMoveKeeps ==
  ASSUME IInv, NEW p \in Procs, GoodMove(p), stale' = stale,
         ops' \in 0..MaxOps, faults' \in 0..MaxFaults
  PROVE  IInv'
<1>1. PICK x \in Request : h' = [h EXCEPT ![p] = x] /\ HandlerOK(x, Len(devices'))
  BY DEF GoodMove
<1>2. GoodTable /\ Len(devices) \in Nat /\ Len(devices') \in Nat /\ Len(devices) <= Len(devices')
  BY LenType DEF GoodMove, GoodTable, DevicesOK
<1>3. h' \in [Procs -> Request]
  BY <1>1 DEF IInv, HandlersOK
<1>4. ASSUME NEW q \in Procs PROVE HandlerOK(h'[q], Len(devices'))
  <2>1. HandlerOK(h[q], Len(devices')) /\ h \in [Procs -> Request]
    BY <1>2, MoreRows DEF IInv, HandlersOK
  <2> QED BY <1>1, <2>1
<1>5. stale' \subseteq DOMAIN devices
  BY DEF IInv, TypeOK
<1> QED BY <1>2, <1>3, <1>4, <1>5, GoodTableKeeps DEF HandlersOK

LEMMA RunIInv ==
  ASSUME IInv, NEW p \in Procs, Run(p)
  PROVE  IInv'
<1>1. PICK ok \in BOOLEAN : Answered(ok) /\ Statement(p, ok)
  BY DEF Run
<1>2. ops' \in 0..MaxOps /\ faults' \in 0..MaxFaults
  BY <1>1, BoundsAssumption DEF IInv, TypeOK, Answered
<1>3. GoodMove(p)
  BY <1>1, FindMove, UpgradeMove, CreateMove, StoreMove, BeatMove, GetMove, PutMove, CheckMove,
     DeleteMove DEF Statement
<1>4. stale' = stale
  BY <1>1 DEF Statement, Find, Upgrade, Create, Store, Beat, Get, Put, Check, Delete
<1> QED BY <1>2, <1>3, <1>4, GoodMoveKeeps

LEMMA ServeIInv ==
  ASSUME IInv, NEW p \in Procs, Serve(p)
  PROVE  IInv'
<1>1. /\ ops' \in 0..MaxOps /\ faults' \in 0..MaxFaults
      /\ measured' = measured /\ stale' = stale
  BY BoundsAssumption DEF IInv, TypeOK, Serve
<1>2. Idle \in Request
  BY IdleOK
<1>3. ASSUME devices' = devices,
             NEW x \in Request, Goto(p, x), HandlerOK(x, Len(devices'))
      PROVE  IInv'
  BY <1>1, <1>3, SameTable, GotoMove, GoodMoveKeeps DEF IInv, TypeOK
<1>4. ASSUME NEW ip \in IPs, NEW type \in DeviceTypes, NEW kind \in Kinds,
             Contact(p, ip, type, kind)
      PROVE  IInv'
  <2> DEFINE x == [Idle EXCEPT !.pc = "find", !.kind = kind, !.ip = ip, !.type = type]
  <2>1. x \in Request /\ x.pc = "find" /\ x.ip = ip /\ x.type = type
    BY <1>2 DEF Request, Labels
  <2>2. HandlerOK(x, Len(devices'))
    BY <2>1 DEF HandlerOK
  <2> QED BY <1>3, <1>4, <2>1, <2>2 DEF Contact
<1>5. ASSUME NEW i \in Ids, NEW name \in DeviceNames \cup {None}, NEW ip \in IPs \cup {None},
             NEW type \in DeviceTypes \cup {None}, AdminUpdate(p, i, name, ip, type)
      PROVE  IInv'
  <2> DEFINE x == [Idle EXCEPT !.pc = "get", !.id = i, !.name = name, !.ip = ip, !.type = type]
  <2>1. i \in 1..Len(devices) /\ i \in Nat
    BY LenType DEF Ids
  <2>2. x \in Request /\ x.pc = "get" /\ x.id = i
    BY <1>2, <2>1 DEF Request, Labels
  <2>3. HandlerOK(x, Len(devices'))
    BY <1>5, <2>1, <2>2 DEF HandlerOK, AdminUpdate
  <2> QED BY <1>3, <1>5, <2>2, <2>3 DEF AdminUpdate
<1>6. ASSUME NEW i \in Ids, AdminDelete(p, i)
      PROVE  IInv'
  <2> DEFINE x == [Idle EXCEPT !.pc = "check", !.id = i]
  <2>1. i \in 1..Len(devices) /\ i \in Nat
    BY LenType DEF Ids
  <2>2. x \in Request /\ x.pc = "check" /\ x.id = i
    BY <1>2, <2>1 DEF Request, Labels
  <2>3. HandlerOK(x, Len(devices'))
    BY <1>6, <2>1, <2>2 DEF HandlerOK, AdminDelete
  <2> QED BY <1>3, <1>6, <2>2, <2>3 DEF AdminDelete
<1>7. ASSUME NEW ip \in IPs, NEW type \in DeviceTypes, NEW name \in DeviceNames,
             AdminCreate(ip, type, name)
      PROVE  IInv'
  <2> DEFINE i == Len(devices) + 1
             new == [id |-> i, ip |-> ip, name |-> name, type |-> type,
                     status |-> "unknown", age |-> None]
  <2>1. new \in Device /\ new.id = i /\ new.ip = ip
    BY LenType DEF Device, Ages
  <2> HIDE DEF new
  <2>2. GoodTable
    <3>1. CASE IPTaken(ip, i)
      BY <1>1, <1>7, <3>1, SameTable DEF AdminCreate, IInv, TypeOK
    <3>2. CASE ~IPTaken(ip, i)
      <4>1. devices' = Append(devices, new)
        BY <1>7, <3>2 DEF AdminCreate, new
      <4> QED BY <1>1, <2>1, <3>2, <4>1, AppendGood
    <3> QED BY <3>1, <3>2
  <2>3. h' = h
    BY <1>7 DEF AdminCreate
  <2>4. /\ Len(devices) \in Nat /\ Len(devices') \in Nat
        /\ Len(devices) <= Len(devices')
    BY <2>2, LenType DEF GoodTable, DevicesOK
  <2>5. HandlersOK'
    BY <2>3, <2>4, MoreRows DEF IInv, HandlersOK
  <2>6. stale' \subseteq DOMAIN devices
    BY <1>1 DEF IInv, TypeOK
  <2> QED BY <1>1, <2>2, <2>5, <2>6, GoodTableKeeps
<1> QED BY <1>4, <1>5, <1>6, <1>7 DEF Serve

LEMMA WorkerIInv ==
  ASSUME IInv, Worker
  PROVE  IInv'
<1>1. PICK ok \in BOOLEAN : Answered(ok) /\ (FindStale(ok) \/ MarkOffline(ok))
  BY DEF Worker
<1>2. ops' \in 0..MaxOps /\ faults' \in 0..MaxFaults
  BY <1>1, BoundsAssumption DEF IInv, TypeOK, Answered
<1>3. measured' = measured /\ h' = h
  BY <1>1 DEF FindStale, MarkOffline
<1>4. GoodTable /\ stale' \subseteq DOMAIN devices
  <2>1. CASE FindStale(ok)
    BY <1>3, <2>1, SameTable DEF FindStale, Ids, IInv, TypeOK
  <2>2. CASE MarkOffline(ok)
    <3>1. PICK i \in stale : /\ stale' = stale \ {i}
                             /\ IF ok THEN UpdateStatus(i, "offline") ELSE UNCHANGED devices
      BY <2>2 DEF MarkOffline
    <3>2. i \in 1..Len(devices)
      BY LenType DEF IInv, TypeOK
    <3>3. GoodTable
      BY <1>3, <3>1, <3>2, StatusGood, SameTable DEF IInv, TypeOK
    <3> QED BY <3>1, <3>3 DEF IInv, TypeOK
  <2> QED BY <1>1, <2>1, <2>2
<1>5. HandlersOK'
  <2>1. /\ Len(devices) \in Nat /\ Len(devices') \in Nat
        /\ Len(devices) <= Len(devices')
    BY <1>4, LenType DEF GoodTable, DevicesOK
  <2> QED BY <1>3, <2>1, MoreRows DEF IInv, HandlersOK
<1> QED BY <1>2, <1>4, <1>5, GoodTableKeeps

LEMMA ArchiveIInv ==
  ASSUME IInv, NEW i \in measured, Archive(i)
  PROVE  IInv'
<1>1. UNCHANGED <<devices, h, stale, ops, faults>> /\ measured' \subseteq Ids
  BY DEF Archive, bounds, IInv, TypeOK
<1>2. GoodTable /\ HandlersOK'
  BY <1>1, SameTable DEF IInv, HandlersOK
<1> QED BY <1>1, <1>2, GoodTableKeeps DEF IInv, TypeOK

\* A row that ages keeps everything else.
LEMMA AgedOK ==
  ASSUME NEW row \in Device \cup {None}
  PROVE  /\ AgedRow(row) \in Device \cup {None}
         /\ row = None => AgedRow(row) = None
         /\ row # None => /\ AgedRow(row) # None
                          /\ AgedRow(row).id = row.id /\ AgedRow(row).ip = row.ip
<1>1. CASE row = None
  BY <1>1, RowAssumption DEF AgedRow
<1>2. CASE row # None
  <2>1. row \in Device /\ AgedRow(row) = [row EXCEPT !.age = Aged(@)]
    BY <1>2 DEF AgedRow
  <2>2. row.age \in Ages
    BY <2>1 DEF Device
  <2>3. Aged(row.age) \in Ages /\ (Aged(row.age) = None <=> row.age = None)
    BY <2>2, NoneAssumption, BoundsAssumption DEF Aged, Ages, Old
  <2>4. /\ AgedRow(row) \in Device /\ AgedRow(row).id = row.id /\ AgedRow(row).ip = row.ip
        /\ AgedRow(row).status = row.status /\ AgedRow(row).age = Aged(row.age)
    BY <2>1, <2>3 DEF Device
  <2> QED BY <1>2, <2>3, <2>4, RowAssumption
<1> QED BY <1>1, <1>2

LEMMA TickIInv ==
  ASSUME IInv, Tick
  PROVE  IInv'
<1>1. /\ devices' = [i \in DOMAIN devices |-> AgedRow(devices[i])]
      /\ h' = [p \in Procs |-> [h[p] EXCEPT !.row = AgedRow(@)]]
      /\ UNCHANGED <<measured, stale, ops, faults>>
  BY DEF Tick, bounds
<1>2. /\ devices \in Seq(Device \cup {None}) /\ Len(devices) \in Nat
      /\ DOMAIN devices = 1..Len(devices)
      /\ \A i \in DOMAIN devices : devices[i] \in Device \cup {None}
  BY LenType, ElementOfSeq DEF IInv, DevicesOK
<1>3. \A i \in DOMAIN devices : AgedRow(devices[i]) \in Device \cup {None}
  BY <1>2, AgedOK
<1>4. devices' \in Seq(Device \cup {None}) /\ Len(devices') = Len(devices)
      /\ DOMAIN devices' = DOMAIN devices
  BY <1>1, <1>2, <1>3
<1>5. Ids' = Ids
  BY <1>1, <1>2, <1>4, AgedOK DEF Ids
<1>6. \A i \in Ids : /\ devices'[i] = AgedRow(devices[i])
                     /\ devices'[i].id = i /\ devices'[i].ip = devices[i].ip
                     /\ devices'[i] \in Device
  <2> SUFFICES ASSUME NEW i \in Ids
               PROVE  /\ devices'[i] = AgedRow(devices[i])
                      /\ devices'[i].id = i /\ devices'[i].ip = devices[i].ip
                      /\ devices'[i] \in Device
    OBVIOUS
  <2>1. i \in DOMAIN devices /\ devices[i] # None /\ devices[i].id = i /\ devices[i] \in Device
    BY DEF Ids, IInv, DevicesOK
  <2> QED BY <1>1, <1>2, <2>1, AgedOK
<1>7. DevicesOK'
  BY <1>4, <1>5, <1>6 DEF DevicesOK
<1>9. GoodTable
  BY <1>1, <1>2, <1>4, <1>5, <1>7 DEF GoodTable, IInv, TypeOK
<1>10. ASSUME NEW p \in Procs
       PROVE  h'[p] \in Request /\ HandlerOK(h'[p], Len(devices'))
  <2> DEFINE x == [h[p] EXCEPT !.row = AgedRow(@)]
  <2>1. h[p] \in Request /\ HandlerOK(h[p], Len(devices))
    BY DEF IInv, HandlersOK
  <2>2. h[p].row \in Device \cup {None}
    BY <2>1 DEF Request
  <2>3. /\ x \in Request /\ x.row = AgedRow(h[p].row) /\ x.pc = h[p].pc /\ x.id = h[p].id
        /\ x.ip = h[p].ip /\ x.type = h[p].type
    BY <2>1, <2>2, AgedOK DEF Request
  <2>4. h[p].pc \in {"upgrade", "put"} =>
          x.row \in Device /\ x.row.id \in 1..Len(devices)
    BY <2>1, <2>2, <2>3, AgedOK, RowAssumption DEF HandlerOK
  <2>5. HandlerOK(x, Len(devices'))
    BY <1>4, <2>1, <2>3, <2>4 DEF HandlerOK
  <2> QED BY <1>1, <2>3, <2>5
<1>11. HandlersOK'
  BY <1>1, <1>10 DEF HandlersOK
<1> QED BY <1>1, <1>9, <1>11, GoodTableKeeps DEF IInv, TypeOK

LEMMA InitIInv == Init => IInv
<1> SUFFICES ASSUME Init PROVE IInv
  OBVIOUS
<1>1. devices = <<>> /\ Ids = {} /\ measured = {} /\ stale = {} /\ Len(devices) = 0
  BY DEF Init, Ids
<1>2. DevicesOK
  BY <1>1 DEF DevicesOK
<1>3. HandlersOK
  BY <1>1, IdleOK DEF Init, HandlersOK
<1>4. TypeOK
  BY <1>1, <1>3, BoundsAssumption DEF Init, TypeOK, HandlersOK
<1> QED BY <1>2, <1>3, <1>4 DEF IInv

LEMMA NextIInv == IInv /\ [Next]_vars => IInv'
<1> SUFFICES ASSUME IInv, [Next]_vars PROVE IInv'
  OBVIOUS
<1>1. ASSUME NEW p \in Procs, Serve(p) \/ Run(p) PROVE IInv'
  BY <1>1, ServeIInv, RunIInv
<1>2. CASE Worker
  BY <1>2, WorkerIInv
<1>3. ASSUME NEW i \in measured, Archive(i) PROVE IInv'
  BY <1>3, ArchiveIInv
<1>4. CASE Tick
  BY <1>4, TickIInv
<1>5. CASE UNCHANGED vars
  <2>1. UNCHANGED <<devices, measured, h, stale, ops, faults>>
    BY <1>5 DEF vars, bounds
  <2>2. GoodTable /\ HandlersOK'
    BY <2>1, SameTable DEF IInv, TypeOK, HandlersOK
  <2> QED BY <2>1, <2>2, GoodTableKeeps DEF IInv, TypeOK
<1> QED BY <1>1, <1>2, <1>3, <1>4, <1>5 DEF Next

-----------------------------------------------------------------------------
THEOREM Invariance == Spec => []IInv
<1> QED BY InitIInv, NextIInv, PTL DEF Spec

\* The table and the copies in requests stay well typed, and no measurement
\* refers to a device that is gone.
THEOREM TypeCorrect == Spec => []TypeOK
<1>1. IInv => TypeOK
  BY DEF IInv
<1> QED BY <1>1, Invariance, PTL
=============================================================================
