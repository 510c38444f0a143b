------------------------------- MODULE MCViews --------------------------------
(* The metrics page of a server that reports through an agent and through     *)
(* SNMP, and of a silent switch, whose profile has the same metric; and the   *)
(* charts of records that differ from a first one in the fields of a chart.   *)
EXTENDS Views
MCDevices == <<"host", "switch">>
MCDeviceType == [host |-> "server", switch |-> "switch"]
MCReportedTypes == [host |-> {"cpu_usage", "snmp_cpu"}, switch |-> {}]
MCRanges == ("1d" :> 1) @@ ("1h" :> 0)
MCRecord == [priority |-> "high", status |-> "open", group |-> "IT Support",
             metric |-> "cpu usage", day |-> 1, age |-> 0]
MCRecords ==
  {[MCRecord EXCEPT !.priority = p] : p \in {"high", "medium", "low"}} \cup
  {[MCRecord EXCEPT !.status = s, !.age = a] :
     s \in {"open", "in progress", "resolved", "closed"}, a \in {0, 1, 4, 24}} \cup
  {[MCRecord EXCEPT !.group = "Network Team", !.day = 2],
   [MCRecord EXCEPT !.metric = "other", !.day = 0]}

(* The operator moves or picks a metric, or something is lost, or the archiver *)
(* deletes a reading, and no two of these.                                    *)
Picked == IF selectedKey = Unset THEN 0 ELSE 1
OneEvent == moves + trouble + Picked + Cardinality(gone) <= 1
==============================================================================
