------------------------- MODULE MCAlarmEscalation -------------------------
(* Small instances of AlarmEscalation for TLC.  Handlers and names are      *)
(* interchangeable, so their permutations are a symmetry of every safety    *)
(* run.                                                                     *)
EXTENDS AlarmEscalation, TLC

Symmetry == Permutations(Procs) \cup Permutations(Names)
=============================================================================
