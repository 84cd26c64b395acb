------------------------ MODULE MCMaintenanceWindow ------------------------
(* Instances of MaintenanceWindow for TLC: masks of two whole periods, the *)
(* least detect_timeline needs to find one.                                *)
EXTENDS MaintenanceWindow

CONSTANTS t, d

\* No timeline; a mask that never repeats its first period; always idle; cycles of
\* three samples that are busy at their end, at their start and mostly; and a cycle of
\* two and a half samples.
Masks == {
  [mask |-> <<>>, period |-> 0],
  [mask |-> <<FALSE, TRUE, TRUE, FALSE>>, period |-> 4],
  [mask |-> <<FALSE, FALSE, FALSE, FALSE>>, period |-> 4],
  [mask |-> <<FALSE, FALSE, TRUE, FALSE, FALSE, TRUE>>, period |-> 6],
  [mask |-> <<FALSE, TRUE, FALSE, TRUE, FALSE, FALSE>>, period |-> 6],
  [mask |-> <<TRUE, FALSE, FALSE, TRUE, TRUE, FALSE>>, period |-> 6],
  [mask |-> <<FALSE, TRUE, TRUE, FALSE, TRUE>>, period |-> 5]}
=============================================================================
