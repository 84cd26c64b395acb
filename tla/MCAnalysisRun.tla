--------------------------- MODULE MCAnalysisRun ---------------------------
(* Instances of AnalysisRun for TLC: w1 calls w2, its peer, at times in     *)
(* w2's idle hours; nothing calls w1, the target of maintenance.           *)
EXTENDS AnalysisRun

CONSTANTS w1, w2

OnePeer == [w \in Workloads |-> IF w = w1 THEN {w2} ELSE {}]
OneSporadic == [w \in Workloads |-> IF w = w2 THEN {w1} ELSE {}]
=============================================================================
