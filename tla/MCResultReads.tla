---------------------------- MODULE MCResultReads ----------------------------
(* An instance of ResultReads for TLC: two job runs and a maintenance run,  *)
(* each of which may or may not be followed up in the tab.                  *)
EXTENDS ResultReads
=============================================================================
