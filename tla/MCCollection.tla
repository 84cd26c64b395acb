---------------------------- MODULE MCCollection ----------------------------
(* Instances of Collection for TLC: each cfg names the collections, the     *)
(* workloads and the database.                                             *)
EXTENDS Collection
=============================================================================
