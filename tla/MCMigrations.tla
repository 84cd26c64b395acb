---------------------------- MODULE MCMigrations ----------------------------
(* An instance of Migrations for TLC: two files, of three and two statements. *)
EXTENDS Migrations

TwoFiles == <<3, 5>>
=============================================================================
