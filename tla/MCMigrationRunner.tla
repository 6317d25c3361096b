-------------------------- MODULE MCMigrationRunner --------------------------
(* MigrationRunner for TLC: one file of every kind, two overlapping jobs.  *)
EXTENDS MigrationRunner

MCFiles == 1..4

MCKind == <<"rerunnable", "empty", "once", "broken">>
=============================================================================
