---------------------------- MODULE MCMigration ----------------------------
(***************************************************************************)
(* A small instance of Migration for TLC.                                  *)
(***************************************************************************)
EXTENDS Migration

CONSTANTS c1, w1
=============================================================================
