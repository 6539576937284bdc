----------------------------- MODULE MCBackfill -----------------------------
(***************************************************************************)
(* A small instance of Backfill for TLC: PostgreSQL with two writers that  *)
(* leave dst to the trigger, and one writer that also sets it itself, in   *)
(* PostgreSQL and in SQL Server.                                           *)
(***************************************************************************)
EXTENDS Backfill

CONSTANTS r1, r2, w1, w2

Setting(dialect, writers, fillers, size) ==
  [dialect |-> dialect, writers |-> writers, fillers |-> fillers, batchSize |-> size]

TheSettings ==
  {Setting("postgres", {w1, w2}, {}, 1), Setting("postgres", {w1, w2}, {}, 2),
   Setting("postgres", {w1}, {w1}, 1), Setting("mssql", {w1}, {w1}, 1)}
=============================================================================
