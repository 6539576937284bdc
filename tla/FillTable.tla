----------------------------- MODULE FillTable ------------------------------
(***************************************************************************)
(* What a backfill of a descending column promises, without its batches,   *)
(* locks and snapshots: while the application writes, gaps are filled with *)
(* the flip of the source and with nothing else, and the call returns only *)
(* when no gap is left.                                                    *)
(***************************************************************************)
EXTENDS Autofill

CONSTANTS
  Rows,           \* places in the table
  Absent          \* no row here

VARIABLES
  row,            \* the committed version of each row
  status          \* idle, running, or how the last call ended

vars == <<row, status>>

\* A row that has an ascending identifier and no descending one.
Gap(version) == version # Absent /\ version.src # Null /\ version.dst = Null

Init ==
  /\ row \in [Rows -> {Absent} \cup [src : Column, dst : {Null}]]
  /\ status = "idle"

Start ==
  /\ status # "running"
  /\ status' \in {"running", "failed"}
  /\ UNCHANGED row

\* Some of the gaps are filled; nothing else changes.
Fill ==
  /\ status = "running"
  /\ \A r \in Rows : row'[r] # row[r] => Gap(row[r]) /\ row'[r] = Refilled(row[r])
  /\ row' \in [Rows -> [src : Column, dst : Column] \cup {Absent}]
  /\ UNCHANGED status

Finish ==
  /\ status = "running"
  /\ \A r \in Rows : ~Gap(row[r])
  /\ status' = "done"
  /\ UNCHANGED row

Fail ==
  /\ status = "running"
  /\ status' = "failed"
  /\ UNCHANGED row

\* The application commits: with the trigger on the table, no version it writes is a gap.
Write ==
  /\ row' \in [Rows -> [src : Column, dst : Column] \cup {Absent}]
  /\ \A r \in Rows : row'[r] # row[r] => ~Gap(row'[r])
  /\ UNCHANGED status

Next == Start \/ Fill \/ Finish \/ Fail \/ Write

Spec == Init /\ [][Next]_vars
=============================================================================
