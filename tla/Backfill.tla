------------------------------ MODULE Backfill ------------------------------
(***************************************************************************)
(* Filling the descending sibling column of a live table: the procedure    *)
(* heeranjid_bulk_backfill of PostgreSQL and of SQL Server against         *)
(* concurrent writers, with the autofill trigger on the table.             *)
(*                                                                         *)
(* The procedure runs one transaction per batch.  A statement starts       *)
(* (BeginBatch), locks qualifying rows one after another (Take, Drop,      *)
(* Skip; the cleanup loop waits instead of skipping), then updates them    *)
(* and commits (EndBatch).  In PostgreSQL it visits the rows of its        *)
(* snapshot, and a row that was changed after the snapshot is locked in    *)
(* its new version but not found by the join on ctid, so it is not filled. *)
(* In SQL Server each row is tested as it is when its lock is granted.     *)
(***************************************************************************)
EXTENDS Autofill, FiniteSets

CONSTANTS
  Rows,           \* places in the table
  Writers,        \* transactions of the application
  Settings,       \* the databases and applications to meet
  Backfiller,     \* the session that runs the procedure, as a lock holder
  NoOne,          \* no lock holder
  Absent,         \* no row here
  Same            \* the lock holder has locked the row and not changed it

Version == [src : Column, dst : Column]

ASSUME ConstantsAssumption ==
  /\ Settings \subseteq [dialect : {"postgres", "mssql"}, writers : SUBSET Writers,
                        fillers : SUBSET Writers, batchSize : Nat \ {0}]
  /\ NoOne \notin Writers \cup {Backfiller}
  /\ Backfiller \notin Writers
  /\ Absent \notin Version \cup {Same}
  /\ Same \notin Version

VARIABLES
  setting,    \* the database, its writers, those that fill dst themselves, and the batch_size
  row,        \* the committed version of each row
  lock,       \* who holds each row's lock
  pend,       \* the lock holder's uncommitted version of the row
  phase,      \* the loop the procedure is in, or how its last call ended
  scanning,   \* whether a batch's statement is running
  todo,       \* rows of the statement's snapshot not yet visited
  batch,      \* rows the statement has locked
  moved       \* rows with a version newer than the snapshot

tableVars == <<row, lock, pend>>
procVars == <<phase, scanning, todo, batch, moved>>
vars == <<setting, row, lock, pend, phase, scanning, todo, batch, moved>>

-----------------------------------------------------------------------------
(* Writers: transactions over any rows. *)

MSSQL == setting.dialect = "mssql"

\* The versions that a statement leaves once the trigger has run.
Inserted(new) == IF MSSQL THEN AfterWrite(new) ELSE OnInsert(new)
Updated(old, new) == IF MSSQL THEN AfterWrite(new) ELSE OnUpdate(old, new)

\* The row as w sees it.
Seen(w, r) == IF lock[r] = w /\ pend[r] # Same THEN pend[r] ELSE row[r]

Lockable(w, r) == lock[r] \in {NoOne, w}

Write(w, r, version) ==
  /\ lock' = [lock EXCEPT ![r] = w]
  /\ pend' = [pend EXCEPT ![r] = version]
  /\ UNCHANGED <<setting, row, procVars>>

\* The values a writer may give src: in SQL Server they are unique in the table, which the
\* T-SQL trigger relies on to find the rows of a statement.
Unused(r) ==
  {id \in Column :
     MSSQL /\ id # Null => \A q \in Rows \ {r} :
       /\ row[q] # Absent => row[q].src # id
       /\ pend[q] \notin {Absent, Same} => pend[q].src # id}

GivenBy(w) == IF w \in setting.fillers THEN Column ELSE {Null}

\* A new row takes a place that no committed row has.
Insert(w, r) ==
  /\ Lockable(w, r)
  /\ row[r] = Absent
  /\ Seen(w, r) = Absent
  /\ \E id \in Unused(r), given \in GivenBy(w) : Write(w, r, Inserted([src |-> id, dst |-> given]))

\* An update sets src, or dst, or neither of them (a column of its own).
Update(w, r) ==
  /\ Lockable(w, r)
  /\ Seen(w, r) # Absent
  /\ \/ \E id \in Unused(r) : Write(w, r, Updated(Seen(w, r), [Seen(w, r) EXCEPT !.src = id]))
     \/ \E given \in GivenBy(w) :
          Write(w, r, Updated(Seen(w, r), [Seen(w, r) EXCEPT !.dst = given]))

Delete(w, r) ==
  /\ Lockable(w, r)
  /\ Seen(w, r) # Absent
  /\ Write(w, r, Absent)

\* SELECT ... FOR UPDATE: the row is locked and stays as it is.
LockRow(w, r) ==
  /\ lock[r] = NoOne
  /\ row[r] # Absent
  /\ Write(w, r, Same)

LockedBy(w) == {r \in Rows : lock[r] = w}

Release(w) ==
  /\ lock' = [r \in Rows |-> IF lock[r] = w THEN NoOne ELSE lock[r]]
  /\ pend' = [r \in Rows |-> IF lock[r] = w THEN Same ELSE pend[r]]

Commit(w) ==
  LET changed == {r \in LockedBy(w) : pend[r] # Same} IN
  /\ LockedBy(w) # {}
  /\ row' = [r \in Rows |-> IF r \in changed THEN pend[r] ELSE row[r]]
  /\ Release(w)
  /\ moved' = IF scanning THEN moved \cup changed ELSE moved
  /\ todo' = todo \ {r \in changed : pend[r] = Absent}
  /\ UNCHANGED <<setting, phase, scanning, batch>>

Rollback(w) ==
  /\ LockedBy(w) # {}
  /\ Release(w)
  /\ UNCHANGED <<setting, row, procVars>>

-----------------------------------------------------------------------------
(* The procedure. *)

Running == phase \in {"fast", "cleanup"}

\* Mutant of Qualifies: the filter on dst is left out.
HasSource(version) == version # Absent /\ version.src # Null

\* A row the statement selects: src has a value and dst does not.
Qualifies(version) == version # Absent /\ version.dst = Null /\ version.src # Null

\* CALL heeranjid_bulk_backfill; it fails at once for an unknown kind, or inside a transaction.
Call ==
  /\ ~Running
  /\ phase' \in {"fast", "failed"}
  /\ UNCHANGED <<setting, tableVars, scanning, todo, batch, moved>>

BeginBatch ==
  /\ Running
  /\ ~scanning
  /\ scanning' = TRUE
  /\ todo' = IF MSSQL THEN Rows ELSE {r \in Rows : Qualifies(row[r])}
  /\ batch' = {}
  /\ moved' = {}
  /\ UNCHANGED <<setting, tableVars, phase>>

\* The scan goes on while the LIMIT is not reached and rows are left.
ScanOver == todo = {} \/ Cardinality(batch) = setting.batchSize

\* Mutant of Skip: the cleanup loop skips locked rows as well.
SkipAlways(r) ==
  /\ scanning
  /\ ~ScanOver
  /\ r \in todo
  /\ lock[r] # NoOne
  /\ todo' = todo \ {r}
  /\ UNCHANGED <<setting, tableVars, phase, scanning, batch, moved>>

\* SKIP LOCKED, or READPAST, of the fast loop.
Skip(r) ==
  /\ scanning
  /\ ~ScanOver
  /\ r \in todo
  /\ phase = "fast"
  /\ lock[r] # NoOne
  /\ todo' = todo \ {r}
  /\ UNCHANGED <<setting, tableVars, phase, scanning, batch, moved>>

\* The row no longer qualifies in its latest version.
Drop(r) ==
  /\ scanning
  /\ ~ScanOver
  /\ r \in todo
  /\ lock[r] = NoOne
  /\ ~Qualifies(row[r])
  /\ todo' = todo \ {r}
  /\ UNCHANGED <<setting, tableVars, phase, scanning, batch, moved>>

\* Mutant of Take: the batch is selected without FOR UPDATE.
TakeUnlocked(r) ==
  /\ scanning
  /\ ~ScanOver
  /\ r \in todo
  /\ Qualifies(row[r])
  /\ todo' = todo \ {r}
  /\ batch' = batch \cup {r}
  /\ UNCHANGED <<setting, tableVars, phase, scanning, moved>>

Take(r) ==
  /\ scanning
  /\ ~ScanOver
  /\ r \in todo
  /\ lock[r] = NoOne
  /\ Qualifies(row[r])
  /\ lock' = [lock EXCEPT ![r] = Backfiller]
  /\ todo' = todo \ {r}
  /\ batch' = batch \cup {r}
  /\ UNCHANGED <<setting, row, pend, phase, scanning, moved>>

\* The rows the UPDATE finds: in PostgreSQL, those still in the version of the snapshot.
UpdatedRows == IF MSSQL THEN batch ELSE batch \ moved

\* Mutant of NextPhase: the cleanup loop is left out.
NoCleanup(n) == IF n > 0 THEN phase ELSE "done"

\* Where a batch of n updated rows leads: the same loop again, or out of it.
NextPhase(n) ==
  IF n > 0 THEN phase ELSE IF phase = "fast" THEN "cleanup" ELSE "done"

\* UPDATE, COMMIT and the loop's exit test.
EndBatch ==
  /\ scanning
  /\ ScanOver
  /\ row' = [r \in Rows |-> IF r \in UpdatedRows
                            THEN Updated(row[r], Refilled(row[r]))
                            ELSE row[r]]
  /\ Release(Backfiller)
  /\ phase' = NextPhase(Cardinality(UpdatedRows))
  /\ scanning' = FALSE
  /\ todo' = {}
  /\ batch' = {}
  /\ moved' = {}
  /\ UNCHANGED setting

\* Mutant of TimeOut: lock_timeout is not set again after the COMMIT.
NoTimeOut == FALSE /\ UNCHANGED vars

\* The lock timeout, or the deadlock detector, while the cleanup statement waits for a lock.
\* The batch is rolled back and the procedure ends; earlier batches stay committed.  In
\* SQL Server error 1222 leaves @@ROWCOUNT at 0, which ends the loop: the caller gets the error.
TimeOut ==
  /\ scanning
  /\ ~ScanOver
  /\ phase = "cleanup"
  /\ \E r \in todo : lock[r] # NoOne
  /\ phase' = "failed"
  /\ scanning' = FALSE
  /\ todo' = {}
  /\ batch' = {}
  /\ moved' = {}
  /\ Release(Backfiller)
  /\ UNCHANGED <<setting, row>>

-----------------------------------------------------------------------------
\* A table with rows from before the column was added, and the trigger just installed.
Init ==
  /\ setting \in Settings
  /\ row \in [Rows -> {Absent} \cup [src : Column, dst : {Null}]]
  /\ lock = [r \in Rows |-> NoOne]
  /\ pend = [r \in Rows |-> Same]
  /\ MSSQL => \A r \in Rows : row[r] # Absent => row[r].src \in Unused(r)
  /\ phase = "idle"
  /\ scanning = FALSE
  /\ todo = {}
  /\ batch = {}
  /\ moved = {}

Visit == \E r \in Rows : Skip(r) \/ Drop(r) \/ Take(r)

Next ==
  \/ \E w \in setting.writers :
       \/ \E r \in Rows : Insert(w, r) \/ Update(w, r) \/ Delete(w, r) \/ LockRow(w, r)
       \/ Commit(w)
       \/ Rollback(w)
  \/ Call
  \/ BeginBatch
  \/ Visit
  \/ EndBatch
  \/ TimeOut

Spec == Init /\ [][Next]_vars

\* The procedure's session runs; a row lock is granted to the waiting statement when it is
\* free again and again; lock_timeout fires when it is not.  Writers may stop at any point.
FairSpec ==
  /\ Spec
  /\ WF_vars(BeginBatch)
  /\ WF_vars(EndBatch)
  /\ WF_vars(TimeOut)
  /\ SF_vars(Visit)

-----------------------------------------------------------------------------
(* Properties. *)

TypeOK ==
  /\ setting \in Settings
  /\ row \in [Rows -> Version \cup {Absent}]
  /\ lock \in [Rows -> Writers \cup {Backfiller, NoOne}]
  /\ pend \in [Rows -> Version \cup {Absent, Same}]
  /\ phase \in {"idle", "fast", "cleanup", "done", "failed"}
  /\ scanning \in BOOLEAN
  /\ todo \subseteq Rows
  /\ batch \subseteq {r \in Rows : lock[r] = Backfiller}
  /\ moved \subseteq Rows

\* When the procedure returns, every row with an ascending identifier has a descending one:
\* none that the fast loop skipped is left out, and writers never add a new gap.
DoneMeansFilled == phase = "done" => \A r \in Rows : ~Qualifies(row[r])

\* A descending identifier always is the flip of the ascending one beside it, whatever writers
\* do to src before, while or after the row is filled: in PostgreSQL where they leave dst to the
\* trigger, in SQL Server, whose trigger overwrites dst, in any row with an ascending identifier.
NeverStale ==
  \A r \in Rows :
    /\ row[r] # Absent
    /\ row[r].dst # Null
    /\ IF MSSQL THEN row[r].src # Null ELSE setting.fillers = {}
    => row[r].dst = Flip(row[r].src)

\* The procedure never undoes a committed write: a batch leaves every src, and every dst that
\* has a value, as its writer left them, also when it was written after the snapshot.
NoLostWrite ==
  [][EndBatch => \A r \in Rows :
       /\ row[r] = Absent <=> row'[r] = Absent
       /\ row[r] # Absent => /\ row'[r].src = row[r].src
                             /\ row[r].dst # Null => row'[r].dst = row[r].dst]_vars

\* The procedure, with its batches, locks and snapshots, does what FillTable says of a backfill:
\* it changes gaps and nothing else, to the flip, and returns only when none is left.
Filling == INSTANCE FillTable WITH status <- IF Running THEN "running" ELSE phase
FillsTable == Filling!Spec

\* The procedure returns or fails, even if a writer never ends its transaction.
BackfillEnds == Running ~> ~Running
=============================================================================
