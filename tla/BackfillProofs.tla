--------------------------- MODULE BackfillProofs ---------------------------
(***************************************************************************)
(* The backfill procedures leave no gap and nothing stale, undo no write   *)
(* and implement FillTable: for any rows, writers, batch sizes and either  *)
(* database.                                                               *)
(***************************************************************************)
EXTENDS Backfill, FiniteSetTheorems, TLAPS

(* The triggers. *)

\* A version whose descending identifier is right, where the application leaves it to the trigger.
Fresh(version) ==
  version.dst # Null /\ (IF MSSQL THEN version.src # Null ELSE setting.fillers = {})
    => version.dst = Flip(version.src)

\* heerid_to_desc and ranjid_to_desc give NULL for NULL and for nothing else.
LEMMA FlipType ==
  ASSUME NEW id \in Column
  PROVE  Flip(id) \in Column /\ (Flip(id) = Null <=> id = Null)
<1>1. CASE id = Null
  BY <1>1 DEF Flip, Column
<1>2. CASE id # Null
  <2>1. id \in 0 .. IdBound - 1 /\ IdBound \in Nat \ {0} /\ Null \notin 0 .. IdBound - 1
    BY <1>2, AutofillAssumption DEF Column, Ids
  <2>2. IdBound - 1 - id \in 0 .. IdBound - 1
    BY <2>1
  <2> QED BY <1>2, <2>1, <2>2 DEF Flip, Column, Ids
<1> QED BY <1>1, <1>2

\* Refilling gives a version that is filled and fresh.
LEMMA RefilledType ==
  ASSUME NEW version \in Version
  PROVE  /\ Refilled(version) \in Version
         /\ Refilled(version).src = version.src /\ Refilled(version).dst = Flip(version.src)
         /\ ~Qualifies(Refilled(version)) /\ Fresh(Refilled(version))
<1>1. version.src \in Column /\ version.dst \in Column
  BY DEF Version
<1>2. /\ Refilled(version) \in Version
      /\ Refilled(version).src = version.src /\ Refilled(version).dst = Flip(version.src)
  BY <1>1, FlipType DEF Refilled, Version
<1> QED BY <1>1, <1>2, FlipType DEF Qualifies, Fresh

\* No INSERT leaves a gap, and a stale identifier only where its writer gave one.
LEMMA InsertedFilled ==
  ASSUME NEW new \in Version, MSSQL \/ setting.fillers # {} \/ new.dst = Null
  PROVE  Inserted(new) \in Version /\ ~Qualifies(Inserted(new)) /\ Fresh(Inserted(new))
<1>1. CASE MSSQL /\ new.src = Null
  <2>1. Inserted(new) = new
    BY <1>1 DEF Inserted, AfterWrite
  <2> QED BY <1>1, <2>1 DEF Qualifies, Fresh
<1>2. CASE MSSQL /\ new.src # Null
  <2>1. Inserted(new) = Refilled(new)
    BY <1>2 DEF Inserted, AfterWrite
  <2> QED BY <2>1, RefilledType
<1>3. CASE ~MSSQL /\ new.dst = Null
  <2>1. Inserted(new) = Refilled(new)
    BY <1>3 DEF Inserted, OnInsert
  <2> QED BY <2>1, RefilledType
<1>4. CASE ~MSSQL /\ new.dst # Null
  <2>1. Inserted(new) = new
    BY <1>4 DEF Inserted, OnInsert
  <2> QED BY <1>4, <2>1 DEF Qualifies, Fresh
<1> QED BY <1>1, <1>2, <1>3, <1>4

\* No UPDATE does, of src, of dst, or of another column.
LEMMA UpdatedFilled ==
  ASSUME NEW old \in Version, NEW new \in Version, Fresh(old),
         MSSQL \/ setting.fillers # {} \/ new.dst \in {Null, old.dst}
  PROVE  Updated(old, new) \in Version /\ ~Qualifies(Updated(old, new)) /\ Fresh(Updated(old, new))
<1>1. CASE MSSQL /\ new.src = Null
  <2>1. Updated(old, new) = new
    BY <1>1 DEF Updated, AfterWrite
  <2> QED BY <1>1, <2>1 DEF Qualifies, Fresh
<1>2. CASE MSSQL /\ new.src # Null
  <2>1. Updated(old, new) = Refilled(new)
    BY <1>2 DEF Updated, AfterWrite
  <2> QED BY <2>1, RefilledType
<1>3. CASE ~MSSQL /\ (new.src # old.src \/ new.dst = Null)
  <2>1. Updated(old, new) = Refilled(new)
    BY <1>3 DEF Updated, OnUpdate
  <2> QED BY <2>1, RefilledType
<1>4. CASE ~MSSQL /\ new.src = old.src /\ new.dst # Null
  <2>1. Updated(old, new) = new
    BY <1>4 DEF Updated, OnUpdate
  <2> QED BY <1>4, <2>1 DEF Qualifies, Fresh
<1> QED BY <1>1, <1>2, <1>3, <1>4

\* What the procedure's own UPDATE writes passes the trigger unchanged.
LEMMA BackfilledFilled ==
  ASSUME NEW version \in Version, Qualifies(version)
  PROVE  Updated(version, Refilled(version)) = Refilled(version)
<1>1. /\ Refilled(version) \in Version
      /\ Refilled(version).src = version.src /\ Refilled(version).dst = Flip(version.src)
      /\ version.src \in Column /\ version.src # Null
  BY RefilledType DEF Qualifies, Version
<1>2. Refilled(Refilled(version)) = Refilled(version)
  BY <1>1 DEF Refilled, Version
<1>3. Refilled(version).dst # Null
  BY <1>1, FlipType
<1> QED BY <1>1, <1>2, <1>3 DEF Updated, OnUpdate, AfterWrite

-----------------------------------------------------------------------------
(* The invariant. *)

\* Nothing the application has written and not committed is a gap or stale.
PendingFilled ==
  \A r \in Rows : pend[r] \in Version => ~Qualifies(pend[r]) /\ Fresh(pend[r])

\* Only a writer has changed rows.
ChangedByWriter == \A r \in Rows : lock[r] \in {NoOne, Backfiller} => pend[r] = Same

\* The rows the statement has locked are gaps, and a row newer than its snapshot is none: the
\* join on ctid never misses a row that was locked.
BatchOfGaps ==
  /\ IsFiniteSet(batch)
  /\ \A r \in batch : Qualifies(row[r])
  /\ \A r \in moved : ~Qualifies(row[r])

\* In the cleanup loop no gap is out of the statement's sight.
NoGapOverlooked ==
  /\ scanning => Running
  /\ scanning /\ phase = "cleanup" => \A r \in Rows : Qualifies(row[r]) => r \in todo \cup batch

RowsFresh == \A r \in Rows : row[r] # Absent => Fresh(row[r])

\* The inductive invariant.
Inv ==
  /\ TypeOK /\ PendingFilled /\ ChangedByWriter /\ BatchOfGaps /\ NoGapOverlooked
  /\ DoneMeansFilled /\ RowsFresh

\* The holders of locks and the marks of versions are told apart.
LEMMA Distinct ==
  /\ \A w \in Writers : w # NoOne /\ w # Backfiller
  /\ NoOne # Backfiller
  /\ Absent \notin Version /\ Same \notin Version /\ Absent # Same
  BY ConstantsAssumption

\* The database and its applications stay what they are.
LEMMA SettingType ==
  ASSUME TypeOK
  PROVE  /\ setting.writers \subseteq Writers
         /\ setting.batchSize \in Nat \ {0}
  BY ConstantsAssumption DEF TypeOK

\* Initially every descending column is NULL and nobody works on the table.
LEMMA InitInv == Init => Inv
<1> SUFFICES ASSUME Init PROVE Inv
  OBVIOUS
<1>1. Null \in Column
  BY DEF Column
<1>2. row \in [Rows -> Version \cup {Absent}]
  BY <1>1 DEF Init, Version
<1>3. TypeOK
  BY <1>2 DEF Init, TypeOK
<1>4. PendingFilled /\ ChangedByWriter
  BY Distinct DEF Init, PendingFilled, ChangedByWriter
<1>5. BatchOfGaps
  BY FS_EmptySet DEF Init, BatchOfGaps
<1>6. NoGapOverlooked /\ DoneMeansFilled
  BY DEF Init, NoGapOverlooked, DoneMeansFilled
<1>7. RowsFresh
  BY DEF Init, RowsFresh, Fresh
<1> QED BY <1>3, <1>4, <1>5, <1>6, <1>7 DEF Inv

-----------------------------------------------------------------------------
(* Writers. *)

\* A statement of a writer keeps the invariant when what it leaves is filled and fresh.
LEMMA WriteKeepsInv ==
  ASSUME Inv, NEW w \in Writers, NEW r \in Rows, NEW version \in Version \cup {Absent, Same},
         Lockable(w, r), version \in Version => ~Qualifies(version) /\ Fresh(version),
         Write(w, r, version)
  PROVE  Inv'
<1>1. /\ lock' = [lock EXCEPT ![r] = w] /\ pend' = [pend EXCEPT ![r] = version]
      /\ UNCHANGED <<setting, row, phase, scanning, todo, batch, moved>>
  BY DEF Write, procVars
<1>2. w # NoOne /\ w # Backfiller /\ NoOne # Backfiller
  BY Distinct
<1>3. TypeOK'
  <2>1. lock' \in [Rows -> Writers \cup {Backfiller, NoOne}] /\ pend' \in [Rows -> Version \cup {Absent, Same}]
    BY <1>1 DEF Inv, TypeOK
  <2>2. r \notin batch
    BY <1>2 DEF Inv, TypeOK, Lockable
  <2>3. batch' \subseteq {q \in Rows : lock'[q] = Backfiller}
    BY <1>1, <2>2 DEF Inv, TypeOK
  <2> QED BY <1>1, <2>1, <2>3 DEF Inv, TypeOK
<1>4. PendingFilled'
  BY <1>1 DEF Inv, TypeOK, PendingFilled, Fresh, MSSQL
<1>5. ChangedByWriter'
  BY <1>1, <1>2 DEF Inv, TypeOK, ChangedByWriter
<1>6. BatchOfGaps' /\ NoGapOverlooked' /\ DoneMeansFilled' /\ RowsFresh'
  BY <1>1 DEF Inv, BatchOfGaps, NoGapOverlooked, Running, DoneMeansFilled, RowsFresh, Fresh, MSSQL
<1> QED BY <1>3, <1>4, <1>5, <1>6 DEF Inv

\* What a writer sees of a row is filled by the trigger, or as old as the table, and fresh.
LEMMA SeenFresh ==
  ASSUME Inv, NEW w \in Writers, NEW r \in Rows, Seen(w, r) # Absent
  PROVE  Seen(w, r) \in Version /\ Fresh(Seen(w, r))
<1>1. CASE lock[r] = w /\ pend[r] # Same
  <2>1. Seen(w, r) = pend[r]
    BY <1>1 DEF Seen
  <2> QED BY <1>1, <2>1 DEF Inv, TypeOK, PendingFilled
<1>2. CASE ~(lock[r] = w /\ pend[r] # Same)
  <2>1. Seen(w, r) = row[r]
    BY <1>2 DEF Seen
  <2> QED BY <2>1 DEF Inv, TypeOK, RowsFresh
<1> QED BY <1>1, <1>2

\* Whoever is no filler gives NULL.
LEMMA GivenNull ==
  ASSUME NEW w, NEW given \in GivenBy(w)
  PROVE  given \in Column /\ (setting.fillers # {} \/ given = Null)
  BY DEF GivenBy, Column

LEMMA InsertKeepsInv ==
  ASSUME Inv, NEW w \in Writers, NEW r \in Rows, Insert(w, r)
  PROVE  Inv'
<1> PICK id \in Unused(r), given \in GivenBy(w) :
      Lockable(w, r) /\ Write(w, r, Inserted([src |-> id, dst |-> given]))
  BY DEF Insert
<1> DEFINE new == [src |-> id, dst |-> given]
<1>1. new \in Version /\ (setting.fillers # {} \/ new.dst = Null)
  BY GivenNull DEF Version, Unused
<1> HIDE DEF new
<1>2. Inserted(new) \in Version /\ ~Qualifies(Inserted(new)) /\ Fresh(Inserted(new))
  BY <1>1, InsertedFilled
<1> QED BY <1>2, WriteKeepsInv DEF new

LEMMA UpdateKeepsInv ==
  ASSUME Inv, NEW w \in Writers, NEW r \in Rows, Update(w, r)
  PROVE  Inv'
<1> DEFINE old == Seen(w, r)
<1>1. old \in Version /\ Fresh(old) /\ Lockable(w, r)
  BY SeenFresh DEF Update
<1>2. ASSUME NEW new \in Version, setting.fillers # {} \/ new.dst \in {Null, old.dst},
             Write(w, r, Updated(old, new))
      PROVE  Inv'
  <2>1. Updated(old, new) \in Version /\ ~Qualifies(Updated(old, new)) /\ Fresh(Updated(old, new))
    BY <1>1, <1>2, UpdatedFilled
  <2> QED BY <1>1, <1>2, <2>1, WriteKeepsInv
<1>3. ASSUME NEW id \in Unused(r), Write(w, r, Updated(old, [old EXCEPT !.src = id]))
      PROVE  Inv'
  <2> HIDE DEF old
  <2>1. [old EXCEPT !.src = id] \in Version /\ [old EXCEPT !.src = id].dst = old.dst
    BY <1>1 DEF Version, Unused
  <2> QED BY <1>2, <1>3, <2>1
<1>4. ASSUME NEW given \in GivenBy(w), Write(w, r, Updated(old, [old EXCEPT !.dst = given]))
      PROVE  Inv'
  <2> HIDE DEF old
  <2>1. given \in Column /\ (setting.fillers # {} \/ given = Null)
    BY GivenNull
  <2>2. [old EXCEPT !.dst = given] \in Version /\ [old EXCEPT !.dst = given].dst = given
    BY <1>1, <2>1 DEF Version
  <2> QED BY <1>2, <1>4, <2>1, <2>2
<1> QED BY <1>3, <1>4 DEF Update

LEMMA DeleteKeepsInv ==
  ASSUME Inv, NEW w \in Writers, NEW r \in Rows, Delete(w, r)
  PROVE  Inv'
  BY WriteKeepsInv, Distinct DEF Delete

LEMMA LockRowKeepsInv ==
  ASSUME Inv, NEW w \in Writers, NEW r \in Rows, LockRow(w, r)
  PROVE  Inv'
<1>1. Lockable(w, r) /\ Write(w, r, Same)
  BY DEF LockRow, Lockable
<1> QED BY <1>1, WriteKeepsInv, Distinct

\* The locks of one holder go, and with them what it had not committed.
LEMMA ReleaseTypes ==
  ASSUME Inv, NEW w, Release(w)
  PROVE  /\ lock' \in [Rows -> Writers \cup {Backfiller, NoOne}]
         /\ pend' \in [Rows -> Version \cup {Absent, Same}]
         /\ \A r \in Rows : IF lock[r] = w THEN lock'[r] = NoOne /\ pend'[r] = Same
                                           ELSE lock'[r] = lock[r] /\ pend'[r] = pend[r]
         /\ ChangedByWriter'
         /\ setting' = setting => PendingFilled'
<1>1. /\ lock' \in [Rows -> Writers \cup {Backfiller, NoOne}]
      /\ pend' \in [Rows -> Version \cup {Absent, Same}]
      /\ \A r \in Rows : IF lock[r] = w THEN lock'[r] = NoOne /\ pend'[r] = Same
                                        ELSE lock'[r] = lock[r] /\ pend'[r] = pend[r]
  BY DEF Inv, TypeOK, Release
<1>2. ChangedByWriter'
  BY <1>1 DEF Inv, ChangedByWriter
<1>3. setting' = setting => PendingFilled'
  BY <1>1, Distinct DEF Inv, PendingFilled, Fresh, MSSQL
<1> QED BY <1>1, <1>2, <1>3

LEMMA RollbackKeepsInv ==
  ASSUME Inv, NEW w \in Writers, Rollback(w)
  PROVE  Inv'
<1>1. UNCHANGED <<setting, row, phase, scanning, todo, batch, moved>> /\ Release(w)
  BY DEF Rollback, procVars
<1>2. batch' \subseteq {r \in Rows : lock'[r] = Backfiller}
  BY <1>1, ReleaseTypes, Distinct DEF Inv, TypeOK
<1>3. TypeOK'
  BY <1>1, <1>2, ReleaseTypes DEF Inv, TypeOK
<1>4. BatchOfGaps' /\ NoGapOverlooked' /\ DoneMeansFilled' /\ RowsFresh'
  BY <1>1 DEF Inv, BatchOfGaps, NoGapOverlooked, Running, DoneMeansFilled, RowsFresh, Fresh, MSSQL
<1> QED BY <1>1, <1>3, <1>4, ReleaseTypes DEF Inv

\* A commit makes filled and fresh versions visible and touches no row of the batch.
LEMMA CommitKeepsInv ==
  ASSUME Inv, NEW w \in Writers, Commit(w)
  PROVE  /\ Inv'
         /\ row' \in [Rows -> Version \cup {Absent}]
         /\ \A r \in Rows : row'[r] # row[r] => ~Qualifies(row'[r])
<1> DEFINE changed == {r \in LockedBy(w) : pend[r] # Same}
<1>1. /\ row' = [r \in Rows |-> IF r \in changed THEN pend[r] ELSE row[r]]
      /\ Release(w)
      /\ moved' = IF scanning THEN moved \cup changed ELSE moved
      /\ todo' = todo \ {r \in changed : pend[r] = Absent}
      /\ UNCHANGED <<setting, phase, scanning, batch>>
  BY DEF Commit
<1>2. /\ changed \subseteq Rows
      /\ \A r \in changed : lock[r] = w /\ pend[r] \in Version \cup {Absent}
  BY DEF LockedBy, Inv, TypeOK
<1>3. \A r \in changed : ~Qualifies(pend[r]) /\ (pend[r] # Absent => Fresh(pend[r]))
  BY <1>2 DEF Inv, PendingFilled, Qualifies
<1>4. \A r \in batch : r \notin changed /\ r \in Rows
  BY <1>2, Distinct DEF Inv, TypeOK
<1> HIDE DEF changed
<1>5. row' \in [Rows -> Version \cup {Absent}]
  BY <1>1, <1>2 DEF Inv, TypeOK
<1>6. \A r \in Rows : row'[r] = IF r \in changed THEN pend[r] ELSE row[r]
  BY <1>1
<1>7. TypeOK'
  <2>1. batch' \subseteq {r \in Rows : lock'[r] = Backfiller}
    BY <1>1, ReleaseTypes, Distinct DEF Inv, TypeOK
  <2>2. moved' \subseteq Rows /\ todo' \subseteq Rows
    BY <1>1, <1>2 DEF Inv, TypeOK
  <2> QED BY <1>1, <1>5, <2>1, <2>2, ReleaseTypes DEF Inv, TypeOK
<1>8. BatchOfGaps'
  <2>1. \A r \in batch : Qualifies(row'[r])
    BY <1>4, <1>6 DEF Inv, BatchOfGaps
  <2>2. \A r \in moved' : r \in Rows /\ ~Qualifies(row'[r])
    BY <1>1, <1>2, <1>3, <1>6 DEF Inv, TypeOK, BatchOfGaps
  <2> QED BY <1>1, <2>1, <2>2 DEF Inv, BatchOfGaps
<1>9. \A r \in Rows : Qualifies(row'[r]) => r \notin changed /\ Qualifies(row[r])
  BY <1>3, <1>6
<1>10. NoGapOverlooked'
  <2>1. ASSUME NEW r \in Rows, scanning, phase = "cleanup", Qualifies(row'[r])
        PROVE  r \in todo' \cup batch
    BY <1>1, <1>9, <2>1 DEF Inv, NoGapOverlooked
  <2> QED BY <1>1, <2>1 DEF Inv, NoGapOverlooked, Running
<1>11. DoneMeansFilled'
  BY <1>1, <1>9 DEF Inv, DoneMeansFilled
<1>12. RowsFresh'
  BY <1>1, <1>3, <1>6 DEF Inv, RowsFresh, Fresh, MSSQL
<1>13. PendingFilled' /\ ChangedByWriter'
  BY <1>1, ReleaseTypes
<1>14. \A r \in Rows : row'[r] # row[r] => ~Qualifies(row'[r])
  BY <1>3, <1>6
<1> QED BY <1>5, <1>7, <1>8, <1>10, <1>11, <1>12, <1>13, <1>14 DEF Inv

-----------------------------------------------------------------------------
(* The procedure. *)

LEMMA CallKeepsInv ==
  ASSUME Inv, Call
  PROVE  Inv'
<1>1. ~scanning /\ ~Running
  BY DEF Inv, NoGapOverlooked, Call
<1>2. /\ UNCHANGED <<setting, row, lock, pend, scanning, todo, batch, moved>>
      /\ phase' \in {"fast", "failed"}
  BY DEF Call, tableVars
<1>3. TypeOK'
  BY <1>2 DEF Inv, TypeOK
<1>4. PendingFilled' /\ ChangedByWriter' /\ BatchOfGaps' /\ RowsFresh'
  BY <1>2 DEF Inv, PendingFilled, ChangedByWriter, BatchOfGaps, RowsFresh, Fresh, MSSQL
<1>5. NoGapOverlooked' /\ DoneMeansFilled'
  BY <1>1, <1>2 DEF NoGapOverlooked, DoneMeansFilled
<1> QED BY <1>3, <1>4, <1>5 DEF Inv

\* The snapshot has every gap in it.
LEMMA BeginBatchKeepsInv ==
  ASSUME Inv, BeginBatch
  PROVE  Inv'
<1>1. /\ UNCHANGED <<setting, row, lock, pend, phase>> /\ Running /\ scanning' = TRUE
      /\ todo' = IF MSSQL THEN Rows ELSE {r \in Rows : Qualifies(row[r])}
      /\ batch' = {} /\ moved' = {}
  BY DEF BeginBatch, tableVars
<1>2. todo' \subseteq Rows /\ \A r \in Rows : Qualifies(row[r]) => r \in todo'
  BY <1>1
<1>3. TypeOK'
  BY <1>1, <1>2 DEF Inv, TypeOK
<1>4. PendingFilled' /\ ChangedByWriter' /\ RowsFresh' /\ DoneMeansFilled'
  BY <1>1 DEF Inv, PendingFilled, ChangedByWriter, RowsFresh, DoneMeansFilled, Fresh, MSSQL
<1>5. BatchOfGaps'
  BY <1>1, FS_EmptySet DEF BatchOfGaps
<1>6. NoGapOverlooked'
  BY <1>1, <1>2 DEF NoGapOverlooked, Running
<1> QED BY <1>3, <1>4, <1>5, <1>6 DEF Inv

\* A row is left out only in the fast loop, or when it is no gap any more.
LEMMA VisitKeepsInv ==
  ASSUME Inv, NEW r \in Rows, Skip(r) \/ Drop(r) \/ Take(r)
  PROVE  Inv'
<1>1. CASE Skip(r) \/ Drop(r)
  <2>1. /\ UNCHANGED <<setting, row, lock, pend, phase, scanning, batch, moved>>
        /\ todo' = todo \ {r}
        /\ phase = "cleanup" => ~Qualifies(row[r])
    BY <1>1 DEF Skip, Drop, tableVars
  <2>2. TypeOK'
    BY <2>1 DEF Inv, TypeOK
  <2>3. PendingFilled' /\ ChangedByWriter' /\ BatchOfGaps' /\ RowsFresh' /\ DoneMeansFilled'
    BY <2>1 DEF Inv, PendingFilled, ChangedByWriter, BatchOfGaps, RowsFresh, DoneMeansFilled, Fresh, MSSQL
  <2>4. NoGapOverlooked'
    BY <2>1 DEF Inv, NoGapOverlooked, Running
  <2> QED BY <2>2, <2>3, <2>4 DEF Inv
<1>2. CASE Take(r)
  <2>1. /\ UNCHANGED <<setting, row, pend, phase, scanning, moved>>
        /\ lock[r] = NoOne /\ Qualifies(row[r])
        /\ lock' = [lock EXCEPT ![r] = Backfiller]
        /\ todo' = todo \ {r} /\ batch' = batch \cup {r}
    BY <1>2 DEF Take
  <2>2. TypeOK'
    <3>1. lock' \in [Rows -> Writers \cup {Backfiller, NoOne}]
      BY <2>1 DEF Inv, TypeOK
    <3>2. batch' \subseteq {q \in Rows : lock'[q] = Backfiller}
      BY <2>1 DEF Inv, TypeOK
    <3> QED BY <2>1, <3>1, <3>2 DEF Inv, TypeOK
  <2>3. PendingFilled' /\ RowsFresh' /\ DoneMeansFilled'
    BY <2>1 DEF Inv, PendingFilled, RowsFresh, DoneMeansFilled, Fresh, MSSQL
  <2>4. ChangedByWriter'
    BY <2>1 DEF Inv, TypeOK, ChangedByWriter
  <2>5. BatchOfGaps'
    BY <2>1, FS_AddElement DEF Inv, BatchOfGaps
  <2>6. NoGapOverlooked'
    BY <2>1 DEF Inv, NoGapOverlooked, Running
  <2> QED BY <2>2, <2>3, <2>4, <2>5, <2>6 DEF Inv
<1> QED BY <1>1, <1>2

\* What a batch writes: some gaps become their flip and nothing else changes; the loops end
\* only when the scan has gone through and found none.
LEMMA BatchFills ==
  ASSUME Inv, EndBatch
  PROVE  /\ row' \in [Rows -> Version \cup {Absent}]
         /\ \A r \in Rows : \/ row'[r] = row[r]
                            \/ Qualifies(row[r]) /\ row[r] \in Version /\ row'[r] = Refilled(row[r])
         /\ phase' \in {"fast", "cleanup", "done"}
         /\ phase' = "done" => row' = row /\ \A r \in Rows : ~Qualifies(row[r])
<1>1. /\ scanning /\ ScanOver /\ Running
      /\ row' = [r \in Rows |-> IF r \in UpdatedRows THEN Updated(row[r], Refilled(row[r])) ELSE row[r]]
      /\ phase' = NextPhase(Cardinality(UpdatedRows))
  BY DEF EndBatch, Inv, NoGapOverlooked
<1>2. UpdatedRows \subseteq batch /\ batch \subseteq Rows
  BY DEF UpdatedRows, Inv, TypeOK
<1>3. \A r \in UpdatedRows : /\ Qualifies(row[r]) /\ row[r] \in Version
                             /\ Updated(row[r], Refilled(row[r])) = Refilled(row[r])
                             /\ Refilled(row[r]) \in Version
  <2> TAKE r \in UpdatedRows
  <2>1. Qualifies(row[r])
    BY <1>2 DEF Inv, BatchOfGaps
  <2>2. row[r] \in Version
    BY <1>2, <2>1 DEF Inv, TypeOK, Qualifies
  <2> QED BY <2>1, <2>2, BackfilledFilled, RefilledType
<1>4. \A r \in Rows : row'[r] = IF r \in UpdatedRows THEN Refilled(row[r]) ELSE row[r]
  BY <1>1, <1>3
<1>5. row' \in [Rows -> Version \cup {Absent}]
  <2>1. row' = [r \in Rows |-> IF r \in UpdatedRows THEN Refilled(row[r]) ELSE row[r]]
    BY <1>1, <1>3
  <2> QED BY <1>3, <2>1 DEF Inv, TypeOK
<1>6. phase' \in {"fast", "cleanup", "done"}
  BY <1>1 DEF NextPhase, Running
<1>7. ASSUME phase' = "done"
      PROVE  row' = row /\ \A r \in Rows : ~Qualifies(row[r])
  <2>1. phase = "cleanup" /\ ~(Cardinality(UpdatedRows) > 0)
    BY <1>1, <1>7 DEF NextPhase, Running
  <2>2. IsFiniteSet(batch) /\ IsFiniteSet(UpdatedRows)
    BY <1>2, FS_Subset DEF Inv, BatchOfGaps
  <2>3. UpdatedRows = {}
    <3>1. Cardinality(UpdatedRows) \in Nat /\ (Cardinality(UpdatedRows) = 0 <=> UpdatedRows = {})
      BY <2>2, FS_CardinalityType, FS_EmptySet
    <3> QED BY <2>1, <3>1
  <2>4. batch = {}
    BY <2>3 DEF UpdatedRows, Inv, BatchOfGaps
  <2>5. todo = {}
    <3>1. Cardinality(batch) = 0
      BY <2>4, FS_EmptySet
    <3>2. setting.batchSize # 0
      BY SettingType DEF Inv
    <3> QED BY <1>1, <3>1, <3>2 DEF ScanOver
  <2>6. \A r \in Rows : ~Qualifies(row[r])
    BY <1>1, <2>1, <2>4, <2>5 DEF Inv, NoGapOverlooked
  <2>7. row' = row
    BY <1>1, <2>3 DEF Inv, TypeOK
  <2> QED BY <2>6, <2>7
<1> QED BY <1>3, <1>4, <1>5, <1>6, <1>7

LEMMA EndBatchKeepsInv ==
  ASSUME Inv, EndBatch
  PROVE  Inv'
<1>1. /\ Release(Backfiller) /\ UNCHANGED setting
      /\ scanning' = FALSE /\ todo' = {} /\ batch' = {} /\ moved' = {}
  BY DEF EndBatch
<1>2. TypeOK'
  BY <1>1, BatchFills, ReleaseTypes DEF Inv, TypeOK
<1>3. PendingFilled' /\ ChangedByWriter'
  BY <1>1, ReleaseTypes
<1>4. BatchOfGaps' /\ NoGapOverlooked'
  BY <1>1, FS_EmptySet DEF BatchOfGaps, NoGapOverlooked
<1>5. DoneMeansFilled'
  BY BatchFills DEF DoneMeansFilled
<1>6. RowsFresh'
  <2> SUFFICES ASSUME NEW r \in Rows, row'[r] # Absent PROVE Fresh(row'[r])
    BY <1>1 DEF RowsFresh, Fresh, MSSQL
  <2>1. CASE row'[r] = row[r]
    BY <2>1 DEF Inv, RowsFresh
  <2>2. CASE row[r] \in Version /\ row'[r] = Refilled(row[r])
    BY <2>2, RefilledType
  <2> QED BY <2>1, <2>2, BatchFills
<1> QED BY <1>2, <1>3, <1>4, <1>5, <1>6 DEF Inv

LEMMA TimeOutKeepsInv ==
  ASSUME Inv, TimeOut
  PROVE  Inv'
<1>1. /\ Release(Backfiller) /\ UNCHANGED <<setting, row>>
      /\ phase' = "failed" /\ scanning' = FALSE /\ todo' = {} /\ batch' = {} /\ moved' = {}
  BY DEF TimeOut
<1>2. TypeOK'
  BY <1>1, ReleaseTypes DEF Inv, TypeOK
<1>3. PendingFilled' /\ ChangedByWriter'
  BY <1>1, ReleaseTypes
<1>4. BatchOfGaps' /\ NoGapOverlooked' /\ DoneMeansFilled'
  BY <1>1, FS_EmptySet DEF BatchOfGaps, NoGapOverlooked, DoneMeansFilled
<1>5. RowsFresh'
  BY <1>1 DEF Inv, RowsFresh, Fresh, MSSQL
<1> QED BY <1>2, <1>3, <1>4, <1>5 DEF Inv

\* Every step keeps the invariant.
LEMMA InvStep == Inv /\ [Next]_vars => Inv'
<1> SUFFICES ASSUME Inv, [Next]_vars PROVE Inv'
  OBVIOUS
<1>1. CASE UNCHANGED vars
  BY <1>1 DEF vars, Inv, TypeOK, PendingFilled, ChangedByWriter, BatchOfGaps, NoGapOverlooked, Running,
              DoneMeansFilled, RowsFresh, Fresh, MSSQL
<1>2. ASSUME NEW w \in setting.writers,
             \/ \E r \in Rows : Insert(w, r) \/ Update(w, r) \/ Delete(w, r) \/ LockRow(w, r)
             \/ Commit(w)
             \/ Rollback(w)
      PROVE  Inv'
  <2>1. w \in Writers
    BY SettingType DEF Inv
  <2> QED BY <1>2, <2>1, InsertKeepsInv, UpdateKeepsInv, DeleteKeepsInv, LockRowKeepsInv, CommitKeepsInv,
             RollbackKeepsInv
<1>3. ASSUME Call \/ BeginBatch \/ Visit \/ EndBatch \/ TimeOut PROVE Inv'
  BY <1>3, CallKeepsInv, BeginBatchKeepsInv, VisitKeepsInv, EndBatchKeepsInv, TimeOutKeepsInv DEF Visit
<1> QED BY <1>1, <1>2, <1>3 DEF Next

LEMMA Invariance == Spec => []Inv
  BY InitInv, InvStep, PTL DEF Spec

-----------------------------------------------------------------------------
(* Theorems. *)

\* The state of table, locks and procedure keeps its types, and the batch consists of rows the
\* procedure has locked.
THEOREM TypeCorrect == Spec => []TypeOK
<1>1. Inv => TypeOK
  BY DEF Inv
<1> QED BY <1>1, Invariance, PTL

\* When heeranjid_bulk_backfill returns, no row is left without its descending identifier: of
\* any number of rows, in batches of any size, behind any writers.
THEOREM NoGapLeft == Spec => []DoneMeansFilled
<1>1. Inv => DoneMeansFilled
  BY DEF Inv
<1> QED BY <1>1, Invariance, PTL

\* The triggers keep every descending identifier the flip of its source.
THEOREM Freshness == Spec => []NeverStale
<1>1. Inv => NeverStale
  BY DEF Inv, RowsFresh, Fresh, NeverStale
<1> QED BY <1>1, Invariance, PTL

\* No batch undoes what a writer has committed.
THEOREM WritesKept == Spec => NoLostWrite
<1>1. ASSUME Inv, [Next]_vars, EndBatch, NEW r \in Rows
      PROVE  /\ row[r] = Absent <=> row'[r] = Absent
             /\ row[r] # Absent => /\ row'[r].src = row[r].src
                                   /\ row[r].dst # Null => row'[r].dst = row[r].dst
  <2>1. CASE row'[r] = row[r]
    BY <2>1
  <2>2. CASE Qualifies(row[r]) /\ row[r] \in Version /\ row'[r] = Refilled(row[r])
    BY <2>2, RefilledType, Distinct DEF Qualifies
  <2> QED BY <1>1, <2>1, <2>2, BatchFills
<1>2. Inv /\ [Next]_vars =>
        [EndBatch => \A r \in Rows :
           /\ row[r] = Absent <=> row'[r] = Absent
           /\ row[r] # Absent => /\ row'[r].src = row[r].src
                                 /\ row[r].dst # Null => row'[r].dst = row[r].dst]_vars
  BY <1>1
<1> QED BY <1>2, Invariance, PTL DEF Spec, NoLostWrite

\* Both procedures implement FillTable: batches, snapshots, skipped and awaited locks add up to
\* filling gaps until none is left.
THEOREM Refinement == Spec => FillsTable
<1> DEFINE status == IF Running THEN "running" ELSE phase
<1>1. Init => Filling!Init
  BY DEF Init, Filling!Init, Filling!Column, Filling!Ids, Column, Ids, Running
<1>2. \A version : Filling!Gap(version) <=> Qualifies(version)
  BY DEF Filling!Gap, Qualifies
<1>3. \A version \in Version : Filling!Refilled(version) = Refilled(version)
  BY DEF Filling!Refilled, Refilled, Filling!Flip, Flip
<1>4. Version = [src : Filling!Column, dst : Filling!Column]
  BY DEF Version, Filling!Column, Column, Filling!Ids, Ids
<1>5. Inv /\ [Next]_vars => [Filling!Next]_Filling!vars
  <2> SUFFICES ASSUME Inv, [Next]_vars PROVE [Filling!Next]_Filling!vars
    OBVIOUS
  <2>1. ASSUME UNCHANGED <<row, phase>> PROVE UNCHANGED Filling!vars
    BY <2>1 DEF Filling!vars, Running
  <2>2. CASE UNCHANGED vars
    BY <2>1, <2>2 DEF vars
  <2>3. ASSUME NEW w \in setting.writers, NEW r \in Rows,
               Insert(w, r) \/ Update(w, r) \/ Delete(w, r) \/ LockRow(w, r)
        PROVE  UNCHANGED Filling!vars
    BY <2>1, <2>3 DEF Insert, Update, Delete, LockRow, Write, procVars
  <2>4. ASSUME NEW w \in setting.writers, Commit(w) PROVE Filling!Write
    <3>1. w \in Writers
      BY SettingType DEF Inv
    <3>2. /\ row' \in [Rows -> Version \cup {Absent}]
          /\ \A r \in Rows : row'[r] # row[r] => ~Qualifies(row'[r])
      BY <2>4, <3>1, CommitKeepsInv
    <3>3. phase' = phase
      BY <2>4 DEF Commit
    <3> QED BY <1>2, <1>4, <3>2, <3>3 DEF Filling!Write, Running
  <2>5. ASSUME NEW w \in setting.writers, Rollback(w) PROVE UNCHANGED Filling!vars
    BY <2>1, <2>5 DEF Rollback, procVars
  <2>6. CASE Call
    BY <2>6 DEF Call, Filling!Start, Filling!Next, Running, tableVars, Inv, TypeOK
  <2>7. CASE BeginBatch \/ Visit
    BY <2>1, <2>7 DEF BeginBatch, Visit, Skip, Drop, Take, tableVars
  <2>8. CASE EndBatch
    <3>1. Running
      BY <2>8 DEF EndBatch, Inv, NoGapOverlooked
    <3>2. CASE phase' = "done"
      BY <1>2, <2>8, <3>1, <3>2, BatchFills DEF Filling!Finish, Filling!Next, Running
    <3>3. CASE phase' \in {"fast", "cleanup"}
      <4>1. \A r \in Rows : row'[r] # row[r] => Filling!Gap(row[r]) /\ row'[r] = Filling!Refilled(row[r])
        BY <1>2, <1>3, <2>8, BatchFills
      <4>2. row' \in [Rows -> [src : Filling!Column, dst : Filling!Column] \cup {Absent}]
        BY <1>4, <2>8, BatchFills
      <4> QED BY <3>1, <3>3, <4>1, <4>2 DEF Filling!Fill, Filling!Next, Running
    <3> QED BY <2>8, <3>2, <3>3, BatchFills
  <2>9. CASE TimeOut
    BY <2>9 DEF TimeOut, Filling!Fail, Filling!Next, Running
  <2> QED BY <2>2, <2>3, <2>4, <2>5, <2>6, <2>7, <2>8, <2>9 DEF Next, Filling!Next
<1> QED BY <1>1, <1>5, Invariance, PTL DEF Spec, FillsTable, Filling!Spec
=============================================================================
