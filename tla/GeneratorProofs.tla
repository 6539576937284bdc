-------------------------- MODULE GeneratorProofs --------------------------
(***************************************************************************)
(* Type correctness, uniqueness of identifiers, coverage of the committed  *)
(* ones by the state rows, and the refinement of IdAllocator, for any      *)
(* number of sessions, nodes and streams, any capacity of a tick, any      *)
(* batch sizes and any behaviour of the clock.                             *)
(***************************************************************************)
EXTENDS Generator, EmissionProofs

USE SeqCapAssumption

-----------------------------------------------------------------------------
(* What a call allocates. *)

\* The tick and the sequence a batch starts at.
LEMMA StartType ==
  ASSUME NEW r \in Row \cup {None}, NEW now \in Nat
  PROVE  CurrentTick(r, now) \in Nat /\ NextSeq(r, now) \in Nat
  BY DEF CurrentTick, NextSeq, Row, Point, Seqs

LEMMA PosType ==
  ASSUME NEW r \in Row \cup {None}, NEW now \in Nat, NEW i \in Nat
  PROVE  Pos(r, now, i) \in Point
  <1> DEFINE t == CurrentTick(r, now)
             q == NextSeq(r, now)
  <1>1. t \in Nat /\ q \in Nat
    BY StartType
  <1>2. PointAt(t, q, i) \in Point
    <2> HIDE DEF t, q
    <2> QED BY <1>1, PointAtType
  <1> QED
    BY <1>2 DEF Pos

\* The identifiers of a batch, one by one.
LEMMA BatchElements ==
  ASSUME NEW st \in Streams, NEW r \in Row \cup {None}, NEW now \in Nat, NEW n \in Nat \ {0}
  PROVE  /\ Batch(st, r, now, n) \in Seq(Id)
         /\ Len(Batch(st, r, now, n)) = n
         /\ \A i \in 1..n : /\ Batch(st, r, now, n)[i] \in Id
                            /\ Batch(st, r, now, n)[i].stream = st
                            /\ Batch(st, r, now, n)[i].tick = Pos(r, now, i - 1).tick
                            /\ Batch(st, r, now, n)[i].seq = Pos(r, now, i - 1).seq
  <1> DEFINE b == Batch(st, r, now, n)
             id(i) == [stream |-> st, tick |-> Pos(r, now, i - 1).tick, seq |-> Pos(r, now, i - 1).seq]
  <1>1. b = [i \in 1..n |-> id(i)]
    BY DEF Batch
  <1>2. \A i \in 1..n : Pos(r, now, i - 1) \in Point
    BY PosType
  <1>3. \A i \in 1..n : id(i) \in Id
    BY <1>2 DEF Id, Point
  <1> HIDE DEF b
  <1>4. \A i \in 1..n : b[i] = id(i)
    BY <1>1
  <1>5. b \in [1..n -> Id]
    BY <1>1, <1>3
  <1>6. b \in Seq(Id) /\ Len(b) = n
    BY <1>5
  <1> QED
    BY <1>3, <1>4, <1>6 DEF b

\* The same as one predicate of a batch.
BatchOf(b, st, r, now, n) ==
  /\ b \in Seq(Id)
  /\ Len(b) = n
  /\ \A i \in 1..n : /\ b[i] \in Id
                     /\ b[i].stream = st
                     /\ b[i].tick = Pos(r, now, i - 1).tick
                     /\ b[i].seq = Pos(r, now, i - 1).seq

LEMMA BatchIsBatch ==
  ASSUME NEW st \in Streams, NEW r \in Row \cup {None}, NEW now \in Nat, NEW n \in Nat \ {0}
  PROVE  BatchOf(Batch(st, r, now, n), st, r, now, n)
  <1> DEFINE b == Batch(st, r, now, n)
  <1>1. /\ b \in Seq(Id)
        /\ Len(b) = n
        /\ \A i \in 1..n : /\ b[i] \in Id
                           /\ b[i].stream = st
                           /\ b[i].tick = Pos(r, now, i - 1).tick
                           /\ b[i].seq = Pos(r, now, i - 1).seq
    BY ONLY BatchElements, st \in Streams, r \in Row \cup {None}, now \in Nat, n \in Nat \ {0}
  <1> HIDE DEF b
  <1>2. BatchOf(b, st, r, now, n)
    BY ONLY <1>1 DEF BatchOf
  <1> QED
    BY <1>2 DEF b

-----------------------------------------------------------------------------
(* Type correctness. *)

LEMMA InitType == Init => TypeOK /\ CallInv
  BY InputAssumption DEF Init, TypeOK, CallInv, NoCall

LEMMA ReleaseType ==
  ASSUME TypeOK, CallInv, NEW s \in Sessions, Release(s)
  PROVE  /\ CallInv'
         /\ lock' \in [Streams -> Sessions \cup {None}]
         /\ work' \in [Streams -> Row \cup {None}]
         /\ pc' \in [Sessions -> {"idle", "txn", "insert", "lock"}]
         /\ arg' \in [Sessions -> [stream : Streams \cup {None}, count : Nat,
                                   span : BOOLEAN, at : Nat]]
         /\ got' \in [Sessions -> Seq(Id)]
  BY DEF TypeOK, CallInv, Release, NoCall

LEMMA AbortType ==
  ASSUME TypeOK, CallInv, NEW s \in Sessions, NEW why \in Errors, Abort(s, why)
  PROVE  TypeOK' /\ CallInv'
  BY ReleaseType DEF TypeOK, Abort

LEMMA CommitType ==
  ASSUME TypeOK, CallInv, NEW s \in Sessions, Commit(s)
  PROVE  TypeOK' /\ CallInv'
  <1>1. IdsOf(got[s]) \subseteq Id
    BY DEF TypeOK, IdsOf
  <1>2. Persisted(s) \in [Streams -> Row \cup {None}]
    BY DEF TypeOK, Persisted
  <1> QED
    BY <1>1, <1>2, ReleaseType DEF TypeOK, Commit

LEMMA ViewType ==
  ASSUME TypeOK, NEW s \in Sessions, NEW st \in Streams
  PROVE  View(s, st) \in Row \cup {None}
  BY DEF TypeOK, View

LEMMA GenerateType ==
  ASSUME TypeOK, CallInv, NEW s \in Sessions, Generate(s)
  PROVE  TypeOK' /\ CallInv'
  <1> DEFINE st == arg[s].stream
             n == arg[s].count
             r == View(s, st)
             b == Batch(st, r, clock, n)
             p == LastPoint(r, clock, n)
  <1>1. st \in Streams /\ n \in Nat \ {0} /\ clock \in Nat
    BY DEF Generate, CallInv, TypeOK
  <1>2. r \in Row \cup {None}
    BY <1>1, ViewType
  <1>3. b \in Seq(Id)
    BY <1>1, <1>2, BatchElements
  <1>4. p \in Row
    <2> n - 1 \in Nat
      BY <1>1
    <2> QED BY <1>1, <1>2, PosType DEF LastPoint, Row
  <1>5. /\ got' = [got EXCEPT ![s] = got[s] \o b]
        /\ \/ lock' = lock /\ work' = work
           \/ lock' = [lock EXCEPT ![st] = s] /\ work' = [work EXCEPT ![st] = p]
        /\ pc' = [pc EXCEPT ![s] = "txn"]
        /\ arg' = [arg EXCEPT ![s] = NoCall]
        /\ UNCHANGED <<clock, node, row, issued, err>>
    BY DEF Generate, Now
  <1> HIDE DEF st, n, r, b, p
  <1>6. got[s] \o b \in Seq(Id)
    BY <1>3 DEF TypeOK
  <1>7. got' \in [Sessions -> Seq(Id)]
    BY <1>5, <1>6 DEF TypeOK
  <1>8. lock' \in [Streams -> Sessions \cup {None}] /\ work' \in [Streams -> Row \cup {None}]
    BY <1>1, <1>4, <1>5 DEF TypeOK
  <1> QED
    BY <1>5, <1>7, <1>8 DEF TypeOK, CallInv, NoCall

\* Every way a call fails is one of the errors.
LEMMA OutcomeType ==
  ASSUME TypeOK, NEW s \in Sessions, NEW st \in Streams, NEW n, NEW span,
         Outcome(s, st, n, span) # "ok"
  PROVE  Outcome(s, st, n, span) \in Errors
  <1> DEFINE r == View(s, st)
  <1>1. RolledBack(r, clock) => RollbackError(r, clock) \in Errors
    <2> SUFFICES ASSUME RolledBack(r, clock)
                 PROVE  RollbackError(r, clock) \in Errors
      OBVIOUS
    <2>1. r \in Row /\ clock \in Nat
      BY ViewType DEF RolledBack, TypeOK
    <2>2. r.tick \in Nat
      BY <2>1 DEF Row, Point
    <2> DEFINE d == r.tick - clock
    <2>3. d \in Int /\ DriftBelow \in Nat /\ HardFrom \in Nat
      BY <2>1, <2>2, ThresholdAssumption
    <2> QED
      BY <2>3 DEF RollbackError, Errors, RollbackErrors
  <1> QED
    BY <1>1 DEF Outcome, Now, Errors

LEMMA TypeStep == TypeOK /\ CallInv /\ [Next]_vars => TypeOK' /\ CallInv'
  <1> SUFFICES ASSUME TypeOK, CallInv, [Next]_vars
               PROVE  TypeOK' /\ CallInv'
    OBVIOUS
  <1>1. ASSUME NEW s \in Sessions, RejectCall(s) PROVE TypeOK' /\ CallInv'
    <2> PICK st \in Streams, n \in Counts : CallError(st, n) # "ok" /\ Abort(s, CallError(st, n))
      BY <1>1 DEF RejectCall
    <2>1. CallError(st, n) \in Errors
      BY InputAssumption DEF CallError, Errors
    <2> QED BY <2>1, AbortType
  <1>2. ASSUME NEW s \in Sessions, Call(s) PROVE TypeOK' /\ CallInv'
    <2> PICK st \in Streams, n \in Counts, span \in Spans :
               /\ CallError(st, n) = "ok"
               /\ arg' = [arg EXCEPT ![s] = [stream |-> st, count |-> n, span |-> span, at |-> clock]]
      BY <1>2 DEF Call
    <2>1. n \in Nat \ {0} /\ span \in BOOLEAN
      BY InputAssumption DEF CallError
    <2> QED BY <1>2, <2>1 DEF Call, TypeOK, CallInv
  <1>3. ASSUME NEW s \in Sessions, RowExists(s) PROVE TypeOK' /\ CallInv'
    BY <1>3 DEF RowExists, TypeOK, CallInv
  <1>4. ASSUME NEW s \in Sessions, InsertRow(s) PROVE TypeOK' /\ CallInv'
    <2>1. NewRow \in Row
      BY DEF NewRow, Row, Point, Seqs
    <2> QED BY <1>4, <2>1 DEF InsertRow, TypeOK, CallInv
  <1>5. ASSUME NEW s \in Sessions, InsertFails(s) PROVE TypeOK' /\ CallInv'
    BY <1>5, AbortType DEF InsertFails, Errors
  <1>6. ASSUME NEW s \in Sessions, Generate(s) PROVE TypeOK' /\ CallInv'
    BY <1>6, GenerateType
  <1>7. ASSUME NEW s \in Sessions, GenerateFails(s) PROVE TypeOK' /\ CallInv'
    <2> DEFINE why == Outcome(s, arg[s].stream, arg[s].count, arg[s].span)
    <2>1. why \in Errors
      BY <1>7, OutcomeType DEF GenerateFails, CallInv
    <2>2. Abort(s, why)
      BY <1>7 DEF GenerateFails
    <2> QED BY <2>1, <2>2, AbortType
  <1>8. ASSUME NEW s \in Sessions, Commit(s) PROVE TypeOK' /\ CallInv'
    BY <1>8, CommitType
  <1>9. ASSUME NEW s \in Sessions, Rollback(s) PROVE TypeOK' /\ CallInv'
    BY <1>9, AbortType DEF Rollback, Errors
  <1>10. ASSUME NEW s \in Sessions, DeadlockVictim(s) PROVE TypeOK' /\ CallInv'
    BY <1>10, AbortType DEF DeadlockVictim, Errors
  <1>11. CASE Tick
    BY <1>11, InputAssumption DEF Tick, TypeOK, CallInv
  <1>12. CASE StepBack
    <2> PICK d \in Backward : d <= clock /\ clock' = clock - d
      BY <1>12 DEF StepBack
    <2>1. clock' \in Nat
      BY InputAssumption DEF TypeOK
    <2> QED BY <1>12, <2>1 DEF StepBack, TypeOK, CallInv
  <1>13. ASSUME NEW n \in Nodes, Deactivate(n) PROVE TypeOK' /\ CallInv'
    BY <1>13 DEF Deactivate, TypeOK, CallInv
  <1>14. ASSUME NEW n \in Nodes, Activate(n) PROVE TypeOK' /\ CallInv'
    BY <1>14 DEF Activate, TypeOK, CallInv
  <1>15. ASSUME NEW n \in Nodes, Delete(n) PROVE TypeOK' /\ CallInv'
    BY <1>15 DEF Delete, TypeOK, CallInv
  <1>16. ASSUME NEW n \in Nodes, Register(n) PROVE TypeOK' /\ CallInv'
    BY <1>16 DEF Register, TypeOK, CallInv
  <1>17. CASE UNCHANGED vars
    BY <1>17 DEF vars, TypeOK, CallInv
  <1> QED
    BY <1>1, <1>2, <1>3, <1>4, <1>5, <1>6, <1>7, <1>8, <1>9, <1>10, <1>11, <1>12, <1>13,
       <1>14, <1>15, <1>16, <1>17 DEF Next, CallStep

\* Every reachable state is well typed, however the calls, the clock and the operator
\* interleave: in particular every sequence in a state row or an identifier fits its field.
THEOREM TypeCorrect == Spec => []TypeOK
  <1>1. TypeOK /\ CallInv => TypeOK
    OBVIOUS
  <1> QED
    BY <1>1, InitType, TypeStep, PTL DEF Spec

-----------------------------------------------------------------------------
(* A batch lies above the row it is allocated from. *)

LEMMA RowComparable == \A a \in Row \cup Id : Comparable(a)
  BY DEF Row, Point, Id, Seqs, Comparable

LEMMA PosAboveRow ==
  ASSUME NEW r \in Row, NEW now \in Nat, NEW i \in Nat
  PROVE  Before(r, Pos(r, now, i))
  <1> DEFINE t == CurrentTick(r, now)
             q == NextSeq(r, now)
             p == PointAt(t, q, i)
  <1>1. t \in Nat /\ q \in Nat
    BY StartType
  <1>2. p.tick > t \/ (p.tick = t /\ p.seq = q + i)
    <2> HIDE DEF t, q
    <2> QED BY <1>1, PointAtFrom
  <1>3. r.tick \in Nat /\ r.seq \in Nat
    BY DEF Row, Point, Seqs
  <1>4. t > r.tick \/ (t = r.tick /\ q = r.seq + 1)
    BY <1>3, RowAssumption DEF CurrentTick, NextSeq
  <1>5. p \in Point
    <2> HIDE DEF t, q
    <2> QED BY <1>1, PointAtType
  <1>6. p.tick \in Nat /\ p.seq \in Nat
    BY <1>5 DEF Point, Seqs
  <1>7. Before(r, p)
    <2> HIDE DEF t, q, p
    <2> QED BY <1>1, <1>2, <1>3, <1>4, <1>6 DEF Before
  <1> QED
    BY <1>7 DEF Pos

LEMMA PosIncreasing ==
  ASSUME NEW r \in Row, NEW now \in Nat, NEW i \in Nat, NEW j \in Nat, i < j
  PROVE  Before(Pos(r, now, i), Pos(r, now, j))
  <1> DEFINE t == CurrentTick(r, now)
             q == NextSeq(r, now)
  <1>1. t \in Nat /\ q \in Nat
    BY StartType
  <1>2. Before(PointAt(t, q, i), PointAt(t, q, j))
    <2> HIDE DEF t, q
    <2> QED BY <1>1, PointAtIncreasing
  <1> QED
    BY <1>2 DEF Pos

\* What a batch allocated from a row r is to r, to the row it leaves and to itself.
LEMMA BatchAllocated ==
  ASSUME NEW st \in Streams, NEW r \in Row, NEW now \in Nat, NEW n \in Nat \ {0},
         NEW b, b = Batch(st, r, now, n)
  PROVE  /\ \A i \in 1..n : Before(r, b[i]) /\ ~Before(LastPoint(r, now, n), b[i])
         /\ \A i, j \in 1..n : i < j => Before(b[i], b[j])
         /\ Before(r, LastPoint(r, now, n))
         /\ LastPoint(r, now, n) \in Row
  <1> DEFINE p(i) == Pos(r, now, i - 1)
             ending == LastPoint(r, now, n)
  <1>1. ending = p(n)
    BY DEF LastPoint
  <1>2. \A i \in 1..n : /\ p(i) \in Point /\ Before(r, p(i))
                        /\ b[i] \in Id /\ b[i].tick = p(i).tick /\ b[i].seq = p(i).seq
    BY BatchElements, PosType, PosAboveRow
  <1>3. \A i, j \in 1..n : i < j => Before(p(i), p(j))
    BY PosIncreasing
  <1>4. \A i \in 1..n : ~Before(p(n), p(i))
    <2> SUFFICES ASSUME NEW i \in 1..n
                 PROVE  ~Before(p(n), p(i))
      OBVIOUS
    <2>1. p(i) \in Row /\ p(n) \in Row
      <3>1. n \in 1..n
        OBVIOUS
      <3> HIDE DEF p
      <3> QED BY <1>2, <3>1 DEF Row
    <2>2. CASE i = n
      BY <2>1, <2>2, RowComparable, BeforeOrder
    <2>3. CASE i < n
      <3>1. Before(p(i), p(n))
        BY <1>3, <2>3
      <3> HIDE DEF p
      <3> QED BY <2>1, <3>1, RowComparable, BeforeOrder
    <2> QED BY <2>2, <2>3
  <1>5. n \in 1..n
    OBVIOUS
  <1> HIDE DEF p, ending
  <1>6. \A i \in 1..n : Before(r, b[i]) /\ ~Before(ending, b[i])
    BY <1>1, <1>2, <1>4 DEF Before
  <1>7. \A i, j \in 1..n : i < j => Before(b[i], b[j])
    BY <1>2, <1>3 DEF Before
  <1>8. Before(r, ending) /\ ending \in Row
    BY <1>1, <1>2, <1>5 DEF Row
  <1> QED
    BY <1>6, <1>7, <1>8 DEF ending

-----------------------------------------------------------------------------
(* The inductive invariant. *)

LEMMA KeptStreams == Kept \subseteq Streams
  BY DEF Kept

LEMMA InitInd == Init => IndInv
  <1> SUFFICES ASSUME Init
               PROVE  IndInv
    OBVIOUS
  <1>1. LockInv /\ RowFound /\ WorkAhead
    BY KeptStreams DEF Init, LockInv, RowFound, WorkAhead
  <1>2. HeldLocked /\ HeldOrdered
    BY DEF Init, HeldLocked, HeldOrdered
  <1>3. StateCoversIssued
    BY DEF Init, StateCoversIssued
  <1> QED
    BY <1>1, <1>2, <1>3, InitType DEF IndInv

\* Steps that leave the kept rows, the locks and the identifiers alone.
LEMMA QuietStep ==
  ASSUME IndInv, TypeOK', CallInv', RowFound',
         UNCHANGED <<lock, work, got, issued>>,
         \A st \in Kept : row'[st] = row[st]
  PROVE  IndInv'
  <1>1. LockInv'
    BY DEF IndInv, LockInv
  <1>2. WorkAhead'
    BY DEF IndInv, WorkAhead
  <1>3. HeldLocked'
    BY DEF IndInv, HeldLocked
  <1>4. HeldOrdered'
    BY DEF IndInv, HeldOrdered
  <1>5. StateCoversIssued'
    <2>1. \A id \in issued : id.stream \in Kept => row[id.stream] # None /\ ~Before(row[id.stream], id)
      BY DEF IndInv, StateCoversIssued
    <2> QED BY <2>1 DEF StateCoversIssued
  <1> QED
    BY <1>1, <1>2, <1>3, <1>4, <1>5 DEF IndInv

\* The end of a transaction, whatever becomes of the rows it had locked.
LEMMA ReleaseStep ==
  ASSUME IndInv, NEW s \in Sessions, Release(s), TypeOK',
         \A st \in Kept : lock[st] # s => row'[st] = row[st],
         \A st \in Kept : row[st] # None => row'[st] # None
  PROVE  /\ LockInv' /\ CallInv' /\ RowFound' /\ WorkAhead' /\ HeldLocked' /\ HeldOrdered'
  <1>1. /\ \A st \in Streams : lock[st] # s => lock'[st] = lock[st] /\ work'[st] = work[st]
        /\ \A st \in Streams : lock[st] = s => lock'[st] = None /\ work'[st] = None
        /\ \A t \in Sessions : t # s => pc'[t] = pc[t] /\ arg'[t] = arg[t] /\ got'[t] = got[t]
        /\ pc'[s] = "idle" /\ got'[s] = <<>>
    BY DEF Release, IndInv, TypeOK
  <1>2. LockInv'
    BY <1>1 DEF IndInv, LockInv
  <1>3. CallInv'
    BY <1>1 DEF IndInv, CallInv
  <1>4. RowFound'
    BY <1>1, KeptStreams DEF IndInv, RowFound
  <1>5. WorkAhead'
    BY <1>1, KeptStreams DEF IndInv, WorkAhead
  <1>6. HeldLocked'
    BY <1>1, KeptStreams DEF IndInv, HeldLocked
  <1>7. HeldOrdered'
    BY <1>1 DEF IndInv, HeldOrdered
  <1> QED
    BY <1>2, <1>3, <1>4, <1>5, <1>6, <1>7

LEMMA AbortStep ==
  ASSUME IndInv, NEW s \in Sessions, NEW why \in Errors, Abort(s, why)
  PROVE  IndInv'
  <1>1. TypeOK'
    BY AbortType DEF IndInv
  <1>2. /\ LockInv' /\ CallInv' /\ RowFound' /\ WorkAhead' /\ HeldLocked' /\ HeldOrdered'
    BY <1>1, ReleaseStep DEF Abort
  <1>3. StateCoversIssued'
    BY DEF Abort, IndInv, StateCoversIssued
  <1> QED
    BY <1>1, <1>2, <1>3 DEF IndInv

\* What a commit does to the rows of the streams that are kept.
LEMMA CommitRows ==
  ASSUME IndInv, NEW s \in Sessions, Commit(s), NEW st \in Kept
  PROVE  /\ lock[st] = s => row'[st] = work[st] /\ work[st] # None
         /\ lock[st] # s => row'[st] = row[st]
         /\ row[st] # None => row'[st] # None /\ ~Before(row'[st], row[st])
  <1>1. st \in Streams
    BY KeptStreams
  <1>2. row'[st] = IF lock[st] = s THEN work[st] ELSE row[st]
    BY <1>1 DEF Commit, Persisted
  <1>3. lock[st] = s => work[st] # None /\ lock[st] # None
    BY <1>1, SessionsAssumption DEF IndInv, LockInv
  <1>4. row[st] # None => ~Before(row[st], row[st])
    BY <1>1, RowComparable, BeforeOrder DEF IndInv, TypeOK
  <1> QED
    BY <1>2, <1>3, <1>4 DEF IndInv, WorkAhead

LEMMA CommitStep ==
  ASSUME IndInv, NEW s \in Sessions, Commit(s)
  PROVE  IndInv'
  <1>1. TypeOK'
    BY CommitType DEF IndInv
  <1>2. /\ LockInv' /\ CallInv' /\ RowFound' /\ WorkAhead' /\ HeldLocked' /\ HeldOrdered'
    BY <1>1, ReleaseStep, CommitRows DEF Commit
  <1>3. StateCoversIssued'
    <2> SUFFICES ASSUME NEW id \in issued', id.stream \in Kept
                 PROVE  row'[id.stream] # None /\ ~Before(row'[id.stream], id)
      BY DEF StateCoversIssued
    <2> DEFINE st == id.stream
    <2>1. id \in issued \/ id \in IdsOf(got[s])
      BY DEF Commit
    <2>2. CASE id \in issued
      <3>1. row[st] # None /\ ~Before(row[st], id)
        BY <2>2 DEF IndInv, StateCoversIssued
      <3>2. row'[st] # None /\ ~Before(row'[st], row[st])
        BY <3>1, CommitRows
      <3>3. row[st] \in Row /\ row'[st] \in Row /\ id \in Id
        BY <1>1, <2>2, <3>1, <3>2, KeptStreams DEF IndInv, TypeOK
      <3> QED BY <3>1, <3>2, <3>3, RowComparable, BeforeOrder
    <2>3. CASE id \in IdsOf(got[s])
      <3>1. lock[st] = s /\ ~Before(work[st], id)
        BY <2>3 DEF IndInv, HeldLocked, IdsOf
      <3> QED BY <3>1, CommitRows
    <2> QED BY <2>1, <2>2, <2>3
  <1> QED
    BY <1>1, <1>2, <1>3 DEF IndInv

\* A row is inserted by a transaction that did not find it: nobody holds its lock.
LEMMA InsertRowStep ==
  ASSUME IndInv, NEW s \in Sessions, InsertRow(s), TypeOK', CallInv'
  PROVE  IndInv'
  <1> DEFINE st == arg[s].stream
  <1>1. st \in Streams
    BY DEF InsertRow, IndInv, CallInv
  <1>2. lock[st] = None /\ row[st] = None
    BY <1>1, SessionsAssumption DEF InsertRow, InsertBlocked, View, IndInv, LockInv
  <1>3. /\ lock' = [lock EXCEPT ![st] = s]
        /\ work' = [work EXCEPT ![st] = NewRow]
        /\ pc' = [pc EXCEPT ![s] = "lock"]
        /\ UNCHANGED <<clock, node, row, arg, got, issued, err>>
    BY DEF InsertRow
  <1>4. NewRow # None
    BY RowAssumption DEF NewRow, Row, Point, Seqs
  <1> HIDE DEF st
  <1>5. /\ lock'[st] = s /\ work'[st] = NewRow
        /\ \A x \in Streams : x # st => lock'[x] = lock[x] /\ work'[x] = work[x]
    BY <1>1, <1>3 DEF IndInv, TypeOK
  <1>6. LockInv'
    BY <1>4, <1>5, SessionsAssumption DEF IndInv, LockInv
  <1>7. RowFound'
    <2> SUFFICES ASSUME NEW t \in Sessions, pc'[t] = "lock", arg'[t].stream \in Kept
                 PROVE  row'[arg'[t].stream] # None \/ lock'[arg'[t].stream] = t
      BY DEF RowFound
    <2>1. CASE t = s
      BY <1>3, <1>5, <2>1 DEF st
    <2>2. CASE t # s
      <3>1. pc[t] = "lock"
        BY <1>3, <2>2 DEF IndInv, TypeOK
      <3> QED BY <1>2, <1>3, <1>5, <3>1, KeptStreams, SessionsAssumption DEF IndInv, RowFound
    <2> QED BY <2>1, <2>2
  <1>8. WorkAhead'
    BY <1>2, <1>3, <1>5, KeptStreams DEF IndInv, WorkAhead
  <1>9. HeldLocked'
    <2> SUFFICES ASSUME NEW t \in Sessions, NEW i \in 1..Len(got[t]), got[t][i].stream \in Kept
                 PROVE  /\ lock'[got[t][i].stream] = t
                        /\ ~Before(work'[got[t][i].stream], got[t][i])
                        /\ row[got[t][i].stream] # None => Before(row[got[t][i].stream], got[t][i])
      BY <1>3 DEF HeldLocked
    <2>1. /\ lock[got[t][i].stream] = t
          /\ ~Before(work[got[t][i].stream], got[t][i])
          /\ row[got[t][i].stream] # None => Before(row[got[t][i].stream], got[t][i])
      BY DEF IndInv, HeldLocked
    <2>2. got[t][i].stream # st
      BY <1>2, <2>1, SessionsAssumption
    <2> QED BY <1>5, <2>1, <2>2, KeptStreams
  <1>10. HeldOrdered'
    BY <1>3 DEF IndInv, HeldOrdered
  <1>11. StateCoversIssued'
    BY <1>3 DEF IndInv, StateCoversIssued
  <1> QED
    BY <1>6, <1>7, <1>8, <1>9, <1>10, <1>11 DEF IndInv

-----------------------------------------------------------------------------
(* A call that returns identifiers. *)

\* The step of a call on a kept stream, in the terms the proofs below need.
LEMMA GenerateKept ==
  ASSUME IndInv, NEW s \in Sessions, Generate(s), arg[s].stream \in Kept,
         NEW st, st = arg[s].stream, NEW r, r = View(s, st),
         NEW n, n = arg[s].count, NEW b, b = Batch(st, r, clock, n),
         NEW p, p = LastPoint(r, clock, n)
  PROVE  /\ st \in Streams /\ n \in Nat \ {0}
         /\ lock[st] \in {None, s}
         /\ r \in Row
         /\ lock[st] = s => r = work[st]
         /\ row[st] # None => ~Before(r, row[st])
         /\ lock' = [lock EXCEPT ![st] = s]
         /\ work' = [work EXCEPT ![st] = p]
         /\ p \in Row /\ Before(r, p)
         /\ b \in Seq(Id) /\ Len(b) = n
         /\ \A i \in 1..n : b[i].stream = st /\ b[i] \in Id /\ Before(r, b[i]) /\ ~Before(p, b[i])
         /\ \A i, j \in 1..n : i < j => Before(b[i], b[j])
  <1>1. st \in Streams /\ n \in Nat \ {0} /\ clock \in Nat
    BY KeptStreams DEF Generate, IndInv, CallInv, TypeOK
  <1>2. row[st] # None \/ lock[st] = s
    BY DEF Generate, IndInv, RowFound
  <1>3. lock[st] \in {None, s}
    BY <1>2 DEF Generate, LockBlocked
  <1>4. r # None
    BY <1>1, <1>2, <1>3, SessionsAssumption DEF View, IndInv, LockInv
  <1>5. r \in Row
    BY <1>1, <1>4, ViewType DEF IndInv
  <1>6. lock[st] = s => r = work[st]
    BY DEF View
  <1>7. row[st] # None => ~Before(r, row[st])
    <2>1. CASE lock[st] = s
      BY <2>1, <1>6, SessionsAssumption DEF IndInv, WorkAhead
    <2>2. CASE lock[st] # s
      <3>1. r = row[st]
        BY <2>2 DEF View
      <3> QED BY <1>5, <3>1, RowComparable, BeforeOrder
    <2> QED BY <2>1, <2>2
  <1>8. lock' = [lock EXCEPT ![st] = s] /\ work' = [work EXCEPT ![st] = p]
    BY <1>4 DEF Generate, Now
  <1>9. /\ p \in Row /\ Before(r, p)
        /\ \A i \in 1..n : Before(r, b[i]) /\ ~Before(p, b[i])
        /\ \A i, j \in 1..n : i < j => Before(b[i], b[j])
    BY <1>1, <1>5, BatchAllocated
  <1>10. b \in Seq(Id) /\ Len(b) = n /\ \A i \in 1..n : b[i].stream = st /\ b[i] \in Id
    <2>1. r \in Row \cup {None}
      BY <1>5
    <2>2. BatchOf(Batch(st, r, clock, n), st, r, clock, n)
      BY <1>1, <2>1, BatchIsBatch
    <2> QED BY <2>2 DEF BatchOf
  <1> QED
    BY <1>1, <1>3, <1>5, <1>6, <1>7, <1>8, <1>9, <1>10

\* What the session holds after the call, element by element.
LEMMA GenerateGot ==
  ASSUME TypeOK, CallInv, NEW s \in Sessions, Generate(s),
         NEW st, st = arg[s].stream, NEW n, n = arg[s].count,
         NEW b, b = Batch(st, View(s, st), clock, n)
  PROVE  /\ n \in Nat \ {0} /\ Len(got[s]) \in Nat
         /\ Len(got'[s]) = Len(got[s]) + n
         /\ \A i \in 1..Len(got[s]) : got'[s][i] = got[s][i]
         /\ \A i \in Len(got[s]) + 1 .. Len(got[s]) + n : got'[s][i] = b[i - Len(got[s])]
         /\ \A i \in 1..n : b[i].stream = st
         /\ \A t \in Sessions : t # s => got'[t] = got[t]
  <1>1. st \in Streams /\ n \in Nat \ {0} /\ clock \in Nat
    BY DEF Generate, CallInv, TypeOK
  <1>2. View(s, st) \in Row \cup {None}
    BY <1>1, ViewType
  <1>3. b \in Seq(Id) /\ Len(b) = n /\ \A i \in 1..n : b[i].stream = st
    BY <1>1, <1>2, BatchElements
  <1>4. got' = [got EXCEPT ![s] = got[s] \o b]
    BY DEF Generate, Now
  <1>5. got'[s] = got[s] \o b /\ \A t \in Sessions : t # s => got'[t] = got[t]
    BY <1>4 DEF TypeOK
  <1>6. got[s] \in Seq(Id)
    BY DEF TypeOK
  <1>7. /\ Len(got[s]) \in Nat
        /\ Len(got[s] \o b) = Len(got[s]) + n
        /\ \A i \in 1..Len(got[s]) : (got[s] \o b)[i] = got[s][i]
        /\ \A i \in Len(got[s]) + 1 .. Len(got[s]) + n : (got[s] \o b)[i] = b[i - Len(got[s])]
    <2> DEFINE a == got[s]
    <2>1. a \in Seq(Id) /\ b \in Seq(Id) /\ Len(b) = n
      BY <1>3, <1>6
    <2> HIDE DEF a
    <2>2. /\ Len(a) \in Nat
          /\ Len(a \o b) = Len(a) + Len(b)
          /\ \A i \in 1..Len(a) : (a \o b)[i] = a[i]
          /\ \A i \in Len(a) + 1 .. Len(a) + Len(b) : (a \o b)[i] = b[i - Len(a)]
      BY ONLY <2>1, ConcatElements, Zenon
    <2> QED BY <2>1, <2>2 DEF a
  <1> QED
    BY <1>1, <1>3, <1>5, <1>7, Zenon

\* An identifier a session holds after the call it held before, or it is of the batch.
LEMMA GenerateSplit ==
  ASSUME TypeOK, CallInv, NEW s \in Sessions, Generate(s),
         NEW st, st = arg[s].stream, NEW n, n = arg[s].count,
         NEW b, b = Batch(st, View(s, st), clock, n)
  PROVE  \A i \in 1..Len(got'[s]) :
           \/ i \in 1..Len(got[s]) /\ got'[s][i] = got[s][i]
           \/ i - Len(got[s]) \in 1..n /\ got'[s][i] = b[i - Len(got[s])] /\ got'[s][i].stream = st
  <1> DEFINE old == got[s]
             new == got'[s]
  <1>1. /\ n \in Nat \ {0} /\ Len(old) \in Nat
        /\ Len(new) = Len(old) + n
        /\ \A k \in 1..Len(old) : new[k] = old[k]
        /\ \A k \in Len(old) + 1 .. Len(old) + n : new[k] = b[k - Len(old)]
        /\ \A k \in 1..n : b[k].stream = st
    BY GenerateGot
  <1> HIDE DEF old, new
  <1>2. ASSUME NEW i \in 1..Len(new)
        PROVE  \/ i \in 1..Len(old) /\ new[i] = old[i]
               \/ i - Len(old) \in 1..n /\ new[i] = b[i - Len(old)] /\ new[i].stream = st
    <2>1. CASE i <= Len(old)
      BY <1>1, <2>1
    <2>2. CASE i > Len(old)
      <3>1. i - Len(old) \in 1..n /\ i \in Len(old) + 1 .. Len(old) + n
        BY <1>1, <2>2
      <3> QED BY <1>1, <3>1, SMTT(30)
    <2> QED BY <1>1, <2>1, <2>2
  <1> QED
    BY <1>2 DEF old, new

\* A call on a stream that is kept: the lock is s's, and the batch is above everything.
LEMMA GenerateKeptHeld ==
  ASSUME IndInv, NEW s \in Sessions, Generate(s), arg[s].stream \in Kept
  PROVE  HeldLocked' /\ HeldOrdered' /\ WorkAhead' /\ LockInv' /\ RowFound'
  <1> DEFINE st == arg[s].stream
             r == View(s, st)
             n == arg[s].count
             b == Batch(st, r, clock, n)
             p == LastPoint(r, clock, n)
  <1>1. /\ st \in Streams /\ n \in Nat \ {0}
        /\ lock[st] \in {None, s}
        /\ r \in Row
        /\ lock[st] = s => r = work[st]
        /\ row[st] # None => ~Before(r, row[st])
        /\ lock' = [lock EXCEPT ![st] = s]
        /\ work' = [work EXCEPT ![st] = p]
        /\ p \in Row /\ Before(r, p)
        /\ b \in Seq(Id) /\ Len(b) = n
        /\ \A i \in 1..n : b[i].stream = st /\ b[i] \in Id /\ Before(r, b[i]) /\ ~Before(p, b[i])
        /\ \A i, j \in 1..n : i < j => Before(b[i], b[j])
    BY GenerateKept
  <1>2. \A i \in 1..Len(got'[s]) :
          \/ i \in 1..Len(got[s]) /\ got'[s][i] = got[s][i]
          \/ i - Len(got[s]) \in 1..n /\ got'[s][i] = b[i - Len(got[s])] /\ got'[s][i].stream = st
    BY GenerateSplit DEF IndInv
  <1>3. \A t \in Sessions : t # s => got'[t] = got[t]
    BY GenerateGot DEF IndInv
  <1>4. row' = row /\ pc' = [pc EXCEPT ![s] = "txn"] /\ arg' = [arg EXCEPT ![s] = NoCall]
    BY DEF Generate
  <1> HIDE DEF st, r, n, b, p
  <1>5. /\ lock'[st] = s /\ work'[st] = p
        /\ \A x \in Streams : x # st => lock'[x] = lock[x] /\ work'[x] = work[x]
    BY <1>1 DEF IndInv, TypeOK
  <1>6. row[st] # None => row[st] \in Row
    BY <1>1 DEF IndInv, TypeOK
  <1>7. LockInv'
    BY <1>1, <1>5, SessionsAssumption, RowAssumption DEF IndInv, LockInv
  <1>8. WorkAhead'
    <2>1. row[st] # None => ~Before(p, row[st])
      BY <1>1, <1>6, RowComparable, BeforeOrder
    <2> QED BY <1>4, <1>5, <2>1, KeptStreams DEF IndInv, WorkAhead
  <1>9. RowFound'
    <2> SUFFICES ASSUME NEW t \in Sessions, pc'[t] = "lock", arg'[t].stream \in Kept
                 PROVE  row'[arg'[t].stream] # None \/ lock'[arg'[t].stream] = t
      BY DEF RowFound
    <2>1. t # s /\ pc[t] = "lock" /\ arg'[t] = arg[t]
      BY <1>4 DEF IndInv, TypeOK
    <2>2. row[arg[t].stream] # None \/ lock[arg[t].stream] = t
      BY <2>1 DEF IndInv, RowFound
    <2> QED BY <1>1, <1>4, <1>5, <2>1, <2>2, KeptStreams, SessionsAssumption
  \* What a session held before the call is, for this stream, s's and not above r.
  <1>10. \A t \in Sessions : \A i \in 1..Len(got[t]) :
           got[t][i].stream \in Kept =>
             /\ lock[got[t][i].stream] = t
             /\ ~Before(work[got[t][i].stream], got[t][i])
             /\ row[got[t][i].stream] # None => Before(row[got[t][i].stream], got[t][i])
             /\ got[t][i].stream = st => t = s /\ ~Before(r, got[t][i])
    BY <1>1, SessionsAssumption DEF IndInv, HeldLocked
  <1>11. \A t \in Sessions : got[t] \in Seq(Id)
    BY DEF IndInv, TypeOK
  <1>12. \A t \in Sessions : \A i \in 1..Len(got[t]) : got[t][i] \in Id
    BY <1>11
  <1>13. HeldLocked'
    <2> SUFFICES ASSUME NEW t \in Sessions, NEW i \in 1..Len(got'[t]),
                        NEW id, id = got'[t][i], id.stream \in Kept
                 PROVE  /\ lock'[id.stream] = t
                        /\ ~Before(work'[id.stream], id)
                        /\ row'[id.stream] # None => Before(row'[id.stream], id)
      BY DEF HeldLocked
    <2>1. CASE i \in 1..Len(got[t]) /\ id = got[t][i] /\ id.stream # st
      BY <1>4, <1>5, <1>10, <2>1, KeptStreams
    <2>2. CASE i \in 1..Len(got[t]) /\ id = got[t][i] /\ id.stream = st
      <3>1. t = s /\ ~Before(r, id) /\ (row[st] # None => Before(row[st], id)) /\ id \in Id
        BY <1>10, <1>12, <2>2
      <3>2. ~Before(p, id)
        BY <1>1, <3>1, RowComparable, BeforeOrder
      <3> QED BY <1>4, <1>5, <2>2, <3>1, <3>2
    <2>3. CASE t = s /\ i - Len(got[s]) \in 1..n /\ id = b[i - Len(got[s])]
      <3>1. id.stream = st /\ id \in Id /\ Before(r, id) /\ ~Before(p, id)
        BY <1>1, <2>3
      <3>2. row[st] # None => Before(row[st], id)
        BY <1>1, <1>6, <3>1, RowComparable, BeforeOrder
      <3> QED BY <1>4, <1>5, <2>3, <3>1, <3>2
    <2> QED BY <1>2, <1>3, <2>1, <2>2, <2>3
  <1>14. HeldOrdered'
    <2> SUFFICES ASSUME NEW t \in Sessions, NEW i \in 1..Len(got'[t]), NEW j \in 1..Len(got'[t]),
                        i < j, got'[t][i].stream \in Kept,
                        got'[t][j].stream = got'[t][i].stream
                 PROVE  Before(got'[t][i], got'[t][j])
      BY DEF HeldOrdered
    <2>1. CASE t # s
      BY <1>3, <2>1 DEF IndInv, HeldOrdered
    <2>2. CASE t = s /\ j \in 1..Len(got[s]) /\ got'[s][j] = got[s][j]
      <3>1. i \in 1..Len(got[s])
        BY <1>11, <2>2
      <3>2. i - Len(got[s]) \notin 1..n
        BY <1>11, <3>1, <2>2
      <3>3. got'[s][i] = got[s][i]
        BY <1>2, <2>2, <3>2
      <3> QED BY <2>2, <3>1, <3>3 DEF IndInv, HeldOrdered
    <2>3. CASE t = s /\ j - Len(got[s]) \in 1..n /\ got'[s][j] = b[j - Len(got[s])]
      <3>1. got'[s][j].stream = st /\ got'[s][j] \in Id /\ Before(r, got'[s][j])
        BY <1>1, <2>3
      <3>2. CASE i \in 1..Len(got[s]) /\ got'[s][i] = got[s][i]
        <4>1. got'[s][i] \in Id /\ ~Before(r, got'[s][i])
          BY <1>10, <1>12, <2>3, <3>1, <3>2
        <4> QED BY <1>1, <2>3, <3>1, <4>1, RowComparable, BeforeOrder
      <3>3. CASE i - Len(got[s]) \in 1..n /\ got'[s][i] = b[i - Len(got[s])]
        <4>1. Len(got[s]) \in Nat /\ i - Len(got[s]) < j - Len(got[s])
          BY <1>11, <2>3
        <4> QED BY <1>1, <2>3, <3>3, <4>1
      <3> QED BY <1>2, <2>3, <3>2, <3>3
    <2> QED BY <1>2, <2>1, <2>2, <2>3
  <1> QED
    BY <1>7, <1>8, <1>9, <1>13, <1>14

\* A call on a stream that is not kept does not touch the kept ones.
LEMMA GenerateOtherHeld ==
  ASSUME IndInv, NEW s \in Sessions, Generate(s), arg[s].stream \notin Kept
  PROVE  HeldLocked' /\ HeldOrdered' /\ WorkAhead' /\ LockInv' /\ RowFound'
  <1> DEFINE st == arg[s].stream
             n == arg[s].count
             b == Batch(st, View(s, st), clock, n)
             p == LastPoint(View(s, st), clock, n)
  <1>1. st \in Streams /\ st \notin Kept
    BY DEF Generate, IndInv, CallInv
  <1>2. \A i \in 1..Len(got'[s]) :
          \/ i \in 1..Len(got[s]) /\ got'[s][i] = got[s][i]
          \/ i - Len(got[s]) \in 1..n /\ got'[s][i] = b[i - Len(got[s])] /\ got'[s][i].stream = st
    BY GenerateSplit DEF IndInv
  <1>12. \A t \in Sessions : t # s => got'[t] = got[t]
    BY GenerateGot DEF IndInv
  <1>3. /\ row' = row /\ pc' = [pc EXCEPT ![s] = "txn"] /\ arg' = [arg EXCEPT ![s] = NoCall]
        /\ \/ lock' = lock /\ work' = work
           \/ lock' = [lock EXCEPT ![st] = s] /\ work' = [work EXCEPT ![st] = p]
    BY DEF Generate, Now
  <1>4. p \in Row
    <2>1. n - 1 \in Nat /\ clock \in Nat /\ View(s, st) \in Row \cup {None}
      BY <1>1, ViewType DEF Generate, IndInv, CallInv, TypeOK
    <2> QED BY <2>1, PosType DEF LastPoint, Row
  <1> HIDE DEF st, n, b, p
  <1>5. /\ \A x \in Streams : x # st => lock'[x] = lock[x] /\ work'[x] = work[x]
        /\ lock'[st] = None <=> work'[st] = None
    BY <1>1, <1>3, <1>4, SessionsAssumption, RowAssumption DEF IndInv, TypeOK, LockInv
  <1>6. LockInv'
    BY <1>5 DEF IndInv, LockInv
  <1>7. WorkAhead'
    BY <1>1, <1>3, <1>5, KeptStreams DEF IndInv, WorkAhead
  <1>8. RowFound'
    <2> SUFFICES ASSUME NEW t \in Sessions, pc'[t] = "lock", arg'[t].stream \in Kept
                 PROVE  row'[arg'[t].stream] # None \/ lock'[arg'[t].stream] = t
      BY DEF RowFound
    <2>1. t # s /\ pc[t] = "lock" /\ arg'[t] = arg[t]
      BY <1>3 DEF IndInv, TypeOK
    <2> QED BY <1>1, <1>3, <1>5, <2>1, KeptStreams DEF IndInv, RowFound
  <1>9. \A t \in Sessions : \A i \in 1..Len(got'[t]) :
          got'[t][i].stream \in Kept => i \in 1..Len(got[t]) /\ got'[t][i] = got[t][i]
    BY <1>1, <1>2, <1>12
  <1>10. HeldLocked'
    BY <1>1, <1>3, <1>5, <1>9, KeptStreams DEF IndInv, HeldLocked
  <1>11. HeldOrdered'
    BY <1>9 DEF IndInv, HeldOrdered
  <1> QED
    BY <1>6, <1>7, <1>8, <1>10, <1>11

LEMMA GenerateStep ==
  ASSUME IndInv, NEW s \in Sessions, Generate(s)
  PROVE  IndInv'
  <1>1. TypeOK' /\ CallInv'
    BY GenerateType DEF IndInv
  <1>2. HeldLocked' /\ HeldOrdered' /\ WorkAhead' /\ LockInv' /\ RowFound'
    BY GenerateKeptHeld, GenerateOtherHeld
  <1>3. StateCoversIssued'
    BY DEF Generate, IndInv, StateCoversIssued
  <1> QED
    BY <1>1, <1>2, <1>3 DEF IndInv

-----------------------------------------------------------------------------
\* Every step of the system preserves the inductive invariant.
LEMMA IndStep == IndInv /\ [Next]_vars => IndInv'
  <1> SUFFICES ASSUME IndInv, [Next]_vars
               PROVE  IndInv'
    OBVIOUS
  <1>0. TypeOK' /\ CallInv'
    BY TypeStep DEF IndInv
  <1>1. ASSUME NEW s \in Sessions, RejectCall(s) PROVE IndInv'
    <2> PICK st \in Streams, n \in Counts : CallError(st, n) # "ok" /\ Abort(s, CallError(st, n))
      BY <1>1 DEF RejectCall
    <2>1. CallError(st, n) \in Errors
      BY InputAssumption DEF CallError, Errors
    <2> QED BY <2>1, AbortStep
  <1>2. ASSUME NEW s \in Sessions, Call(s) PROVE IndInv'
    <2>1. RowFound'
      BY <1>2 DEF Call, IndInv, TypeOK, RowFound
    <2> QED BY <1>0, <1>2, <2>1, QuietStep DEF Call
  <1>3. ASSUME NEW s \in Sessions, RowExists(s) PROVE IndInv'
    <2>1. RowFound'
      BY <1>3 DEF RowExists, View, IndInv, TypeOK, RowFound
    <2> QED BY <1>0, <1>3, <2>1, QuietStep DEF RowExists
  <1>4. ASSUME NEW s \in Sessions, InsertRow(s) PROVE IndInv'
    BY <1>0, <1>4, InsertRowStep
  <1>5. ASSUME NEW s \in Sessions, InsertFails(s) PROVE IndInv'
    BY <1>5, AbortStep DEF InsertFails, Errors
  <1>6. ASSUME NEW s \in Sessions, Generate(s) PROVE IndInv'
    BY <1>6, GenerateStep
  <1>7. ASSUME NEW s \in Sessions, GenerateFails(s) PROVE IndInv'
    <2> DEFINE why == Outcome(s, arg[s].stream, arg[s].count, arg[s].span)
    <2>1. why \in Errors
      BY <1>7, OutcomeType DEF GenerateFails, IndInv, CallInv
    <2>2. Abort(s, why)
      BY <1>7 DEF GenerateFails
    <2> QED BY <2>1, <2>2, AbortStep
  <1>8. ASSUME NEW s \in Sessions, Commit(s) PROVE IndInv'
    BY <1>8, CommitStep
  <1>9. ASSUME NEW s \in Sessions, Rollback(s) PROVE IndInv'
    BY <1>9, AbortStep DEF Rollback, Errors
  <1>10. ASSUME NEW s \in Sessions, DeadlockVictim(s) PROVE IndInv'
    BY <1>10, AbortStep DEF DeadlockVictim, Errors
  <1>11. CASE UNCHANGED <<row, lock, work, pc, arg, got, issued>>
    <2>1. RowFound'
      BY <1>11 DEF IndInv, RowFound
    <2> QED BY <1>0, <1>11, <2>1, QuietStep
  <1>12. CASE Tick \/ StepBack \/ UNCHANGED vars
    BY <1>11, <1>12 DEF Tick, StepBack, vars
  <1>13. ASSUME NEW n \in Nodes, Deactivate(n) \/ Activate(n) \/ Register(n) PROVE IndInv'
    BY <1>11, <1>13 DEF Deactivate, Activate, Register
  <1>14. ASSUME NEW n \in Nodes, Delete(n) PROVE IndInv'
    <2>1. \A st \in Kept : row'[st] = row[st]
      BY <1>14 DEF Delete, Kept
    <2>2. RowFound'
      BY <1>14, <2>1 DEF Delete, IndInv, RowFound
    <2> QED BY <1>0, <1>14, <2>1, <2>2, QuietStep DEF Delete
  <1> QED
    BY <1>1, <1>2, <1>3, <1>4, <1>5, <1>6, <1>7, <1>8, <1>9, <1>10, <1>12, <1>13, <1>14
       DEF Next, CallStep

\* The inductive invariant holds of every reachable state.
THEOREM Inductive == Spec => []IndInv
  BY InitInd, IndStep, PTL DEF Spec

\* The committed state row covers every committed identifier, with any number of sessions
\* and streams and a clock that may jump back by any amount.
THEOREM Coverage == Spec => []StateCoversIssued
  <1>1. IndInv => StateCoversIssued
    BY DEF IndInv
  <1> QED
    BY <1>1, Inductive, PTL

\* No identifier is handed out twice while its state row is kept.
THEOREM Uniqueness == Spec => []UniqueIds
  <1>1. IndInv => UniqueIds
    <2> SUFFICES ASSUME IndInv, NEW s \in Sessions
                 PROVE  /\ \A i, j \in 1..Len(got[s]) :
                             i # j /\ got[s][i].stream \in Kept => got[s][i] # got[s][j]
                        /\ Held(s) \cap issued = {}
                        /\ \A t \in Sessions \ {s} : Held(s) \cap Held(t) = {}
      BY DEF UniqueIds
    <2>1. \A t \in Sessions : got[t] \in Seq(Id)
      BY DEF IndInv, TypeOK
    <2>2. \A t \in Sessions : \A i \in 1..Len(got[t]) : got[t][i] \in Id
      BY <2>1
    <2>3. ASSUME NEW i \in 1..Len(got[s]), NEW j \in 1..Len(got[s]), i < j,
                 got[s][i].stream \in Kept
          PROVE  got[s][i] # got[s][j]
      <3>1. got[s][j].stream = got[s][i].stream => Before(got[s][i], got[s][j])
        BY <2>3 DEF IndInv, HeldOrdered
      <3> QED BY <2>2, <3>1, RowComparable, BeforeOrder
    <2>4. \A i, j \in 1..Len(got[s]) :
            i # j /\ got[s][i].stream \in Kept => got[s][i] # got[s][j]
      <3> SUFFICES ASSUME NEW i \in 1..Len(got[s]), NEW j \in 1..Len(got[s]), i # j,
                          got[s][i].stream \in Kept, got[s][i] = got[s][j]
                   PROVE  FALSE
        OBVIOUS
      <3>1. i < j \/ j < i
        OBVIOUS
      <3> QED BY <2>3, <3>1
    <2>5. ASSUME NEW t \in Sessions, NEW id \in Held(t)
          PROVE  /\ id \in Id /\ id.stream \in Kept
                 /\ lock[id.stream] = t
                 /\ row[id.stream] # None => Before(row[id.stream], id)
      BY <2>2, <2>5 DEF Held, IdsOf, IndInv, HeldLocked
    <2>6. Held(s) \cap issued = {}
      <3> SUFFICES ASSUME NEW id \in Held(s), id \in issued
                   PROVE  FALSE
        OBVIOUS
      <3>1. row[id.stream] # None /\ ~Before(row[id.stream], id)
        BY <2>5 DEF IndInv, StateCoversIssued
      <3> QED BY <2>5, <3>1
    <2>7. \A t \in Sessions \ {s} : Held(s) \cap Held(t) = {}
      BY <2>5
    <2> QED BY <2>4, <2>6, <2>7
  <1> QED
    BY <1>1, Inductive, PTL

\* No step takes a committed state row back.
THEOREM NeverRegresses == Spec => RowNeverRegresses
  <1>1. IndInv /\ [Next]_vars =>
          [\A st \in Kept : row[st] # None => row'[st] # None /\ ~Before(row'[st], row[st])]_vars
    <2> SUFFICES ASSUME IndInv, Next, NEW st \in Kept, row[st] # None
                 PROVE  row'[st] # None /\ ~Before(row'[st], row[st])
      OBVIOUS
    <2>1. ASSUME NEW s \in Sessions, Commit(s)
          PROVE  row'[st] # None /\ ~Before(row'[st], row[st])
      BY <2>1, CommitRows
    <2>2. ~Before(row[st], row[st])
      BY KeptStreams, RowComparable, BeforeOrder DEF IndInv, TypeOK
    <2>3. (\E s \in Sessions : Commit(s)) \/ row'[st] = row[st]
      BY KeptStreams DEF Next, CallStep, RejectCall, Call, RowExists, InsertRow, InsertFails,
         Generate, GenerateFails, Rollback, DeadlockVictim, Abort, Tick, StepBack,
         Deactivate, Activate, Delete, Register, Kept
    <2> QED BY <2>1, <2>2, <2>3
  <1> QED
    BY <1>1, Inductive, PTL DEF Spec, RowNeverRegresses

-----------------------------------------------------------------------------
(* The generator implements IdAllocator. *)

LEMMA InitImplements == Init => Allocator!Init
  BY DEF Init, Allocator!Init

LEMMA AbortImplements ==
  ASSUME IndInv, NEW s \in Sessions, NEW why, Abort(s, why)
  PROVE  Allocator!Next
  BY DEF Abort, Release, Allocator!Next, Allocator!Abort

LEMMA CommitImplements ==
  ASSUME NEW s \in Sessions, Commit(s)
  PROVE  Allocator!Next
  BY DEF Commit, Release, IdsOf, Allocator!Next, Allocator!Commit, Allocator!IdsOf

\* A batch is a reservation: the identifiers of kept streams in it lie above everything
\* committed, no other open transaction holds any of their stream, and they increase.
LEMMA GenerateImplements ==
  ASSUME IndInv, NEW s \in Sessions, Generate(s)
  PROVE  Allocator!Next
  <1> DEFINE st == arg[s].stream
             n == arg[s].count
             b == Batch(st, View(s, st), clock, n)
  <1>1. /\ n \in Nat \ {0} /\ Len(got[s]) \in Nat
        /\ Len(got'[s]) = Len(got[s]) + n
        /\ \A i \in 1..Len(got[s]) : got'[s][i] = got[s][i]
        /\ \A t \in Sessions : t # s => got'[t] = got[t]
    BY GenerateGot DEF IndInv
  <1>2. IndInv'
    BY GenerateStep
  <1>3. issued' = issued
    BY DEF Generate
  <1>4. got'[s] \in Seq(Id)
    BY <1>2 DEF IndInv, TypeOK
  <1> HIDE DEF n, b, st
  <1>5. ASSUME NEW i \in Len(got[s]) + 1 .. Len(got'[s]), got'[s][i].stream \in Kept
        PROVE  LET id == got'[s][i] IN
               /\ id \in Allocator!Id
               /\ \A old \in issued : old.stream = id.stream => Allocator!Before(old, id)
               /\ \A t \in Sessions \ {s} : \A old \in Allocator!IdsOf(got[t]) :
                    old.stream # id.stream
               /\ \A j \in 1..(i - 1) :
                    got'[s][j].stream = id.stream => Allocator!Before(got'[s][j], id)
    <2> DEFINE id == got'[s][i]
    <2>1. i \in 1..Len(got'[s]) /\ id \in Id
      BY <1>1, <1>4, <1>5
    <2>2. /\ lock'[id.stream] = s
          /\ row'[id.stream] # None => Before(row'[id.stream], id)
      BY <1>2, <1>5, <2>1 DEF IndInv, HeldLocked
    <2>3. id \in Allocator!Id
      BY <2>1 DEF Id, Seqs, Allocator!Id
    <2>4. ASSUME NEW old \in issued, old.stream = id.stream
          PROVE  Allocator!Before(old, id)
      <3>1. row'[id.stream] # None /\ ~Before(row'[id.stream], old)
        BY <1>2, <1>3, <1>5, <2>4 DEF IndInv, StateCoversIssued
      <3>2. row'[id.stream] \in Row /\ old \in Id
        BY <1>2, <1>3, <1>5, <3>1, KeptStreams DEF IndInv, TypeOK
      <3>3. Before(old, id)
        BY <2>1, <2>2, <3>1, <3>2, RowComparable, BeforeOrder
      <3> QED BY <3>3 DEF Before, Allocator!Before
    <2>5. ASSUME NEW t \in Sessions \ {s}, NEW old \in Allocator!IdsOf(got[t])
          PROVE  old.stream # id.stream
      <3>1. PICK k \in 1..Len(got[t]) : old = got[t][k]
        BY DEF Allocator!IdsOf
      <3>2. got'[t] = got[t]
        BY <1>1
      <3>3. old.stream \in Kept => lock'[old.stream] = t
        BY <1>2, <3>1, <3>2 DEF IndInv, HeldLocked
      <3> QED BY <1>5, <2>2, <3>3
    <2>6. ASSUME NEW j \in 1..(i - 1), got'[s][j].stream = id.stream
          PROVE  Allocator!Before(got'[s][j], id)
      <3>1. j \in 1..Len(got'[s]) /\ j < i
        BY <1>1, <1>5, <2>1
      <3>2. Before(got'[s][j], id)
        BY <1>2, <1>5, <2>1, <2>6, <3>1 DEF IndInv, HeldOrdered
      <3> QED BY <3>2 DEF Before, Allocator!Before
    <2> QED BY <2>3, <2>4, <2>5, <2>6
  <1>6. Len(got[s]) < Len(got'[s])
    BY <1>1
  <1>7. Allocator!Reserve(s)
    BY <1>1, <1>3, <1>5, <1>6 DEF Allocator!Reserve
  <1> QED
    BY <1>7 DEF Allocator!Next

LEMMA StepImplements == IndInv /\ [Next]_vars => [Allocator!Next]_(Allocator!vars)
  <1> SUFFICES ASSUME IndInv, [Next]_vars
               PROVE  Allocator!Next \/ UNCHANGED <<got, issued>>
    BY DEF Allocator!vars
  <1>1. ASSUME NEW s \in Sessions, Generate(s) PROVE Allocator!Next
    BY <1>1, GenerateImplements
  <1>2. ASSUME NEW s \in Sessions, Commit(s) PROVE Allocator!Next
    BY <1>2, CommitImplements
  <1>3. ASSUME NEW s \in Sessions,
               RejectCall(s) \/ InsertFails(s) \/ GenerateFails(s) \/ Rollback(s) \/ DeadlockVictim(s)
        PROVE  Allocator!Next
    BY <1>3, AbortImplements DEF RejectCall, InsertFails, GenerateFails, Rollback, DeadlockVictim
  <1>4. ASSUME NEW s \in Sessions, Call(s) \/ RowExists(s) \/ InsertRow(s)
        PROVE  UNCHANGED <<got, issued>>
    BY <1>4 DEF Call, RowExists, InsertRow
  <1>5. CASE Tick \/ StepBack \/ UNCHANGED vars
    BY <1>5 DEF Tick, StepBack, vars
  <1>6. ASSUME NEW n \in Nodes, Deactivate(n) \/ Activate(n) \/ Delete(n) \/ Register(n)
        PROVE  UNCHANGED <<got, issued>>
    BY <1>6 DEF Deactivate, Activate, Delete, Register
  <1> QED
    BY <1>1, <1>2, <1>3, <1>4, <1>5, <1>6 DEF Next, CallStep

\* Whatever the clock, the batches and the interleaving of transactions do, the generator
\* behaves as the abstract allocator, which knows neither rows nor locks nor clocks.
THEOREM Refinement == Spec => ImplementsAllocator
  BY InitImplements, StepImplements, Inductive, PTL DEF Spec, ImplementsAllocator, Allocator!Spec
-----------------------------------------------------------------------------
(* Drift under a clock that never steps back. *)

\* Counts holds the arguments of every call that runs.
CountGiven == \A s \in Sessions : pc[s] \in {"insert", "lock"} => arg[s].count \in Counts

\* No batch is larger than n.
Largest(n) == n \in Nat /\ \A m \in Counts : m <= n

\* At time now row r is ahead of the clock by the span of a batch of n at most.
Near(r, n, now) == r # None => r.tick <= now + (SeqCap + n - 1) \div SeqCap

\* Every row has handed out the last sequence of each tick from the clock's to its own.  The
\* one exception is tick 0 where it has no second sequence: a new row starts there.
UsedUp(st, r, ids, now) ==
  r # None =>
    \A t \in Nat : now <= t /\ t < r.tick /\ (t > 0 \/ SeqCap > 1) =>
      \E id \in ids : id.stream = st /\ id.tick = t /\ id.seq = SeqCap - 1

\* A row that is not new holds the point of an identifier handed out.
PointIssued(st, r, ids) ==
  r # None /\ r # NewRow =>
    \E id \in ids : id.stream = st /\ id.tick = r.tick /\ id.seq = r.seq

Accounted(st, r, ids, now) == UsedUp(st, r, ids, now) /\ PointIssued(st, r, ids)

\* What the open transaction of s sees as handed out.
Known(s) == issued \cup IdsOf(got[s])

DriftInv ==
  /\ CountGiven
  /\ \A st \in Streams, n \in Nat : Largest(n) => Near(row[st], n, clock) /\ Near(work[st], n, clock)
  /\ \A st \in Streams : Accounted(st, row[st], issued, clock)
  /\ \A st \in Streams, s \in Sessions :
       lock[st] = s => Accounted(st, work[st], Known(s), clock)

LEMMA InitDrift == Init => DriftInv
  BY SessionsAssumption DEF Init, DriftInv, CountGiven, Near, Accounted, UsedUp, PointIssued

\* More identifiers and a later clock only weaken what is said of a row.
LEMMA DriftWeaker ==
  ASSUME NEW st, NEW r \in Row \cup {None}, NEW old, NEW new, old \subseteq new,
         NEW now \in Nat, NEW later \in Nat, now <= later
  PROVE  /\ Accounted(st, r, old, now) => Accounted(st, r, new, later)
         /\ \A n \in Nat : Near(r, n, now) => Near(r, n, later)
  <1>1. ASSUME NEW n \in Nat, Near(r, n, now)
        PROVE  Near(r, n, later)
    <2> DEFINE span == (SeqCap + n - 1) \div SeqCap
    <2>1. span \in Nat
      <3>1. SeqCap + n - 1 \in Nat
        OBVIOUS
      <3> QED BY <3>1, DivModLemma
    <2>2. r # None => r.tick \in Nat
      BY DEF Row, Point
    <2>3. r # None => r.tick <= now + span
      BY <1>1 DEF Near
    <2> HIDE DEF span
    <2>4. r # None => r.tick <= later + span
      BY <2>1, <2>2, <2>3
    <2> QED BY <2>4 DEF Near, span
  <1>2. ASSUME Accounted(st, r, old, now)
        PROVE  Accounted(st, r, new, later)
    <2>1. UsedUp(st, r, new, later)
      BY <1>2 DEF Accounted, UsedUp, Row, Point
    <2>2. PointIssued(st, r, new)
      BY <1>2 DEF Accounted, PointIssued
    <2> QED BY <2>1, <2>2 DEF Accounted
  <1> QED
    BY <1>1, <1>2

\* A batch that starts at the clock's tick from a row not ahead of it.
LEMMA BatchNear ==
  ASSUME NEW r \in Row, NEW now \in Nat, ~RolledBack(r, now), NEW c \in Nat \ {0},
         NEW n \in Nat, c <= n
  PROVE  Near(LastPoint(r, now, c), n, now)
  <1> DEFINE q == NextSeq(r, now)
  <1>1. CurrentTick(r, now) = now
    BY DEF CurrentTick, RolledBack
  <1>2. q \in Nat /\ q <= SeqCap
    BY DEF NextSeq, Row, Point, Seqs
  <1>3. LastPoint(r, now, c).tick = now + (q + (c - 1)) \div SeqCap
    BY <1>1 DEF LastPoint, Pos, PointAt
  <1> HIDE DEF q
  <1>4. q + (c - 1) \in Nat /\ SeqCap + n - 1 \in Nat /\ q + (c - 1) <= SeqCap + n - 1
    BY <1>2
  <1>5. (q + (c - 1)) \div SeqCap <= (SeqCap + n - 1) \div SeqCap
    <2> DEFINE a == q + (c - 1)
               b == SeqCap + n - 1
    <2> HIDE DEF a, b
    <2>1. a \in Nat /\ b \in Nat /\ a <= b
      BY <1>4 DEF a, b
    <2>2. a \div SeqCap \in Nat /\ b \div SeqCap \in Nat
      BY <2>1, DivModLemma
    <2>3. a < b => a \div SeqCap <= b \div SeqCap
      BY <2>1, <2>2, DivMonotone
    <2>4. a \div SeqCap <= b \div SeqCap
      <3>1. CASE a < b
        BY <2>3, <3>1
      <3>2. CASE a = b
        BY <2>2, <3>2
      <3> QED BY <2>1, <3>1, <3>2
    <2> QED BY <2>4 DEF a, b
  <1>6. /\ (q + (c - 1)) \div SeqCap \in Nat
        /\ (SeqCap + n - 1) \div SeqCap \in Nat
    BY <1>4, DivModLemma
  <1>7. now + (q + (c - 1)) \div SeqCap <= now + (SeqCap + n - 1) \div SeqCap
    BY <1>5, <1>6
  <1> QED
    BY <1>3, <1>7 DEF Near

\* The point of a batch at the last sequence of a tick it runs past.
LEMMA TickUsedUp ==
  ASSUME NEW now \in Nat, NEW q \in Nat, q <= SeqCap, NEW c \in Nat \ {0}, NEW t \in Nat,
         now <= t, t < now + (q + (c - 1)) \div SeqCap,
         ~(q = SeqCap /\ t = now)
  PROVE  \E i \in 0..(c - 1) : PointAt(now, q, i) = [tick |-> t, seq |-> SeqCap - 1]
  <1> DEFINE d == t - now
             k == SeqCap * d + (SeqCap - 1)
             i == k - q
             a == q + (c - 1)
  <1>1. d \in Nat /\ SeqCap - 1 \in Seqs /\ a \in Nat
    BY DEF Seqs
  <1>2. SeqCap * d \in Nat /\ (d > 0 => SeqCap * d >= SeqCap)
    BY <1>1, SMTT(30)
  <1>3. k \in Nat /\ k \div SeqCap = d /\ k % SeqCap = SeqCap - 1
    <2>1. k \in Nat
      BY <1>1, <1>2
    <2> QED BY <1>1, <2>1, DivModUnique
  <1>4. i \in Nat
    BY <1>1, <1>2
  <1>5. i <= c - 1
    <2> SUFFICES ASSUME a < k
                 PROVE  FALSE
      BY <1>1, <1>3
    <2> HIDE DEF a, k
    <2>1. a \div SeqCap <= k \div SeqCap
      <3>1. a \div SeqCap \in Nat /\ k \div SeqCap \in Nat
        BY <1>1, <1>3, DivModLemma
      <3> QED BY <1>1, <1>3, <3>1, DivMonotone
    <2>2. d < a \div SeqCap
      <3>1. a \div SeqCap \in Nat
        BY <1>1, DivModLemma
      <3> QED BY <3>1 DEF a
    <2>3. a \div SeqCap \in Nat
      BY <1>1, DivModLemma
    <2> HIDE DEF d
    <2> QED BY <1>1, <1>3, <2>1, <2>2, <2>3
  <1>6. PointAt(now, q, i) = [tick |-> t, seq |-> SeqCap - 1]
    <2>1. q + i = k
      BY <1>3
    <2>2. now + d = t
      OBVIOUS
    <2> HIDE DEF i, k, d
    <2> QED BY <1>3, <2>1, <2>2 DEF PointAt
  <1> QED
    BY <1>4, <1>5, <1>6

\* A batch from a row that is accounted for leaves a row that is.
LEMMA BatchAccounted ==
  ASSUME NEW st \in Streams, NEW r \in Row, NEW now \in Nat, ~RolledBack(r, now),
         NEW c \in Nat \ {0}, NEW old, NEW new, old \subseteq new,
         Accounted(st, r, old, now),
         \A i \in 1..c : Batch(st, r, now, c)[i] \in new
  PROVE  Accounted(st, LastPoint(r, now, c), new, now)
  <1> DEFINE q == NextSeq(r, now)
             ending == LastPoint(r, now, c)
             b == Batch(st, r, now, c)
  <1>1. CurrentTick(r, now) = now
    BY DEF CurrentTick, RolledBack
  <1>2. q \in Nat /\ q <= SeqCap /\ (q = SeqCap => r.seq = SeqCap - 1 /\ r.tick = now)
    BY <1>1 DEF NextSeq, Row, Point, Seqs
  <1>3. /\ Len(b) = c
        /\ \A i \in 1..c : /\ b[i].stream = st
                           /\ b[i].tick = Pos(r, now, i - 1).tick
                           /\ b[i].seq = Pos(r, now, i - 1).seq
    <2>1. r \in Row \cup {None}
      OBVIOUS
    <2> QED BY <2>1, BatchElements
  <1>4. \A i \in 0..(c - 1) : Pos(r, now, i) = PointAt(now, q, i)
    BY <1>1 DEF Pos
  <1> HIDE DEF b
  <1>5. \A i \in 1..c : b[i] \in new
    BY DEF b
  <1>6. ASSUME NEW t \in Nat, now <= t, t < ending.tick, t > 0 \/ SeqCap > 1
        PROVE  \E id \in new : id.stream = st /\ id.tick = t /\ id.seq = SeqCap - 1
    <2>1. CASE q = SeqCap /\ t = now
      <3>1. r # NewRow
        BY <1>2, <1>6, <2>1 DEF NewRow
      <3>2. r # None
        BY RowAssumption
      <3>3. \E id \in old : id.stream = st /\ id.tick = r.tick /\ id.seq = r.seq
        BY <3>1, <3>2 DEF Accounted, PointIssued
      <3> QED BY <1>2, <2>1, <3>3
    <2>2. CASE ~(q = SeqCap /\ t = now)
      <3>1. ending.tick = now + (q + (c - 1)) \div SeqCap
        BY <1>4 DEF LastPoint, PointAt
      <3> HIDE DEF q, ending
      <3>2. \E i \in 0..(c - 1) : PointAt(now, q, i) = [tick |-> t, seq |-> SeqCap - 1]
        BY <1>2, <1>6, <2>2, <3>1, TickUsedUp
      <3>3. PICK i \in 0..(c - 1) : PointAt(now, q, i) = [tick |-> t, seq |-> SeqCap - 1]
        BY <3>2
      <3>4. Pos(r, now, i) = [tick |-> t, seq |-> SeqCap - 1]
        BY <1>4, <3>3
      <3>5. i + 1 \in 1..c /\ (i + 1) - 1 = i
        OBVIOUS
      <3>6. b[i + 1].stream = st /\ b[i + 1].tick = t /\ b[i + 1].seq = SeqCap - 1
        BY <1>3, <3>4, <3>5
      <3> QED BY <1>5, <3>5, <3>6
    <2> QED BY <2>1, <2>2
  <1>7. \E id \in new : id.stream = st /\ id.tick = ending.tick /\ id.seq = ending.seq
    <2>1. c \in 1..c /\ b[c] \in new
      BY <1>5
    <2>2. b[c].stream = st /\ b[c].tick = ending.tick /\ b[c].seq = ending.seq
      BY <1>3, <2>1 DEF LastPoint
    <2> QED BY <2>1, <2>2
  <1> QED
    BY <1>6, <1>7 DEF Accounted, UsedUp, PointIssued

\* The end of a transaction leaves the accounts of the others alone.
LEMMA ReleaseDrift ==
  ASSUME TypeOK, TypeOK', LockInv, DriftInv, NEW s \in Sessions, Release(s), clock' = clock,
         issued \subseteq issued',
         \A st \in Streams : row'[st] = row[st] \/ (lock[st] = s /\ row'[st] = work[st]
                                                    /\ Known(s) \subseteq issued')
  PROVE  DriftInv'
  <1>1. /\ \A st \in Streams : lock[st] # s => lock'[st] = lock[st] /\ work'[st] = work[st]
        /\ \A st \in Streams : lock[st] = s => lock'[st] = None /\ work'[st] = None
        /\ \A t \in Sessions : t # s => pc'[t] = pc[t] /\ arg'[t] = arg[t] /\ got'[t] = got[t]
        /\ pc'[s] = "idle"
    BY DEF Release, TypeOK
  <1>2. CountGiven'
    BY <1>1 DEF DriftInv, CountGiven
  <1>3. ASSUME NEW st \in Streams, NEW n \in Nat, Largest(n)
        PROVE  Near(row'[st], n, clock) /\ Near(work'[st], n, clock)
    <2>1. Near(row[st], n, clock) /\ Near(work[st], n, clock)
      BY <1>3 DEF DriftInv
    <2>2. row'[st] \in {row[st], work[st]} /\ work'[st] \in {work[st], None}
      BY <1>1
    <2> QED BY <2>1, <2>2 DEF Near
  <1>4. ASSUME NEW st \in Streams
        PROVE  Accounted(st, row'[st], issued', clock)
    <2>0. row[st] \in Row \cup {None} /\ work[st] \in Row \cup {None} /\ clock \in Nat /\ clock <= clock
      BY DEF TypeOK
    <2>1. CASE row'[st] = row[st]
      <3>1. Accounted(st, row[st], issued, clock)
        BY DEF DriftInv
      <3> QED BY <2>0, <2>1, <3>1, DriftWeaker
    <2>2. CASE lock[st] = s /\ row'[st] = work[st] /\ Known(s) \subseteq issued'
      <3>1. Accounted(st, work[st], Known(s), clock)
        BY <2>2 DEF DriftInv
      <3> QED BY <2>0, <2>2, <3>1, DriftWeaker
    <2> QED BY <2>1, <2>2
  <1>5. ASSUME NEW st \in Streams, NEW t \in Sessions, lock'[st] = t
        PROVE  Accounted(st, work'[st], Known(t)', clock)
    <2>1. t # s /\ lock[st] = t /\ work'[st] = work[st]
      BY <1>1, <1>5, SessionsAssumption
    <2>2. Known(t) \subseteq Known(t)'
      BY <1>1, <2>1 DEF Known
    <2>3. Accounted(st, work[st], Known(t), clock)
      BY <2>1 DEF DriftInv
    <2>4. work[st] \in Row \cup {None} /\ clock \in Nat /\ clock <= clock
      BY DEF TypeOK
    <2>5. Accounted(st, work[st], Known(t)', clock)
      BY <2>2, <2>3, <2>4, DriftWeaker
    <2> QED BY <2>1, <2>5
  <1> QED
    BY <1>2, <1>3, <1>4, <1>5 DEF DriftInv, Largest

\* Steps that change no row, lock or identifier, while the clock does not go back.
LEMMA QuietDrift ==
  ASSUME TypeOK, TypeOK', DriftInv, UNCHANGED <<lock, work, got, issued>>, clock <= clock',
         \A st \in Streams : row'[st] \in {row[st], None},
         CountGiven'
  PROVE  DriftInv'
  <1>0. /\ clock \in Nat /\ clock' \in Nat
        /\ \A st \in Streams : row[st] \in Row \cup {None} /\ work[st] \in Row \cup {None}
    BY DEF TypeOK
  <1>1. ASSUME NEW st \in Streams, NEW n \in Nat, Largest(n)
        PROVE  Near(row'[st], n, clock') /\ Near(work'[st], n, clock')
    <2>1. Near(row[st], n, clock) /\ Near(work[st], n, clock)
      BY <1>1 DEF DriftInv
    <2>2. Near(row[st], n, clock') /\ Near(work[st], n, clock')
      BY <1>0, <2>1, DriftWeaker
    <2>3. Near(None, n, clock')
      BY DEF Near
    <2> QED BY <2>2, <2>3
  <1>2. ASSUME NEW st \in Streams
        PROVE  Accounted(st, row'[st], issued', clock')
    <2>1. Accounted(st, row[st], issued, clock)
      BY DEF DriftInv
    <2>2. Accounted(st, row[st], issued', clock')
      BY <1>0, <2>1, DriftWeaker
    <2>3. Accounted(st, None, issued', clock')
      BY DEF Accounted, UsedUp, PointIssued
    <2> QED BY <2>2, <2>3
  <1>3. ASSUME NEW st \in Streams, NEW s \in Sessions, lock'[st] = s
        PROVE  Accounted(st, work'[st], Known(s)', clock')
    <2>1. Accounted(st, work[st], Known(s), clock)
      BY <1>3 DEF DriftInv
    <2>2. Known(s)' = Known(s)
      BY DEF Known
    <2>3. Accounted(st, work[st], Known(s)', clock')
      BY <1>0, <2>1, <2>2, DriftWeaker
    <2> QED BY <2>3
  <1> QED
    BY <1>1, <1>2, <1>3 DEF DriftInv, Largest

\* A new row stands at tick 0 and accounts for nothing.
LEMMA InsertDrift ==
  ASSUME TypeOK, TypeOK', CallInv, DriftInv, NEW s \in Sessions, InsertRow(s)
  PROVE  DriftInv'
  <1> DEFINE st == arg[s].stream
  <1>1. st \in Streams
    BY DEF InsertRow, CallInv
  <1>2. /\ lock' = [lock EXCEPT ![st] = s]
        /\ work' = [work EXCEPT ![st] = NewRow]
        /\ pc' = [pc EXCEPT ![s] = "lock"]
        /\ pc[s] = "insert"
        /\ UNCHANGED <<clock, node, row, arg, got, issued, err>>
    BY DEF InsertRow
  <1> HIDE DEF st
  <1>3. /\ lock'[st] = s /\ work'[st] = NewRow
        /\ \A x \in Streams : x # st => lock'[x] = lock[x] /\ work'[x] = work[x]
    BY <1>1, <1>2 DEF TypeOK
  <1>4. CountGiven'
    BY <1>2 DEF DriftInv, CountGiven, TypeOK
  <1>5. ASSUME NEW n \in Nat
        PROVE  Near(NewRow, n, clock)
    <2>1. SeqCap + n - 1 \in Nat
      OBVIOUS
    <2>2. (SeqCap + n - 1) \div SeqCap \in Nat
      BY <2>1, DivModLemma
    <2>3. clock \in Nat
      BY DEF TypeOK
    <2> QED BY <2>2, <2>3 DEF Near, NewRow
  <1>6. \A ids : Accounted(st, NewRow, ids, clock)
    BY DEF Accounted, UsedUp, PointIssued, NewRow, TypeOK
  <1>7. ASSUME NEW x \in Streams, NEW n \in Nat, Largest(n)
        PROVE  Near(row'[x], n, clock') /\ Near(work'[x], n, clock')
    <2>1. Near(row[x], n, clock) /\ Near(work[x], n, clock)
      BY <1>7 DEF DriftInv
    <2> QED BY <1>2, <1>3, <1>5, <2>1
  <1>8. ASSUME NEW x \in Streams
        PROVE  Accounted(x, row'[x], issued', clock')
    BY <1>2 DEF DriftInv
  <1>9. ASSUME NEW x \in Streams, NEW t \in Sessions, lock'[x] = t
        PROVE  Accounted(x, work'[x], Known(t)', clock')
    <2>1. Known(t)' = Known(t)
      BY <1>2 DEF Known
    <2>2. CASE x = st
      BY <1>2, <1>3, <1>6, <2>2
    <2>3. CASE x # st
      <3>1. Accounted(x, work[x], Known(t), clock)
        BY <1>3, <1>9, <2>3 DEF DriftInv
      <3> QED BY <1>2, <1>3, <2>1, <2>3, <3>1
    <2> QED BY <2>2, <2>3
  <1> QED
    BY <1>4, <1>7, <1>8, <1>9 DEF DriftInv, Largest

\* A batch is allocated from a row that is not ahead of the clock.
LEMMA GenerateDrift ==
  ASSUME TypeOK, TypeOK', CallInv, LockInv, DriftInv, NEW s \in Sessions, Generate(s)
  PROVE  DriftInv'
  <1> DEFINE st == arg[s].stream
             c == arg[s].count
             r == View(s, st)
             b == Batch(st, r, clock, c)
             p == LastPoint(r, clock, c)
  <1>1. st \in Streams /\ c \in Nat \ {0} /\ c \in Counts /\ clock \in Nat
    BY DEF Generate, CallInv, TypeOK, DriftInv, CountGiven
  <1>2. r \in Row \cup {None}
    BY <1>1, ViewType
  <1>3. /\ UNCHANGED <<clock, node, row, issued, err>>
        /\ pc' = [pc EXCEPT ![s] = "txn"]
        /\ arg' = [arg EXCEPT ![s] = NoCall]
        /\ r = None => UNCHANGED <<lock, work>>
        /\ r # None => /\ lock' = [lock EXCEPT ![st] = s]
                       /\ work' = [work EXCEPT ![st] = p]
    BY DEF Generate, Now
  <1>4. ~RolledBack(r, clock)
    <2>1. Outcome(s, st, c, arg[s].span) = "ok"
      BY DEF Generate
    <2>2. RolledBack(r, clock) => RollbackError(r, clock) # "ok"
      <3> SUFFICES ASSUME RolledBack(r, clock)
                   PROVE  RollbackError(r, clock) # "ok"
        OBVIOUS
      <3>1. r \in Row
        BY <1>2 DEF RolledBack
      <3>2. r.tick - clock \in Int /\ DriftBelow \in Nat /\ HardFrom \in Nat
        BY <1>1, <3>1, ThresholdAssumption DEF Row, Point
      <3> HIDE DEF r
      <3> QED BY <3>2 DEF RollbackError
    <2> HIDE DEF st, c
    <2> QED BY <2>1, <2>2 DEF Outcome, Now, r
  <1>5. /\ Len(got[s]) \in Nat
        /\ Len(got'[s]) = Len(got[s]) + c
        /\ \A i \in 1..Len(got[s]) : got'[s][i] = got[s][i]
        /\ \A i \in Len(got[s]) + 1 .. Len(got[s]) + c : got'[s][i] = b[i - Len(got[s])]
        /\ \A t \in Sessions : t # s => got'[t] = got[t]
    BY GenerateGot
  <1> HIDE DEF st, c, r, b, p
  <1>6. Known(s) \subseteq Known(s)' /\ \A i \in 1..c : b[i] \in Known(s)'
    <2>1. IdsOf(got[s]) \subseteq IdsOf(got'[s])
      <3> SUFFICES ASSUME NEW i \in 1..Len(got[s])
                   PROVE  got[s][i] \in IdsOf(got'[s])
        BY DEF IdsOf
      <3>1. i \in 1..Len(got'[s]) /\ got'[s][i] = got[s][i]
        BY <1>1, <1>5
      <3> QED BY <3>1 DEF IdsOf
    <2>2. ASSUME NEW i \in 1..c
          PROVE  b[i] \in IdsOf(got'[s])
      <3> DEFINE k == Len(got[s]) + i
      <3>1. k \in Len(got[s]) + 1 .. Len(got[s]) + c /\ k - Len(got[s]) = i /\ k \in 1..Len(got'[s])
        BY <1>1, <1>5
      <3>2. got'[s][k] = b[i]
        BY <1>5, <3>1
      <3> HIDE DEF k
      <3> QED BY <3>1, <3>2 DEF IdsOf
    <2> QED BY <1>3, <2>1, <2>2 DEF Known
  <1>7. \A t \in Sessions : Known(t) \subseteq Known(t)'
    BY <1>3, <1>5, <1>6 DEF Known
  <1>8. CountGiven'
    BY <1>3 DEF DriftInv, CountGiven, TypeOK
  <1>9. \A x \in Streams : Accounted(x, row'[x], issued', clock')
    BY <1>3 DEF DriftInv
  <1>10. ASSUME NEW x \in Streams, NEW t \in Sessions, lock[x] = t
         PROVE  Accounted(x, work[x], Known(t)', clock)
    <2>1. Accounted(x, work[x], Known(t), clock)
      BY <1>10 DEF DriftInv
    <2>2. work[x] \in Row \cup {None} /\ clock <= clock
      BY <1>1 DEF TypeOK
    <2> QED BY <1>1, <1>7, <2>1, <2>2, DriftWeaker
  <1>11. CASE r = None
    <2>1. \A x \in Streams, n \in Nat :
            Largest(n) => Near(row'[x], n, clock') /\ Near(work'[x], n, clock')
      BY <1>3, <1>11 DEF DriftInv
    <2>2. \A x \in Streams, t \in Sessions :
            lock'[x] = t => Accounted(x, work'[x], Known(t)', clock')
      BY <1>3, <1>10, <1>11
    <2> QED BY <1>8, <1>9, <2>1, <2>2 DEF DriftInv, Largest
  <1>12. CASE r # None
    <2>1. r \in Row
      BY <1>2, <1>12
    <2>2. lock[st] \in {None, s}
      <3>1. lock[st] \notin {None, s} => r = row[st] /\ row[st] # None
        BY <1>12 DEF View, r
      <3> QED BY <3>1 DEF Generate, LockBlocked, st
    <2>3. Accounted(st, r, Known(s), clock)
      <3>1. CASE lock[st] = s
        <4>1. r = work[st]
          BY <3>1 DEF View, r
        <4> QED BY <1>1, <3>1, <4>1 DEF DriftInv
      <3>2. CASE lock[st] # s
        <4>1. r = row[st]
          BY <3>2 DEF View, r
        <4>2. Accounted(st, row[st], issued, clock)
          BY <1>1 DEF DriftInv
        <4>3. issued \subseteq Known(s) /\ clock <= clock
          BY <1>1 DEF Known
        <4> QED BY <1>1, <1>2, <4>1, <4>2, <4>3, DriftWeaker
      <3> QED BY <3>1, <3>2
    <2>4. Accounted(st, p, Known(s)', clock)
      <3> DEFINE old == Known(s)
                 new == Known(s)'
      <3>1. old \subseteq new /\ \A i \in 1..c : Batch(st, r, clock, c)[i] \in new
        BY <1>6 DEF b
      <3>2. Accounted(st, r, old, clock)
        BY <2>3
      <3> HIDE DEF old, new
      <3>3. Accounted(st, LastPoint(r, clock, c), new, clock)
        BY <1>1, <1>4, <2>1, <3>1, <3>2, BatchAccounted
      <3> QED BY <3>3 DEF p, new
    <2>5. ASSUME NEW n \in Nat, Largest(n)
          PROVE  Near(p, n, clock)
      <3>1. c <= n
        BY <1>1, <2>5 DEF Largest
      <3> QED BY <1>1, <1>4, <2>1, <2>5, <3>1, BatchNear DEF p
    <2>6. /\ lock'[st] = s /\ work'[st] = p
          /\ \A x \in Streams : x # st => lock'[x] = lock[x] /\ work'[x] = work[x]
      BY <1>1, <1>3, <1>12 DEF TypeOK
    <2>7. ASSUME NEW x \in Streams, NEW n \in Nat, Largest(n)
          PROVE  Near(row'[x], n, clock') /\ Near(work'[x], n, clock')
      <3>1. Near(row[x], n, clock) /\ Near(work[x], n, clock)
        BY <2>7 DEF DriftInv
      <3> QED BY <1>3, <2>5, <2>6, <2>7, <3>1
    <2>8. ASSUME NEW x \in Streams, NEW t \in Sessions, lock'[x] = t
          PROVE  Accounted(x, work'[x], Known(t)', clock')
      <3>1. CASE x = st
        <4>1. t = s
          BY <2>6, <2>8, <3>1
        <4> QED BY <1>3, <2>4, <2>6, <3>1, <4>1
      <3>2. CASE x # st
        BY <1>3, <1>10, <2>6, <2>8, <3>2
      <3> QED BY <3>1, <3>2
    <2> QED BY <1>8, <1>9, <2>7, <2>8 DEF DriftInv, Largest
  <1> QED
    BY <1>11, <1>12

LEMMA DriftStep == Backward = {} /\ IndInv /\ IndInv' /\ DriftInv /\ [Next]_vars => DriftInv'
  <1> SUFFICES ASSUME Backward = {}, IndInv, IndInv', DriftInv, [Next]_vars
               PROVE  DriftInv'
    OBVIOUS
  <1>0. TypeOK /\ TypeOK' /\ CallInv /\ LockInv /\ clock \in Nat
    BY DEF IndInv, TypeOK
  <1>1. ASSUME NEW s \in Sessions, NEW why, Abort(s, why) PROVE DriftInv'
    BY <1>0, <1>1, ReleaseDrift DEF Abort
  <1>2. ASSUME NEW s \in Sessions, Commit(s) PROVE DriftInv'
    <2>1. \A st \in Streams : row'[st] = row[st] \/ (lock[st] = s /\ row'[st] = work[st]
                                                     /\ Known(s) \subseteq issued')
      BY <1>2 DEF Commit, Persisted, Known
    <2> QED BY <1>0, <1>2, <2>1, ReleaseDrift DEF Commit
  <1>3. ASSUME NEW s \in Sessions, Call(s) PROVE DriftInv'
    <2>1. CountGiven'
      BY <1>0, <1>3 DEF Call, DriftInv, CountGiven, TypeOK
    <2> QED BY <1>0, <1>3, <2>1, QuietDrift DEF Call
  <1>4. ASSUME NEW s \in Sessions, RowExists(s) PROVE DriftInv'
    <2>1. CountGiven'
      BY <1>0, <1>4 DEF RowExists, DriftInv, CountGiven, TypeOK
    <2> QED BY <1>0, <1>4, <2>1, QuietDrift DEF RowExists
  <1>5. ASSUME NEW s \in Sessions, InsertRow(s) PROVE DriftInv'
    BY <1>0, <1>5, InsertDrift
  <1>6. ASSUME NEW s \in Sessions, Generate(s) PROVE DriftInv'
    BY <1>0, <1>6, GenerateDrift
  <1>7. ASSUME NEW s \in Sessions,
               RejectCall(s) \/ InsertFails(s) \/ GenerateFails(s) \/ Rollback(s) \/ DeadlockVictim(s)
        PROVE  DriftInv'
    BY <1>1, <1>7 DEF RejectCall, InsertFails, GenerateFails, Rollback, DeadlockVictim
  <1>8. CASE Tick \/ UNCHANGED vars
    <2>1. CountGiven'
      BY <1>8 DEF Tick, vars, DriftInv, CountGiven
    <2>2. clock <= clock'
      BY <1>0, <1>8 DEF Tick, vars
    <2> QED BY <1>0, <1>8, <2>1, <2>2, QuietDrift DEF Tick, vars
  <1>9. ~StepBack
    BY DEF StepBack
  <1>10. ASSUME NEW n \in Nodes, Deactivate(n) \/ Activate(n) \/ Delete(n) \/ Register(n)
         PROVE  DriftInv'
    <2>1. CountGiven'
      BY <1>10 DEF Deactivate, Activate, Delete, Register, DriftInv, CountGiven
    <2> QED BY <1>0, <1>10, <2>1, QuietDrift DEF Deactivate, Activate, Delete, Register
  <1> QED
    BY <1>2, <1>3, <1>4, <1>5, <1>6, <1>7, <1>8, <1>9, <1>10 DEF Next, CallStep

LEMMA DriftAlways == ASSUME Backward = {} PROVE Spec => []DriftInv
  BY InitDrift, DriftStep, Inductive, PTL DEF Spec

\* However many sessions and transactions span batches, a row is ahead of a monotone clock by
\* one largest batch at most: drift does not add up.
THEOREM Drift == Spec => []DriftBounded
  <1>1. CASE Backward = {}
    <2>1. DriftInv => DriftBounded
      <3> SUFFICES ASSUME DriftInv, NEW st \in Kept, NEW n \in {0} \cup (Counts \cap Nat),
                          \A m \in Counts : m <= n, NEW r \in {row[st], work[st]} \ {None}
                   PROVE  r.tick <= clock + (SeqCap + n - 1) \div SeqCap
        BY DEF DriftBounded
      <3>1. n \in Nat /\ Largest(n)
        BY DEF Largest
      <3>2. Near(row[st], n, clock) /\ Near(work[st], n, clock)
        BY <3>1, KeptStreams DEF DriftInv
      <3> QED BY <3>2 DEF Near
    <2>2. Spec => []DriftInv
      BY <1>1, DriftAlways
    <2> QED BY <2>1, <2>2, PTL
  <1>2. CASE Backward # {}
    <2>1. DriftBounded
      BY <1>2 DEF DriftBounded
    <2> QED BY <2>1, PTL
  <1> QED
    BY <1>1, <1>2

\* Under a monotone clock a rollback error has its cause: the stream has handed out the last
\* sequence of the current tick or of a later one.
THEOREM RollbackHasCause == Spec => NoFalseRollback
  <1> DEFINE Caused(s) ==
               (err[s] \notin RollbackErrors /\ err'[s] \in RollbackErrors) =>
                 LET st == arg[s].stream IN
                 st \in Kept =>
                   \E id \in issued \cup IdsOf(got[s]) :
                     id.stream = st /\ id.seq = SeqCap - 1 /\ id.tick >= clock
  <1>1. ASSUME IndInv, DriftInv, [Next]_vars, NEW s \in Sessions
        PROVE  Caused(s)
    <2> SUFFICES ASSUME err[s] \notin RollbackErrors, err'[s] \in RollbackErrors
                 PROVE  \E id \in Known(s) : /\ id.stream = arg[s].stream
                                             /\ id.seq = SeqCap - 1
                                             /\ id.tick >= clock
      BY DEF Known
    <2>1. GenerateFails(s) /\ err'[s] = Outcome(s, arg[s].stream, arg[s].count, arg[s].span)
      <3>1. err \in [Sessions -> Errors \cup {"none"}]
        BY <1>1 DEF IndInv, TypeOK
      <3>2. ASSUME NEW t \in Sessions, NEW why, Abort(t, why)
            PROVE  t = s /\ err'[s] = why
        BY <3>1, <3>2 DEF Abort
      <3>3. ASSUME NEW t \in Sessions,
                   RejectCall(t) \/ InsertFails(t) \/ Rollback(t) \/ DeadlockVictim(t)
            PROVE  FALSE
        BY <3>2, <3>3 DEF RejectCall, CallError, InsertFails, Rollback, DeadlockVictim, RollbackErrors
      <3>4. ASSUME NEW t \in Sessions,
                   Call(t) \/ RowExists(t) \/ InsertRow(t) \/ Generate(t) \/ Commit(t)
            PROVE  FALSE
        BY <3>1, <3>4 DEF Call, RowExists, InsertRow, Generate, Commit, RollbackErrors
      <3>5. ASSUME NEW t \in Sessions, GenerateFails(t)
            PROVE  GenerateFails(s) /\ err'[s] = Outcome(s, arg[s].stream, arg[s].count, arg[s].span)
        BY <3>2, <3>5 DEF GenerateFails
      <3>6. ~Tick /\ ~StepBack /\ ~UNCHANGED vars
        BY DEF Tick, StepBack, vars
      <3>7. ASSUME NEW n \in Nodes, Deactivate(n) \/ Activate(n) \/ Delete(n) \/ Register(n)
            PROVE  FALSE
        BY <3>7 DEF Deactivate, Activate, Delete, Register
      <3> QED BY <1>1, <3>3, <3>4, <3>5, <3>6, <3>7 DEF Next, CallStep
    <2> DEFINE st == arg[s].stream
               r == View(s, st)
    <2>2. st \in Streams /\ clock \in Nat /\ r \in Row \cup {None}
      <3>1. st \in Streams /\ clock \in Nat
        BY <1>1, <2>1 DEF GenerateFails, IndInv, CallInv, TypeOK
      <3> QED BY <1>1, <3>1, ViewType DEF IndInv
    <2>3. RolledBack(r, clock)
      BY <2>1 DEF Outcome, Now, RollbackErrors
    <2>4. r \in Row /\ r # None /\ r.tick \in Nat /\ r.tick > clock
      BY <2>2, <2>3 DEF RolledBack, Row, Point
    <2>5. Accounted(st, r, Known(s), clock)
      <3>1. CASE lock[st] = s
        <4>1. r = work[st]
          BY <3>1 DEF View
        <4> QED BY <1>1, <2>2, <3>1, <4>1 DEF DriftInv
      <3>2. CASE lock[st] # s
        <4>1. r = row[st]
          BY <3>2 DEF View
        <4>2. Accounted(st, row[st], issued, clock)
          BY <1>1, <2>2 DEF DriftInv
        <4>3. issued \subseteq Known(s) /\ clock <= clock
          BY <2>2 DEF Known
        <4> QED BY <2>2, <4>1, <4>2, <4>3, DriftWeaker
      <3> QED BY <3>1, <3>2
    <2> HIDE DEF st, r
    <2>6. CASE clock > 0 \/ SeqCap > 1
      <3>1. \E id \in Known(s) : id.stream = st /\ id.tick = clock /\ id.seq = SeqCap - 1
        BY <2>2, <2>4, <2>5, <2>6 DEF Accounted, UsedUp
      <3> QED BY <2>2, <3>1 DEF st
    <2>7. CASE clock = 0 /\ SeqCap = 1
      <3>1. r # NewRow /\ r.seq = SeqCap - 1
        BY <2>4, <2>7 DEF NewRow, Row, Point, Seqs
      <3>2. \E id \in Known(s) : id.stream = st /\ id.tick = r.tick /\ id.seq = r.seq
        BY <2>4, <2>5, <3>1 DEF Accounted, PointIssued
      <3>3. PICK id \in Known(s) : id.stream = st /\ id.tick = r.tick /\ id.seq = r.seq
        BY <3>2
      <3> QED BY <2>2, <2>4, <3>1, <3>3 DEF st
    <2> QED BY <2>2, <2>6, <2>7
  <1>2. CASE Backward = {}
    <2>1. IndInv /\ DriftInv /\ [Next]_vars => [Backward = {} => \A s \in Sessions : Caused(s)]_vars
      BY <1>1
    <2>2. Spec => []DriftInv
      BY <1>2, DriftAlways
    <2> QED BY <2>1, <2>2, Inductive, PTL DEF Spec, NoFalseRollback
  <1>3. CASE Backward # {}
    <2>1. [Next]_vars => [Backward = {} => \A s \in Sessions : Caused(s)]_vars
      BY <1>3
    <2> QED BY <2>1, PTL DEF Spec, NoFalseRollback
  <1> QED
    BY <1>2, <1>3
=============================================================================
