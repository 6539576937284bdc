----------------------------- MODULE Generator -----------------------------
(***************************************************************************)
(* The database-side ID generator: generate_ids and generate_ranjids       *)
(* called by concurrent PostgreSQL sessions under READ COMMITTED.          *)
(*                                                                         *)
(* A stream is one generator state row, a row of heer_node_state or of     *)
(* heer_ranj_node_state; it belongs to a node of heer_nodes.  A call runs  *)
(* in the three steps that other sessions can come between: the checks     *)
(* (Call), INSERT ... ON CONFLICT DO NOTHING of the row (InsertRow) and    *)
(* SELECT ... FOR UPDATE with everything after it (Generate): from the     *)
(* moment the row lock is granted the function only reads the clock,       *)
(* computes, returns rows and updates the locked row, so no session sees   *)
(* it half done.  The lock is held until the transaction ends, and the     *)
(* new row version and the returned identifiers become permanent only on   *)
(* commit.                                                                 *)
(***************************************************************************)
EXTENDS Ids, FiniteSets

CONSTANTS
  Sessions,       \* database connections
  Nodes,          \* rows of heer_nodes there can be
  Streams,        \* generator state rows there can be
  NodeOf,         \* the node of each stream
  DriftBelow,     \* below this rollback: 50021, logical future drift
  HardFrom,       \* from this rollback on: 50022, hard clock rollback
  Guarded,        \* streams whose function refuses ticks above MaxTick (50030)
  MaxTick,        \* the greatest tick of the identifier's layout
  Counts,         \* values of requested_count the callers pass
  Spans,          \* values of allow_spanning the callers pass
  Backward,       \* amounts by which the wall clock may step back
  Deletable,      \* nodes an operator may delete and register again
  MaxClock,       \* bound: the last instant of the wall clock
  MaxHeld,        \* bound: identifiers one transaction may hold
  None            \* no session, no row

\* A generator state row: the point of the last identifier generated from it.
Row == Point

ASSUME SessionsAssumption == None \notin Sessions
ASSUME StreamsAssumption == NodeOf \in [Streams -> Nodes]
ASSUME RowAssumption == None \notin Row
ASSUME ThresholdAssumption == DriftBelow \in Nat /\ HardFrom \in Nat /\ MaxTick \in Nat
ASSUME InputAssumption ==
  /\ Counts \subseteq Int
  /\ Spans \subseteq BOOLEAN
  /\ Backward \subseteq Nat
  /\ MaxClock \in Nat
  /\ MaxHeld \in Nat

VARIABLES
  clock,      \* the database's wall clock, in ticks since the epoch
  node,       \* heer_nodes: each node active, inactive or absent
  row,        \* the committed version of each state row, None if absent
  lock,       \* the session that holds each state row's lock, or None
  work,       \* the lock holder's uncommitted version of the row
  pc,         \* where each session is
  arg,        \* the arguments of the call a session is in
  got,        \* identifiers returned to a session in its open transaction
  issued,     \* identifiers returned in committed transactions
  err         \* how each session's last call ended

vars == <<clock, node, row, lock, work, pc, arg, got, issued, err>>

-----------------------------------------------------------------------------
Id == [stream : Streams, tick : Nat, seq : Seqs]

\* The columns' defaults in schema.sql: a row nobody generated from yet.
NewRow == [tick |-> 0, seq |-> 0]

NoCall == [stream |-> None, count |-> 0, span |-> FALSE, at |-> 0]

RollbackErrors == {"drift", "rollback", "hard"}
Errors == RollbackErrors \cup {"count", "inactive", "foreign_key", "capacity", "overflow",
                               "deadlock", "cancelled"}

-----------------------------------------------------------------------------
(* The function body from the granted row lock on. *)

\* Mutant of View: a transaction does not see its own update of the row.
CommittedView(s, st) == row[st]

\* The row as the locking SELECT of s sees it: its own version, or the committed one.
View(s, st) == IF lock[st] = s THEN work[st] ELSE row[st]

\* Mutant of Now: the clock as it was when the call began, as now() would give it.
NowAtCall(s) == arg[s].at

\* clock_timestamp(), read once the row lock is granted.
Now(s) == clock

\* Mutant of RolledBack: the check tolerates drift and allocation goes on from the row.
NeverRolledBack(r, now) == FALSE

\* The amount by which the row is ahead of the clock; NULL > 0 is not true, so a row
\* that is not there is never ahead.
RolledBack(r, now) == r # None /\ r.tick > now

RollbackError(r, now) ==
  LET behind == r.tick - now IN
  CASE behind < DriftBelow                       -> "drift"
    [] behind >= DriftBelow /\ behind < HardFrom -> "rollback"
    [] behind >= DriftBelow /\ behind >= HardFrom -> "hard"

\* GREATEST(now, last_time), which ignores NULL.
CurrentTick(r, now) == IF r # None /\ r.tick > now THEN r.tick ELSE now

\* Mutant of NextSeq: the sequence restarts although the tick has not moved.
RestartedSeq(r, now) == 0

\* Mutant of NextSeq: the last sequence is used again.
RepeatedSeq(r, now) == IF r # None /\ CurrentTick(r, now) = r.tick THEN r.seq ELSE 0

NextSeq(r, now) == IF r # None /\ CurrentTick(r, now) = r.tick THEN r.seq + 1 ELSE 0

\* The i-th point, from 0, of the batch a call allocates from row r at now.
Pos(r, now, i) == PointAt(CurrentTick(r, now), NextSeq(r, now), i)

Batch(st, r, now, n) ==
  [i \in 1..n |-> LET p == Pos(r, now, i - 1) IN
                  [stream |-> st, tick |-> p.tick, seq |-> p.seq]]

\* Mutant of LastPoint: the state row keeps the first identifier of the batch.
FirstPoint(r, now, n) == Pos(r, now, 0)

\* The row the final UPDATE writes: the last identifier emitted.
LastPoint(r, now, n) == Pos(r, now, n - 1)

\* Why the function raises instead of returning the batch, or "ok".
Outcome(s, st, n, span) ==
  LET r == View(s, st) IN
  CASE RolledBack(r, Now(s)) -> RollbackError(r, Now(s))
    [] ~RolledBack(r, Now(s)) /\ ~span /\ n > SeqCap - NextSeq(r, Now(s)) -> "capacity"
    [] /\ ~RolledBack(r, Now(s))
       /\ span \/ n <= SeqCap - NextSeq(r, Now(s))
       /\ st \in Guarded /\ LastPoint(r, Now(s), n).tick > MaxTick -> "overflow"
    [] OTHER -> "ok"

-----------------------------------------------------------------------------
(* Transactions. *)

\* s's transaction is over: its locks are released and its row versions dropped.
Release(s) ==
  /\ lock' = [st \in Streams |-> IF lock[st] = s THEN None ELSE lock[st]]
  /\ work' = [st \in Streams |-> IF lock[st] = s THEN None ELSE work[st]]
  /\ pc' = [pc EXCEPT ![s] = "idle"]
  /\ arg' = [arg EXCEPT ![s] = NoCall]
  /\ got' = [got EXCEPT ![s] = <<>>]

\* Any error, a ROLLBACK and a lost connection undo the whole transaction.
Abort(s, why) ==
  /\ Release(s)
  /\ err' = [err EXCEPT ![s] = why]
  /\ UNCHANGED <<clock, node, row, issued>>

\* The state rows once s's transaction has committed.
Persisted(s) == [st \in Streams |-> IF lock[st] = s THEN work[st] ELSE row[st]]

Commit(s) ==
  /\ pc[s] = "txn"
  /\ row' = Persisted(s)
  /\ issued' = issued \cup IdsOf(got[s])
  /\ Release(s)
  /\ UNCHANGED <<clock, node, err>>

Rollback(s) ==
  /\ pc[s] # "idle"
  /\ Abort(s, "cancelled")

-----------------------------------------------------------------------------
(* A call: generate_ids(node, count, allow_spanning) and its Ranj twin. *)

\* The checks that come first; neither takes a lock.  The first call of an idle session
\* opens a transaction, a later call runs in the one that is open.
CallError(st, n) ==
  CASE n <= 0 -> "count"
    [] n > 0 /\ node[NodeOf[st]] # "active" -> "inactive"
    [] OTHER -> "ok"

RejectCall(s) ==
  /\ pc[s] \in {"idle", "txn"}
  /\ \E st \in Streams, n \in Counts :
       /\ CallError(st, n) # "ok"
       /\ Abort(s, CallError(st, n))

Call(s) ==
  /\ pc[s] \in {"idle", "txn"}
  /\ \E st \in Streams, n \in Counts, span \in Spans :
       /\ CallError(st, n) = "ok"
       /\ Len(got[s]) + n <= MaxHeld
       /\ arg' = [arg EXCEPT ![s] = [stream |-> st, count |-> n, span |-> span, at |-> clock]]
  /\ pc' = [pc EXCEPT ![s] = "insert"]
  /\ err' = [err EXCEPT ![s] = "none"]
  /\ UNCHANGED <<clock, node, row, lock, work, got, issued>>

\* INSERT ... ON CONFLICT DO NOTHING waits for a transaction that has an uncommitted
\* version of the row.
InsertBlocked(s) == lock[arg[s].stream] \notin {None, s}

\* The row exists: nothing is inserted and nothing locked.
RowExists(s) ==
  /\ pc[s] = "insert"
  /\ ~InsertBlocked(s)
  /\ View(s, arg[s].stream) # None
  /\ pc' = [pc EXCEPT ![s] = "lock"]
  /\ UNCHANGED <<clock, node, row, lock, work, arg, got, issued, err>>

\* The row is new: it is inserted with the column defaults, and s holds its lock.
InsertRow(s) ==
  LET st == arg[s].stream IN
  /\ pc[s] = "insert"
  /\ ~InsertBlocked(s)
  /\ View(s, st) = None
  /\ node[NodeOf[st]] # "absent"
  /\ lock' = [lock EXCEPT ![st] = s]
  /\ work' = [work EXCEPT ![st] = NewRow]
  /\ pc' = [pc EXCEPT ![s] = "lock"]
  /\ UNCHANGED <<clock, node, row, arg, got, issued, err>>

\* The node was deleted after the check: the inserted row's foreign key fails.
InsertFails(s) ==
  /\ pc[s] = "insert"
  /\ ~InsertBlocked(s)
  /\ View(s, arg[s].stream) = None
  /\ node[NodeOf[arg[s].stream]] = "absent"
  /\ Abort(s, "foreign_key")

\* Mutant of LockBlocked: the row is read without FOR UPDATE.
NeverBlocked(s) == FALSE

\* SELECT ... FOR UPDATE waits for the row's lock; a row whose insertion is not yet
\* committed is invisible to it, so it does not wait for that one.
LockBlocked(s) ==
  LET st == arg[s].stream IN lock[st] \notin {None, s} /\ row[st] # None

\* The row is locked and the batch returned; the UPDATE gives the lock holder a new
\* version of the row.
Generate(s) ==
  LET st == arg[s].stream
      r == View(s, st)
  IN
  /\ pc[s] = "lock"
  /\ ~LockBlocked(s)
  /\ Outcome(s, st, arg[s].count, arg[s].span) = "ok"
  /\ got' = [got EXCEPT ![s] = @ \o Batch(st, r, Now(s), arg[s].count)]
  /\ IF r = None
     THEN UNCHANGED <<lock, work>>    \* no row to lock: the UPDATE changes nothing
     ELSE /\ lock' = [lock EXCEPT ![st] = s]
          /\ work' = [work EXCEPT ![st] = LastPoint(r, Now(s), arg[s].count)]
  /\ pc' = [pc EXCEPT ![s] = "txn"]
  /\ arg' = [arg EXCEPT ![s] = NoCall]
  /\ UNCHANGED <<clock, node, row, issued, err>>

GenerateFails(s) ==
  LET why == Outcome(s, arg[s].stream, arg[s].count, arg[s].span) IN
  /\ pc[s] = "lock"
  /\ ~LockBlocked(s)
  /\ why # "ok"
  /\ Abort(s, why)

-----------------------------------------------------------------------------
(* Deadlocks: a transaction keeps the locks of all its calls. *)

Blocked(s) ==
  \/ pc[s] = "insert" /\ InsertBlocked(s)
  \/ pc[s] = "lock" /\ LockBlocked(s)

\* s lies on a cycle of sessions that wait for one another.
OnCycle(s) ==
  \E C \in SUBSET Sessions :
    /\ s \in C
    /\ \A t \in C : Blocked(t)
    /\ {lock[arg[t].stream] : t \in C} = C

\* Mutant of DeadlockVictim: nothing breaks a deadlock.
NoVictim(s) == FALSE /\ UNCHANGED vars

\* PostgreSQL's deadlock detector aborts one of the waiting transactions.
DeadlockVictim(s) ==
  /\ OnCycle(s)
  /\ Abort(s, "deadlock")

-----------------------------------------------------------------------------
(* The environment: the wall clock and the operator of heer_nodes. *)

Tick ==
  /\ clock < MaxClock
  /\ clock' = clock + 1
  /\ UNCHANGED <<node, row, lock, work, pc, arg, got, issued, err>>

StepBack ==
  /\ \E d \in Backward : d <= clock /\ clock' = clock - d
  /\ UNCHANGED <<node, row, lock, work, pc, arg, got, issued, err>>

Deactivate(n) ==
  /\ node[n] = "active"
  /\ node' = [node EXCEPT ![n] = "inactive"]
  /\ UNCHANGED <<clock, row, lock, work, pc, arg, got, issued, err>>

Activate(n) ==
  /\ node[n] = "inactive"
  /\ node' = [node EXCEPT ![n] = "active"]
  /\ UNCHANGED <<clock, row, lock, work, pc, arg, got, issued, err>>

\* DELETE FROM heer_nodes waits for the row locks and cascades to the state rows.
Delete(n) ==
  /\ n \in Deletable
  /\ node[n] # "absent"
  /\ \A st \in Streams : NodeOf[st] = n => lock[st] = None
  /\ node' = [node EXCEPT ![n] = "absent"]
  /\ row' = [st \in Streams |-> IF NodeOf[st] = n THEN None ELSE row[st]]
  /\ UNCHANGED <<clock, lock, work, pc, arg, got, issued, err>>

Register(n) ==
  /\ node[n] = "absent"
  /\ node' = [node EXCEPT ![n] = "active"]
  /\ UNCHANGED <<clock, row, lock, work, pc, arg, got, issued, err>>

-----------------------------------------------------------------------------
\* schema.sql and seed.sql have run; no stream has generated yet.
Init ==
  /\ clock = 0
  /\ node = [n \in Nodes |-> "active"]
  /\ row = [st \in Streams |-> None]
  /\ lock = [st \in Streams |-> None]
  /\ work = [st \in Streams |-> None]
  /\ pc = [s \in Sessions |-> "idle"]
  /\ arg = [s \in Sessions |-> NoCall]
  /\ got = [s \in Sessions |-> <<>>]
  /\ issued = {}
  /\ err = [s \in Sessions |-> "none"]

CallStep(s) ==
  \/ RejectCall(s)
  \/ Call(s)
  \/ RowExists(s)
  \/ InsertRow(s)
  \/ InsertFails(s)
  \/ Generate(s)
  \/ GenerateFails(s)

Next ==
  \/ \E s \in Sessions : CallStep(s) \/ Commit(s) \/ Rollback(s) \/ DeadlockVictim(s)
  \/ Tick
  \/ StepBack
  \/ \E n \in Nodes : Deactivate(n) \/ Activate(n) \/ Delete(n) \/ Register(n)

Spec == Init /\ [][Next]_vars

-----------------------------------------------------------------------------
(* Properties. *)

TypeOK ==
  /\ clock \in Nat
  /\ node \in [Nodes -> {"active", "inactive", "absent"}]
  /\ row \in [Streams -> Row \cup {None}]
  /\ lock \in [Streams -> Sessions \cup {None}]
  /\ work \in [Streams -> Row \cup {None}]
  /\ pc \in [Sessions -> {"idle", "txn", "insert", "lock"}]
  /\ arg \in [Sessions -> [stream : Streams \cup {None}, count : Nat, span : BOOLEAN, at : Nat]]
  /\ got \in [Sessions -> Seq(Id)]
  /\ issued \subseteq Id
  /\ err \in [Sessions -> Errors \cup {"none"}]

\* The streams of nodes that are never deleted: deleting a node drops its state rows and
\* with them all memory of what it generated.
Kept == {st \in Streams : NodeOf[st] \notin Deletable}

Held(s) == {id \in IdsOf(got[s]) : id.stream \in Kept}

\* No identifier is handed out twice: whatever the clock does, an identifier an open
\* transaction holds is held at one place only, by no other transaction, and was never
\* committed (the "safe for uniqueness" of docs/design/future-tick-behavior.md, for
\* generate_ids and generate_ranjids).
UniqueIds ==
  \A s \in Sessions :
    /\ \A i, j \in 1..Len(got[s]) :
         i # j /\ got[s][i].stream \in Kept => got[s][i] # got[s][j]
    /\ Held(s) \cap issued = {}
    /\ \A t \in Sessions \ {s} : Held(s) \cap Held(t) = {}

\* The committed state row never lags behind a committed identifier, so a restart, or any
\* session that comes later, allocates above all of them (the FOR UPDATE read and the
\* final UPDATE of generate_ids).
StateCoversIssued ==
  \A id \in issued : id.stream \in Kept =>
    /\ row[id.stream] # None
    /\ ~Before(row[id.stream], id)

-----------------------------------------------------------------------------
(* The inductive invariant behind the safety properties. *)

\* Only a lock holder has an uncommitted row version, and it always has one.
LockInv == \A st \in Streams : lock[st] = None <=> work[st] = None

\* A call that runs was let in with a stream and a positive count.
CallInv ==
  \A s \in Sessions : pc[s] \in {"insert", "lock"} =>
    arg[s].stream \in Streams /\ arg[s].count \in Nat \ {0}

\* Past its INSERT a call finds the row: committed, or inserted by its own transaction.
RowFound ==
  \A s \in Sessions : pc[s] = "lock" /\ arg[s].stream \in Kept =>
    row[arg[s].stream] # None \/ lock[arg[s].stream] = s

\* The lock holder's version of a row is not behind the committed one.
WorkAhead ==
  \A st \in Kept : lock[st] # None /\ row[st] # None => ~Before(work[st], row[st])

\* An open transaction holds the row lock of the streams its identifiers are from, and
\* these lie above the committed version of the row and not above its own.
HeldLocked ==
  \A s \in Sessions : \A i \in 1..Len(got[s]) :
    LET id == got[s][i] IN
    id.stream \in Kept =>
      /\ lock[id.stream] = s
      /\ ~Before(work[id.stream], id)
      /\ row[id.stream] # None => Before(row[id.stream], id)

\* A transaction gets the identifiers of a stream in increasing order.
HeldOrdered ==
  \A s \in Sessions : \A i, j \in 1..Len(got[s]) :
    i < j /\ got[s][i].stream \in Kept /\ got[s][j].stream = got[s][i].stream =>
      Before(got[s][i], got[s][j])

IndInv ==
  /\ TypeOK
  /\ LockInv
  /\ CallInv
  /\ RowFound
  /\ WorkAhead
  /\ HeldLocked
  /\ HeldOrdered
  /\ StateCoversIssued

-----------------------------------------------------------------------------
\* The committed state row never moves backward and never disappears, not even when the
\* wall clock steps back or transactions commit in any order.
RowNeverRegresses ==
  [][\A st \in Kept : row[st] # None =>
       row'[st] # None /\ ~Before(row'[st], row[st])]_vars

\* The promise of IdAllocator: reservation above everything handed out, commit or drop.
Allocator == INSTANCE IdAllocator WITH got <- got, issued <- issued
ImplementsAllocator == Allocator!Spec

\* Under a clock that never steps back, batch spanning pushes a state row ahead of the
\* clock by the span of one largest batch at most, however many sessions, calls and
\* transactions do it: drift does not add up (rollback check before the allocation).
DriftBounded ==
  Backward = {} =>
    \A st \in Kept, n \in {0} \cup (Counts \cap Nat) :
      (\A m \in Counts : m <= n) =>
        \A r \in {row[st], work[st]} \ {None} :
          r.tick <= clock + (SeqCap + n - 1) \div SeqCap

\* Under a clock that never steps back, a call fails with one of the rollback errors only
\* if its stream has handed out the last sequence of the current tick or of a later one:
\* waiting for the row lock while others generate never makes a call see a rollback (the
\* comment at "Calculate current time AFTER acquiring the lock").
NoFalseRollback ==
  [][Backward = {} =>
       \A s \in Sessions :
         (err[s] \notin RollbackErrors /\ err'[s] \in RollbackErrors) =>
           LET st == arg[s].stream IN
           st \in Kept =>
             \E id \in issued \cup IdsOf(got[s]) :
               id.stream = st /\ id.seq = SeqCap - 1 /\ id.tick >= clock]_vars

-----------------------------------------------------------------------------
(* Liveness. *)

\* Row locks are granted in the order they were asked for, so a session whose lock is free
\* again and again gets it; statements run to their end; clients end their transactions
\* (an autocommit statement always does); the deadlock detector always runs.
Fairness ==
  \A s \in Sessions :
    /\ SF_vars(RowExists(s) \/ InsertRow(s) \/ InsertFails(s))
    /\ SF_vars(Generate(s) \/ GenerateFails(s))
    /\ SF_vars(Commit(s))
    /\ WF_vars(DeadlockVictim(s))

FairSpec == Spec /\ Fairness

\* Every call returns: it gets its identifiers or an error, also when several transactions
\* lock several state rows in opposite orders.
CallEnds == \A s \in Sessions : pc[s] \in {"insert", "lock"} ~> pc[s] \in {"idle", "txn"}
=============================================================================
