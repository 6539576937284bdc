------------------------------ MODULE Configure ------------------------------
(***************************************************************************)
(* Replacing the generator under running sessions: install_schema, changes *)
(* of the heer_config row and heer_configure(force_reset_state).           *)
(*                                                                         *)
(* heer_configure is one transaction: it reads and validates the config,   *)
(* replaces both generator functions by bodies with the epoch and the      *)
(* precision baked in (Begin), resets the state rows if it is told to      *)
(* (Reset), generates one identifier of each kind on node 1 (Smoke) and    *)
(* commits (Finish).  The new bodies and row versions are visible to       *)
(* others only then, and a call that entered an old body stays in it: it   *)
(* may wait for a row lock of the transaction and go on afterwards.        *)
(* Calls are autocommit statements here; Generator.tla has transactions,   *)
(* node deletion and clocks that step back.                                *)
(***************************************************************************)
EXTENDS Ids, FiniteSets

CONSTANTS
  Sessions,       \* database connections that generate
  Nodes,          \* registered nodes, all active
  NodeOne,        \* the node of the smoke test
  Epochs,         \* values of heer_config.epoch, as instants of the wall clock
  Precisions,     \* values of heer_config.precision, known to heer_configure or not
  Factor,         \* ticks per instant of each known precision
  Counts,         \* values of requested_count
  Forces,         \* values of force_reset_state the operator passes
  ConfiguredAtStart, \* whether heer_configure has run before the behaviour starts
  MayInstall,     \* whether install_schema is run again
  MaxClock,       \* bound: the last instant
  MaxChanges,     \* bound: changes of heer_config, calls of heer_configure, installs
  MaxCalls,       \* bound: generating calls
  None

ASSUME ConfigureAssumption ==
  /\ NodeOne \in Nodes
  /\ Epochs \subseteq Nat
  /\ "us" \in DOMAIN Factor
  /\ Factor \in [DOMAIN Factor -> Nat \ {0}]
  /\ Factor["us"] = 1
  /\ Counts \subseteq Nat \ {0}
  /\ Forces \subseteq BOOLEAN
  /\ MayInstall \in BOOLEAN
  /\ ConfiguredAtStart \subseteq BOOLEAN
  /\ None \notin Point

VARIABLES
  clock,      \* the wall clock
  config,     \* the heer_config row
  body,       \* the installed bodies of generate_ids and generate_ranjids
  row,        \* the committed state rows
  work,       \* row versions of heer_configure's transaction: a row it has locked, or None
  job,        \* the heer_configure call that runs
  call,       \* the call each session is in, with the constants of the body it entered
  err,        \* how each session's last call ended
  issued,     \* identifiers returned and committed
  changes, calls

operatorVars == <<config, body, job, work, changes>>
vars == <<clock, config, body, row, work, job, call, err, issued, changes, calls>>

-----------------------------------------------------------------------------
Streams == [kind : {"heer", "ranj"}, node : Nodes]

\* install_schema's bodies read the epoch when they are called and always count in
\* microseconds; the bodies of heer_configure have both baked in.
Unconfigured == [baked |-> FALSE, epoch |-> 0, precision |-> "us"]
Baked(cfg) == [baked |-> TRUE, epoch |-> cfg.epoch, precision |-> cfg.precision]

\* The epoch and the precision a call that starts now computes with.
Entered(b) == [epoch |-> IF b.baked THEN b.epoch ELSE config.epoch, precision |-> b.precision]

\* HeerIds count in milliseconds, RanjIds in the precision of the body.
TickOf(st, c, now) ==
  IF st.kind = "heer" THEN now - c.epoch ELSE (now - c.epoch) * Factor[c.precision]

RolledBack(r, tick) == r.tick > tick

NextSeq(r, tick) == IF tick = r.tick THEN r.seq + 1 ELSE 0

\* What a call computing with c returns for stream st from row r, and leaves in the row.
BatchFrom(st, r, c, n) ==
  LET tick == TickOf(st, c, clock) IN
  {[stream |-> st, precision |-> IF st.kind = "heer" THEN "ms" ELSE c.precision,
    point |-> PointAt(tick, NextSeq(r, tick), i)] : i \in 0 .. n - 1}

RowAfter(st, r, c, n) ==
  LET tick == TickOf(st, c, clock) IN PointAt(tick, NextSeq(r, tick), n - 1)

Fails(st, r, c) == RolledBack(r, TickOf(st, c, clock))

-----------------------------------------------------------------------------
(* Sessions. *)

Idle == [stream |-> None, count |-> 0, epoch |-> 0, precision |-> "us"]

Call(s) ==
  /\ call[s] = Idle
  /\ calls < MaxCalls
  /\ calls' = calls + 1
  /\ \E st \in Streams, n \in Counts :
       call' = [call EXCEPT ![s] = [stream |-> st, count |-> n,
                                    epoch |-> Entered(body).epoch,
                                    precision |-> Entered(body).precision]]
  /\ err' = [err EXCEPT ![s] = "none"]
  /\ UNCHANGED <<clock, operatorVars, row, issued>>

\* SELECT ... FOR UPDATE waits for the transaction that has locked the row.
Granted(st) == work[st] = None

Generate(s) ==
  LET c == call[s]
      r == row[c.stream]
  IN
  /\ c # Idle
  /\ Granted(c.stream)
  /\ ~Fails(c.stream, r, c)
  /\ issued' = issued \cup BatchFrom(c.stream, r, c, c.count)
  /\ row' = [row EXCEPT ![c.stream] = RowAfter(c.stream, r, c, c.count)]
  /\ call' = [call EXCEPT ![s] = Idle]
  /\ UNCHANGED <<clock, operatorVars, err, calls>>

GenerateFails(s) ==
  LET c == call[s] IN
  /\ c # Idle
  /\ Granted(c.stream)
  /\ Fails(c.stream, row[c.stream], c)
  /\ err' = [err EXCEPT ![s] = "rollback"]
  /\ call' = [call EXCEPT ![s] = Idle]
  /\ UNCHANGED <<clock, operatorVars, row, issued, calls>>

-----------------------------------------------------------------------------
(* The operator. *)

NoJob == [step |-> "none", body |-> Unconfigured, force |-> FALSE, got |-> {}]

Change ==
  /\ changes < MaxChanges
  /\ changes' = changes + 1

SetConfig ==
  /\ Change
  /\ \E cfg \in [epoch : Epochs, precision : Precisions] : cfg # config /\ config' = cfg
  /\ UNCHANGED <<clock, body, row, work, job, call, err, issued, calls>>

\* CREATE OR REPLACE FUNCTION waits for the transaction that is replacing it.
InstallSchema ==
  /\ MayInstall
  /\ job.step = "none"
  /\ Change
  /\ body' = Unconfigured
  /\ UNCHANGED <<clock, config, row, work, job, call, err, issued, calls>>

\* The epoch is not in the future and the precision is one of us, ns, ps, fs.
Valid(cfg) == cfg.epoch <= clock /\ cfg.precision \in DOMAIN Factor

Begin ==
  /\ job.step = "none"
  /\ Valid(config)
  /\ Change
  /\ \E force \in Forces :
       job' = [step |-> "reset", body |-> Baked(config), force |-> force, got |-> {}]
  /\ UNCHANGED <<clock, config, body, row, work, call, err, issued, calls>>

\* Mutant of ResetRow: the state is reset by default too.
ResetAlways(st) == [tick |-> 0, seq |-> 0]

\* The version the transaction gives a row: none if the reset is not asked for.
ResetRow(st) == IF job.force THEN [tick |-> 0, seq |-> 0] ELSE None

Reset ==
  /\ job.step = "reset"
  /\ work' = [st \in Streams |-> ResetRow(st)]
  /\ job' = [job EXCEPT !.step = "smoke"]
  /\ UNCHANGED <<clock, config, body, row, call, err, issued, changes, calls>>

SmokeStreams == {st \in Streams : st.node = NodeOne}

\* The row as heer_configure's transaction sees it.
Seen(st) == IF work[st] # None THEN work[st] ELSE row[st]

\* Mutant of SmokeBody: the smoke test runs the bodies that are being replaced.
SmokeOldBody == Entered(body)

\* The smoke test's calls enter the new bodies.
SmokeBody == Entered(job.body)

Smoke ==
  /\ job.step = "smoke"
  /\ \A st \in SmokeStreams : ~Fails(st, Seen(st), SmokeBody)
  /\ work' = [st \in Streams |-> IF st \in SmokeStreams
                                 THEN RowAfter(st, Seen(st), SmokeBody, 1)
                                 ELSE work[st]]
  /\ job' = [job EXCEPT !.step = "commit",
                        !.got = UNION {BatchFrom(st, Seen(st), SmokeBody, 1) : st \in SmokeStreams}]
  /\ UNCHANGED <<clock, config, body, row, call, err, issued, changes, calls>>

\* A failed smoke test, or a lost connection, undoes the functions and the reset.
Cancel ==
  /\ job.step # "none"
  /\ job' = NoJob
  /\ work' = [st \in Streams |-> None]
  /\ UNCHANGED <<clock, config, body, row, call, err, issued, changes, calls>>

Finish ==
  /\ job.step = "commit"
  /\ body' = job.body
  /\ row' = [st \in Streams |-> Seen(st)]
  /\ issued' = issued \cup job.got
  /\ work' = [st \in Streams |-> None]
  /\ job' = NoJob
  /\ UNCHANGED <<clock, config, call, err, changes, calls>>

Tick ==
  /\ clock < MaxClock
  /\ clock' = clock + 1
  /\ UNCHANGED <<operatorVars, row, call, err, issued, calls>>

-----------------------------------------------------------------------------
\* schema.sql and seed.sql have run, and heer_configure or not; the epoch lies in the past
\* and no identifier has been generated.
Init ==
  /\ clock = 1
  /\ config \in [epoch : {e \in Epochs : e <= 1}, precision : Precisions \cap DOMAIN Factor]
  /\ \E done \in ConfiguredAtStart : body = IF done THEN Baked(config) ELSE Unconfigured
  /\ row = [st \in Streams |-> [tick |-> 0, seq |-> 0]]
  /\ work = [st \in Streams |-> None]
  /\ job = NoJob
  /\ call = [s \in Sessions |-> Idle]
  /\ err = [s \in Sessions |-> "none"]
  /\ issued = {}
  /\ changes = 0
  /\ calls = 0

Next ==
  \/ \E s \in Sessions : Call(s) \/ Generate(s) \/ GenerateFails(s)
  \/ SetConfig
  \/ InstallSchema
  \/ Begin
  \/ Reset
  \/ Smoke
  \/ Cancel
  \/ Finish
  \/ Tick

Spec == Init /\ [][Next]_vars

\* "Pass true when intentionally changing epoch or precision": the operator forces the reset
\* only where the precision, and nothing else, differs from that of the installed bodies.
ForcedForPrecision ==
  Begin /\ job'.force =>
    /\ body.baked
    /\ config.epoch = body.epoch
    /\ config.precision # body.precision

AdvisedSpec == Init /\ [][Next /\ ForcedForPrecision]_vars

-----------------------------------------------------------------------------
(* Properties. *)

TypeOK ==
  /\ clock \in Nat
  /\ config \in [epoch : Epochs, precision : Precisions]
  /\ body \in [baked : BOOLEAN, epoch : Nat, precision : DOMAIN Factor]
  /\ row \in [Streams -> Point]
  /\ work \in [Streams -> Point \cup {None}]
  /\ job.step \in {"none", "reset", "smoke", "commit"}
  /\ \A s \in Sessions : call[s] = Idle \/ call[s].stream \in Streams
  /\ err \in [Sessions -> {"none", "rollback"}]

\* No identifier is handed out twice: each call, and each smoke test, adds as many new ones
\* as it returns, in old bodies and new ones, whatever the epochs and the precisions were
\* (docs/generation/database-generation.md, "The database ensures uniqueness").
NeverIssuedTwice ==
  [][/\ \A s \in Sessions : Generate(s) => Cardinality(issued' \ issued) = call[s].count
     /\ Finish => Cardinality(issued' \ issued) = Cardinality(SmokeStreams)]_vars

\* "The database ensures uniqueness" (docs/generation/database-generation.md) of HeerIds, which
\* count in milliseconds whatever the precision is: no call and no smoke test returns a HeerId
\* that was returned before, if heer_configure(true) is used as the comment above it says.
HeerIdsOnce ==
  [][/\ \A s \in Sessions :
          Generate(s) /\ call[s].stream.kind = "heer"
            => Cardinality(issued' \ issued) = call[s].count
     /\ Finish => \A id \in job.got : id.stream.kind = "heer" => id \notin issued]_vars

\* When heer_configure commits, node 1 can generate with the new bodies at once, or, if the
\* smoke test took the last sequence of a tick, with the next tick: an epoch or precision
\* that would leave node 1's state rows ahead of its clock does not get through.
ConfiguredNodeUsable ==
  [][Finish => \A st \in SmokeStreams :
       row'[st].tick <= TickOf(st, body', clock) + 1]_vars

\* "Re-running against an already-installed database is a no-op" (install_schema): on a
\* database whose config never changes, with batches that fit the tick and a clock that
\* never steps back, no call ever fails with a clock rollback error.
ReinstallHarmless == \A s \in Sessions : err[s] # "rollback"
=============================================================================
