# A TLA+ model of HeeRanjID

HeeRanjID generates two kinds of sortable 64- and 128-bit identifiers inside the database:
`HeerId` (41-bit milliseconds, 9-bit node, 13-bit sequence) and `RanjId` (89-bit timestamp in
micro-, nano-, pico- or femtoseconds, 15-bit node, 16-bit sequence, packed into a UUIDv8). What
the system promises is decided in a few hundred lines of PL/pgSQL that run concurrently, so that
is where the model starts. Around it are the procedures and programs that move live tables from
ascending to descending identifiers, the Rust library with its types, conversions and boundaries to
other languages, the clients that decide when identifiers are asked for, and the check that keeps
skipped tests out of the repository.

This directory holds the specifications, the TLC instances that check them and the proofs.
`PROJECT.json` lists the components, the runs, the mutants that show each property can fail, the
source lines every definition stands for, the hazards and the theorems.

## 1. Inventory

| Part | State it keeps | Operations | Talks to |
|---|---|---|---|
| **Generators** `sql/functions/generate_heerid.sql`, `generate_ranjid.sql` | one row per node in `heer_node_state` and `heer_ranj_node_state`: the last timestamp and sequence handed out | `generate_ids(node, count, spanning)`, `generate_ranjids(...)`, one-identifier wrappers | `heer_nodes` (registered, active), `heer_config` (epoch), the wall clock, row locks |
| **Configuration** `configure.sql`, `schema.sql`, `seed.sql`, `postgres_schema.rs` | `heer_config`; the installed function bodies | `install_schema`, `heer_configure(force_reset_state)` | replaces the generators, may reset their rows, calls them once |
| **Session node** `session.sql` | the setting `heer.node_id` of a session | `set_heer_node_id`, `current_heer_node_id` | default argument of the generators; undone by a rollback |
| **Descending forms** `desc_flip.sql`, `desc_generators.sql`, `heer_desc.rs`, `ranj_desc.rs`, `reverse_order.rs` | none | flip, unflip, generate flipped | columns kept beside the ascending ones |
| **Backfill** `bulk_backfill.sql`, `sql/mssql/`, the autofill triggers in `postgres_schema.rs` and `mssql_schema.rs` | none of its own: works on the application's table | triggers on INSERT and UPDATE; the procedure, one transaction per batch | application transactions, row locks, `lock_timeout` |
| **Migration programs** `examples/migrate_asc_to_desc*.rs`, playbook `asc-to-desc.md` | the catalog of the application's tables | a fixed list of statements, some in one transaction | table locks, writers, the backfill, the triggers |
| **Types** `heer.rs`, `ranj.rs` | none | pack, unpack, order, display, parse | |
| **Generation precision** `precision.rs` | a process-wide cell, set once from `RANJID_PRECISION` | the conversions that need a precision | threads, the environment |
| **Conversion** `convert.rs` | none | `batch_to_heerids`, `check_heerid_convertibility`, `batch_to_ranjids` | |
| **Codecs** serde, `heeranjid-sqlx`, tokio-postgres, Python and Node wrappers | none | write and read an identifier in some form | programs of other languages |
| **FFI** `heeranjid-ffi` | `LAST_ERROR`, one per thread | encode, decode, text; `heer_last_error` | threads of a C program |
| **Clients** Prisma, EF Core, Django, the Rust clients | objects of the caller, the session's node | inject identifiers on create; bulk creation; retries by their callers | generators, transactions of the caller |
| **Test surface check** `xtask/src/check_test_surface.rs` | none | walk the tree, mask comments and literals, find skipped tests | files that may change meanwhile |
| **.NET types, build, CI, benches** | none | | |

What is hard here is not the arithmetic of one call but what happens between calls: the state row
is locked until the *caller's* transaction ends and rolls back with it; the clock is read after
the wait; spanning batches run ahead of the clock; nodes are deactivated or deleted under a call;
a function is replaced while calls are inside its old body; a backfill meets writers that hold,
change and delete the rows it wants; a migration is lost between two statements and started again;
an answer is lost and the caller tries once more; a lexer decides what is a comment. The correctness
properties, per component:

- *Generators*: no identifier is handed out twice; committed state never moves back and never
  lags behind a committed identifier; drift stays bounded; errors have their cause; calls end.
- *Emission loop*: exactly the requested identifiers, consecutive, with no gap or repetition at a
  tick's end; the layout's last tick is reached and never passed.
- *Configuration*: replacing the functions never makes the sequence start again where it was; a
  configuration that commits leaves the smoke-tested node usable.
- *Backfill*: nothing left unfilled, nothing stale, no committed write undone, always ends.
- *Migration*: children keep their parents, nobody sees half of a cutover, no statement with
  a current identifier fails because of a step of a migration, a lost run can be undone or repeated, programs and statements end.
- *Types, conversion, precision, codecs, FFI*: order, injectivity, agreement of check and
  conversion; an identifier keeps its fields or is refused; a thread reads its own error.
- *Clients*: one row per object whatever fails and is retried; the node the session chose.
- *Test surface check*: no skipped test escapes, nothing else is reported, success means that the
  whole surface was read.

`PROJECT.json` lists under "hazards" each line where one of these can go wrong.

## 2. Modules

| Module | Models | Kind |
|---|---|---|
| `Ids` | a point of generated time (tick, sequence), its order, the closed form `PointAt` of a batch | operators |
| `Emission` | the `WHILE remaining > 0` loop, one iteration per step | state machine |
| `IdAllocator` | what a generator promises: reserve above everything, commit or drop | abstract specification |
| `Generator` | `generate_ids` / `generate_ranjids` with transactions, locks, clock, nodes | state machine |
| `Configure` | `install_schema`, `heer_config` and `heer_configure` under running calls | state machine |
| `Autofill` | the bodies of the autofill triggers on one version of a row | operators |
| `FillTable` | what a backfill promises: gaps are filled with the flip, and it returns when none is left | abstract specification |
| `Backfill` | the backfill procedures of PostgreSQL and SQL Server under writers and triggers | state machine |
| `Migration` | both migration programs and the undo under an application's transactions | state machine |
| `IdLayout` | the raw layouts of HeerId and RanjId: pack, unpack, validate, flip | operators |
| `Convert` | `batch_to_heerids`, one loop iteration per step, with the check and the way back | state machine |
| `Precision` | the `OnceLock` of the generation precision and the conversions that read it | state machine |
| `Wire` | types, codecs and wrappers: an identifier passes from program to program | state machine |
| `Ffi` | the C functions under threads | state machine |
| `Library` | `Convert`, `Precision`, `Wire` and `Ffi` in one process | composition |
| `Clients` | objects saved through Prisma, EF Core, Django or a column default, with retries | state machine |
| `SourceMask`, `LineScan` | the masking lexer and the scanners of the five kinds of file | operators |
| `SourceGrammar` | what each language says of a whole source: its comments and literals, attributes, chains, gates; and `Within`, the limits within which the scanners are right | reference definitions |
| `TestSurface` | the walk, the scan, the verdict, while files change | state machine |
| `EmissionProofs`, `GeneratorProofs`, `ConfigureProofs`, `BackfillProofs`, `ClientsProofs`, `MigrationProofs`, `LibraryProofs`, `TestSurfaceProofs` | lemmas and theorems | proofs |
| `MC*` | constants of the TLC instances | instances |

How they compose:

```
Ids <- Emission                      Autofill <- FillTable            IdLayout <- Convert ----\
Ids <- IdAllocator  (promise)        Autofill <- Backfill             IdLayout <- Precision --- Library
Ids <- Generator    (implements      Autofill <- Migration            IdLayout <- Wire <- Ffi -/
       IdAllocator)                  Backfill implements FillTable
                                     SourceMask <- LineScan <- SourceGrammar <- TestSurface
Configure, Clients  (use the generators' promise through their own rows of numbers)
```

`Emission` and `Generator` meet in `Ids!PointAt`: the first shows (and `EmissionProofs` proves)
that the loop emits `PointAt(tick, seq, i)` for `i = 0 .. count - 1`; the second uses that closed
form, so that a call is not cut into steps nobody else can see. `Backfill` and `Migration` meet in
`FillTable`: a migration's `Fill` step is a step of that promise.

### Generator and the code

The two functions have the same control, so one model stands for both; `Streams` are their state
rows, and `Guarded` tells which have the 89-bit check (50030). A call is three steps, because
other sessions can come between exactly there:

1. `Call` / `RejectCall`: the count check and the lookup of the node, which take no lock.
2. `RowExists` / `InsertRow` / `InsertFails`: `INSERT ... ON CONFLICT DO NOTHING`. It waits for an
   uncommitted version of the row. A node deleted after step 1 makes the foreign key fail.
3. `Generate` / `GenerateFails`: `SELECT ... FOR UPDATE`, then everything to the end of the
   function. From the granted lock on, nothing the function does is visible to others before the
   transaction ends: it reads the clock (`Now`), compares it with the row (`RolledBack`), computes
   the first point (`CurrentTick`, `NextSeq`), returns the batch and updates its version of the row.

`lock` and `work` are PostgreSQL's row locks and uncommitted row versions, `row` the committed
ones. `Commit`, `Rollback`, every raised error and `DeadlockVictim` end the transaction with
`Release`. The clock may step back; nodes may be deactivated, deleted (which cascades to the state
rows and waits for their locks) and registered again. A delete between steps 2 and 3 leaves the
call without a row: `v_last_time` is NULL, the rollback test is not true, and the final UPDATE
changes nothing; the model follows that path too, and `Kept` names the streams the promises are
made for.

### Configure and the code

`heer_configure` is a transaction of five steps (`Begin`, `Reset`, `Smoke`, `Finish`, or
`Cancel`), and calls run between them. A call keeps the epoch and precision of the body it
entered. Calls are autocommit here; `Generator` has the transactions. `Factor` scales a
precision's ticks to instants.

### Backfill and the code

One action per statement a writer can run on a row (`Insert`, `Update`, `Delete`, `LockRow`), with
the trigger applied to each version it writes, and `Commit` / `Rollback`. The procedure's batch is
a statement that starts (`BeginBatch`), one step per row it visits (`Skip` in the fast loop,
`Drop`, `Take`), and the update with its COMMIT (`EndBatch`). `TimeOut` is `lock_timeout` in the
cleanup loop. The two dialects, told apart by `setting`, differ in what a batch sees:

- *PostgreSQL* works on a snapshot. A row changed after it is tested and locked in its newest version, but
  the update joins by `ctid` on the snapshot's version and would not find it (`moved`): it would be
  locked, not filled, and not counted. (`BatchOfGaps`, below, shows that no such row is locked.) The trigger fills dst on INSERT and recomputes it when src changes.
- *SQL Server* tests each row when its lock is granted. Its trigger runs after the statement and leaves
  a row without src alone, so identifiers of src are unique and dst may outlive src
  (mssql_schema.rs:53-54 says dst becomes NULL with src; the trigger's WHERE leaves such rows out).

In `Init` every descending column is NULL: the playbook adds the column and the trigger first, and
CREATE TRIGGER waits for the writers that hold the table. `FillTable` is the same table without
batches, locks and snapshots; the mapping takes `row` as it is and the two loops as `running`.

### Migration and the code

A program is a sequence of statements (`Migrate`), the two examples' own ones in their order. Each
is sent (`Send`), takes its table locks one after another (`Lock`, in `LocksOf`'s order) and takes effect
(`Execute`; `Fill` for the rows of the backfill). Outside a transaction a statement changes `catalog` and
releases its locks; between `begin` and `commit` it changes `draft` and keeps them. `Fail` is the end of a
program by an error, a lost connection, a timeout of the backfill or the deadlock detector, and only
what was committed remains; `Start` then runs the undo of the playbook or, after it, the migration again. The
playbook (asc-to-desc.md:497) says to drop the columns and the triggers, in no order and no transaction, and
`drop_autofill_trigger_for_table` is a call of its own that drops no column: so an undo executes the statements
`UndoLeft` one by one in any order, each committed on its own, and can itself be cut short and started again. In
between, a table that has lost its column and not its trigger, or a trigger whose column must be filled, refuses
statements of the application (`Lame`); "rollback is free" is true of the data, not of them. `Impossible` says when a statement or
an assertion of the program would fail.

The application reads an identifier (`Look`), uses it later (`AskInsertParent`, `AskLink`, `AskDelete`), waits
for the table lock that a pending statement of the program has queued in front of it (`LockTable`), and is
accepted or refused by the catalog of that moment (`Apply`, `Reject`). Each child remembers in `meant` the
parent whose identifier its writer had read, which is what `LinksKept` compares with: an identifier read before
the cutover and used after it is refused by the new foreign key, or it would be another parent's.

### IdLayout, Convert and the code

A raw value is a number whose digits are its fields, each in base 2^width; shifts, masks and ORs
become `Put`, `\div` and `%`, so the widths are constants and the theorems hold for any. An XOR
with a flip mask complements exactly the digits the mask covers. A RanjId's timestamp is three
digits with version, variant and precision between them.

`Convert` follows `batch_to_heerids`: `Gather` (or `Reject`) per identifier, `Squash` (or
`Overflow`) per group in any order, since a HashMap gives them in any, `Finish`. The inputs are
every batch of up to `MaxBatch` identifiers, with repetitions, and every batch `batch_to_ranjids`
makes of HeerIds. `Conflicts` translates `check_heerid_convertibility` on its own.

RanjIds of different precisions are not ordered by time, neither as raw values nor, within one
millisecond, after a conversion, although convert.rs:222 sorts "to preserve temporal ordering": the precision's bits
stand above the low part of the timestamp, and a tick means something else. `KeepsOrder` and
`RanjOrder` are stated for one precision, and `Precision` shows that a process uses only one.

### Precision, Wire, Ffi and the code

`Precision` is the `OnceLock` with its initialiser: a thread finds it full (`UseCell`), or enters it
(`Enter`, the others wait), reads `RANJID_PRECISION` and fills it (`Fill`) or panics and leaves it empty
(`Panic`), while the environment changes (`SetEnv`).

`Wire` has one identifier on its way. `Create` and `Placeholder` make it, `TurnAround` is
`reverse_order`, `Send` writes it in one of the forms its boundary writes (text, JSON number, 64-bit
word, 16 bytes), `ThroughJavaScript` rounds a large number, `Arrive` brings what another program sends,
`Receive` and `Refuse` are the reading side. A reading is the set of raw values that the
boundary's checks leave: one or none. `meant` keeps the fields the identifier was made of.

`Ffi` gives each C function the message of the first check that fails. `Call` stores it in the slot of
the calling thread and leaves the slot alone on success; `LastError` copies it.

`Library` runs the four in one process. They share the layout and no state, so one behaviour
exercises one `part`.

### Clients and the code

An object gets its identifier in one of three ways: `kept` (Django's `bulk_create`, Prisma's `createMany`,
EF Core's `SaveChanges`: asked for first and written into the caller's object, which a retry sends again),
`fresh` (Prisma's `create`: into a copy, a new one for each try), `default` (the column default calls
`generate_id()` for the node of the session). `Assign` is the generator, called in the open transaction
or in one of its own; `position`, `ahead` and `holder` are the generator's row, its uncommitted version
and its lock. `Insert`, `Duplicate`, `InsertDefault`, `DefaultDuplicate`, `DefaultFails` are the INSERT's outcomes, also with its
answer lost: a default that generates an identifier another object kept after a rollback meets its row, fails, and takes its
number back, so that the next default of that node in the same millisecond meets it again;
`Commit` may lose its answer, `Rollback` the connection, and `Retry` saves the object again. `Choose` is
`set_heer_node_id`: `set_config` holds at once and is undone by a rollback (`before`), and a lost connection
forgets it. `choices` and `settled` are history: what a session chose, and how much of it before its
transaction, so that `NodeKept` compares with the choice the session is entitled to and not with the setting (and would
see a setting that outlives every choice). The generator is reduced to a number per node that rolls back with its transaction, which
`Generator` has in full; the clock stands still, since that is when a rolled back number is given again.

### TestSurface and the code

A source is a sequence of tokens: the characters that matter to the lexer, and whole words.
`Masked` follows `strip_comments_and_literals` from opener to opener; the scanners are sets of positions
(`RustFindings`, `TypeScriptFindings`, `DotnetFindings`) or lines (`PythonFindings`, `WorkflowFindings`). `Collect`
walks one kind, `Scan` reads and scans one file, `Report` prints and decides, and `Edit` saves or
removes a file in between.

The reference is not the scanner. `SourceGrammar` says of a whole source, without scanning it and language by
language, what its pieces are: a block comment of Rust is a stretch whose openers and closers have a positive balance
up to its end (`NestedComment`), one of TypeScript or C# ends at the first closer (`FlatComment`); a literal ends at
a quote no backslash escapes; between single quotes of Rust and C# is one character or an escape (`IsChar`), and a quote with
a name after it is a lifetime (`IsLifetime`); an attribute that skips is one in no other attribute, which in C# may stand
anywhere in its list, after a target or a namespace, with the suffix Attribute or without (`Heads`, `IsNameOf`); a chain is links
and calls in balance, a line is in a gate if some opener before it has less indentation than all that follows.

The lexer reads all three masked languages in one way, so it is right for less than they allow. For instance,
`fn f<'a>(c: char) -> bool { c == '"' }` is Rust in which the lexer takes the code between the first two quotes
for a literal, and a `#[ignore]` after it may escape. `Within` names the limits (they are listed in section 5), and
everything that is checked or proved here of scanners is about sources within them.

A source is a record: its text, what is shown of it, where its pieces start, the lines that skip a test (`bad`)
and those that Python and the gate read differently (`doubtful`). `Described` asks that these agree with the grammar,
and that the source is within the limits.
`MCTestSurface` composes sources from pieces, says of each piece by hand whether it is a comment or literal and whether it
skips a test, and keeps those within the limits (all but about a hundred Rust sources with two quotes of lifetimes or
characters on a line, and a hundred of C# with strings side by side). So there are three independent readings: `TestSurfaceAssumption`, which TLC evaluates, compares
the hand-made one with the grammar; `MaskExact`, `NothingEscapes` and `NoFalseAlarm` compare it with the scanners; and
`TestSurfaceProofs` compares grammar and scanners for sources of any length within the limits.

## 3. Runs

| Run | Question | Bounds and why they are enough |
|---|---|---|
| `generator_safety` | Are identifiers unique and the state right whatever transactions and clock do? | Two sessions (who conflict pairwise on one row), one row, two sequences per tick (a batch fills, overflows and spans a tick), counts 0 to 2, two clock ticks with steps back of one, at most four identifiers per transaction (two calls that span). |
| `generator_drift` | How far does the row run ahead, and are rollback errors justified? | As above with a monotone clock of five instants and batches of five (three ticks), so drift of two ticks, the exact threshold and the error classes occur; the layout ends at tick 4. |
| `generator_liveness` | Does every call end? | Two rows of two nodes locked in both orders, one node deletable; no clock is needed to deadlock. |
| `emission` | Does the loop emit the closed form, and raise exactly when it must? | Three sequences per tick, each start (a full tick too), batches of up to eleven: partial, full, several ticks. |
| `configure` | Without force, is anything handed out twice, and is node 1 usable afterwards? | Two calls in flight, two precisions and an unknown one, two epochs (one in the future at first), three operator actions, three calls, batches that span. |
| `configure_reset` (violation) | May `heer_configure(true)` be run for a change of precision? | One session; force only where the precision, and nothing else, was changed (`AdvisedSpec`). |
| `configure_reinstall` (violation) | Is a second `install_schema` a no-op? | One session; batches of one in ticks of eight, so no rollback error has another cause. |
| `backfill` | Is nothing left unfilled or stale, nothing undone, does it implement `FillTable` and end? | Two rows, so a batch of one leaves one for the next and a batch of two meets a row changed after its snapshot; two writers that conflict (PostgreSQL, batches of one and two), one writer that sets dst itself (both dialects). |
| `migration` | Do the programs keep links, schema and writers whole, and end? | Both programs; two parents (each other's mirror image after a flip), one child, a writer of two statements per transaction, two runs: a migration lost anywhere and its undo in every order, or the whole of one. |
| `library` | Are conversions, precision, boundaries and C errors right? | Batches of up to three in layouts of two values per field, so three identifiers overflow each; two precisions (two and four ticks per millisecond), two threads; every number from below an i64 to above a word and both kinds of UUID, three boundaries; two C threads and four calls. |
| `clients` | Is each object stored once under retries, with the node its session chose? | Two objects of two clients, two nodes one of which may be deactivated, two numbers, two tries, two choices of the node: a number is rolled back and given to the other. |
| `test_surface` | Does the check find exactly the skipped tests, and is its verdict sound? | Sources of up to three pieces (before, between and after every pair) within the limits of the scanners, calls that go on for two lines, files inside and outside each surface that change up to twice. |

`CHECK_DEADLOCK FALSE` appears where the system comes to an end. In the `configure*` runs the operator's
actions and the calls are counted and the clock ends; in `migration` the runs are counted and the
identifiers may be used up; a check of the test surface stops with its verdict. In every other run
TLC checks for deadlock. The bounds (`MaxClock`, `MaxHeld`, `MaxChanges`, `MaxCalls`, `MaxIds`, `MaxStatements`, `MaxRuns`,
`MaxHops`, `MaxTries`, `MaxChoices`, `MaxBatch`, `editsLeft`) are in guards and named there.

Symmetry is used over sessions only, in `generator_safety`, `generator_drift` and `configure`, which have
no liveness property and whose specifications treat sessions alike.

### What the violations show

- **`configure_reset`.** The comment at `heer_configure` recommends `true` when epoch *or
  precision* is changed. A change of precision does not touch HeerIds, whose row is reset all the
  same; the rest of the running millisecond is handed out again. The trace: a HeerId is generated, the
  precision is changed, `heer_configure(true)` resets the rows, and its smoke test commits the same HeerId.
- **`configure_reinstall`.** `install_schema` is documented to be a no-op on an installed database.
  It replaces the configured bodies by unconfigured ones that count in microseconds, and RanjId
  calls of a database configured to a finer precision fail as clock rollbacks.

A third disagreement is part of a property that holds: the Django manager says (managers.py:58-59) that prefetched
identifiers that are never saved are never reused. The state row is updated in the caller's
transaction, so if that rolls back the next call returns the same identifiers. `RetrySafe` names exactly
this case as the only one in which another object's row is met.

### Fairness

- `Generator!Fairness`: a statement that waits for a row lock gets it if it becomes free again and
  again (PostgreSQL queues waiters; strong fairness), clients end their transactions, and the
  deadlock detector runs (weak fairness of `DeadlockVictim`). Nothing is assumed of the clock, of the
  operator or of new calls.
- `Backfill!FairSpec`: the procedure's session makes progress, a row lock that is free again and
  again is granted, `lock_timeout` fires. *Writers have no fairness*: they may stop with a row locked, which
  is what the timeout is for.
- `Migration!FairSpec`: both sides go on, locks that are free again and again are granted, the deadlock
  detector runs, and writers end their transactions. The last is needed: the programs set no `lock_timeout`
  (the playbook suggests one, asc-to-desc.md:173), so a writer that never ends stops the migration,
  and everyone who comes after it.

## 4. Proofs

For every value of the constants that satisfies the named assumptions (any number of sessions, writers,
nodes, rows, threads, any sequence capacity, thresholds, counts, clock steps, field widths):

| Module | Theorems (property they state) |
|---|---|
| `GeneratorProofs` | `TypeCorrect` (`TypeOK`), `Inductive`, `Coverage` (`StateCoversIssued`), `Uniqueness` (`UniqueIds`), `NeverRegresses` (`RowNeverRegresses`), `Refinement` (`ImplementsAllocator`), `Drift` (`DriftBounded`), `RollbackHasCause` (`NoFalseRollback`) |
| `EmissionProofs` | `PointAtIncreasing` (on division and remainder; `PointAt` continues across ticks), `LoopInvariant`, `EmissionCorrect` (`EmitsClosedForm`), `RaisesCorrect` (`RaisesExactly`) |
| `ConfigureProofs` | `TypeCorrect` (`TypeOK`), `NodeOneUsable` (`ConfiguredNodeUsable`), `IssuedOnce` (`NeverIssuedTwice`, if nothing is forced) |
| `BackfillProofs` | `TypeCorrect` (`TypeOK`), `NoGapLeft` (`DoneMeansFilled`), `Freshness` (`NeverStale`), `WritesKept` (`NoLostWrite`), `Refinement` (`FillsTable`) |
| `MigrationProofs` | `Inductive`, `TypeCorrect` (`TypeOK`), `LinksAlwaysKept` (`LinksKept`), `NeverSeenHalfMigrated` (`NeverHalfMigrated`), `WritersNeverHarmed` (`WritersUnharmed`), `ScriptAlwaysSound` (`ScriptSound`) |
| `ClientsProofs` | `Inductive`, `NodeChosen` (`NodeKept`), `RetriesSafe` (`RetrySafe`) |
| `LibraryProofs` | `HeerFieldsOfRaw`, `RanjFieldsOfRaw` (packing loses nothing), `HeerOrder`, `RanjOrder` (raw order is order in time), `HeerFlipReverses`, `RanjFlipReverses` (the descending form is valid, flips back and sorts in the opposite order), `InOrder` (`ConvertedInOrder`), `Lossless` (`LosslessOrRefused`), `OwnErrors` (`ErrorIsOwn`), `ChecksAgree` (`AgreesWithCheck`), `OneResult` (`OrderFree`), `OrderKept` (`KeepsOrder`), `ComesBack` (`RoundTrip`), `Composition` (the library implements each of its parts), `WholeLibrary` |
| `TestSurfaceProofs` | `ScanExact` (within the limits, scanners and grammar agree), `GateInvariant`, `MaskStaysExact` (`MaskExact`), `NothingPasses` (`NothingEscapes`), `NothingElseReported` (`NoFalseAlarm`), `VerdictStaysSound` (`VerdictSound`) |

**Generator.** Uniqueness is not inductive: it says nothing of why two transactions cannot hold the same
identifier. `IndInv` adds the reason. A transaction that holds identifiers of a stream holds the
row's lock (`HeldLocked`), they lie above the committed row and not above its own version, its
version is not behind the committed one (`WorkAhead`), it got them in increasing order
(`HeldOrdered`), and committed identifiers are not above the committed row (`StateCoversIssued`).
Then `Generate` allocates above the version it sees, hence above everything (`PosAboveRow`,
`BatchAllocated`); `Commit` turns its version into the committed one; `Abort` forgets both. `Kept`
streams are needed because deleting a node forgets its row; `RowFound` shows that a kept stream's
call always finds the row it inserted or saw, so the path without a row is never theirs.
`Refinement` maps `got` and `issued` to the variables of the same name in `IdAllocator` and shows
that each step is a reservation, a commit, a drop, or no step. The thresholds of the rollback errors
and the clock play no part in this.

**Drift.** With a clock that never steps back, `DriftInv` accounts for every row. It is ahead of the clock by
one batch at most (`Near`), because an allocation that is not refused starts at the clock or after
a tick that is used up; each tick from the clock's to the row's has handed out its last sequence
(`UsedUp`); and a row that is not new holds the point of an identifier that was handed out
(`PointIssued`). Two transactions cannot both add to it: the second sees the row the first committed, and starts in
the tick after it only if that tick is full. A rollback error then has the cause `NoFalseRollback` asks for.

**Configure.** Without force no row goes back: whatever body, epoch and precision a call has, it allocates
above the row it finds, and committed identifiers are not above their row (`IssuedBelow`). A transaction of
`heer_configure` that resets nothing changes only the rows of the smoke test, and these and its identifiers
lie above the committed rows (`NothingReset`). Together that is `FreshInv`, which carries `IssuedOnce`.
`NodeOneUsable` needs `NodeOneReady`: until the commit, node 1's rows are where the smoke test left them, at
most one tick ahead of the clock of the bodies about to be installed.

**Backfill.** The triggers leave no gap in a version they see, so nothing a writer has pending is a gap
(`PendingFilled`; only writers have versions pending, `ChangedByWriter`). Hence a row newer than the snapshot
is never a gap, and the join on `ctid` misses no row that was locked (`BatchOfGaps`). In the cleanup loop
each gap is still to visit or locked (`NoGapOverlooked`), so a batch that fills nothing leaves nothing, which is
`NoGapLeft`. `Freshness` follows from `RowsFresh`; `WritesKept` from the lock, since `EndBatch` changes only rows
the procedure holds. `Refinement` maps `EndBatch` to a `Fill` of the batch and a return to `Finish`. No finiteness of
`Rows` is assumed; only a batch is finite.

**Layout and library.** The layout theorems rest on three facts about one digit: it can be taken off again
(`PutFields`), it is less significant than what is above it (`PutCompare`), and complementing it reverses its order
(`Complement`). Equal digits in between change no comparison (`PutSame`), so `UuidOrder` goes digit by
digit and drops version, variant, precision and node; `TimeMirrored` does the same for the complement.

*The precision cell.* `CellInv`: everything converted was converted with the precision the cell holds,
and nothing was converted while it is empty; then conversions of a process compare like their HeerIds
(`ConversionOrder`, from `UuidOrderOfNodes`) and go back (`ConversionBack`).

*Identifiers on their way.* `WireInv` follows the identifier from form to form. Whatever a program holds, or
wrote, still has the fields in `meant` (`HoldsMeaning`); a word on the wire is one of 64 bits and a UUID one of
128; and an identifier was only written in a form its value survives in, never as a JSON number. The last part is
what `SerdeBare` (a mutant) breaks. Reading then gives the value that was written or nothing (`ReadValue`).

*C errors.* A thread's slot always holds its own latest failure (`SlotsAreOwn`).

*Batches.* `batch_to_heerids` sorts twice and groups in between, and what it does for a batch of any length would
be an induction over data. It is not needed, because the model says where an element of a sorted sequence
stands by counting: the `n`-th has `n - 1` before it (`SortOrder`). `Ranks` shows, by cardinalities alone, that in a finite strict
order the ranks run from 0 without a gap, and `SameRanks` that a map that keeps an order keeps the ranks; so
a group that was gathered in the order of the batch and then sorted gives each identifier the number of those of its
group that come before it in the *batch* (`GroupSorted`: this is `Number`). `BatchInv` carries that through the loops:
while gathering, a group holds the indices seen so far in their order (`GroupsInv`, with the indices as a witness,
`Gathers`); while squashing, `results` holds the pairs of the finished groups, once each, in whatever order the
HashMap gave them, except that equal RanjIds stand by their numbers (`ResultsInv`, `Lists`). That exception is why
the last sort, which is stable and compares RanjIds only, has one possible result (`FinalOrder`): `Answer` names it as a
function of the batch. `Refusal` and `GroupsFit` relate the limits to the check's. `RoundTrip` needs one counting
argument more: distinct HeerIds of one millisecond and node are no more than there are sequences (`FewPeers`), so
a batch that came from HeerIds never overflows.

*Together.* A step of `Library` is a step of one part and a stutter of the others (`Composition`), so the theorems about
the parts hold of the process (`WholeLibrary`).

**Clients.** `RetrySafe` says when another object's row may be met, and needs to know why it is not met otherwise. An
object *uses* an identifier while it holds or sends it, and as long as a row stores it. `UsesGiven`: an
identifier in use is not above its owner's view of the generator (`LastNumber`: the row, or its uncommitted version for
the transaction that has it), unless it was rolled back. A new identifier is above *every* client's view
(`NextIdNew`, from the lock: `HolderOpen`), hence in nobody's use, which keeps `UsesApart`: two objects use one
identifier only if it was rolled back. A number a default is given is new in the same sense, so a row that has it was
stored under an undone one. `Rollback` lowers the view, and puts exactly the identifiers it lowers it by into
`undone`. The other half of `RetrySafe` is `KeptInv`: an object that keeps its identifier sends only that one, so all
its rows are the same row (`StoredOnce`). For `NodeKept`, `SessionInv` relates the setting to the session's history: the setting
is the last choice, and what a rollback restores is the last choice before the transaction.

**Migration.** The five invariants are proved together, since none is inductive without the others. `Inv` adds what they rest on.

- `Phase`: the program is idle, before the `k`-th statement of the migration (`Migrating`), or in an undo
  (`Undoing`). `Turn` gives each statement its place, and `SchemaAt(k)` the schema made by the statements whose
  turn is before `k`, part by part; `SchemaStep` shows that `Altered` leads from `SchemaAt(k)` to `SchemaAt(k + 1)`, and
  so the committed schema of a migration is that of a place before the cutover or after it, never in between.
  An undo takes its statements in any order, so its schema is no `SchemaAt(k)`: `Halfway` keeps what every order
  keeps (keys, names and defaults are the old ones), `UndoStep` shows that each statement leaves one statement less,
  and `UndoneFully` that the first schema is back when none is left. This is `NeverHalfMigrated`. What
  writers meet is `Early` or `Late` and, outside an undo, `Whole`: a CHECK or NOT NULL on the new column only where
  the trigger is, and a trigger only where its columns are.
- A table that the program has filled has no gap: its trigger is in the schema (`FilledWatched`), and a version
  written under the trigger has both columns. Hence the statements that need it so cannot fail (`ScriptSound`).
- `LocksApart`: a table the program holds has no uncommitted version, so a trigger comes or goes, and the
  cutover commits, when every pending version was written under the trigger (`SchemaMoves`, `Moved`).
- `RowsRight`: before the cutover a version's ascending identifier is the one meant, and its descending one, if any, the flip
  of that; after it the descending one is. `ReadsRight`: an identifier in a client's hands may be ascending although the
  cutover is over, never the reverse. A link is then right by the trigger before the cutover and by the foreign key
  after it (`LinkAccepted`): an old identifier is no parent's new one, because raw identifiers of the two
  directions are apart until half of the time range is used up (`Values`, from `MigrationAssumption`).
- `Parented`: a child's parent is committed or in the child's own transaction, and a writer who deletes one
  has deleted its children; `Fresh`: an identifier generated for an insert is nobody else's. They are what `LinksKept`
  needs of the writers' own interleavings.

`WritersUnharmed` compares what the catalog asks with what the same catalog's defaults and trigger provide
(`EarlyVersion`, `LateVersion`). The proof takes no bound: any number of rows, writers, statements and runs.

**Test surface check.** The scanners are recursive functions over a source of any length, and what such a function
computes would be an induction over data, whose theorems in the library take an operator as a parameter and cannot be
used here. A set of numbers is no operator: one that is not empty has a least element (`LeastNumber`, from the well-foundedness of
the numbers), so one that has 0, and with each number the next, has all of them (`Induction`). That is enough.

- *Recursions have a solution.* A function defined by `f[x \in S] == e(f)` is a CHOOSE, and says nothing until some
  function is shown to satisfy it. Each recursion here goes on to a greater position, or to a smaller number. Where it does
  (`Descends`), the solutions up to a bound agree with each other, and their values together are a solution (`Recursion`), so the
  equation may be used.
- *Its value is a reading of the whole source.* What the scanners take for hidden, whatever the language, is said
  without recursion (`Reads`, `RustReads`, `DotnetReads`): comments nest, what is between two single quotes on a line is a literal,
  `ignore` counts anywhere after the first comma of `cfg_attr`, names only at the start of a C# list. The positions at which
  the function gives what this reading says of the rest of the source form a set, and if all later positions are in it,
  so is this one. For the lexer the rest is the pieces from here on (`Reads`), and the end of a piece is found to be the end `HiddenTo` computes: for
  nested comments the scanner's depth is the balance of openers and closers so far; for a quote, a run of backslashes of odd length
  is a backslash that escapes; for an attribute, the first bracket in balance is the one that matches. `MaskIsShown` puts
  the pieces together, and the lemmas named `...FindingsAre` do it per language.
- *Within the limits this reading is the grammar's.* A comment that holds no opener ends for both at the first closer
  (`FlatIsNested`), the last single quote of its line starts no literal (`CodeIsRead`), and so the pieces are the
  same (`PiecesAreRead`); where each `ignore` after the first comma stands at the start of an added attribute, to mention it is to ignore
  (`IgnoreIsMentioned`, `RustIsRead`); where only the first of a list may skip, its first name decides (`ListIsRead`, `DotnetIsRead`).
- *Lines.* The scanners of Python and workflows cut a source into lines, the grammar counts newlines: `LineOf`
  takes every value up to the last line's (`LinesAre`), so a position is on a line (`LineIs`), and the indentation carried from
  line to line in `GateAt` is that of the last opener whose block has not ended (`GateIs`).

`ScanExact` is the outcome. The program around it needs `GateInv`: the findings are those of the texts that were
*read* (`Consistent`), which need not be those on disk any more; what the walk reaches and nobody has touched is among the files, or its
kind is still to be walked (`Collected`); the outcome has its cause (`Concluded`). `SurfaceIsReached` relates
the walk's path rules to `OnSurface`.

What is assumed is `TestSurfaceAssumption`: the sources are those that have a description by the grammar of their language,
so every comment and literal is closed, and that are within the limits of `Within`. Of other sources the theorems say nothing. The conditions of gates (`IsGate`) and the text of a call
(`CallText`, `FirstArgument`) are the scanner's own in the grammar too; they are heuristics with no simpler meaning. For them the
hand-made reading of `MCTestSurface` is the only reference, and the theorem is about lines, blocks and gates.

Model-checked only: liveness (`CallEnds`, `BackfillEnds`, `ScriptEnds`, `StatementsEnd`) and anything with ENABLED, since the
prover has no rules for fairness. `HeerIdsOnce` (a forced reset) and `ReinstallHarmless` are violated, and shown to be by a run.
Every other property of a run is stated by a theorem.
The emission loop is proved as a state machine with a loop invariant, which says more than a recursive function would: the
error in the middle of a batch is a step of it.

## 5. Not modelled, and why

Generators and configuration:

- Isolation other than READ COMMITTED, savepoints and PL/pgSQL EXCEPTION blocks around calls: under
  REPEATABLE READ the locking SELECT fails instead of reading the newest row. READ COMMITTED is what the
  documentation and every client use.
- The 41-bit range of HeerId timestamps (`generate_ids` has no check; reached in 2095).
- `ranj_epoch_offset`, NULL or negative epochs in `heer_configure`; two `heer_configure` at once (the second
  waits for, or fails on, the first's function rows).
- A node deleted and registered again between the two statements of one call and used by another
  session meanwhile: outside `Kept`.
- The T-SQL generators: they are in a submodule that is not in the repository. The T-SQL flips are
  the PostgreSQL ones.
- The no-argument `heerid_next_desc` and `ranjid_next_desc`: one call of a generator and a flip. Django's
  descending fields call `heerid_next_desc(%s)`, which the SQL does not define.

Backfill and migration:

- Writers with `session_replication_role = replica` that bypass the trigger: the playbook excludes them.
- Several column pairs in one trigger (they do not interact); names of triggers beyond 63 bytes, which
  PostgreSQL cuts; the playbook's reverse migration and partitioned tables, which are no programs here.
- Django's operations that rewrite a key column or flip its direction. They hold no lock before
  their first ALTER TABLE, so rows inserted between the read and the lock have no converted key and the
  new primary key refuses the whole migration; after it, it is one DDL transaction. The direction flip CALLs the
  backfill procedure, which commits, from an atomic migration (operations.py:456-459).

Library:

- Wires carry no direction: a `HeerIdDesc` that is read as a `HeerId` is not noticed, in the code as in
  `Wire`, where the reader then has the fields its own type gives.
- `RanjIdDesc::ZERO` turned around, which panics; wording and buffers' lengths in `heeranjid-ffi`, where a buffer of one
  byte gives 0 like "no error"; the truncation of its decoded microseconds to 64 bits; `try_generation_precision`,
  which reads the environment and does not fill the cell; a database's `ranj_precision` and a process's
  `RANJID_PRECISION`, which nothing compares.
- The .NET types, which repeat the Rust ones.

Clients:

- Nested writes and upserts of the Prisma extension, which inject in the same way; reading the epoch at startup;
  deleting a node (`Generator` has it). `set_ranj_node_id` on a pool and Prisma's `setNodeId` choose the node of whichever
  connection they get; `Clients` models one session per client.

Test surface check. Outside these limits (`Within`) the scanners differ from the languages, or may, and no run or theorem
says anything of such sources:

- Rust: another single quote after a lifetime on its line, of a lifetime or a character (`RustPieceWithin`; what is between them is
  taken for a literal); `ignore` in what `cfg_attr` adds that is not an attribute of its own, as in an inner
  `cfg_attr` (`AttributeWithin`); a space between `#` and `!` (`RustTextWithin`).
- TypeScript and C#: an opener in a block comment, where the lexer nests; a word that ends in `b`, `c` or `r` right before a
  literal, which the lexer takes for a prefix of Rust (`PlainPiece`).
- TypeScript: a slash that divides or starts a regular expression, `${` in a template (`TypeScriptPieceWithin`); a chain that goes on
  with an index, type arguments, `!` or `?` (`TypeScriptTextWithin`).
- C#: directives of the preprocessor, verbatim, interpolated and raw strings (`DotnetPieceWithin`); an attribute that
  may skip after the first of its list, with a namespace, a target or the suffix Attribute, or a word `Skip` that is no
  argument (`ListWithin`).
- Python and workflows: quotes, so that a `#` starts a comment (`"#"; pytest.skip(`, of which check_test_surface.rs:786-789 says
  that it cannot occur); an `if` in brackets, and a gate opener in a comment, which line 510 looks for (`PythonTextWithin`).

Nor does a source with an unclosed comment or literal, or a line that a backslash continues, have a description. Names mean what the gate
takes them for: `it` a runner, `Fact` the attribute of xUnit. Of Python's gates and calls, which the grammar
reads as the gate does (section 4), the hand-made sources leave out calls that go on for more than ten lines, `not (x is None)` with
other spacing (745-767) and `x is None or other`, which is taken for a gate; an outdented comment that ends a gate makes its
lines `doubtful`. Of the walk, a missing root that is passed over (101) and a directory named `target` inside `src` (13, 253)
are left out.

Build, CI and benches have no behaviour of the running system.

## 6. What is left

1. Django's key conversion and direction flip over `Migration`'s catalog and locks.
2. `Clients` over sessions of a pool, where the node is chosen on one connection and used on another.
3. An independent meaning of Python's gate conditions and calls, instead of the scanner's own.
4. The SQL Server generators, when their source is in the repository: a refinement of `IdAllocator` like `Generator`'s.
