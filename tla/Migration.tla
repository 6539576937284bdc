----------------------------- MODULE Migration -----------------------------
(***************************************************************************)
(* Moving live tables from ascending to descending keys: the migration     *)
(* programs migrate_asc_to_desc.rs (one table) and                         *)
(* migrate_asc_to_desc_with_fk.rs (a parent and a child that refers to     *)
(* it), with an undo before the point of no return, against transactions   *)
(* of an application that knows nothing of the migration.                  *)
(*                                                                         *)
(* A program is a sequence of statements.  Each is sent (Send), waits for  *)
(* its table locks (Lock) and takes effect (Execute, or Fill for the       *)
(* backfill, whose batches are the module Backfill's).  Outside a          *)
(* transaction it changes the catalog and releases its locks at once;      *)
(* between begin and commit it changes the draft and keeps them.           *)
(***************************************************************************)
EXTENDS Autofill, Sequences, FiniteSets

CONSTANTS
  MaxIds,         \* bound on the generated parent identifiers
  Children,       \* places in the child table
  Writers,        \* sessions of the application
  MaxStatements,  \* bound on the statements of a transaction
  MaxRuns,        \* bound on the migrations and undos that are started
  Migrator,       \* the migration program, as one who waits
  NoOne,          \* no owner
  Absent,         \* no row here
  Same            \* the row is as committed

ASSUME MigrationAssumption ==
  /\ MaxIds \in Nat \ {0}
  \* Raw ascending and descending identifiers meet when half of the time range is used up.
  /\ IdBound = 2 * MaxIds
  /\ MaxStatements \in Nat \ {0}
  /\ MaxRuns \in Nat \ {0}
  /\ NoOne \notin Writers
  /\ Migrator \notin Writers

Parents == 0 .. MaxIds - 1
Places == Parents \cup Children
Tables == {"parent", "child"}
TableOf(p) == IF p \in Children THEN "child" ELSE "parent"
PlacesOf(t) == IF t = "child" THEN Children ELSE Parents

(* A row of parent k has the identifier k in src; a child refers to a parent in src.  dst is   *)
(* the descending sibling.  meant is the parent whose identifier the writer of the row had.     *)
Version == [meant : Parents, src : Column, dst : Column]

ASSUME PlacesAssumption ==
  /\ Children \cap Parents = {}
  /\ {Absent, Same} \cap Version = {} /\ Absent # Same

VARIABLES
  script,     \* which program migrates
  todo,       \* its statements left
  sent,       \* whether the first of them has been sent
  held,       \* the tables it has locked against everyone
  inTx,       \* whether it is between begin and commit
  catalog,    \* the committed schema
  draft,      \* the schema as the program's transaction left it
  ended,      \* how the last program ended
  runs,       \* programs started
  row,        \* the committed version of each row
  owner,      \* the writer who has changed a row and not committed
  pend,       \* the owner's version
  nextId,     \* identifiers generated
  known,      \* a parent's identifier that a writer has read before
  stmt,       \* the statement a writer has sent
  has,        \* the tables a writer's transaction has locked for writing
  count       \* the statements of a writer's transaction so far

scriptVars == <<script, todo, sent, held, inTx, catalog, draft, ended, runs>>
tableVars == <<row, owner, pend, nextId>>
writerVars == <<known, stmt, has, count>>
vars == <<script, todo, sent, held, inTx, catalog, draft, ended, runs,
          row, owner, pend, nextId, known, stmt, has, count>>

-----------------------------------------------------------------------------
(* The programs. *)

Op(op, t) == [op |-> op, table |-> t]
Both(op) == <<Op(op, "parent"), Op(op, "child")>>

PrepareTable == <<Op("add_column", "parent"), Op("install_trigger", "parent")>>
\* Mutant of PrepareFamily: the child gets no trigger.
ParentTriggerOnly == Both("add_column") \o <<Op("install_trigger", "parent")>>

PrepareFamily == Both("add_column") \o Both("install_trigger")

BackfillTable == <<Op("backfill", "parent"), Op("assert_filled", "parent")>>
BackfillFamily == Both("backfill") \o Both("assert_filled")

NotNull(t) ==
  <<Op("add_check", t), Op("validate_check", t), Op("set_not_null", t), Op("drop_check", t)>>

TightenTable == <<Op("create_index", "parent")>> \o NotNull("parent")
TightenFamily == <<Op("create_index", "parent")>> \o NotNull("parent") \o NotNull("child")

\* Mutant of CutOverTable: each statement commits on its own.
NotAtomic ==
  <<Op("drop_key", "parent"), Op("promote_index", "parent"), Op("set_default", "parent"),
    Op("drop_default", "parent"), Op("drop_source", "parent"), Op("drop_trigger", "parent"),
    Op("rename", "parent")>>

CutOverTable ==
  <<Op("begin", "parent"), Op("drop_key", "parent"), Op("promote_index", "parent"),
    Op("set_default", "parent"), Op("drop_default", "parent"), Op("drop_source", "parent"),
    Op("drop_trigger", "parent"), Op("rename", "parent"), Op("commit", "parent")>>

\* Mutant of CutOverFamily: the new foreign key is left to phase 5.
ForeignKeyLater ==
  <<Op("begin", "parent"), Op("drop_foreign_key", "child"), Op("drop_key", "parent"),
    Op("promote_index", "parent"), Op("set_default", "parent"), Op("drop_default", "parent"),
    Op("drop_source", "child"), Op("drop_source", "parent")>>
  \o Both("drop_trigger") \o Both("rename")
  \o <<Op("commit", "parent"), Op("add_foreign_key", "child")>>

CutOverFamily ==
  <<Op("begin", "parent"), Op("drop_foreign_key", "child"), Op("drop_key", "parent"),
    Op("promote_index", "parent"), Op("set_default", "parent"), Op("drop_default", "parent"),
    Op("add_foreign_key", "child"), Op("drop_source", "child"), Op("drop_source", "parent")>>
  \o Both("drop_trigger") \o Both("rename") \o <<Op("commit", "parent")>>

ChecksTable == <<Op("assert_newest_first", "parent"), Op("assert_columns", "parent")>>
ChecksFamily ==
  <<Op("validate_foreign_key", "child"), Op("assert_no_orphans", "child"),
    Op("assert_newest_first", "parent")>> \o Both("assert_columns")

Migrate ==
  IF script = "single"
  THEN PrepareTable \o BackfillTable \o TightenTable \o CutOverTable \o ChecksTable
  ELSE PrepareFamily \o BackfillFamily \o TightenFamily \o CutOverFamily \o ChecksFamily

-----------------------------------------------------------------------------
(* The schema and what the statements do to it. *)

StartCatalog(s) ==
  [columns  |-> [t \in Tables |-> {"src"}],
   named    |-> [t \in Tables |-> "src"],     \* the column that bears the application's name
   notNull  |-> [t \in Tables |-> {"src"}],
   check    |-> {},                           \* tables with CHECK (dst IS NOT NULL)
   trigger  |-> {},
   defaults |-> {"src"},                      \* columns of parent with a generating default
   key      |-> "src",                        \* the primary key of parent
   index    |-> FALSE,                        \* the unique index on dst of parent
   fk       |-> IF s = "single" THEN "none" ELSE "src"]

Altered(c, s) ==
  LET t == s.table IN
  CASE s.op = "add_column"       -> [c EXCEPT !.columns[t] = @ \cup {"dst"}]
    [] s.op = "install_trigger"  -> [c EXCEPT !.trigger = @ \cup {t}]
    [] s.op = "create_index"     -> [c EXCEPT !.index = TRUE]
    [] s.op = "add_check"        -> [c EXCEPT !.check = @ \cup {t}]
    [] s.op = "set_not_null"     -> [c EXCEPT !.notNull[t] = @ \cup {"dst"}]
    [] s.op = "drop_check"       -> [c EXCEPT !.check = @ \ {t}]
    [] s.op = "drop_foreign_key" -> [c EXCEPT !.fk = "none"]
    [] s.op = "drop_key"         -> [c EXCEPT !.key = "none"]
    [] s.op = "promote_index"    -> [c EXCEPT !.key = "dst", !.index = FALSE]
    [] s.op = "set_default"      -> [c EXCEPT !.defaults = @ \cup {"dst"}]
    [] s.op = "drop_default"     -> [c EXCEPT !.defaults = @ \ {"src"}]
    [] s.op = "add_foreign_key"  -> [c EXCEPT !.fk = "dst"]
    [] s.op = "drop_source"      -> [c EXCEPT !.columns[t] = @ \ {"src"}, !.notNull[t] = @ \ {"src"}]
    [] s.op = "drop_trigger"     -> [c EXCEPT !.trigger = @ \ {t}]
    [] s.op = "rename"           -> [c EXCEPT !.named[t] = "dst"]
    [] s.op = "drop_sibling"     -> [c EXCEPT !.columns[t] = @ \ {"dst"}, !.notNull[t] = @ \ {"dst"},
                                              !.check = @ \ {t},
                                              !.index = IF t = "parent" THEN FALSE ELSE @]
    [] OTHER                     -> c

\* Mutant of UndoLeft: the triggers stay.
ColumnsLeft(c) == {Op("drop_sibling", t) : t \in {t \in Tables : "dst" \in c.columns[t]}}

\* Before the cutover a migration is undone by dropping the descending columns, and the triggers
\* by calls of drop_autofill_trigger_for_table.  The playbook gives no order and no transaction.
UndoLeft(c) ==
  {Op("drop_sibling", t) : t \in {t \in Tables : "dst" \in c.columns[t]}}
    \cup {Op("drop_trigger", t) : t \in c.trigger}

\* The undo goes on with any of the statements left, and has ended when there is none.
Undo(c) == IF UndoLeft(c) = {} THEN {<<>>} ELSE {<<s>> : s \in UndoLeft(c)}

Present(t) == {p \in PlacesOf(t) : row[p] # Absent}
GapsOf(t) == {p \in Present(t) : row[p].dst = Null}

\* ORDER BY id gives the rows of parent in reverse order of generation.
NewestFirst == \A k, l \in Present("parent") : k < l => row[l].dst < row[k].dst

Resolves(column, c) == \E k \in Present("parent") : row[k][column] = row[c][column]

\* Whether a statement of the program raises an error, or an assertion of it panics.
Impossible(c, s) ==
  LET t == s.table IN
  \/ s.op \in {"assert_filled", "validate_check", "set_not_null"} /\ GapsOf(t) # {}
  \/ s.op = "drop_key" /\ c.fk = c.key
  \/ s.op = "promote_index" /\ (~c.index \/ c.key # "none" \/ GapsOf("parent") # {})
  \/ s.op = "add_foreign_key" /\ c.key # "dst"
  \/ s.op = "drop_source" /\ c.fk = "src"
  \/ s.op = "rename" /\ "src" \in c.columns[t]
  \/ s.op \in {"validate_foreign_key", "assert_no_orphans"} /\ \E r \in Present("child") : ~Resolves("dst", r)
  \/ s.op = "assert_newest_first" /\ ~NewestFirst
  \/ s.op = "assert_columns" /\ c.columns[t] # {"dst"}

\* The tables a statement locks against writers, in the order in which it locks them.
LocksOf(s) ==
  CASE s.op \in {"begin", "commit", "backfill", "create_index", "validate_check", "validate_foreign_key",
                 "assert_filled", "assert_no_orphans", "assert_newest_first", "assert_columns"} -> <<>>
    [] s.op \in {"drop_foreign_key", "add_foreign_key"} -> <<"child", "parent">>
    [] OTHER -> <<s.table>>

-----------------------------------------------------------------------------
(* Who waits for whom. *)

Running == todo # <<>>
Statement == Head(todo)

\* Tables are locked in order: the next one to lock, if any is missing.
Missing(tables, locked) ==
  {tables[i] : i \in {i \in DOMAIN tables :
                        tables[i] \notin locked /\ \A j \in 1 .. i - 1 : tables[j] \in locked}}

LocksLeft == Missing(LocksOf(Statement), held)

\* The table the program waits for: writers that come later queue behind it.
ScriptWants == IF Running /\ sent THEN LocksLeft ELSE {}

NoStatement == [op |-> "none", place |-> NoOne, meant |-> 0, value |-> Null]

\* A child's statement checks its foreign key in parent, the delete of a parent looks for children.
TablesOf(s) ==
  CASE s.op = "none" -> <<>>
    [] s.op = "insert" -> <<"parent">>
    [] s.op = "delete" /\ TableOf(s.place) = "child" -> <<"child">>
    [] OTHER -> IF script = "single" THEN <<"parent">>
                ELSE IF TableOf(s.place) = "child" THEN <<"child", "parent">> ELSE <<"parent", "child">>

WriterWants(w) == Missing(TablesOf(stmt[w]), has[w])

Others(w) == {p \in Places : owner[p] \notin {w, NoOne}}

\* The rows with another writer's uncommitted version that a statement has to wait for.
RowsInTheWay(w) ==
  LET s == stmt[w] IN
  {p \in Others(w) : \/ p = s.place
                     \/ s.op = "link" /\ p = s.meant
                     \/ s.op = "delete" /\ pend[p] # Absent /\ p \in Children /\ pend[p].meant = s.place}

WaitsFor(a) ==
  IF a \in Writers
  THEN {owner[p] : p \in IF stmt[a].op # "none" /\ WriterWants(a) = {} THEN RowsInTheWay(a) ELSE {}}
       \cup (IF WriterWants(a) \cap (held \cup ScriptWants) # {} THEN {Migrator} ELSE {})
  ELSE {w \in Writers : ScriptWants \cap has[w] # {}}

\* Mutant of OnCycle: deadlocks are not detected.
NeverOnCycle(a) == FALSE

\* Of three agents, those that wait for, and are waited for by, members of one set are on a cycle.
OnCycle(a) ==
  \E cycle \in SUBSET (Writers \cup {Migrator}) :
    /\ a \in cycle
    /\ \A b \in cycle : WaitsFor(b) \cap cycle # {} /\ \E d \in cycle : b \in WaitsFor(d)

-----------------------------------------------------------------------------
(* The migration program. *)

Start ==
  /\ ~Running
  /\ runs < MaxRuns
  /\ \/ ended \in {"never", "undone"}
        /\ todo' = Migrate
        /\ ended' = "running"
     \/ ended \in {"failed", "cut short"}
        /\ catalog.named["parent"] = "src"
        /\ todo' \in Undo(catalog)
        /\ ended' = IF todo' = <<>> THEN "undone" ELSE "undoing"
  /\ runs' = runs + 1
  /\ UNCHANGED <<script, sent, held, inTx, catalog, draft, tableVars, writerVars>>

Send ==
  /\ Running
  /\ ~sent
  /\ LocksLeft # {}
  /\ sent' = TRUE
  /\ UNCHANGED <<script, todo, held, inTx, catalog, draft, ended, runs, tableVars, writerVars>>

Lock ==
  \E t \in ScriptWants :
    /\ \A w \in Writers : t \notin has[w]
    /\ held' = held \cup {t}
    /\ UNCHANGED <<script, todo, sent, inTx, catalog, draft, ended, runs, tableVars, writerVars>>

Ready == Running /\ LocksLeft = {}

\* A migration that ends with an error can be undone, and an undo that does started again.
Broken == IF ended = "undoing" THEN "cut short" ELSE "failed"

\* Mutant of Fail: the session is left open in its transaction.
FailOpen ==
  /\ todo' = <<>>
  /\ sent' = FALSE
  /\ held' = held
  /\ inTx' = FALSE
  /\ draft' = catalog
  /\ ended' = Broken
  /\ UNCHANGED <<script, catalog, runs, tableVars, writerVars>>

\* Mutant of Fail: the schema changes of the transaction survive it.
FailKeeping ==
  /\ todo' = <<>>
  /\ sent' = FALSE
  /\ held' = {}
  /\ inTx' = FALSE
  /\ draft' = draft
  /\ ended' = Broken
  /\ UNCHANGED <<script, catalog, runs, tableVars, writerVars>>

\* The program ends with an error: its transaction is rolled back, its locks are released.
Fail ==
  /\ todo' = <<>>
  /\ sent' = FALSE
  /\ held' = {}
  /\ inTx' = FALSE
  /\ draft' = catalog
  /\ ended' = Broken
  /\ UNCHANGED <<script, catalog, runs, tableVars, writerVars>>

\* The backfill fills a row that no writer holds.
Fill ==
  /\ Ready
  /\ Statement.op = "backfill"
  /\ \E p \in GapsOf(Statement.table) :
       /\ owner[p] = NoOne
       /\ row' = [row EXCEPT ![p] = Refilled(@)]
  /\ UNCHANGED <<scriptVars, owner, pend, nextId, writerVars>>

FillTimesOut ==
  /\ Ready
  /\ Statement.op = "backfill"
  /\ \E p \in GapsOf(Statement.table) : owner[p] # NoOne
  /\ Fail

\* A row under the schema c: a column that is gone takes its values with it.
Dropped(c, p) ==
  IF row[p] # Absent /\ "dst" \notin c.columns[TableOf(p)] THEN [row[p] EXCEPT !.dst = Null] ELSE row[p]

Execute ==
  /\ Ready
  /\ Statement.op = "backfill" => GapsOf(Statement.table) = {}
  /\ ~Impossible(draft, Statement)
  /\ inTx' = CASE Statement.op = "begin" -> TRUE [] Statement.op = "commit" -> FALSE [] OTHER -> inTx
  /\ draft' = Altered(draft, Statement)
  /\ catalog' = IF inTx' THEN catalog ELSE draft'
  /\ held' = IF inTx' THEN held ELSE {}
  /\ row' = [p \in Places |-> Dropped(catalog', p)]
  /\ IF ended = "undoing" THEN todo' \in Undo(draft') ELSE todo' = Tail(todo)
  /\ sent' = FALSE
  /\ ended' = IF todo' # <<>> THEN ended ELSE IF ended = "undoing" THEN "undone" ELSE "done"
  /\ UNCHANGED <<script, runs, owner, pend, nextId, writerVars>>

\* The program is killed, loses its connection, or ends with the error of a statement.
Lost == Running /\ Fail

ScriptVictim == OnCycle(Migrator) /\ Fail

-----------------------------------------------------------------------------
(* Writers. *)

Seen(w, p) == IF owner[p] = w /\ pend[p] # Same THEN pend[p] ELSE row[p]

\* A client learns a parent's identifier, as it is named now, and may use it much later.
Look(w, k) ==
  /\ row[k] # Absent
  /\ stmt[w] = NoStatement
  /\ "parent" \notin held
  /\ known' = [known EXCEPT ![w] = {[meant |-> k, value |-> row[k][catalog.named["parent"]]]}]
  /\ UNCHANGED <<scriptVars, tableVars, stmt, has, count>>

Asked(w, s) ==
  /\ stmt[w] = NoStatement
  /\ count[w] < MaxStatements
  /\ stmt' = [stmt EXCEPT ![w] = s]
  /\ count' = [count EXCEPT ![w] = @ + 1]
  /\ known' = [known EXCEPT ![w] = {}]
  /\ UNCHANGED <<scriptVars, row, owner, pend, has>>

AskInsertParent(w) ==
  /\ nextId < MaxIds
  /\ nextId' = nextId + 1
  /\ Asked(w, [op |-> "insert", place |-> nextId, meant |-> nextId, value |-> Null])

AskDelete(w, p) ==
  /\ Seen(w, p) # Absent
  /\ UNCHANGED nextId
  /\ Asked(w, [op |-> "delete", place |-> p, meant |-> Seen(w, p).meant, value |-> Null])

\* A child is inserted, or moved if it exists by then, with an identifier the client has read.
AskLink(w, c) ==
  /\ script = "with_fk"
  /\ UNCHANGED nextId
  /\ \E k \in known[w] :
       Asked(w, [op |-> "link", place |-> c, meant |-> k.meant, value |-> k.value])

\* The versions a statement writes: defaults or the given value, then the trigger.
Triggered(t, old, new) ==
  IF t \notin catalog.trigger THEN new ELSE IF old = Absent THEN OnInsert(new) ELSE OnUpdate(old, new)

NewParent(k) ==
  [meant |-> k,
   src |-> IF "src" \in catalog.defaults THEN k ELSE Null,
   dst |-> IF "dst" \in catalog.defaults THEN Flip(k) ELSE Null]

Linked(old, s) ==
  LET base == IF old = Absent THEN [meant |-> s.meant, src |-> Null, dst |-> Null] ELSE old
  IN [base EXCEPT !.meant = s.meant, ![catalog.named["child"]] = s.value]

Written(w) ==
  LET s == stmt[w]
      old == Seen(w, s.place)
  IN CASE s.op = "delete" -> Absent
       [] s.op = "insert" -> Triggered("parent", Absent, NewParent(s.place))
       [] s.op = "link"   -> Triggered("child", old, Linked(old, s))

\* Constraints a new version has to meet; a trigger without its columns raises an error.
Accepted(w, version) ==
  LET t == TableOf(stmt[w].place) IN
  /\ t \in catalog.trigger => catalog.columns[t] = {"src", "dst"}
  /\ \A column \in catalog.notNull[t] : version[column] # Null
  /\ t \in catalog.check => version.dst # Null
  /\ t = "child" /\ catalog.fk # "none" =>
       \E k \in Parents : Seen(w, k) # Absent /\ Seen(w, k)[catalog.fk] = version[catalog.fk]
  /\ t = "parent" => /\ catalog.key # "none"
                     /\ \A k \in Parents \ {stmt[w].place} :
                          row[k] # Absent => row[k][catalog.key] # version[catalog.key]

Unreferenced(w, k) ==
  Seen(w, k) # Absent /\ catalog.fk # "none" =>
    \A c \in Children : Seen(w, c) # Absent => Seen(w, c)[catalog.fk] # Seen(w, k)[catalog.fk]

Allowed(w) ==
  IF stmt[w].op = "delete"
  THEN stmt[w].place \in Parents => Unreferenced(w, stmt[w].place)
  ELSE Accepted(w, Written(w))

LockTable(w) ==
  \E t \in WriterWants(w) :
    /\ t \notin held \cup ScriptWants
    /\ has' = [has EXCEPT ![w] = @ \cup {t}]
    /\ UNCHANGED <<scriptVars, tableVars, known, stmt, count>>

Able(w) == stmt[w] # NoStatement /\ WriterWants(w) = {} /\ RowsInTheWay(w) = {}

Apply(w) ==
  /\ Able(w)
  /\ Allowed(w)
  /\ owner' = [owner EXCEPT ![stmt[w].place] = w]
  /\ pend' = [pend EXCEPT ![stmt[w].place] = Written(w)]
  /\ stmt' = [stmt EXCEPT ![w] = NoStatement]
  /\ UNCHANGED <<scriptVars, row, nextId, known, has, count>>

Release(w) ==
  /\ owner' = [p \in Places |-> IF owner[p] = w THEN NoOne ELSE owner[p]]
  /\ pend' = [p \in Places |-> IF owner[p] = w THEN Same ELSE pend[p]]
  /\ stmt' = [stmt EXCEPT ![w] = NoStatement]
  /\ has' = [has EXCEPT ![w] = {}]
  /\ count' = [count EXCEPT ![w] = 0]
  /\ UNCHANGED <<scriptVars, nextId, known>>

\* An error ends the transaction.
Reject(w) ==
  /\ Able(w)
  /\ ~Allowed(w)
  /\ Release(w)
  /\ UNCHANGED row

Open(w) == count[w] > 0 /\ stmt[w] = NoStatement

Commit(w) ==
  /\ Open(w)
  /\ row' = [p \in Places |-> IF owner[p] = w THEN pend[p] ELSE row[p]]
  /\ Release(w)

Rollback(w) ==
  /\ Open(w)
  /\ Release(w)
  /\ UNCHANGED row

WriterVictim(w) ==
  /\ OnCycle(w)
  /\ Release(w)
  /\ UNCHANGED row

-----------------------------------------------------------------------------
\* Any rows of before the migration; children refer to parents.
Init ==
  /\ script \in {"single", "with_fk"}
  /\ todo = <<>>
  /\ sent = FALSE
  /\ held = {}
  /\ inTx = FALSE
  /\ catalog = StartCatalog(script)
  /\ draft = catalog
  /\ ended = "never"
  /\ runs = 0
  /\ nextId \in Parents
  /\ row \in [Places -> {Absent} \cup [meant : Parents, src : Parents, dst : {Null}]]
  /\ \A p \in Places : row[p] # Absent =>
       /\ row[p].src = row[p].meant
       /\ IF p \in Parents THEN row[p].src = p /\ p < nextId
                            ELSE script = "with_fk" /\ row[row[p].meant] # Absent
  /\ owner = [p \in Places |-> NoOne]
  /\ pend = [p \in Places |-> Same]
  /\ known = [w \in Writers |-> {}]
  /\ stmt = [w \in Writers |-> NoStatement]
  /\ has = [w \in Writers |-> {}]
  /\ count = [w \in Writers |-> 0]

ScriptNext == Start \/ Send \/ Lock \/ Fill \/ FillTimesOut \/ Execute \/ Lost \/ ScriptVictim

WriterNext(w) ==
  \/ \E k \in Parents : Look(w, k)
  \/ AskInsertParent(w)
  \/ \E p \in Places : AskDelete(w, p)
  \/ \E c \in Children : AskLink(w, c)
  \/ LockTable(w)
  \/ Apply(w)
  \/ Reject(w)
  \/ Commit(w)
  \/ Rollback(w)
  \/ WriterVictim(w)

Next == ScriptNext \/ \E w \in Writers : WriterNext(w)

Spec == Init /\ [][Next]_vars

\* Both sides go on and end their transactions, a lock that is free again and again is granted,
\* and the deadlock detector runs.  The programs set no lock_timeout: a writer that never ends
\* its transaction stops the migration.
FairSpec ==
  /\ Spec
  /\ SF_vars(Send \/ Lock \/ Fill \/ Execute)
  /\ WF_vars(FillTimesOut)
  /\ WF_vars(ScriptVictim \/ \E w \in Writers : WriterVictim(w))
  /\ \A w \in Writers : SF_vars(LockTable(w) \/ Apply(w) \/ Reject(w)) /\ WF_vars(Commit(w))

-----------------------------------------------------------------------------
(* Properties. *)

Catalog ==
  [columns : [Tables -> SUBSET {"src", "dst"}], named : [Tables -> {"src", "dst"}],
   notNull : [Tables -> SUBSET {"src", "dst"}], check : SUBSET Tables, trigger : SUBSET Tables,
   defaults : SUBSET {"src", "dst"}, key : {"src", "dst", "none"}, index : BOOLEAN,
   fk : {"src", "dst", "none"}]

TypeOK ==
  /\ sent \in BOOLEAN /\ inTx \in BOOLEAN
  /\ held \subseteq Tables
  /\ ~inTx => draft = catalog
  /\ {catalog, draft} \subseteq Catalog
  /\ ended \in {"never", "running", "done", "failed", "undoing", "cut short", "undone"}
  /\ runs \in 0 .. MaxRuns
  /\ row \in [Places -> Version \cup {Absent}]
  /\ owner \in [Places -> Writers \cup {NoOne}]
  /\ pend \in [Places -> Version \cup {Absent, Same}]
  /\ nextId \in 0 .. MaxIds
  /\ has \in [Writers -> SUBSET Tables]
  /\ count \in [Writers -> 0 .. MaxStatements]

\* A child always refers, in the columns the application sees, to the parent whose identifier
\* its writer had read, also when that was before the cutover and the write after it.
LinksKept ==
  \A c \in Present("child") :
    /\ row[row[c].meant] # Absent
    /\ row[c][catalog.named["child"]] = row[row[c].meant][catalog.named["parent"]]

\* Between the first and the last statement of an undo.
HalfUndone == ended \in {"undoing", "cut short"}

\* Whenever a transaction of the application can see the schema, it is one in which parent has a
\* primary key, a default and, with a child, a foreign key on the columns it names; a trigger
\* without its columns is seen in an undo at most.
NeverHalfMigrated ==
  /\ catalog.key = catalog.named["parent"]
  /\ catalog.defaults = {catalog.named["parent"]}
  /\ script = "with_fk" => catalog.fk = catalog.key /\ catalog.named["child"] = catalog.named["parent"]
  /\ ~HalfUndone => \A t \in catalog.trigger : catalog.columns[t] = {"src", "dst"}

\* The parent's identifier a statement uses is the one the application sees now.
Current(w) ==
  LET s == stmt[w] IN
  s.place \in Children => /\ Seen(w, s.meant) # Absent
                          /\ Seen(w, s.meant)[catalog.named["parent"]] = s.value

\* What an undo may leave of a table: a trigger that has lost its column, or a column that has to
\* be filled and has lost its trigger.
Lame(t) ==
  IF t \in catalog.trigger
  THEN "dst" \notin catalog.columns[t]
  ELSE t \in catalog.check \/ "dst" \in catalog.notNull[t]

\* An insert or a link that has its locks does not fail, if the identifier in it is not one from
\* before the cutover and the parent is still there: not at any step of a migration, wherever
\* it is lost, and during an undo only in a table that the undo has left lame.  (A statement
\* that is chosen as a deadlock victim never gets its locks.)
WritersUnharmed ==
  \A w \in Writers :
    Able(w) /\ stmt[w].op # "delete" /\ Current(w) =>
      Allowed(w) \/ (HalfUndone /\ Lame(TableOf(stmt[w].place)))

\* The statements and assertions of the programs never fail of themselves, wherever an earlier
\* run was lost or was chosen as a deadlock victim.
ScriptSound == Ready => ~Impossible(draft, Statement)

\* A migration or undo ends, though transactions wait for it and it waits for them.
ScriptEnds == Running ~> ~Running

\* Every statement of the application ends.
StatementsEnd == \A w \in Writers : stmt[w] # NoStatement ~> stmt[w] = NoStatement
=============================================================================
