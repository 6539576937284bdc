-------------------------- MODULE MigrationProofs ---------------------------
(***************************************************************************)
(* What the migration programs and the application may rely on, for any    *)
(* tables, rows, writers and runs.                                         *)
(***************************************************************************)
EXTENDS Migration, TLAPS

-----------------------------------------------------------------------------
(* The program by the statements it has passed. *)

\* The turn of each statement in Migrate; Never for those that the program does not have.
Never == 99
Turn(op, t) ==
  IF script = "single"
  THEN IF t # "parent" THEN Never
       ELSE CASE op = "add_column"          -> 1
              [] op = "install_trigger"     -> 2
              [] op = "backfill"            -> 3
              [] op = "assert_filled"       -> 4
              [] op = "create_index"        -> 5
              [] op = "add_check"           -> 6
              [] op = "validate_check"      -> 7
              [] op = "set_not_null"        -> 8
              [] op = "drop_check"          -> 9
              [] op = "begin"               -> 10
              [] op = "drop_key"            -> 11
              [] op = "promote_index"       -> 12
              [] op = "set_default"         -> 13
              [] op = "drop_default"        -> 14
              [] op = "drop_source"         -> 15
              [] op = "drop_trigger"        -> 16
              [] op = "rename"              -> 17
              [] op = "commit"              -> 18
              [] op = "assert_newest_first" -> 19
              [] op = "assert_columns"      -> 20
              [] OTHER                      -> Never
  ELSE IF t = "parent"
  THEN CASE op = "add_column"          -> 1
         [] op = "install_trigger"     -> 3
         [] op = "backfill"            -> 5
         [] op = "assert_filled"       -> 7
         [] op = "create_index"        -> 9
         [] op = "add_check"           -> 10
         [] op = "validate_check"      -> 11
         [] op = "set_not_null"        -> 12
         [] op = "drop_check"          -> 13
         [] op = "begin"               -> 18
         [] op = "drop_key"            -> 20
         [] op = "promote_index"       -> 21
         [] op = "set_default"         -> 22
         [] op = "drop_default"        -> 23
         [] op = "drop_source"         -> 26
         [] op = "drop_trigger"        -> 27
         [] op = "rename"              -> 29
         [] op = "commit"              -> 31
         [] op = "assert_newest_first" -> 34
         [] op = "assert_columns"      -> 35
         [] OTHER                      -> Never
  ELSE CASE op = "add_column"           -> 2
         [] op = "install_trigger"      -> 4
         [] op = "backfill"             -> 6
         [] op = "assert_filled"        -> 8
         [] op = "add_check"            -> 14
         [] op = "validate_check"       -> 15
         [] op = "set_not_null"         -> 16
         [] op = "drop_check"           -> 17
         [] op = "drop_foreign_key"     -> 19
         [] op = "add_foreign_key"      -> 24
         [] op = "drop_source"          -> 25
         [] op = "drop_trigger"         -> 28
         [] op = "rename"               -> 30
         [] op = "validate_foreign_key" -> 32
         [] op = "assert_no_orphans"    -> 33
         [] op = "assert_columns"       -> 36
         [] OTHER                       -> Never

Past(k, op, t) == Turn(op, t) < k

\* Tables of which a set of statements has been passed.
Since(k, op) == {t \in Tables : Past(k, op, t)}

\* The schema that the program has made before its k-th statement, part by part.
Columns(k) == [t \in Tables |-> (IF Past(k, "drop_source", t) THEN {} ELSE {"src"})
                                \cup (IF Past(k, "add_column", t) THEN {"dst"} ELSE {})]
Named(k) == [t \in Tables |-> IF Past(k, "rename", t) THEN "dst" ELSE "src"]
Required(k) == [t \in Tables |-> (IF Past(k, "drop_source", t) THEN {} ELSE {"src"})
                                 \cup (IF Past(k, "set_not_null", t) THEN {"dst"} ELSE {})]
Checked(k) == Since(k, "add_check") \ Since(k, "drop_check")
Watched(k) == Since(k, "install_trigger") \ Since(k, "drop_trigger")
Generated(k) == (IF Past(k, "drop_default", "parent") THEN {} ELSE {"src"})
                \cup (IF Past(k, "set_default", "parent") THEN {"dst"} ELSE {})
Key(k) == IF Past(k, "promote_index", "parent") THEN "dst"
          ELSE IF Past(k, "drop_key", "parent") THEN "none" ELSE "src"
Indexed(k) == Past(k, "create_index", "parent") /\ ~Past(k, "promote_index", "parent")
Reference(k) == IF Past(k, "add_foreign_key", "child") THEN "dst"
                ELSE IF Past(k, "drop_foreign_key", "child") \/ script = "single" THEN "none" ELSE "src"

SchemaAt(k) ==
  [columns |-> Columns(k), named |-> Named(k), notNull |-> Required(k), check |-> Checked(k),
   trigger |-> Watched(k), defaults |-> Generated(k), key |-> Key(k), index |-> Indexed(k),
   fk |-> Reference(k)]

-----------------------------------------------------------------------------
(* The phases. *)

Rest(program, k) == SubSeq(program, k, Len(program))

Begin == Turn("begin", "parent")
End == Turn("commit", "parent")
Last == Len(Migrate)

\* Schemas before and after the cutover.
Earlier(c) == \E k \in 1 .. Begin : c = SchemaAt(k)
Later(c) == \E k \in End + 1 .. Last + 1 : c = SchemaAt(k)

\* What the application's statements meet in them.  An undo leaves what is Early; that a trigger
\* has its columns and a column that has to be filled its trigger, is so outside of an undo.
Early(c) ==
  /\ c.named = [t \in Tables |-> "src"] /\ c.key = "src" /\ c.defaults = {"src"}
  /\ c.fk = IF script = "single" THEN "none" ELSE "src"
  /\ c.trigger \subseteq Tables
  /\ \A t \in Tables : "src" \in c.columns[t]

Whole(c) ==
  /\ c.check \subseteq c.trigger
  /\ \A t \in Tables : /\ t \in c.trigger => c.columns[t] = {"src", "dst"}
                       /\ "dst" \in c.notNull[t] => t \in c.trigger

\* A schema that statements of an undo may have left.
Halfway(c) ==
  /\ Early(c)
  /\ c.check \subseteq {t \in Tables : "dst" \in c.columns[t]}
  /\ c.index => "dst" \in c.columns["parent"]
  /\ \A t \in Tables : "src" \in c.notNull[t] /\ ("dst" \in c.notNull[t] => "dst" \in c.columns[t])

Late(c) ==
  /\ c.named["parent"] = "dst" /\ c.key = "dst" /\ c.defaults = {"dst"}
  /\ c.check = {} /\ c.trigger = {}
  /\ c.columns["parent"] = {"dst"} /\ "src" \notin c.notNull["parent"]
  /\ IF script = "single" THEN c.fk = "none"
     ELSE /\ c.fk = "dst" /\ c.named["child"] = "dst"
          /\ c.columns["child"] = {"dst"} /\ "src" \notin c.notNull["child"]

Idle ==
  /\ todo = <<>> /\ ended \notin {"running", "undoing"} /\ ~inTx
  /\ draft = catalog
  /\ IF ended = "cut short" THEN Halfway(catalog) ELSE Earlier(catalog) \/ Later(catalog)
  /\ ended \in {"never", "undone"} => catalog = SchemaAt(1)

Migrating(k) ==
  /\ todo = Rest(Migrate, k) /\ ended = "running"
  /\ inTx <=> Begin < k /\ k <= End
  /\ draft = SchemaAt(k)
  /\ catalog = IF inTx THEN SchemaAt(Begin) ELSE draft
  /\ \A t \in Since(k, "backfill") : GapsOf(t) = {}

Undoing ==
  /\ ended = "undoing" /\ ~inTx
  /\ draft = catalog /\ Halfway(catalog)
  /\ \E s \in UndoLeft(catalog) : todo = <<s>>

Phase ==
  \/ Idle
  \/ \E k \in 1 .. Last : Migrating(k)
  \/ Undoing

-----------------------------------------------------------------------------
(* Locks. *)

LocksApart ==
  /\ \A w \in Writers : has[w] \cap held = {}
  /\ \A p \in Places : /\ owner[p] = NoOne <=> pend[p] = Same
                       /\ owner[p] # NoOne => TableOf(p) \in has[owner[p]]

-----------------------------------------------------------------------------
(* The rows. *)

Before == catalog.named["parent"] = "src"

\* A version of the row at p: the identifier it was made of is in src before the cutover and its
\* flip in dst after it, and a trigger leaves no other dst.  Where an undo has dropped the trigger
\* and not yet the column, an update leaves the dst of before.
Right(p, v) ==
  /\ p \in Parents => v.meant = p
  /\ p \in Children => script = "with_fk"
  /\ Before =>
       /\ v.src = v.meant
       /\ v.dst # Null => /\ "dst" \in catalog.columns[TableOf(p)]
                          /\ TableOf(p) \in catalog.trigger => v.dst = Flip(v.meant)
                          /\ ~HalfUndone => TableOf(p) \in catalog.trigger
  /\ ~Before => v.dst = Flip(v.meant)

\* A statement that fires the trigger of t finds its column.
Served(t) == t \in catalog.trigger => "dst" \in catalog.columns[t]

RowsRight ==
  \A p \in Places :
    /\ row[p] # Absent => Right(p, row[p])
    /\ pend[p] \notin {Absent, Same} =>
         Right(p, pend[p]) /\ (TableOf(p) \in catalog.trigger => pend[p].dst # Null)

\* Identifiers that writers have read: one from before the cutover may still be in use after it.
Reading == [meant : Parents, value : Column]
ReadRight(k) == k.value = k.meant \/ (~Before /\ k.value = Flip(k.meant))

Asking(s) ==
  \/ s = NoStatement
  \/ /\ s.op = "insert" /\ s.place \in Parents /\ s.meant = s.place
     /\ s = [op |-> "insert", place |-> s.place, meant |-> s.place, value |-> Null]
  \/ /\ s.place \in Places /\ s.meant \in Parents
     /\ s = [op |-> "delete", place |-> s.place, meant |-> s.meant, value |-> Null]
  \/ /\ script = "with_fk" /\ s.place \in Children /\ s.meant \in Parents /\ s.value \in Column
     /\ s = [op |-> "link", place |-> s.place, meant |-> s.meant, value |-> s.value]
     /\ ReadRight(s)

ReadsRight ==
  /\ known \in [Writers -> SUBSET Reading] /\ DOMAIN stmt = Writers
  /\ \A w \in Writers : (\A k \in known[w] : ReadRight(k)) /\ Asking(stmt[w])

\* Parents of children: committed, or in the transaction of the child, and nobody deletes them.
Parented ==
  \A c \in Children :
    /\ row[c] # Absent =>
         LET k == row[c].meant IN
         /\ row[k] # Absent
         /\ pend[k] = Absent => owner[c] = owner[k]
    /\ pend[c] \notin {Absent, Same} =>
         LET k == pend[c].meant IN
         \/ owner[k] = NoOne /\ row[k] # Absent
         \/ owner[k] = owner[c] /\ pend[k] # Absent

\* An identifier that was generated for an insert has no row and is nobody else's.
Unused(p) == row[p] = Absent /\ pend[p] = Same

Fresh ==
  /\ \A p \in Parents : p >= nextId => Unused(p)
  /\ \A w \in Writers :
       /\ stmt[w].op # "none" /\ stmt[w].place \in Parents => stmt[w].place < nextId
       /\ stmt[w].op = "insert" =>
            /\ Unused(stmt[w].place)
            /\ \A v \in Writers \ {w} : stmt[v].op # "none" => stmt[v].place # stmt[w].place

Inv ==
  /\ script \in {"single", "with_fk"}
  /\ TypeOK /\ Phase /\ LocksApart /\ RowsRight /\ ReadsRight /\ Parented /\ Fresh

-----------------------------------------------------------------------------
(* The programs as sequences. *)

Ops ==
  {"add_column", "install_trigger", "backfill", "assert_filled", "create_index",
   "add_check", "validate_check", "set_not_null", "drop_check",
   "begin", "drop_foreign_key", "drop_key", "promote_index", "set_default", "drop_default",
   "add_foreign_key", "drop_source", "drop_trigger", "rename", "commit",
   "validate_foreign_key", "assert_no_orphans", "assert_newest_first", "assert_columns",
   "drop_sibling"}

Statements == [op : Ops, table : Tables]

\* The rest of a program.
LEMMA Suffix ==
  ASSUME NEW S, NEW P \in Seq(S), NEW k \in 1 .. Len(P)
  PROVE  /\ Rest(P, k) # <<>>
         /\ Head(Rest(P, k)) = P[k]
         /\ Tail(Rest(P, k)) = Rest(P, k + 1)
<1>1. Len(P) \in Nat /\ k \in Nat
  OBVIOUS
<1>2. Len(Rest(P, k)) = Len(P) - k + 1 /\ Rest(P, k) \in Seq(S)
  BY <1>1 DEF Rest
<1>3. Rest(P, k)[1] = P[k]
  BY <1>1 DEF Rest
<1>4. Rest(P, k) # <<>> /\ Head(Rest(P, k)) = P[k]
  BY <1>1, <1>2, <1>3
<1>5. Tail(Rest(P, k)) = Rest(P, k + 1)
  BY <1>1, <1>2 DEF Rest
<1> QED BY <1>4, <1>5

LEMMA WholeProgram ==
  ASSUME NEW S, NEW P \in Seq(S)
  PROVE  /\ Rest(P, 1) = P
         /\ Rest(P, Len(P) + 1) = <<>>
BY DEF Rest

\* The statements of s have the turns from a + 1 to b.
Block(s, a, b) ==
  /\ s \in Seq(Statements) /\ Len(s) = b - a
  /\ \A i \in 1 .. Len(s) : Turn(s[i].op, s[i].table) = a + i

\* Parts of a program keep the turns of their statements.
LEMMA Joined ==
  ASSUME NEW a \in Nat, NEW b \in Nat, NEW c \in Nat, NEW s, NEW t, Block(s, a, b), Block(t, b, c)
  PROVE  Block(s \o t, a, c)
<1>1. s \in Seq(Statements) /\ t \in Seq(Statements) /\ Len(s) = b - a /\ Len(t) = c - b
  BY DEF Block
<1>2. s \o t \in Seq(Statements) /\ Len(s \o t) = Len(s) + Len(t)
  BY <1>1
<1>3. ASSUME NEW i \in 1 .. Len(s \o t) PROVE Turn((s \o t)[i].op, (s \o t)[i].table) = a + i
  <2>1. CASE i <= Len(s)
    <3>1. (s \o t)[i] = s[i] /\ i \in 1 .. Len(s)
      BY <1>1, <1>2, <2>1
    <3> QED BY <3>1 DEF Block
  <2>2. CASE i > Len(s)
    <3>1. (s \o t)[i] = t[i - Len(s)] /\ i - Len(s) \in 1 .. Len(t)
      BY <1>1, <1>2, <2>2, SMTT(30)
    <3>2. Turn(t[i - Len(s)].op, t[i - Len(s)].table) = b + (i - Len(s))
      BY <3>1 DEF Block
    <3> QED BY <1>1, <3>1, <3>2
  <2> QED BY <1>1, <1>2, <2>1, <2>2, SMTT(30)
<1> QED BY <1>1, <1>2, <1>3 DEF Block

\* The turns of migrate_asc_to_desc, and that its statements have them.
LEMMA SingleTurns ==
  ASSUME script = "single"
  PROVE  /\ Turn("add_column", "parent") = 1
         /\ Turn("install_trigger", "parent") = 2
         /\ Turn("backfill", "parent") = 3
         /\ Turn("assert_filled", "parent") = 4
         /\ Turn("create_index", "parent") = 5
         /\ Turn("add_check", "parent") = 6
         /\ Turn("validate_check", "parent") = 7
         /\ Turn("set_not_null", "parent") = 8
         /\ Turn("drop_check", "parent") = 9
         /\ Turn("begin", "parent") = 10
         /\ Turn("drop_key", "parent") = 11
         /\ Turn("promote_index", "parent") = 12
         /\ Turn("set_default", "parent") = 13
         /\ Turn("drop_default", "parent") = 14
         /\ Turn("drop_source", "parent") = 15
         /\ Turn("drop_trigger", "parent") = 16
         /\ Turn("rename", "parent") = 17
         /\ Turn("commit", "parent") = 18
         /\ Turn("assert_newest_first", "parent") = 19
         /\ Turn("assert_columns", "parent") = 20
         /\ \A op : Turn(op, "child") = Never
  BY DEF Turn

LEMMA SingleProgram ==
  ASSUME script = "single"
  PROVE  Block(Migrate, 0, 20)
<1> USE DEF Statements, Op, Tables, Ops
<1>1. Block(PrepareTable, 0, 2)
  BY SingleTurns DEF PrepareTable, Block
<1>2. Block(BackfillTable, 2, 4)
  BY SingleTurns DEF BackfillTable, Block
<1>3. Block(TightenTable, 4, 9)
  <2>1. TightenTable \in Seq(Statements) /\ Len(TightenTable) = 5
    BY DEF TightenTable, NotNull
  <2> QED BY <2>1, SingleTurns DEF TightenTable, NotNull, Block
<1>4. Block(CutOverTable, 9, 18)
  <2>1. CutOverTable \in Seq(Statements) /\ Len(CutOverTable) = 9
    BY DEF CutOverTable
  <2> QED BY <2>1, SingleTurns DEF CutOverTable, Block
<1>5. Block(ChecksTable, 18, 20)
  BY SingleTurns DEF ChecksTable, Block
<1> HIDE DEF Statements, Op, Tables, Ops
<1> DEFINE A == PrepareTable \o BackfillTable
           B == A \o TightenTable
           C == B \o CutOverTable
           D == C \o ChecksTable
<1>6. Block(A, 0, 4)
  BY <1>1, <1>2, Joined
<1> HIDE DEF A
<1>7. Block(B, 0, 9)
  BY <1>3, <1>6, Joined
<1> HIDE DEF B
<1>8. Block(C, 0, 18)
  BY <1>4, <1>7, Joined
<1> HIDE DEF C
<1>9. Block(D, 0, 20)
  BY <1>5, <1>8, Joined
<1> QED BY <1>9 DEF Migrate, A, B, C, D

\* The turns of migrate_asc_to_desc_with_fk, and that its statements have them.
LEMMA FamilyTurns ==
  ASSUME script # "single"
  PROVE  /\ Turn("add_column", "parent") = 1
         /\ Turn("install_trigger", "parent") = 3
         /\ Turn("backfill", "parent") = 5
         /\ Turn("assert_filled", "parent") = 7
         /\ Turn("create_index", "parent") = 9
         /\ Turn("add_check", "parent") = 10
         /\ Turn("validate_check", "parent") = 11
         /\ Turn("set_not_null", "parent") = 12
         /\ Turn("drop_check", "parent") = 13
         /\ Turn("begin", "parent") = 18
         /\ Turn("drop_key", "parent") = 20
         /\ Turn("promote_index", "parent") = 21
         /\ Turn("set_default", "parent") = 22
         /\ Turn("drop_default", "parent") = 23
         /\ Turn("drop_source", "parent") = 26
         /\ Turn("drop_trigger", "parent") = 27
         /\ Turn("rename", "parent") = 29
         /\ Turn("commit", "parent") = 31
         /\ Turn("assert_newest_first", "parent") = 34
         /\ Turn("assert_columns", "parent") = 35
         /\ Turn("add_column", "child") = 2
         /\ Turn("install_trigger", "child") = 4
         /\ Turn("backfill", "child") = 6
         /\ Turn("assert_filled", "child") = 8
         /\ Turn("add_check", "child") = 14
         /\ Turn("validate_check", "child") = 15
         /\ Turn("set_not_null", "child") = 16
         /\ Turn("drop_check", "child") = 17
         /\ Turn("drop_foreign_key", "child") = 19
         /\ Turn("add_foreign_key", "child") = 24
         /\ Turn("drop_source", "child") = 25
         /\ Turn("drop_trigger", "child") = 28
         /\ Turn("rename", "child") = 30
         /\ Turn("validate_foreign_key", "child") = 32
         /\ Turn("assert_no_orphans", "child") = 33
         /\ Turn("assert_columns", "child") = 36
  BY DEF Turn

LEMMA FamilyProgram ==
  ASSUME script # "single"
  PROVE  Block(Migrate, 0, 36)
<1> USE DEF Statements, Op, Tables, Ops
<1>1. Block(PrepareFamily, 0, 4)
  <2>1. PrepareFamily \in Seq(Statements) /\ Len(PrepareFamily) = 4
    BY DEF PrepareFamily, Both
  <2> QED BY <2>1, FamilyTurns DEF PrepareFamily, Both, Block
<1>2. Block(BackfillFamily, 4, 8)
  <2>1. BackfillFamily \in Seq(Statements) /\ Len(BackfillFamily) = 4
    BY DEF BackfillFamily, Both
  <2> QED BY <2>1, FamilyTurns DEF BackfillFamily, Both, Block
<1>3. Block(TightenFamily, 8, 17)
  <2>1. TightenFamily \in Seq(Statements) /\ Len(TightenFamily) = 9
    BY DEF TightenFamily, NotNull
  <2> QED BY <2>1, FamilyTurns DEF TightenFamily, NotNull, Block
<1>4. Block(CutOverFamily, 17, 31)
  <2>1. CutOverFamily \in Seq(Statements) /\ Len(CutOverFamily) = 14
    BY DEF CutOverFamily, Both
  <2> QED BY <2>1, FamilyTurns DEF CutOverFamily, Both, Block
<1>5. Block(ChecksFamily, 31, 36)
  <2>1. ChecksFamily \in Seq(Statements) /\ Len(ChecksFamily) = 5
    BY DEF ChecksFamily, Both
  <2> QED BY <2>1, FamilyTurns DEF ChecksFamily, Both, Block
<1> HIDE DEF Statements, Op, Tables, Ops
<1> DEFINE A == PrepareFamily \o BackfillFamily
           B == A \o TightenFamily
           C == B \o CutOverFamily
           D == C \o ChecksFamily
<1>6. Block(A, 0, 8)
  BY <1>1, <1>2, Joined
<1> HIDE DEF A
<1>7. Block(B, 0, 17)
  BY <1>3, <1>6, Joined
<1> HIDE DEF B
<1>8. Block(C, 0, 31)
  BY <1>4, <1>7, Joined
<1> HIDE DEF C
<1>9. Block(D, 0, 36)
  BY <1>5, <1>8, Joined
<1> QED BY <1>9 DEF Migrate, A, B, C, D

LEMMA Programs ==
  ASSUME script \in {"single", "with_fk"}
  PROVE  /\ Migrate \in Seq(Statements) /\ Len(Migrate) \in Nat
         /\ Len(Migrate) = IF script = "single" THEN 20 ELSE 36
         /\ \A k \in 1 .. Len(Migrate) : Turn(Migrate[k].op, Migrate[k].table) = k
<1>1. CASE script = "single"
  BY <1>1, SingleProgram DEF Block
<1>2. CASE script # "single"
  BY <1>2, FamilyProgram DEF Block
<1> QED BY <1>1, <1>2

\* The statement that is sent next and what is left after it.
LEMMA NextOfMigrate ==
  ASSUME script \in {"single", "with_fk"}, NEW k \in 1 .. Last, todo = Rest(Migrate, k)
  PROVE  /\ Running /\ Statement \in Statements
         /\ Turn(Statement.op, Statement.table) = k
         /\ Tail(todo) = Rest(Migrate, k + 1)
         /\ Tail(todo) = <<>> <=> k = Last
<1> USE DEF Last
<1>1. /\ Migrate \in Seq(Statements) /\ Len(Migrate) \in Nat
      /\ \A i \in 1 .. Len(Migrate) : Turn(Migrate[i].op, Migrate[i].table) = i
  BY Programs
<1>2. todo # <<>> /\ Head(todo) = Migrate[k] /\ Tail(todo) = Rest(Migrate, k + 1)
  BY <1>1, Suffix
<1>3. Rest(Migrate, Len(Migrate) + 1) = <<>>
  BY <1>1, WholeProgram
<1>4. ASSUME k # Len(Migrate) PROVE Rest(Migrate, k + 1) # <<>>
  <2>1. k + 1 \in 1 .. Len(Migrate)
    BY <1>1, <1>4
  <2> QED BY <1>1, <2>1, Suffix
<1>5. Migrate[k] \in Statements
  BY <1>1
<1> QED BY <1>1, <1>2, <1>3, <1>4, <1>5 DEF Running, Statement

\* A turn is one statement's.
LEMMA TurnsDiffer ==
  ASSUME NEW op \in Ops, NEW t \in Tables, NEW other \in Ops, NEW u \in Tables,
         Turn(op, t) = Turn(other, u), Turn(op, t) # Never
  PROVE  op = other /\ t = u
<1>1. CASE script = "single"
  BY <1>1 DEF Turn, Never, Tables
<1>2. CASE script # "single"
  BY <1>2 DEF Turn, Never, Tables
<1> QED BY <1>1, <1>2

LEMMA TurnType ==
  ASSUME NEW op, NEW t
  PROVE  Turn(op, t) \in Nat
<1>1. CASE script = "single"
  BY <1>1 DEF Turn, Never, Tables
<1>2. CASE script # "single"
  BY <1>2, SMTT(30) DEF Turn, Never, Tables
<1> QED BY <1>1, <1>2

\* A statement changes its own part of the schema, as Altered has it.
LEMMA SchemaStep ==
  ASSUME script \in {"single", "with_fk"}, NEW k \in Nat, k < Never, NEW s \in Statements,
         Turn(s.op, s.table) = k
  PROVE  Altered(SchemaAt(k), s) = SchemaAt(k + 1)
<1> DEFINE t == s.table
<1>1. s.op \in Ops /\ t \in Tables /\ Never = 99
  BY DEF Statements, Never
<1>2. ASSUME NEW op \in Ops, NEW u \in Tables
      PROVE  Past(k + 1, op, u) <=> Past(k, op, u) \/ (op = s.op /\ u = t)
  <2>1. Turn(op, u) \in Nat
    BY TurnType
  <2>2. Turn(op, u) = k => op = s.op /\ u = t
    BY <1>1, TurnsDiffer
  <2> QED BY <1>1, <2>1, <2>2 DEF Past
<1>3. ~Past(k, s.op, t)
  BY DEF Past
<1> HIDE DEF t
<1> USE DEF Ops, Tables
<1>4. /\ s.op = "add_column" => Columns(k + 1) = [Columns(k) EXCEPT ![t] = @ \cup {"dst"}]
      /\ s.op = "drop_source" => Columns(k + 1) = [Columns(k) EXCEPT ![t] = @ \ {"src"}]
      /\ s.op \notin {"add_column", "drop_source"} => Columns(k + 1) = Columns(k)
  BY <1>1, <1>2, <1>3 DEF Columns
<1>5. /\ s.op = "rename" => Named(k + 1) = [Named(k) EXCEPT ![t] = "dst"]
      /\ s.op # "rename" => Named(k + 1) = Named(k)
  BY <1>1, <1>2, <1>3 DEF Named
<1>6. /\ s.op = "set_not_null" => Required(k + 1) = [Required(k) EXCEPT ![t] = @ \cup {"dst"}]
      /\ s.op = "drop_source" => Required(k + 1) = [Required(k) EXCEPT ![t] = @ \ {"src"}]
      /\ s.op \notin {"set_not_null", "drop_source"} => Required(k + 1) = Required(k)
  BY <1>1, <1>2, <1>3 DEF Required
<1>7. /\ s.op = "add_check" => ~Past(k, "drop_check", t)
      /\ s.op = "install_trigger" => ~Past(k, "drop_trigger", t)
      /\ s.op \in {"create_index", "drop_key"} => ~Past(k, "promote_index", "parent")
      /\ s.op = "drop_foreign_key" => ~Past(k, "add_foreign_key", "child")
  <2>1. CASE script = "single"
    BY <1>1, <2>1 DEF Turn, Never, Past, t
  <2>2. CASE script # "single" /\ t = "parent"
    BY <1>1, <2>2 DEF Turn, Never, Past, t
  <2>3. CASE script # "single" /\ t = "child"
    BY <1>1, <2>3 DEF Turn, Never, Past, t
  <2> QED BY <1>1, <2>1, <2>2, <2>3
<1>8. /\ s.op \in {"create_index", "drop_key", "promote_index", "set_default", "drop_default"} => t = "parent"
      /\ s.op \in {"drop_foreign_key", "add_foreign_key"} => t = "child"
  <2>1. CASE script = "single"
    BY <1>1, <2>1 DEF Turn, Never, t
  <2>2. CASE script # "single"
    BY <1>1, <2>2 DEF Turn, Never, t
  <2> QED BY <2>1, <2>2
<1>9. /\ s.op = "add_check" => Checked(k + 1) = Checked(k) \cup {t}
      /\ s.op = "drop_check" => Checked(k + 1) = Checked(k) \ {t}
      /\ s.op \notin {"add_check", "drop_check"} => Checked(k + 1) = Checked(k)
  BY <1>1, <1>2, <1>7 DEF Checked, Since
<1>10. /\ s.op = "install_trigger" => Watched(k + 1) = Watched(k) \cup {t}
       /\ s.op = "drop_trigger" => Watched(k + 1) = Watched(k) \ {t}
       /\ s.op \notin {"install_trigger", "drop_trigger"} => Watched(k + 1) = Watched(k)
  BY <1>1, <1>2, <1>7 DEF Watched, Since
<1>11. /\ s.op = "set_default" => Generated(k + 1) = Generated(k) \cup {"dst"}
       /\ s.op = "drop_default" => Generated(k + 1) = Generated(k) \ {"src"}
       /\ s.op \notin {"set_default", "drop_default"} => Generated(k + 1) = Generated(k)
  BY <1>1, <1>2, <1>8 DEF Generated
<1>12. /\ s.op = "drop_key" => Key(k + 1) = "none"
       /\ s.op = "promote_index" => Key(k + 1) = "dst"
       /\ s.op \notin {"drop_key", "promote_index"} => Key(k + 1) = Key(k)
  BY <1>1, <1>2, <1>7, <1>8 DEF Key
<1>13. /\ s.op = "create_index" => Indexed(k + 1) = TRUE
       /\ s.op = "promote_index" => Indexed(k + 1) = FALSE
       /\ s.op \notin {"create_index", "promote_index"} => Indexed(k + 1) = Indexed(k)
  BY <1>1, <1>2, <1>7, <1>8 DEF Indexed
<1>14. /\ s.op = "drop_foreign_key" => Reference(k + 1) = "none"
       /\ s.op = "add_foreign_key" => Reference(k + 1) = "dst"
       /\ s.op \notin {"drop_foreign_key", "add_foreign_key"} => Reference(k + 1) = Reference(k)
  BY <1>1, <1>2, <1>7, <1>8 DEF Reference
<1>15. s.op # "drop_sibling"
  BY <1>1 DEF Turn, Never
<1> HIDE DEF Ops, Tables
<1> USE DEF SchemaAt, Altered
<1>16. CASE s.op = "add_column"
  BY <1>4, <1>5, <1>6, <1>9, <1>10, <1>11, <1>12, <1>13, <1>14, <1>16 DEF t
<1>17. CASE s.op = "install_trigger"
  BY <1>4, <1>5, <1>6, <1>9, <1>10, <1>11, <1>12, <1>13, <1>14, <1>17 DEF t
<1>18. CASE s.op = "create_index"
  BY <1>4, <1>5, <1>6, <1>9, <1>10, <1>11, <1>12, <1>13, <1>14, <1>18 DEF t
<1>19. CASE s.op = "add_check"
  BY <1>4, <1>5, <1>6, <1>9, <1>10, <1>11, <1>12, <1>13, <1>14, <1>19 DEF t
<1>20. CASE s.op = "set_not_null"
  BY <1>4, <1>5, <1>6, <1>9, <1>10, <1>11, <1>12, <1>13, <1>14, <1>20 DEF t
<1>21. CASE s.op = "drop_check"
  BY <1>4, <1>5, <1>6, <1>9, <1>10, <1>11, <1>12, <1>13, <1>14, <1>21 DEF t
<1>22. CASE s.op = "drop_foreign_key"
  BY <1>4, <1>5, <1>6, <1>9, <1>10, <1>11, <1>12, <1>13, <1>14, <1>22 DEF t
<1>23. CASE s.op = "drop_key"
  BY <1>4, <1>5, <1>6, <1>9, <1>10, <1>11, <1>12, <1>13, <1>14, <1>23 DEF t
<1>24. CASE s.op = "promote_index"
  BY <1>4, <1>5, <1>6, <1>9, <1>10, <1>11, <1>12, <1>13, <1>14, <1>24 DEF t
<1>25. CASE s.op = "set_default"
  BY <1>4, <1>5, <1>6, <1>9, <1>10, <1>11, <1>12, <1>13, <1>14, <1>25 DEF t
<1>26. CASE s.op = "drop_default"
  BY <1>4, <1>5, <1>6, <1>9, <1>10, <1>11, <1>12, <1>13, <1>14, <1>26 DEF t
<1>27. CASE s.op = "add_foreign_key"
  BY <1>4, <1>5, <1>6, <1>9, <1>10, <1>11, <1>12, <1>13, <1>14, <1>27 DEF t
<1>28. CASE s.op = "drop_source"
  BY <1>4, <1>5, <1>6, <1>9, <1>10, <1>11, <1>12, <1>13, <1>14, <1>28 DEF t
<1>29. CASE s.op = "drop_trigger"
  BY <1>4, <1>5, <1>6, <1>9, <1>10, <1>11, <1>12, <1>13, <1>14, <1>29 DEF t
<1>30. CASE s.op = "rename"
  BY <1>4, <1>5, <1>6, <1>9, <1>10, <1>11, <1>12, <1>13, <1>14, <1>30 DEF t
<1>31. CASE s.op \notin
         {"add_column", "install_trigger", "create_index", "add_check", "set_not_null", "drop_check", "drop_foreign_key", "drop_key", "promote_index", "set_default", "drop_default", "add_foreign_key", "drop_source", "drop_trigger", "rename"}
  BY <1>4, <1>5, <1>6, <1>9, <1>10, <1>11, <1>12, <1>13, <1>14, <1>15, <1>31
<1> QED BY <1>16, <1>17, <1>18, <1>19, <1>20, <1>21, <1>22, <1>23, <1>24, <1>25, <1>26, <1>27, <1>28, <1>29, <1>30, <1>31

LEMMA Bounds ==
  ASSUME script \in {"single", "with_fk"}
  PROVE  /\ script = "single" => Begin = 10 /\ End = 18 /\ Last = 20
         /\ script # "single" => Begin = 18 /\ End = 31 /\ Last = 36
         /\ Begin \in Nat /\ End \in Nat /\ Last \in Nat
<1>1. Last = IF script = "single" THEN 20 ELSE 36
  BY Programs DEF Last
<1>2. CASE script = "single"
  BY <1>1, <1>2, SingleTurns DEF Begin, End
<1>3. CASE script # "single"
  BY <1>1, <1>3, FamilyTurns DEF Begin, End
<1> QED BY <1>2, <1>3

\* The order of the statements, as far as the schema's safety rests on it.
LEMMA EarlyOrder ==
  ASSUME script \in {"single", "with_fk"}, NEW k \in 1 .. Begin, NEW t \in Tables
  PROVE  /\ ~Past(k, "rename", t) /\ ~Past(k, "drop_source", t) /\ ~Past(k, "drop_trigger", t)
         /\ ~Past(k, "set_default", t) /\ ~Past(k, "drop_default", t)
         /\ ~Past(k, "drop_key", t) /\ ~Past(k, "promote_index", t)
         /\ ~Past(k, "drop_foreign_key", t) /\ ~Past(k, "add_foreign_key", t)
         /\ Past(k, "install_trigger", t) => Past(k, "add_column", t)
         /\ Past(k, "set_not_null", t) => Past(k, "install_trigger", t)
         /\ Past(k, "add_check", t) => Past(k, "install_trigger", t)
         /\ Past(k, "backfill", t) => Past(k, "install_trigger", t)
         /\ Past(k, "create_index", t) => Past(k, "add_column", t)
<1>1. t \in {"parent", "child"}
  BY DEF Tables
<1>2. CASE script = "single"
  <2>1. k \in 1 .. 10
    BY <1>2, Bounds
  <2> QED BY <1>1, <1>2, <2>1 DEF Turn, Never, Past
<1>3. CASE script # "single"
  <2>1. k \in 1 .. 18
    BY <1>3, Bounds
  <2> QED BY <1>1, <1>3, <2>1 DEF Turn, Never, Past
<1> QED BY <1>2, <1>3

LEMMA LateOrder ==
  ASSUME script \in {"single", "with_fk"}, NEW k \in End + 1 .. Last + 1, NEW t \in Tables,
         t = "parent" \/ script # "single"
  PROVE  /\ Past(k, "rename", t) /\ Past(k, "drop_source", t) /\ Past(k, "add_column", t)
         /\ t = "parent" => /\ Past(k, "set_default", t) /\ Past(k, "drop_default", t)
                            /\ Past(k, "promote_index", t)
         /\ t = "child" => Past(k, "add_foreign_key", t)
         /\ Past(k, "drop_check", t) /\ Past(k, "drop_trigger", t)
<1>1. t \in {"parent", "child"}
  BY DEF Tables
<1>2. CASE script = "single"
  <2>1. k \in 19 .. 21
    <3>1. End = 18 /\ Last = 20
      BY <1>2, Bounds
    <3> QED BY <3>1
  <2>2. t = "parent"
    BY <1>1, <1>2
  <2> QED BY <2>1, <2>2, <1>2, SingleTurns DEF Past
<1>3. CASE script # "single"
  <2>1. k \in 32 .. 37
    <3>1. End = 31 /\ Last = 36
      BY <1>3, Bounds
    <3> QED BY <3>1
  <2>2. CASE t = "parent"
    <3>1. /\ Turn("rename", t) = 29 /\ Turn("drop_source", t) = 26 /\ Turn("add_column", t) = 1
          /\ Turn("set_default", t) = 22 /\ Turn("drop_default", t) = 23 /\ Turn("promote_index", t) = 21
          /\ Turn("drop_check", t) = 13 /\ Turn("drop_trigger", t) = 27
      BY <1>3, <2>2 DEF Turn
    <3> QED BY <2>1, <2>2, <3>1 DEF Past
  <2>3. CASE t = "child"
    <3>1. /\ Turn("rename", t) = 30 /\ Turn("drop_source", t) = 25 /\ Turn("add_column", t) = 2
          /\ Turn("add_foreign_key", t) = 24 /\ Turn("drop_check", t) = 17 /\ Turn("drop_trigger", t) = 28
      BY <1>3, <2>3 DEF Turn
    <3> QED BY <2>1, <2>3, <3>1 DEF Past
  <2> QED BY <1>1, <2>2, <2>3
<1> QED BY <1>2, <1>3

LEMMA SingleOrder ==
  ASSUME script = "single", NEW k \in 1 .. Last + 1, NEW op
  PROVE  ~Past(k, op, "child")
<1>1. k \in 1 .. 21
  <2>1. Last = 20
    BY Bounds
  <2> QED BY <2>1
<1>2. Turn(op, "child") = 99
  BY SingleTurns DEF Never
<1> QED BY <1>1, <1>2 DEF Past

\* What a schema has before, and after, the cutover.
LEMMA EarlyShape ==
  ASSUME script \in {"single", "with_fk"}, NEW c, Earlier(c)
  PROVE  Early(c) /\ Whole(c)
<1>1. PICK k \in 1 .. Begin : c = SchemaAt(k)
  BY DEF Earlier
<1>2. c.named = [t \in Tables |-> "src"]
  BY <1>1, EarlyOrder DEF SchemaAt, Named
<1>3. c.key = "src" /\ c.defaults = {"src"}
  BY <1>1, EarlyOrder DEF SchemaAt, Key, Generated, Tables
<1>4. c.fk = IF script = "single" THEN "none" ELSE "src"
  BY <1>1, EarlyOrder DEF SchemaAt, Reference, Tables
<1>5. c.trigger = Since(k, "install_trigger")
  BY <1>1, EarlyOrder DEF SchemaAt, Watched, Since
<1>6. c.check \subseteq c.trigger /\ c.trigger \subseteq Tables
  BY <1>1, <1>5, EarlyOrder DEF SchemaAt, Checked, Since, Tables
<1>7. ASSUME NEW t \in Tables
      PROVE  /\ "src" \in c.columns[t]
             /\ t \in c.trigger => c.columns[t] = {"src", "dst"}
             /\ "dst" \in c.notNull[t] => t \in c.trigger
  <2>1. c.columns[t] = {"src"} \cup (IF Past(k, "add_column", t) THEN {"dst"} ELSE {})
    BY <1>1, EarlyOrder DEF SchemaAt, Columns
  <2>2. c.notNull[t] = {"src"} \cup (IF Past(k, "set_not_null", t) THEN {"dst"} ELSE {})
    BY <1>1, EarlyOrder DEF SchemaAt, Required
  <2> QED BY <1>5, <2>1, <2>2, EarlyOrder DEF Since
<1> QED BY <1>2, <1>3, <1>4, <1>6, <1>7 DEF Early, Whole

LEMMA LateShape ==
  ASSUME script \in {"single", "with_fk"}, NEW c, Later(c)
  PROVE  Late(c)
<1>1. PICK k \in End + 1 .. Last + 1 : c = SchemaAt(k)
  BY DEF Later
<1> USE DEF Tables
<1>2. k \in 1 .. Last + 1
  BY <1>1, Bounds
<1>3. /\ c.named["parent"] = "dst" /\ c.key = "dst" /\ c.defaults = {"dst"}
      /\ c.columns["parent"] = {"dst"} /\ "src" \notin c.notNull["parent"]
  BY <1>1, LateOrder DEF SchemaAt, Named, Key, Generated, Columns, Required
<1>4. CASE script = "single"
  <2>1. c.check = {} /\ c.trigger = {}
    BY <1>1, <1>2, <1>4, LateOrder, SingleOrder DEF SchemaAt, Checked, Watched, Since
  <2>2. c.fk = "none"
    BY <1>1, <1>2, <1>4, SingleOrder DEF SchemaAt, Reference
  <2> QED BY <1>3, <1>4, <2>1, <2>2 DEF Late
<1>5. CASE script # "single"
  <2>1. c.check = {} /\ c.trigger = {}
    BY <1>1, <1>5, LateOrder DEF SchemaAt, Checked, Watched, Since
  <2>2. c.fk = "dst"
    BY <1>1, <1>5, LateOrder DEF SchemaAt, Reference
  <2>3. c.named["child"] = "dst" /\ c.columns["child"] = {"dst"} /\ "src" \notin c.notNull["child"]
    BY <1>1, <1>5, LateOrder DEF SchemaAt, Named, Columns, Required
  <2> QED BY <1>3, <1>5, <2>1, <2>2, <2>3 DEF Late
<1> QED BY <1>4, <1>5

\* The schema of before the migration is the first, and is what an undo ends with.
LEMMA StartSchema ==
  ASSUME script \in {"single", "with_fk"}
  PROVE  SchemaAt(1) = StartCatalog(script)
<1>1. ASSUME NEW op \in Ops, NEW t \in Tables PROVE ~Past(1, op, t)
  <2>1. CASE script = "single"
    BY <2>1 DEF Turn, Never, Past, Tables
  <2>2. CASE script # "single"
    BY <2>2 DEF Turn, Never, Past, Tables
  <2> QED BY <2>1, <2>2
<1> USE DEF Ops
<1>2. /\ Columns(1) = [t \in Tables |-> {"src"}] /\ Named(1) = [t \in Tables |-> "src"]
      /\ Required(1) = [t \in Tables |-> {"src"}]
  BY <1>1 DEF Columns, Named, Required
<1>3. Checked(1) = {} /\ Watched(1) = {}
  BY <1>1 DEF Checked, Watched, Since
<1>4. /\ Generated(1) = {"src"} /\ Key(1) = "src" /\ Indexed(1) = FALSE
      /\ Reference(1) = IF script = "single" THEN "none" ELSE "src"
  BY <1>1 DEF Generated, Key, Indexed, Reference, Tables
<1> QED BY <1>2, <1>3, <1>4 DEF SchemaAt, StartCatalog

LEMMA SchemaType ==
  ASSUME NEW k \in Nat
  PROVE  SchemaAt(k) \in Catalog
<1>1. /\ Columns(k) \in [Tables -> SUBSET {"src", "dst"}] /\ Required(k) \in [Tables -> SUBSET {"src", "dst"}]
      /\ Named(k) \in [Tables -> {"src", "dst"}]
  BY DEF Columns, Required, Named
<1>2. Checked(k) \subseteq Tables /\ Watched(k) \subseteq Tables
  BY DEF Checked, Watched, Since
<1>3. /\ Generated(k) \subseteq {"src", "dst"} /\ Key(k) \in {"src", "dst", "none"}
      /\ Reference(k) \in {"src", "dst", "none"}
  BY DEF Generated, Key, Reference
<1>4. Indexed(k) \in BOOLEAN
  BY DEF Indexed
<1> QED BY <1>1, <1>2, <1>3, <1>4 DEF SchemaAt, Catalog

\* An undo starts from any schema of before the cutover, each statement leaves one that can be undone
\* further, and where none is left it is the first schema.
LEMMA EarlierHalfway ==
  ASSUME script \in {"single", "with_fk"}, NEW c, Earlier(c)
  PROVE  Halfway(c)
<1>1. PICK k \in 1 .. Begin : c = SchemaAt(k)
  BY DEF Earlier
<1>2. Early(c)
  BY EarlyShape
<1>3. ASSUME NEW t \in Tables
      PROVE  /\ c.columns[t] = {"src"} \cup (IF Past(k, "add_column", t) THEN {"dst"} ELSE {})
             /\ c.notNull[t] = {"src"} \cup (IF Past(k, "set_not_null", t) THEN {"dst"} ELSE {})
             /\ Past(k, "set_not_null", t) \/ Past(k, "add_check", t) => Past(k, "add_column", t)
  BY <1>1, EarlyOrder DEF SchemaAt, Columns, Required
<1>4. c.check \subseteq {t \in Tables : Past(k, "add_check", t)}
  BY <1>1 DEF SchemaAt, Checked, Since
<1>5. c.index => Past(k, "add_column", "parent")
  BY <1>1, EarlyOrder DEF SchemaAt, Indexed, Tables
<1>6. "parent" \in Tables
  BY DEF Tables
<1> QED BY <1>2, <1>3, <1>4, <1>5, <1>6 DEF Halfway

LEMMA UndoStatement ==
  ASSUME NEW c, Early(c), NEW s \in UndoLeft(c)
  PROVE  /\ s.table \in Tables /\ s.op \in {"drop_sibling", "drop_trigger"}
         /\ LocksOf(s) = <<s.table>>
BY DEF UndoLeft, Early, Op, LocksOf

LEMMA UndoStep ==
  ASSUME NEW c \in Catalog, Halfway(c), NEW s \in UndoLeft(c)
  PROVE  /\ Altered(c, s) \in Catalog /\ Halfway(Altered(c, s))
         /\ Altered(c, s).trigger \subseteq c.trigger
         /\ \A t \in Tables : "dst" \in c.columns[t] \ Altered(c, s).columns[t] => t = s.table
<1>1. s.table \in Tables /\ s.op \in {"drop_sibling", "drop_trigger"}
  BY UndoStatement DEF Halfway
<1>2. /\ c.columns \in [Tables -> SUBSET {"src", "dst"}] /\ c.notNull \in [Tables -> SUBSET {"src", "dst"}]
      /\ c.named \in [Tables -> {"src", "dst"}] /\ c.check \in SUBSET Tables /\ c.trigger \in SUBSET Tables
      /\ c.defaults \in SUBSET {"src", "dst"} /\ c.key \in {"src", "dst", "none"} /\ c.index \in BOOLEAN
      /\ c.fk \in {"src", "dst", "none"}
  BY DEF Catalog
<1>3. CASE s.op = "drop_trigger"
  <2>1. Altered(c, s) = [c EXCEPT !.trigger = @ \ {s.table}]
    BY <1>3 DEF Altered
  <2>2. Altered(c, s) \in Catalog
    BY <1>2, <2>1 DEF Catalog
  <2>3. /\ Altered(c, s).columns = c.columns /\ Altered(c, s).notNull = c.notNull
        /\ Altered(c, s).check = c.check /\ Altered(c, s).index = c.index
        /\ Altered(c, s).named = c.named /\ Altered(c, s).key = c.key /\ Altered(c, s).defaults = c.defaults
        /\ Altered(c, s).fk = c.fk /\ Altered(c, s).trigger = c.trigger \ {s.table}
    BY <2>1 DEF Catalog
  <2> QED BY <2>2, <2>3 DEF Halfway, Early
<1>4. CASE s.op = "drop_sibling"
  <2> DEFINE index == IF s.table = "parent" THEN FALSE ELSE c.index
             columns == [c.columns EXCEPT ![s.table] = @ \ {"dst"}]
             notNull == [c.notNull EXCEPT ![s.table] = @ \ {"dst"}]
  <2>1. Altered(c, s) = [c EXCEPT !.columns = columns, !.notNull = notNull, !.check = @ \ {s.table}, !.index = index]
    BY <1>4 DEF Altered
  <2>2. columns \in [Tables -> SUBSET {"src", "dst"}] /\ notNull \in [Tables -> SUBSET {"src", "dst"}]
        /\ index \in BOOLEAN
    BY <1>1, <1>2
  <2>3. \A t \in Tables : /\ columns[t] = IF t = s.table THEN c.columns[t] \ {"dst"} ELSE c.columns[t]
                          /\ notNull[t] = IF t = s.table THEN c.notNull[t] \ {"dst"} ELSE c.notNull[t]
    BY <1>2
  <2>4. index => c.index /\ s.table # "parent"
    BY <1>2
  <2> HIDE DEF index, columns, notNull
  <2>5. Altered(c, s) \in Catalog
    BY ZenonT(60), <1>2, <2>1, <2>2 DEF Catalog
  <2>6. /\ Altered(c, s).columns = columns /\ Altered(c, s).notNull = notNull
        /\ Altered(c, s).check = c.check \ {s.table} /\ Altered(c, s).index = index
        /\ Altered(c, s).named = c.named /\ Altered(c, s).key = c.key /\ Altered(c, s).defaults = c.defaults
        /\ Altered(c, s).fk = c.fk /\ Altered(c, s).trigger = c.trigger
    BY <2>1 DEF Catalog
  <2>7. Early(Altered(c, s))
    BY <2>3, <2>6 DEF Halfway, Early
  <2>8. "parent" \in Tables
    BY DEF Tables
  <2> QED BY <2>3, <2>4, <2>5, <2>6, <2>7, <2>8 DEF Halfway
<1> QED BY <1>1, <1>3, <1>4

LEMMA UndoneFully ==
  ASSUME script \in {"single", "with_fk"}, NEW c \in Catalog, Halfway(c), UndoLeft(c) = {}
  PROVE  c = SchemaAt(1) /\ \A t \in Tables : "dst" \notin c.columns[t]
<1>1. c.trigger = {} /\ \A t \in Tables : "dst" \notin c.columns[t]
  BY DEF UndoLeft
<1>2. c.columns \in [Tables -> SUBSET {"src", "dst"}] /\ c.notNull \in [Tables -> SUBSET {"src", "dst"}]
      /\ c.index \in BOOLEAN
  BY DEF Catalog
<1>3. \A t \in Tables : c.columns[t] = {"src"} /\ c.notNull[t] = {"src"}
  BY <1>1, <1>2 DEF Halfway, Early
<1>4. c.columns = [t \in Tables |-> {"src"}] /\ c.notNull = [t \in Tables |-> {"src"}]
  BY <1>2, <1>3
<1>5. c.check = {} /\ c.index = FALSE
  BY <1>1, <1>2 DEF Halfway, Tables
<1>6. c = StartCatalog(script)
  BY <1>1, <1>4, <1>5 DEF Halfway, Early, StartCatalog, Catalog
<1> QED BY <1>1, <1>6, StartSchema

LEMMA NextOfUndo ==
  ASSUME Undoing
  PROVE  /\ Running /\ Statement \in UndoLeft(catalog)
         /\ Statement.table \in Tables /\ Statement.op \in {"drop_sibling", "drop_trigger"}
         /\ LocksOf(Statement) = <<Statement.table>>
<1>1. PICK s \in UndoLeft(catalog) : todo = <<s>>
  BY DEF Undoing
<1>2. todo # <<>> /\ Head(todo) = s
  BY <1>1
<1>3. Early(catalog)
  BY DEF Undoing, Halfway
<1> QED BY <1>2, <1>3, UndoStatement DEF Running, Statement

\* The programs and their schemas depend on the script alone.
LEMMA ScriptKept ==
  ASSUME script' = script
  PROVE  /\ Migrate' = Migrate
         /\ Begin' = Begin /\ End' = End /\ Last' = Last
         /\ \A k : SchemaAt(k)' = SchemaAt(k)
         /\ \A k, op : Since(k, op)' = Since(k, op)
<1>1. ASSUME NEW op, NEW t PROVE Turn(op, t)' = Turn(op, t)
  BY DEF Turn
<1>2. Migrate' = Migrate
  BY DEF Migrate
<1>3. Begin' = Begin /\ End' = End /\ Last' = Last
  BY <1>1, <1>2 DEF Begin, End, Last
<1>4. ASSUME NEW k, NEW op, NEW t PROVE Past(k, op, t)' <=> Past(k, op, t)
  BY <1>1 DEF Past
<1>5. ASSUME NEW k, NEW op PROVE Since(k, op)' = Since(k, op)
  BY <1>4 DEF Since
<1>6. ASSUME NEW k PROVE SchemaAt(k)' = SchemaAt(k)
  <2>1. Columns(k)' = Columns(k) /\ Named(k)' = Named(k) /\ Required(k)' = Required(k)
    BY <1>4 DEF Columns, Named, Required
  <2>2. Checked(k)' = Checked(k) /\ Watched(k)' = Watched(k)
    BY <1>5 DEF Checked, Watched
  <2>3. Generated(k)' = Generated(k) /\ Key(k)' = Key(k) /\ Reference(k)' = Reference(k)
    BY <1>4 DEF Generated, Key, Reference
  <2>4. Indexed(k)' = Indexed(k)
    BY <1>4 DEF Indexed
  <2> QED BY <2>1, <2>2, <2>3, <2>4 DEF SchemaAt
<1> QED BY <1>2, <1>3, <1>5, <1>6

LEMMA HalfwayNext ==
  ASSUME script' = script, Halfway(catalog')
  PROVE  Halfway(catalog)'
BY DEF Halfway, Early

LEMMA EarlierNext ==
  ASSUME script' = script, Earlier(catalog')
  PROVE  Earlier(catalog)'
BY ScriptKept DEF Earlier

LEMMA LaterNext ==
  ASSUME script' = script, Later(catalog')
  PROVE  Later(catalog)'
BY ScriptKept DEF Later

\* The committed schema is always one from before or after the cutover.
LEMMA MigratingSchema ==
  ASSUME script \in {"single", "with_fk"}, NEW k \in 1 .. Last, Migrating(k)
  PROVE  /\ Earlier(catalog) \/ Later(catalog)
         /\ k <= Begin => catalog = SchemaAt(k) /\ ~inTx /\ Earlier(catalog)
         /\ Begin < k /\ k <= End => catalog = SchemaAt(Begin) /\ inTx /\ Earlier(catalog)
         /\ End < k => catalog = SchemaAt(k) /\ ~inTx /\ Later(catalog)
<1>1. Begin \in Nat /\ End \in Nat /\ Last \in Nat /\ 1 <= Begin /\ Begin < End
  BY Bounds
<1>2. CASE k <= Begin
  <2>1. k \in 1 .. Begin
    BY <1>1, <1>2
  <2>2. ~inTx
    BY <1>1, <1>2 DEF Migrating
  <2> QED BY <1>1, <1>2, <2>1, <2>2 DEF Migrating, Earlier
<1>3. CASE Begin < k /\ k <= End
  <2>1. Begin \in 1 .. Begin
    BY <1>1
  <2>2. inTx
    BY <1>3 DEF Migrating
  <2> QED BY <1>1, <1>3, <2>1, <2>2 DEF Migrating, Earlier
<1>4. CASE End < k
  <2>1. k \in End + 1 .. Last + 1
    BY <1>1, <1>4
  <2>2. ~inTx
    BY <1>1, <1>4 DEF Migrating
  <2> QED BY <1>1, <1>4, <2>1, <2>2 DEF Migrating, Later
<1> QED BY <1>1, <1>2, <1>3, <1>4

\* Writers only ever meet a schema of before or of after the cutover, a half undone one included.
LEMMA CatalogShape ==
  ASSUME script \in {"single", "with_fk"}, Phase
  PROVE  /\ Early(catalog) \/ Late(catalog)
         /\ Early(catalog) /\ ~HalfUndone => Whole(catalog)
<1>1. ASSUME Earlier(catalog) \/ Later(catalog)
      PROVE  /\ Early(catalog) \/ Late(catalog)
             /\ Early(catalog) => Whole(catalog)
  <2>1. ~(Early(catalog) /\ Late(catalog))
    BY DEF Early, Late, Tables
  <2> QED BY <1>1, <2>1, EarlyShape, LateShape
<1>2. CASE Idle
  BY <1>1, <1>2 DEF Idle, HalfUndone, Halfway
<1>3. CASE \E k \in 1 .. Last : Migrating(k)
  BY <1>1, <1>3, MigratingSchema
<1>4. CASE Undoing
  BY <1>4 DEF Undoing, HalfUndone, Halfway
<1> QED BY <1>2, <1>3, <1>4 DEF Phase

\* A table that the program has begun to fill is watched by its trigger until the cutover.
LEMMA FilledWatched ==
  ASSUME script \in {"single", "with_fk"}, NEW k \in 1 .. Last, Migrating(k),
         NEW t \in Since(k, "backfill")
  PROVE  (Early(catalog) /\ t \in catalog.trigger) \/ Late(catalog)
<1>1. Begin \in Nat /\ End \in Nat /\ Last \in Nat /\ 1 <= Begin /\ Begin < End
  BY Bounds
<1>2. t \in Tables /\ Past(k, "backfill", t)
  BY DEF Since
<1>3. CASE End < k
  BY <1>3, MigratingSchema, LateShape
<1>4. CASE k <= End
  <2>1. PICK j \in 1 .. Begin : catalog = SchemaAt(j) /\ Past(j, "backfill", t)
    <3>1. CASE k <= Begin
      <4>1. k \in 1 .. Begin
        BY <1>1, <3>1
      <4> QED BY <1>2, <3>1, <4>1, MigratingSchema
    <3>2. CASE Begin < k
      <4>1. catalog = SchemaAt(Begin) /\ Begin \in 1 .. Begin
        BY <1>1, <1>4, <3>2, MigratingSchema
      <4>2. Past(Begin, "backfill", t)
        <5>1. CASE script = "single"
          <6>1. t = "parent"
            <7>1. k \in 1 .. Last + 1
              BY <1>1
            <7> QED BY <1>2, <5>1, <7>1, SingleOrder DEF Tables
          <6> QED BY <5>1, <6>1, SingleTurns DEF Past, Begin
        <5>2. CASE script # "single"
          BY <1>2, <5>2, FamilyTurns DEF Past, Begin, Tables
        <5> QED BY <5>1, <5>2
      <4> QED BY <4>1, <4>2
    <3> QED BY <1>1, <3>1, <3>2
  <2>2. Past(j, "install_trigger", t) /\ ~Past(j, "drop_trigger", t)
    BY <1>2, <2>1, EarlyOrder
  <2>3. t \in catalog.trigger
    BY <1>2, <2>1, <2>2 DEF SchemaAt, Watched, Since
  <2> QED BY <2>1, <2>3, EarlyShape DEF Earlier
<1> QED BY <1>1, <1>3, <1>4

-----------------------------------------------------------------------------
(* The values of rows. *)

\* Flipped identifiers are none that a parent had before: raw identifiers of both directions are apart.
LEMMA Values ==
  /\ Parents \subseteq Ids /\ Parents \subseteq Nat /\ Null \notin Ids
  /\ \A k \in Parents : Flip(k) = IdBound - 1 - k /\ Flip(k) \in Ids /\ Flip(k) \notin Parents
  /\ \A k, l \in Parents : /\ Flip(k) = Flip(l) => k = l
                           /\ k < l => Flip(l) < Flip(k)
<1>1. MaxIds \in Nat /\ IdBound = 2 * MaxIds /\ Null \notin 0 .. IdBound - 1
  BY MigrationAssumption, AutofillAssumption
<1>2. Parents \subseteq Ids /\ Parents \subseteq Nat /\ Null \notin Ids
  BY <1>1 DEF Parents, Ids
<1>3. \A k \in Parents : Flip(k) = IdBound - 1 - k
  BY <1>2 DEF Flip
<1>4. \A k \in Parents : IdBound - 1 - k \in Ids /\ IdBound - 1 - k \notin Parents
  BY <1>1 DEF Parents, Ids
<1>5. \A k, l \in Parents : /\ IdBound - 1 - k = IdBound - 1 - l => k = l
                            /\ k < l => IdBound - 1 - l < IdBound - 1 - k
  BY <1>1 DEF Parents
<1> QED BY <1>2, <1>3, <1>4, <1>5

LEMMA SomePlace ==
  ASSUME NEW p \in Places
  PROVE  /\ TableOf(p) \in Tables /\ p \in PlacesOf(TableOf(p))
         /\ p \in Children <=> p \notin Parents
         /\ p \in Children <=> TableOf(p) = "child"
         /\ p \in Parents <=> TableOf(p) = "parent"
BY PlacesAssumption DEF Places, TableOf, Tables, PlacesOf

LEMMA NoRow ==
  /\ Absent \notin Version /\ Same \notin Version /\ Absent # Same
BY PlacesAssumption

LEMMA VersionFields ==
  ASSUME NEW v \in Version
  PROVE  v.meant \in Parents /\ v.src \in Column /\ v.dst \in Column
BY DEF Version

\* A writer's transaction sees rows of which the identifiers are right.
LEMMA SeenRight ==
  ASSUME TypeOK, LocksApart, RowsRight, NEW w \in Writers, NEW p \in Places
  PROVE  /\ Seen(w, p) \in Version \cup {Absent}
         /\ Seen(w, p) # Absent => Seen(w, p) \in Version /\ Right(p, Seen(w, p))
         /\ owner[p] # w => Seen(w, p) = row[p]
         /\ owner[p] = w => Seen(w, p) = pend[p] /\ pend[p] # Same
<1>1. /\ row[p] \in Version \cup {Absent} /\ pend[p] \in Version \cup {Absent, Same}
      /\ owner[p] \in Writers \cup {NoOne}
  BY DEF TypeOK
<1>2. row[p] # Absent => Right(p, row[p])
  BY DEF RowsRight
<1>3. pend[p] \notin {Absent, Same} => Right(p, pend[p])
  BY DEF RowsRight
<1>4. owner[p] = NoOne <=> pend[p] = Same
  BY DEF LocksApart
<1>5. w # NoOne
  BY MigrationAssumption
<1> QED BY <1>1, <1>2, <1>3, <1>4, <1>5, NoRow DEF Seen

\* A version of the rows of parents in the schema of before, and after, the cutover.
LEMMA EarlyVersion ==
  ASSUME Early(catalog), NEW p, NEW v, Right(p, v), NEW t, t = TableOf(p)
  PROVE  /\ v.src = v.meant
         /\ v.dst # Null => /\ "dst" \in catalog.columns[t]
                            /\ t \in catalog.trigger => v.dst = Flip(v.meant)
                            /\ ~HalfUndone => t \in catalog.trigger
BY DEF Right, Before, Early, Tables

LEMMA LateVersion ==
  ASSUME Late(catalog), NEW p, NEW v, Right(p, v)
  PROVE  v.dst = Flip(v.meant)
BY DEF Right, Before, Late

LEMMA BeforeIsEarly ==
  ASSUME Early(catalog) \/ Late(catalog)
  PROVE  (Before <=> Early(catalog)) /\ (~Before <=> Late(catalog))
BY DEF Before, Early, Late, Tables

\* What an insert writes.
LEMMA Inserted ==
  ASSUME TypeOK, Early(catalog) \/ Late(catalog), NEW w \in Writers, Asking(stmt[w]), stmt[w].op = "insert",
         NEW k, k = stmt[w].place
  PROVE  /\ k \in Parents /\ TableOf(k) = "parent" /\ stmt[w].meant = k
         /\ Written(w) \in Version /\ Written(w).meant = k
         /\ Served("parent") => Right(k, Written(w))
         /\ Early(catalog) => Written(w).src = k
         /\ Late(catalog) => Right(k, Written(w))
         /\ "parent" \in catalog.trigger => Written(w).dst # Null
<1>1. k \in Parents /\ stmt[w].meant = k
  BY DEF Asking, NoStatement
<1>2. k \in Places /\ TableOf(k) = "parent" /\ k \notin Children
  BY <1>1, SomePlace DEF Places
<1>3. /\ Parents \subseteq Ids /\ Null \notin Ids /\ Flip(k) \in Ids
  BY <1>1, Values
<1>4. Written(w) = Triggered("parent", Absent, NewParent(k))
  BY DEF Written
<1>5. CASE Early(catalog)
  <2>1. NewParent(k) = [meant |-> k, src |-> k, dst |-> Null]
    BY <1>5 DEF NewParent, Early
  <2>2. Written(w) = [meant |-> k, src |-> k, dst |-> IF "parent" \in catalog.trigger THEN Flip(k) ELSE Null]
    BY <1>4, <2>1 DEF Triggered, OnInsert, Refilled
  <2>3. Written(w) \in Version
    BY <1>1, <1>3, <2>2 DEF Version, Column
  <2> QED BY <1>1, <1>2, <1>3, <1>5, <2>2, <2>3, BeforeIsEarly DEF Right, Served
<1>6. CASE Late(catalog)
  <2>1. NewParent(k) = [meant |-> k, src |-> Null, dst |-> Flip(k)]
    BY <1>6 DEF NewParent, Late
  <2>2. Written(w) = [meant |-> k, src |-> Null, dst |-> Flip(k)]
    BY <1>4, <1>6, <2>1 DEF Triggered, Late
  <2>3. Written(w) \in Version
    BY <1>1, <1>3, <2>2 DEF Version, Column
  <2> QED BY <1>1, <1>2, <1>3, <1>6, <2>2, <2>3, BeforeIsEarly DEF Right
<1> QED BY <1>5, <1>6

\* What a link writes: before the cutover it is right by the trigger.
LEMMA LinkWritten ==
  ASSUME TypeOK, LocksApart, RowsRight, Early(catalog) \/ Late(catalog),
         NEW w \in Writers, Asking(stmt[w]), stmt[w].op = "link", NEW c, c = stmt[w].place
  PROVE  /\ script = "with_fk" /\ c \in Children /\ TableOf(c) = "child"
         /\ stmt[w].meant \in Parents /\ stmt[w].value \in Column /\ ReadRight(stmt[w])
         /\ Written(w) \in Version /\ Written(w).meant = stmt[w].meant
         /\ Early(catalog) => /\ Served("child") => Right(c, Written(w))
                              /\ Written(w).src = stmt[w].value /\ stmt[w].value = stmt[w].meant
         /\ Late(catalog) => Written(w).dst = stmt[w].value
         /\ "child" \in catalog.trigger => Written(w).dst # Null
<1> DEFINE s == stmt[w]
           old == Seen(w, c)
           new == Linked(old, s)
<1>1. script = "with_fk" /\ c \in Children /\ s.meant \in Parents /\ s.value \in Column /\ ReadRight(s)
  BY DEF Asking, NoStatement
<1>2. c \in Places /\ TableOf(c) = "child" /\ c \notin Parents
  BY <1>1, SomePlace DEF Places
<1>3. old \in Version \cup {Absent} /\ (old # Absent => Right(c, old))
  BY <1>2, SeenRight
<1>4. Written(w) = Triggered("child", old, new)
  BY DEF Written
<1>5. Absent \notin Version /\ Parents \subseteq Ids /\ Null \notin Ids /\ Flip(s.meant) \in Ids
  BY <1>1, Values, NoRow
<1> HIDE DEF old, s
<1>6. CASE Early(catalog)
  <2>1. s.value = s.meant
    BY <1>1, <1>6, BeforeIsEarly DEF ReadRight
  <2>2. catalog.named["child"] = "src"
    BY <1>6 DEF Early, Tables
  <2>3. CASE old = Absent
    <3>1. new = [meant |-> s.meant, src |-> s.value, dst |-> Null]
      <4>1. new = [[meant |-> s.meant, src |-> Null, dst |-> Null] EXCEPT !.meant = s.meant, !["src"] = s.value]
        BY <2>2, <2>3 DEF Linked
      <4> HIDE DEF new
      <4> QED BY <4>1
    <3>2. Written(w) = [meant |-> s.meant, src |-> s.value,
                        dst |-> IF "child" \in catalog.trigger THEN Flip(s.value) ELSE Null]
      BY <1>4, <2>3, <3>1 DEF Triggered, OnInsert, Refilled
    <3>3. Written(w) \in Version
      BY <1>1, <1>5, <2>1, <3>2 DEF Version, Column
    <3> QED BY <1>1, <1>2, <1>5, <1>6, <2>1, <3>2, <3>3, BeforeIsEarly DEF Right, Served, s
  <2>4. CASE old # Absent
    <3>1. /\ old \in Version /\ old.src = old.meant
          /\ old.dst # Null => /\ "dst" \in catalog.columns["child"]
                               /\ "child" \in catalog.trigger => old.dst = Flip(old.meant)
                               /\ ~HalfUndone => "child" \in catalog.trigger
      BY <1>2, <1>3, <1>6, <2>4, EarlyVersion
    <3>2. new = [old EXCEPT !.meant = s.meant, !.src = s.value]
      BY <2>2, <2>4 DEF Linked
    <3>3. new = [meant |-> s.meant, src |-> s.value, dst |-> old.dst]
      BY <3>1, <3>2 DEF Version
    <3>4. CASE "child" \notin catalog.trigger
      <4>1. Written(w) = [meant |-> s.meant, src |-> s.value, dst |-> old.dst]
        BY <1>4, <3>3, <3>4 DEF Triggered
      <4>2. Written(w) \in Version
        BY <1>1, <1>5, <2>1, <3>1, <4>1 DEF Version, Column
      <4> QED BY <1>1, <1>2, <1>5, <1>6, <2>1, <3>1, <3>4, <4>1, <4>2, BeforeIsEarly DEF Right, s
    <3>5. CASE "child" \in catalog.trigger
      <4>1. Written(w) = OnUpdate(old, new)
        BY <1>4, <2>4, <3>5 DEF Triggered
      <4>2. Written(w) = [meant |-> s.meant, src |-> s.value, dst |-> Flip(s.meant)]
        <5>1. CASE new.src # old.src \/ new.dst = Null
          BY <2>1, <3>3, <4>1, <5>1 DEF OnUpdate, Refilled
        <5>2. CASE new.src = old.src /\ new.dst # Null
          BY <2>1, <3>1, <3>3, <3>5, <4>1, <5>2 DEF OnUpdate
        <5> QED BY <5>1, <5>2
      <4>3. Written(w) \in Version
        BY <1>1, <1>5, <2>1, <4>2 DEF Version, Column
      <4> QED BY <1>1, <1>2, <1>5, <1>6, <2>1, <3>5, <4>2, <4>3, BeforeIsEarly DEF Right, Served, s
    <3> QED BY <3>4, <3>5
  <2> QED BY <2>3, <2>4
<1>7. CASE Late(catalog)
  <2>1. catalog.named["child"] = "dst" /\ catalog.trigger = {}
    BY <1>1, <1>7 DEF Late
  <2>2. Written(w) = new
    BY <1>4, <2>1 DEF Triggered
  <2>3. new.meant = s.meant /\ new.dst = s.value /\ new \in Version
    <3>1. CASE old = Absent
      <4>1. new = [meant |-> s.meant, src |-> Null, dst |-> s.value]
        <5>1. new = [[meant |-> s.meant, src |-> Null, dst |-> Null] EXCEPT !.meant = s.meant, !["dst"] = s.value]
          BY <2>1, <3>1 DEF Linked
        <5> HIDE DEF new
        <5> QED BY <5>1
      <4> QED BY <1>1, <4>1 DEF Version, Column
    <3>2. CASE old # Absent
      <4>1. new = [old EXCEPT !.meant = s.meant, !.dst = s.value] /\ old \in Version
        BY <1>3, <2>1, <3>2 DEF Linked
      <4> QED BY <1>1, <4>1 DEF Version
    <3> QED BY <3>1, <3>2
  <2>4. ~Early(catalog)
    BY <1>7, BeforeIsEarly
  <2> QED BY <1>1, <1>2, <2>1, <2>2, <2>3, <2>4 DEF s
<1> QED BY <1>6, <1>7

-----------------------------------------------------------------------------
(* What the application is promised. *)

\* The invariant with the phase reduced to the schema that writers meet.
Basis ==
  /\ script \in {"single", "with_fk"}
  /\ TypeOK /\ LocksApart /\ RowsRight /\ ReadsRight /\ Parented
  /\ Early(catalog) \/ Late(catalog)
  /\ Early(catalog) /\ ~HalfUndone => Whole(catalog)

LEMMA InvBasis == Inv => Basis
BY CatalogShape DEF Inv, Basis

\* The foreign key compares the columns that identify a parent.
LEMMA SameReference ==
  ASSUME Basis, script = "with_fk", NEW k \in Parents, NEW v, Right(k, v), NEW c \in Children, NEW u, Right(c, u)
  PROVE  /\ catalog.fk # "none" /\ catalog.fk = catalog.key
         /\ u.meant \in Parents => (v[catalog.fk] = u[catalog.fk] <=> k = u.meant)
<1>1. v.meant = k
  BY DEF Right
<1>2. CASE Early(catalog)
  <2>1. catalog.fk = "src" /\ catalog.key = "src"
    BY <1>2 DEF Early
  <2> QED BY <1>1, <1>2, <2>1, EarlyVersion
<1>3. CASE Late(catalog)
  <2>1. catalog.fk = "dst" /\ catalog.key = "dst"
    BY <1>3 DEF Late
  <2>2. v.dst = Flip(k) /\ u.dst = Flip(u.meant)
    BY <1>1, <1>3, LateVersion
  <2> QED BY <2>1, <2>2, Values
<1> QED BY <1>2, <1>3 DEF Basis

\* The columns the application sees identify a child's parent: equal ones are of the parent meant.
LEMMA KeepsLinks == Inv => LinksKept
<1> SUFFICES ASSUME Inv, NEW c \in Present("child")
             PROVE  /\ row[row[c].meant] # Absent
                    /\ row[c][catalog.named["child"]] = row[row[c].meant][catalog.named["parent"]]
  BY DEF LinksKept
<1>1. c \in Children /\ c \in Places /\ row[c] # Absent
  BY DEF Present, PlacesOf, Places
<1>2. Basis
  BY InvBasis
<1> DEFINE k == row[c].meant
<1>3. row[c] \in Version /\ Right(c, row[c])
  BY <1>1, <1>2 DEF Basis, TypeOK, RowsRight
<1>4. k \in Parents /\ k \in Places /\ row[k] # Absent
  BY <1>1, <1>2, <1>3, VersionFields DEF Basis, Parented, Places
<1>5. row[k] \in Version /\ Right(k, row[k])
  BY <1>2, <1>4 DEF Basis, TypeOK, RowsRight
<1>6. script = "with_fk" /\ row[k].meant = k
  BY <1>1, <1>3, <1>4, <1>5 DEF Right
<1> HIDE DEF k
<1>7. CASE Early(catalog)
  <2>1. catalog.named["child"] = "src" /\ catalog.named["parent"] = "src"
    BY <1>7 DEF Early, Tables
  <2>2. row[c].src = k /\ row[k].src = k
    BY <1>3, <1>5, <1>6, <1>7, EarlyVersion DEF k
  <2> QED BY <1>4, <2>1, <2>2 DEF k
<1>8. CASE Late(catalog)
  <2>1. catalog.named["child"] = "dst" /\ catalog.named["parent"] = "dst"
    BY <1>6, <1>8 DEF Late
  <2>2. row[c].dst = Flip(k) /\ row[k].dst = Flip(k)
    BY <1>3, <1>5, <1>6, <1>8, LateVersion DEF k
  <2> QED BY <1>4, <2>1, <2>2 DEF k
<1> QED BY <1>2, <1>7, <1>8 DEF Basis

\* The schema outside the program's transactions is one of before or after the cutover, or half undone.
LEMMA NeverHalf == Inv => NeverHalfMigrated
<1> SUFFICES ASSUME Inv PROVE NeverHalfMigrated
  OBVIOUS
<1>1. Basis
  BY InvBasis
<1>2. CASE Early(catalog)
  BY <1>1, <1>2 DEF Early, Whole, NeverHalfMigrated, Tables, Basis
<1>3. CASE Late(catalog)
  BY <1>1, <1>3 DEF Late, NeverHalfMigrated, Tables, Basis
<1> QED BY <1>1, <1>2, <1>3 DEF Basis

\* A link that the foreign key accepts has the identifier of a parent that is there and that its
\* writer meant: an identifier from before the cutover is none after it.
LEMMA LinkAccepted ==
  ASSUME Basis, NEW w \in Writers, stmt[w].op = "link", Accepted(w, Written(w))
  PROVE  /\ Right(stmt[w].place, Written(w))
         /\ Seen(w, stmt[w].meant) # Absent
<1> DEFINE s == stmt[w]
           c == s.place
           v == Written(w)
<1>1. Asking(s)
  BY DEF Basis, ReadsRight
<1>2. /\ script = "with_fk" /\ c \in Children /\ TableOf(c) = "child"
      /\ s.meant \in Parents /\ s.value \in Column /\ ReadRight(s)
      /\ v \in Version /\ v.meant = s.meant
      /\ Early(catalog) => Right(c, v) /\ v.src = s.value /\ s.value = s.meant
      /\ Late(catalog) => v.dst = s.value
  <2>1. c \in Children /\ TableOf(c) = "child"
    BY <1>1, LinkWritten DEF Basis
  <2>2. Served("child")
    BY <2>1 DEF Accepted, Served
  <2> QED BY <1>1, <2>2, LinkWritten DEF Basis
<1>3. PICK k \in Parents : Seen(w, k) # Absent /\ (catalog.fk # "none" => Seen(w, k)[catalog.fk] = v[catalog.fk])
  <2>1. catalog.fk # "none"
    BY <1>2 DEF Basis, Early, Late
  <2> QED BY <1>2, <2>1 DEF Accepted
<1>4. k \in Places
  BY DEF Places
<1>5. Right(k, Seen(w, k)) /\ Seen(w, k).meant = k
  BY <1>3, <1>4, SeenRight DEF Right, Basis
<1> HIDE DEF s, c, v
<1>6. CASE Early(catalog)
  <2>1. catalog.fk = "src"
    BY <1>2, <1>6 DEF Early
  <2>2. Seen(w, k).src = k
    BY <1>5, <1>6, EarlyVersion
  <2>3. v.src = s.meant
    BY <1>2, <1>6
  <2>4. k = s.meant
    BY <1>3, <2>1, <2>2, <2>3
  <2> QED BY <1>2, <1>3, <1>6, <2>4 DEF s, c, v
<1>7. CASE Late(catalog)
  <2>1. catalog.fk = "dst"
    BY <1>2, <1>7 DEF Late
  <2>2. Seen(w, k).dst = Flip(k)
    BY <1>5, <1>7, LateVersion
  <2>3. v.dst = Flip(k)
    BY <1>3, <2>1, <2>2
  <2>4. s.value # s.meant
    BY <1>2, <1>7, <2>3, Values
  <2>5. s.value = Flip(s.meant) /\ ~Before
    BY <1>2, <2>4 DEF ReadRight
  <2>6. k = s.meant
    BY <1>2, <1>7, <2>3, <2>5, Values
  <2>7. c \notin Parents
    BY <1>2, PlacesAssumption
  <2> QED BY <1>2, <1>3, <2>3, <2>5, <2>6, <2>7 DEF Right, s, c, v
<1> QED BY <1>6, <1>7 DEF Basis

\* What the catalog asks of a version, the defaults and the triggers of the same catalog provide, if
\* an undo has left no table lame.
LEMMA Unharmed == Inv => WritersUnharmed
<1> SUFFICES ASSUME Inv, NEW w \in Writers, Able(w), stmt[w].op # "delete", Current(w),
                    ~(HalfUndone /\ Lame(TableOf(stmt[w].place)))
             PROVE  Accepted(w, Written(w))
  BY DEF WritersUnharmed, Allowed
<1> DEFINE s == stmt[w]
           v == Written(w)
<1>1. Basis
  BY InvBasis
<1>2. Asking(s) /\ s # NoStatement
  BY <1>1 DEF Basis, ReadsRight, Able
<1>3. Null \notin Ids /\ Parents \subseteq Ids
  BY Values
<1>7. ASSUME Early(catalog), NEW t \in Tables, t = TableOf(s.place)
      PROVE  /\ t \in catalog.trigger => catalog.columns[t] = {"src", "dst"}
             /\ "dst" \in catalog.notNull[t] => t \in catalog.trigger
             /\ t \in catalog.check => t \in catalog.trigger
  <2>1. CASE HalfUndone
    <3>1. ~Lame(t)
      BY <1>7, <2>1
    <3>2. catalog.columns[t] \subseteq {"src", "dst"} /\ "src" \in catalog.columns[t]
      BY ZenonT(60), <1>1, <1>7 DEF Basis, TypeOK, Catalog, Early
    <3> QED BY <3>1, <3>2 DEF Lame
  <2>2. CASE ~HalfUndone
    BY <1>1, <1>7, <2>2 DEF Basis, Whole
  <2> QED BY <2>1, <2>2
<1>4. CASE s.op = "insert"
  <2> DEFINE k == s.place
  <2>1. /\ k \in Parents /\ TableOf(k) = "parent"
        /\ v \in Version /\ v.meant = k
        /\ Early(catalog) => v.src = k
        /\ Late(catalog) => Right(k, v)
        /\ "parent" \in catalog.trigger => v.dst # Null
    BY <1>1, <1>2, <1>4, Inserted DEF Basis
  <2> HIDE DEF k, s, v
  <2>2. ASSUME NEW l \in Parents, row[l] # Absent
        PROVE  row[l] \in Version /\ Right(l, row[l]) /\ row[l].meant = l
    BY <1>1, <2>2 DEF Basis, TypeOK, RowsRight, Right, Places
  <2>3. CASE Early(catalog)
    <3>1. v.src = k /\ k # Null
      BY <1>3, <2>1, <2>3
    <3>2. /\ "parent" \in catalog.trigger => catalog.columns["parent"] = {"src", "dst"}
          /\ "dst" \in catalog.notNull["parent"] => "parent" \in catalog.trigger
          /\ "parent" \in catalog.check => "parent" \in catalog.trigger
          /\ catalog.key = "src"
      BY <1>7, <2>1, <2>3 DEF Early, Tables, k
    <3>3. \A column \in catalog.notNull["parent"] : v[column] # Null
      <4>1. catalog.notNull["parent"] \subseteq {"src", "dst"}
        BY <1>1 DEF Basis, TypeOK, Catalog, Tables
      <4> QED BY <2>1, <3>1, <3>2, <4>1
    <3>4. \A l \in Parents \ {k} : row[l] # Absent => row[l].src # v.src
      BY <2>2, <2>3, <3>1, EarlyVersion
    <3> QED BY <2>1, <3>1, <3>2, <3>3, <3>4 DEF Accepted, k, s, v
  <2>4. CASE Late(catalog)
    <3>1. v.dst = Flip(k) /\ v.dst # Null
      BY <1>3, <2>1, <2>4, LateVersion, Values
    <3>2. catalog.trigger = {} /\ catalog.check = {} /\ catalog.key = "dst" /\ "src" \notin catalog.notNull["parent"]
      BY <2>4 DEF Late
    <3>3. \A column \in catalog.notNull["parent"] : v[column] # Null
      <4>1. catalog.notNull["parent"] \subseteq {"src", "dst"}
        BY <1>1 DEF Basis, TypeOK, Catalog, Tables
      <4> QED BY <3>1, <3>2, <4>1
    <3>4. \A l \in Parents \ {k} : row[l] # Absent => row[l].dst # v.dst
      BY <2>1, <2>2, <2>4, <3>1, LateVersion, Values
    <3> QED BY <2>1, <3>2, <3>3, <3>4 DEF Accepted, k, s, v
  <2> QED BY <1>1, <2>3, <2>4 DEF Basis
<1>5. CASE s.op = "link"
  <2> DEFINE c == s.place
  <2>1. /\ script = "with_fk" /\ c \in Children /\ TableOf(c) = "child"
        /\ s.meant \in Parents /\ s.value \in Column /\ ReadRight(s)
        /\ v \in Version /\ v.meant = s.meant
        /\ Early(catalog) => v.src = s.value
        /\ Late(catalog) => v.dst = s.value
        /\ "child" \in catalog.trigger => v.dst # Null
    BY <1>1, <1>2, <1>5, LinkWritten DEF Basis
  <2> DEFINE k == s.meant
  <2>2. Seen(w, k) # Absent /\ Seen(w, k)[catalog.named["parent"]] = s.value
    BY <2>1 DEF Current
  <2>3. Right(k, Seen(w, k)) /\ Seen(w, k).meant = k
    BY <1>1, <2>1, <2>2, SeenRight DEF Right, Basis, Places
  <2> HIDE DEF c, k, s, v
  <2>4. k \in Parents
    BY <2>1 DEF k
  <2>5. CASE Early(catalog)
    <3>1. Seen(w, k).src = k /\ s.value = k
      BY <2>2, <2>3, <2>5, EarlyVersion DEF Early, Tables
    <3>2. /\ "child" \in catalog.trigger => catalog.columns["child"] = {"src", "dst"}
          /\ "dst" \in catalog.notNull["child"] => "child" \in catalog.trigger
          /\ "child" \in catalog.check => "child" \in catalog.trigger
          /\ catalog.fk = "src"
      BY <1>7, <2>1, <2>5 DEF Early, Tables, c
    <3>3. \A column \in catalog.notNull["child"] : v[column] # Null
      <4>1. catalog.notNull["child"] \subseteq {"src", "dst"}
        BY <1>1 DEF Basis, TypeOK, Catalog, Tables
      <4> QED BY <1>3, <2>1, <2>4, <2>5, <3>1, <3>2, <4>1
    <3> QED BY <2>1, <2>2, <2>4, <2>5, <3>1, <3>2, <3>3 DEF Accepted, c, s, v
  <2>6. CASE Late(catalog)
    <3>1. Seen(w, k).dst = Flip(k) /\ s.value = Flip(k) /\ Flip(k) # Null
      BY <1>3, <2>2, <2>3, <2>4, <2>6, LateVersion, Values DEF Late
    <3>2. /\ catalog.trigger = {} /\ catalog.check = {} /\ catalog.fk = "dst"
          /\ "src" \notin catalog.notNull["child"]
      BY <2>1, <2>6 DEF Late
    <3>3. \A column \in catalog.notNull["child"] : v[column] # Null
      <4>1. catalog.notNull["child"] \subseteq {"src", "dst"}
        BY <1>1 DEF Basis, TypeOK, Catalog, Tables
      <4> QED BY <2>1, <2>6, <3>1, <3>2, <4>1
    <3> QED BY <2>1, <2>2, <2>4, <2>6, <3>1, <3>2, <3>3 DEF Accepted, c, s, v
  <2> QED BY <1>1, <2>5, <2>6 DEF Basis
<1>6. s.op \in {"insert", "link"}
  BY <1>2 DEF Asking
<1> QED BY <1>4, <1>5, <1>6

\* The schema in which each statement of the program finds itself.
LEMMA StatementSchema ==
  ASSUME script \in {"single", "with_fk"}, NEW k \in 1 .. Last, NEW s \in Statements, Turn(s.op, s.table) = k
  PROVE  /\ s.op \in {"assert_filled", "validate_check", "set_not_null"} => s.table \in Since(k, "backfill")
         /\ s.op = "drop_key" => Reference(k) = "none" /\ Key(k) = "src"
         /\ s.op = "promote_index" => Key(k) = "none" /\ Indexed(k) /\ "parent" \in Since(k, "backfill")
         /\ s.op = "add_foreign_key" => Key(k) = "dst"
         /\ s.op = "drop_source" => Reference(k) # "src"
         /\ s.op = "rename" => "src" \notin Columns(k)[s.table]
         /\ s.op \in {"validate_foreign_key", "assert_no_orphans"} => End < k /\ script = "with_fk"
         /\ s.op = "assert_newest_first" => End < k
         /\ s.op = "assert_columns" => End < k /\ (s.table = "parent" \/ script = "with_fk")
<1> DEFINE op == s.op
           t == s.table
<1>1. op \in Ops /\ t \in {"parent", "child"} /\ k = Turn(op, t)
  BY DEF Statements, Tables
<1>2. k # Never /\ k \in Nat
  <2>1. Last \in Nat /\ Last < Never
    BY Bounds DEF Never
  <2> QED BY <2>1
<1> HIDE DEF op, t
<1>3. op \in {"assert_filled", "validate_check", "set_not_null"} => t \in Since(k, "backfill")
  <2>1. ASSUME op \in {"assert_filled", "validate_check", "set_not_null"} PROVE Turn("backfill", t) < Turn(op, t)
    <3>1. CASE script = "single"
      BY <1>1, <1>2, <2>1, <3>1 DEF Turn, Never
    <3>2. CASE script # "single"
      BY <1>1, <1>2, <2>1, <3>2 DEF Turn, Never
    <3> QED BY <3>1, <3>2
  <2> QED BY <1>1, <2>1 DEF Since, Past, Tables
<1>4. op = "drop_key" => Reference(k) = "none" /\ Key(k) = "src"
  <2>1. ASSUME op = "drop_key"
        PROVE  /\ ~Past(k, "add_foreign_key", "child") /\ ~Past(k, "promote_index", "parent")
               /\ ~Past(k, "drop_key", "parent")
               /\ Past(k, "drop_foreign_key", "child") \/ script = "single"
    <3>1. CASE script = "single"
      <4>1. k = 11
        BY <1>1, <1>2, <2>1, <3>1 DEF Turn, Never
      <4> QED BY <3>1, <4>1 DEF Turn, Never, Past
    <3>2. CASE script # "single"
      <4>1. k = 20
        BY <1>1, <1>2, <2>1, <3>2 DEF Turn, Never
      <4> QED BY <3>2, <4>1, FamilyTurns DEF Past
    <3> QED BY <3>1, <3>2
  <2> QED BY <2>1 DEF Reference, Key
<1>5. op = "promote_index" => Key(k) = "none" /\ Indexed(k) /\ "parent" \in Since(k, "backfill")
  <2>1. ASSUME op = "promote_index"
        PROVE  /\ ~Past(k, "promote_index", "parent") /\ Past(k, "drop_key", "parent")
               /\ Past(k, "create_index", "parent") /\ Past(k, "backfill", "parent")
    <3>1. CASE script = "single"
      <4>1. k = 12
        BY <1>1, <1>2, <2>1, <3>1 DEF Turn, Never
      <4> QED BY <3>1, <4>1, SingleTurns DEF Past
    <3>2. CASE script # "single"
      <4>1. k = 21
        BY <1>1, <1>2, <2>1, <3>2 DEF Turn, Never
      <4> QED BY <3>2, <4>1, FamilyTurns DEF Past
    <3> QED BY <3>1, <3>2
  <2> QED BY <2>1 DEF Key, Indexed, Since, Tables
<1>6. op = "add_foreign_key" => Key(k) = "dst"
  <2>1. CASE script = "single"
    BY <1>1, <1>2, <2>1 DEF Turn, Never
  <2>2. CASE script # "single"
    BY <1>1, <1>2, <2>2 DEF Turn, Never, Key, Past
  <2> QED BY <2>1, <2>2
<1>7. op = "drop_source" => Reference(k) # "src"
  <2>1. CASE script = "single"
    BY <1>1, <1>2, <2>1 DEF Reference
  <2>2. CASE script # "single"
    <3>1. ASSUME op = "drop_source" PROVE Past(k, "add_foreign_key", "child")
      BY <1>1, <1>2, <2>2, <3>1 DEF Turn, Never, Past
    <3> QED BY <3>1 DEF Reference
  <2> QED BY <2>1, <2>2
<1>8. op = "rename" => "src" \notin Columns(k)[t]
  <2>1. ASSUME op = "rename" PROVE Past(k, "drop_source", t)
    <3>1. CASE script = "single"
      BY <1>1, <1>2, <2>1, <3>1 DEF Turn, Never, Past
    <3>2. CASE script # "single"
      BY <1>1, <1>2, <2>1, <3>2 DEF Turn, Never, Past
    <3> QED BY <3>1, <3>2
  <2> QED BY <1>1, <2>1 DEF Columns, Tables
<1>9. /\ op \in {"validate_foreign_key", "assert_no_orphans"} => End < k /\ script = "with_fk"
      /\ op = "assert_newest_first" => End < k
      /\ op = "assert_columns" => End < k /\ (t = "parent" \/ script = "with_fk")
  <2>1. CASE script = "single"
    BY <1>1, <1>2, <2>1 DEF Turn, Never, End
  <2>2. CASE script # "single"
    BY <1>1, <1>2, <2>2 DEF Turn, Never, End
  <2> QED BY <2>1, <2>2
<1> QED BY <1>3, <1>4, <1>5, <1>6, <1>7, <1>8, <1>9 DEF op, t

\* Each statement comes after those that make it possible, and filled tables stay filled.
LEMMA SoundScript == Inv => ScriptSound
<1> SUFFICES ASSUME Inv, Ready PROVE ~Impossible(draft, Statement)
  BY DEF ScriptSound
<1>1. Basis /\ Phase /\ script \in {"single", "with_fk"}
  BY InvBasis DEF Inv
<1>2. ~Idle
  BY DEF Idle, Ready, Running
<1>3. ASSUME Undoing PROVE ~Impossible(draft, Statement)
  <2>1. Statement.op \in {"drop_trigger", "drop_sibling"}
    BY <1>3, NextOfUndo
  <2> QED BY <2>1 DEF Impossible
<1>4. ASSUME NEW k \in 1 .. Last, Migrating(k) PROVE ~Impossible(draft, Statement)
  <2> DEFINE s == Statement
  <2>1. s \in Statements /\ Turn(s.op, s.table) = k
    BY <1>1, <1>4, NextOfMigrate DEF Migrating
  <2>2. /\ draft.columns = Columns(k) /\ draft.key = Key(k) /\ draft.fk = Reference(k)
        /\ draft.index = Indexed(k)
    BY <1>4 DEF Migrating, SchemaAt
  <2>3. \A t \in Since(k, "backfill") : GapsOf(t) = {}
    BY <1>4 DEF Migrating
  <2>4. End < k => Late(catalog) /\ draft = catalog
    BY <1>1, <1>4, MigratingSchema, LateShape DEF Migrating
  <2> HIDE DEF s
  <2>5. s.table \in Tables
    BY <2>1 DEF Statements
  <2>6. ASSUME Late(catalog), NEW p \in Places, row[p] # Absent
        PROVE  row[p] \in Version /\ row[p].dst = Flip(row[p].meant) /\ (p \in Parents => row[p].meant = p)
    BY <1>1, <2>6, LateVersion DEF Basis, TypeOK, RowsRight, Right
  <2>7. ~(s.op \in {"assert_filled", "validate_check", "set_not_null"} /\ GapsOf(s.table) # {})
    BY <1>1, <2>1, <2>3, StatementSchema
  <2>8. ~(s.op = "drop_key" /\ draft.fk = draft.key)
    BY <1>1, <2>1, <2>2, StatementSchema
  <2>9. ~(s.op = "promote_index" /\ (~draft.index \/ draft.key # "none" \/ GapsOf("parent") # {}))
    BY <1>1, <2>1, <2>2, <2>3, StatementSchema
  <2>10. ~(s.op = "add_foreign_key" /\ draft.key # "dst")
    BY <1>1, <2>1, <2>2, StatementSchema
  <2>11. ~(s.op = "drop_source" /\ draft.fk = "src")
    BY <1>1, <2>1, <2>2, StatementSchema
  <2>12. ~(s.op = "rename" /\ "src" \in draft.columns[s.table])
    BY <1>1, <2>1, <2>2, StatementSchema
  <2>13. ~(/\ s.op \in {"validate_foreign_key", "assert_no_orphans"}
           /\ \E r \in Present("child") : ~Resolves("dst", r))
    <3> SUFFICES ASSUME End < k, NEW r \in Present("child") PROVE Resolves("dst", r)
      BY <1>1, <2>1, StatementSchema
    <3>1. r \in Children /\ r \in Places /\ row[r] # Absent /\ Late(catalog)
      BY <2>4 DEF Present, PlacesOf, Places
    <3>2. row[r] \in Version /\ row[r].dst = Flip(row[r].meant)
      BY <2>6, <3>1
    <3>3. row[r].meant \in Parents /\ row[row[r].meant] # Absent
      BY <1>1, <3>1, <3>2, VersionFields DEF Basis, Parented
    <3>4. row[row[r].meant].dst = Flip(row[r].meant) /\ row[r].meant \in Present("parent")
      BY <2>6, <3>1, <3>3 DEF Present, PlacesOf, Places
    <3> QED BY <3>2, <3>4 DEF Resolves
  <2>14. ~(s.op = "assert_newest_first" /\ ~NewestFirst)
    <3> SUFFICES ASSUME Late(catalog), NEW j \in Present("parent"), NEW l \in Present("parent"), j < l
                 PROVE  row[l].dst < row[j].dst
      BY <1>1, <2>1, <2>4, StatementSchema DEF NewestFirst
    <3>1. {j, l} \subseteq Parents /\ {j, l} \subseteq Places /\ row[j] # Absent /\ row[l] # Absent
      BY DEF Present, PlacesOf, Places
    <3>2. row[j].dst = Flip(j) /\ row[l].dst = Flip(l)
      BY <2>6, <3>1
    <3> QED BY <3>1, <3>2, Values
  <2>15. ~(s.op = "assert_columns" /\ draft.columns[s.table] # {"dst"})
    <3> SUFFICES ASSUME End < k, s.table = "parent" \/ script = "with_fk" PROVE draft.columns[s.table] = {"dst"}
      BY <1>1, <2>1, StatementSchema
    <3> QED BY <2>4, <2>5 DEF Late, Tables
  <2> QED BY <2>7, <2>8, <2>9, <2>10, <2>11, <2>12, <2>13, <2>14, <2>15 DEF Impossible, s
<1> QED BY <1>1, <1>2, <1>3, <1>4 DEF Phase

-----------------------------------------------------------------------------
(* The invariant is inductive. *)

LEMMA Starts == Init => Inv
<1> SUFFICES ASSUME Init PROVE Inv
  OBVIOUS
<1>1. script \in {"single", "with_fk"} /\ catalog = SchemaAt(1) /\ draft = SchemaAt(1)
  BY StartSchema DEF Init
<1>2. catalog \in Catalog
  BY <1>1, SchemaType
<1>3. Parents \subseteq Ids /\ MaxIds \in Nat /\ MaxRuns \in Nat /\ MaxStatements \in Nat
  BY Values, MigrationAssumption
<1>4. row \in [Places -> Version \cup {Absent}]
  <2>1. [meant : Parents, src : Parents, dst : {Null}] \subseteq Version
    BY <1>3 DEF Version, Column
  <2> QED BY <2>1 DEF Init
<1>5. TypeOK
  <2>1. nextId \in 0 .. MaxIds /\ 0 \in 0 .. MaxRuns /\ 0 \in 0 .. MaxStatements
    BY <1>3 DEF Init, Parents
  <2>2. owner \in [Places -> Writers \cup {NoOne}] /\ pend \in [Places -> Version \cup {Absent, Same}]
    BY DEF Init
  <2>3. has \in [Writers -> SUBSET Tables] /\ count \in [Writers -> 0 .. MaxStatements]
    BY <2>1 DEF Init
  <2>4. sent = FALSE /\ held = {} /\ inTx = FALSE /\ ended = "never" /\ runs = 0
    BY DEF Init
  <2> QED BY <1>1, <1>2, <1>4, <2>1, <2>2, <2>3, <2>4 DEF TypeOK
<1>6. Phase
  <2>1. Begin \in Nat /\ 1 <= Begin
    BY <1>1, Bounds
  <2>2. Earlier(catalog)
    BY <1>1, <2>1 DEF Earlier
  <2> QED BY <1>1, <2>2 DEF Init, Phase, Idle
<1>7. LocksApart
  BY DEF Init, LocksApart
<1>8. RowsRight
  <2>1. Before
    BY DEF Before, Init, StartCatalog, Tables
  <2>2. ASSUME NEW p \in Places, row[p] # Absent PROVE Right(p, row[p])
    <3>1. row[p].src = row[p].meant /\ row[p].dst = Null
      BY <2>2 DEF Init
    <3>2. IF p \in Parents THEN row[p].src = p ELSE script = "with_fk"
      BY <2>2 DEF Init
    <3> QED BY <2>1, <3>1, <3>2, PlacesAssumption DEF Right
  <2> QED BY <2>2 DEF RowsRight, Init
<1>9. ReadsRight
  BY DEF ReadsRight, Init, Asking
<1>10. Parented
  <2> SUFFICES ASSUME NEW c \in Children PROVE row[c] # Absent => row[row[c].meant] # Absent
    <3>1. \A c \in Children : c \in Places
      BY DEF Places
    <3>2. \A p \in Places : pend[p] = Same
      BY DEF Init
    <3>3. \A p \in Children : row[p] # Absent => row[p].meant \in Places
      BY <1>4, <3>1, VersionFields DEF Places
    <3> QED BY <3>1, <3>2, <3>3, NoRow DEF Parented
  <2>1. c \in Places /\ c \notin Parents
    BY PlacesAssumption DEF Places
  <2> QED BY <2>1 DEF Init
<1>11. Fresh
  <2>1. ASSUME NEW p \in Parents, p >= nextId PROVE row[p] = Absent
    <3>1. p \in Places /\ p \in Nat /\ nextId \in Nat
      BY Values DEF Places, Init
    <3>2. row[p] # Absent => p < nextId
      BY <3>1 DEF Init
    <3> QED BY <2>1, <3>1, <3>2
  <2> QED BY <2>1 DEF Fresh, Unused, Init, Places, NoStatement
<1> QED BY <1>1, <1>5, <1>6, <1>7, <1>8, <1>9, <1>10, <1>11 DEF Inv

\* The phase is kept by a step that keeps the program's state and makes no gap where a trigger watches.
LEMMA PhaseMoved ==
  ASSUME script \in {"single", "with_fk"}, Phase,
         UNCHANGED <<script, todo, inTx, catalog, draft, ended>>, held \subseteq held',
         \A t \in Tables : GapsOf(t) = {} /\ ((Early(catalog) /\ t \in catalog.trigger) \/ Late(catalog))
                             => GapsOf(t)' = {}
  PROVE  Phase'
<1>1. Migrate' = Migrate /\ Begin' = Begin /\ End' = End /\ Last' = Last
  BY ScriptKept
<1>2. CASE Idle
  <2>1. IF ended = "cut short" THEN Halfway(catalog)' ELSE Earlier(catalog)' \/ Later(catalog)'
    BY <1>2, EarlierNext, LaterNext, HalfwayNext DEF Idle
  <2>2. SchemaAt(1)' = SchemaAt(1)
    BY ScriptKept
  <2> QED BY <1>2, <2>1, <2>2 DEF Idle, Phase
<1>3. CASE \E k \in 1 .. Last : Migrating(k)
  <2>1. PICK k \in 1 .. Last : Migrating(k)
    BY <1>3
  <2>2. /\ SchemaAt(k)' = SchemaAt(k) /\ SchemaAt(Begin)' = SchemaAt(Begin)
        /\ Since(k, "backfill")' = Since(k, "backfill")
    BY ScriptKept, <1>1
  <2>3. ASSUME NEW t \in Since(k, "backfill") PROVE GapsOf(t)' = {}
    <3>1. t \in Tables /\ GapsOf(t) = {}
      BY <2>1 DEF Since, Migrating
    <3> QED BY <2>1, <3>1, FilledWatched
  <2>4. Migrating(k)'
    BY <1>1, <2>1, <2>2, <2>3 DEF Migrating, Rest
  <2> QED BY <1>1, <2>4 DEF Phase
<1>4. CASE Undoing
  <2>1. Halfway(catalog)' /\ UndoLeft(catalog)' = UndoLeft(catalog)
    BY <1>4, HalfwayNext DEF Undoing, UndoLeft
  <2> QED BY <1>4, <2>1 DEF Undoing, Phase
<1> QED BY <1>2, <1>3, <1>4 DEF Phase

LEMMA PhaseKept ==
  ASSUME script \in {"single", "with_fk"}, Phase, UNCHANGED scriptVars,
         \A t \in Tables : GapsOf(t) = {} /\ ((Early(catalog) /\ t \in catalog.trigger) \/ Late(catalog))
                             => GapsOf(t)' = {}
  PROVE  Phase'
<1>1. UNCHANGED <<script, todo, inTx, catalog, draft, ended>> /\ held \subseteq held'
  BY DEF scriptVars
<1> QED BY <1>1, PhaseMoved

LEMMA Counters ==
  ASSUME TypeOK
  PROVE  /\ nextId \in 0 .. MaxIds /\ runs \in 0 .. MaxRuns /\ count \in [Writers -> 0 .. MaxStatements]
         /\ MaxIds \in Nat /\ MaxRuns \in Nat /\ MaxStatements \in Nat
<1>1. nextId \in 0 .. MaxIds /\ runs \in 0 .. MaxRuns /\ count \in [Writers -> 0 .. MaxStatements]
  BY Zenon DEF TypeOK
<1> QED BY <1>1, MigrationAssumption

LEMMA TypeKept ==
  ASSUME TypeOK, UNCHANGED scriptVars,
         row' \in [Places -> Version \cup {Absent}],
         owner' \in [Places -> Writers \cup {NoOne}],
         pend' \in [Places -> Version \cup {Absent, Same}],
         nextId' \in 0 .. MaxIds,
         has' \in [Writers -> SUBSET Tables],
         count' \in [Writers -> 0 .. MaxStatements]
  PROVE  TypeOK'
BY DEF TypeOK, scriptVars

\* Rows and reads in an unchanged schema, stated of the new values.
LEMMA RowsKept ==
  ASSUME UNCHANGED <<script, catalog>>, HalfUndone' <=> HalfUndone,
         \A p \in Places :
           /\ row'[p] # Absent => Right(p, row'[p])
           /\ pend'[p] \notin {Absent, Same} =>
                Right(p, pend'[p]) /\ (TableOf(p) \in catalog.trigger => pend'[p].dst # Null)
  PROVE  RowsRight'
<1> USE DEF Right, Before, TableOf
<1>1. ASSUME NEW p \in Places, row'[p] # Absent PROVE Right(p, row[p])'
  BY <1>1
<1>2. ASSUME NEW p \in Places, pend'[p] \notin {Absent, Same}
      PROVE  Right(p, pend[p])' /\ (TableOf(p) \in catalog'.trigger => pend'[p].dst # Null)
  BY <1>2
<1> HIDE DEF Right, Before
<1> QED BY <1>1, <1>2 DEF RowsRight

LEMMA ReadsKept ==
  ASSUME UNCHANGED <<script, catalog>>,
         known' \in [Writers -> SUBSET Reading], DOMAIN stmt' = Writers,
         \A w \in Writers : (\A k \in known'[w] : ReadRight(k)) /\ Asking(stmt'[w])
  PROVE  ReadsRight'
BY DEF ReadsRight, Asking, ReadRight, Before, NoStatement

LEMMA TablesKept ==
  ASSUME Inv, UNCHANGED <<scriptVars, row, owner, pend>>
  PROVE  Phase' /\ RowsRight' /\ Parented'
<1>1. script' = script /\ catalog' = catalog /\ (HalfUndone' <=> HalfUndone)
  BY DEF scriptVars, HalfUndone
<1>2. Phase'
  <2>1. \A t \in Tables : GapsOf(t)' = GapsOf(t)
    BY DEF GapsOf, Present
  <2> QED BY <2>1, PhaseKept DEF Inv
<1>3. RowsRight'
  BY <1>1, RowsKept DEF Inv, RowsRight
<1>4. Parented'
  BY DEF Inv, Parented
<1> QED BY <1>2, <1>3, <1>4

LEMMA Looks ==
  ASSUME Inv, NEW w \in Writers, NEW k \in Parents, Look(w, k)
  PROVE  Inv'
<1> USE DEF Look, tableVars
<1>1. Phase' /\ RowsRight' /\ Parented'
  BY TablesKept
<1>2. TypeOK'
  BY TypeKept DEF Inv, TypeOK
<1>3. script' = script /\ catalog' = catalog /\ held' = held
  BY DEF scriptVars
<1>4. LocksApart'
  BY <1>3 DEF Inv, LocksApart
<1>5. Fresh'
  BY DEF Inv, Fresh, Unused
<1>6. ReadsRight'
  <2> DEFINE new == [meant |-> k, value |-> row[k][catalog.named["parent"]]]
  <2>1. Basis /\ k \in Places
    BY InvBasis DEF Places
  <2>2. row[k] \in Version /\ Right(k, row[k]) /\ row[k].meant = k
    BY <2>1 DEF Basis, TypeOK, RowsRight, Right
  <2>3. Flip(k) \in Column /\ k \in Column
    BY Values DEF Column
  <2>4. new.value \in Column /\ new.meant = k /\ (new.value = k \/ (~Before /\ new.value = Flip(k)))
    <3>1. CASE Early(catalog)
      BY <2>2, <2>3, <3>1, EarlyVersion DEF Early, Tables
    <3>2. CASE Late(catalog)
      BY <2>1, <2>2, <2>3, <3>2, LateVersion, BeforeIsEarly DEF Late
    <3> QED BY <2>1, <3>1, <3>2 DEF Basis
  <2>5. new \in Reading /\ ReadRight(new)
    BY <2>4 DEF Reading, ReadRight
  <2>6. known \in [Writers -> SUBSET Reading] /\ DOMAIN stmt = Writers
    BY DEF Inv, ReadsRight
  <2>7. known' = [known EXCEPT ![w] = {new}] /\ stmt' = stmt
    OBVIOUS
  <2> HIDE DEF new, Look
  <2>8. known' \in [Writers -> SUBSET Reading]
    BY <2>5, <2>6, <2>7
  <2>9. ASSUME NEW v \in Writers PROVE (\A i \in known'[v] : ReadRight(i)) /\ Asking(stmt'[v])
    <3>1. known'[v] = {new} \/ known'[v] = known[v]
      BY <2>6, <2>7
    <3>2. (\A i \in known[v] : ReadRight(i)) /\ Asking(stmt[v])
      BY DEF Inv, ReadsRight
    <3> QED BY <2>5, <2>7, <3>1, <3>2
  <2> QED BY <1>3, <2>6, <2>7, <2>8, <2>9, ReadsKept
<1> QED BY <1>1, <1>2, <1>3, <1>4, <1>5, <1>6 DEF Inv

LEMMA LocksTable ==
  ASSUME Inv, NEW w \in Writers, LockTable(w)
  PROVE  Inv'
<1>1. PICK t \in WriterWants(w) :
        /\ t \notin held \cup ScriptWants
        /\ has' = [has EXCEPT ![w] = @ \cup {t}]
        /\ UNCHANGED <<scriptVars, tableVars, known, stmt, count>>
  BY DEF LockTable
<1>2. Phase' /\ RowsRight' /\ Parented'
  BY <1>1, TablesKept DEF tableVars
<1>3. t \in Tables
  BY <1>1 DEF WriterWants, Missing, TablesOf, Tables
<1>4. has \in [Writers -> SUBSET Tables]
  BY DEF Inv, TypeOK
<1>5. TypeOK'
  BY <1>1, <1>3, <1>4, TypeKept DEF Inv, TypeOK, tableVars
<1>6. script' = script /\ catalog' = catalog /\ held' = held
  BY <1>1 DEF scriptVars
<1>7. LocksApart'
  <2>1. ASSUME NEW v \in Writers PROVE has'[v] \cap held' = {} /\ has[v] \subseteq has'[v]
    BY <1>1, <1>4, <1>6 DEF Inv, LocksApart
  <2>2. ASSUME NEW p \in Places, owner[p] # NoOne PROVE TableOf(p) \in has'[owner[p]]
    BY <2>1, <2>2 DEF Inv, LocksApart, TypeOK
  <2> QED BY <1>1, <2>1, <2>2 DEF Inv, LocksApart, tableVars, TableOf
<1>8. Fresh'
  BY <1>1 DEF Inv, Fresh, Unused, tableVars
<1>9. ReadsRight'
  BY <1>1, <1>6, ReadsKept DEF Inv, ReadsRight
<1> QED BY <1>2, <1>5, <1>6, <1>7, <1>8, <1>9 DEF Inv

\* A new statement of w, for a place that nobody else inserts.
LEMMA Asks ==
  ASSUME Inv, NEW w \in Writers, NEW s, Asked(w, s), Asking(s), s.op # "none",
         nextId' \in nextId .. MaxIds,
         s.place \in Parents => s.place < nextId',
         s.op = "insert" => Unused(s.place) /\ s.place = nextId,
         \A v \in Writers \ {w} : stmt[v].op = "insert" => s.place # stmt[v].place
  PROVE  Inv'
<1> USE DEF Asked
<1>1. Phase' /\ RowsRight' /\ Parented'
  BY TablesKept
<1>2. nextId \in Nat /\ nextId' \in Nat /\ MaxIds \in Nat /\ MaxStatements \in Nat /\ nextId <= nextId'
  BY Counters DEF Inv
<1>3. TypeOK'
  <2>1. count' \in [Writers -> 0 .. MaxStatements]
    BY <1>2, Counters DEF Inv
  <2>2. nextId' \in 0 .. MaxIds
    BY <1>2
  <2> QED BY <2>1, <2>2, TypeKept DEF Inv, TypeOK
<1>4. script' = script /\ catalog' = catalog /\ held' = held
  BY DEF scriptVars
<1>5. LocksApart'
  BY <1>4 DEF Inv, LocksApart
<1>6. /\ known \in [Writers -> SUBSET Reading] /\ DOMAIN stmt = Writers
      /\ \A v \in Writers : (\A k \in known[v] : ReadRight(k)) /\ Asking(stmt[v])
  BY DEF Inv, ReadsRight
<1>7. DOMAIN stmt' = Writers /\ \A v \in Writers : stmt'[v] = IF v = w THEN s ELSE stmt[v]
  BY <1>6
<1>8. /\ known' \in [Writers -> SUBSET Reading]
      /\ \A v \in Writers : known'[v] = IF v = w THEN {} ELSE known[v]
  BY <1>6
<1> HIDE DEF Asked
<1>9. ReadsRight'
  BY <1>4, <1>6, <1>7, <1>8, ReadsKept
<1>10. Fresh'
  <2>1. row' = row /\ pend' = pend
    BY DEF Asked
  <2>2. ASSUME NEW p, Unused(p) PROVE row'[p] = Absent /\ pend'[p] = Same
    BY <2>1, <2>2 DEF Unused
  <2>3. /\ \A p \in Parents : p >= nextId => Unused(p)
        /\ \A v \in Writers :
             /\ stmt[v].op # "none" /\ stmt[v].place \in Parents => stmt[v].place < nextId
             /\ stmt[v].op = "insert" =>
                  /\ Unused(stmt[v].place)
                  /\ \A u \in Writers \ {v} : stmt[u].op # "none" => stmt[u].place # stmt[v].place
    BY DEF Inv, Fresh
  <2>4. Parents \subseteq Nat
    BY Values
  <2>5. ASSUME NEW p \in Parents, p >= nextId' PROVE row'[p] = Absent /\ pend'[p] = Same
    BY <1>2, <2>2, <2>3, <2>4, <2>5
  <2>6. ASSUME NEW v \in Writers, stmt'[v].op # "none", stmt'[v].place \in Parents
        PROVE  stmt'[v].place < nextId'
    <3>1. CASE v = w
      BY <1>7, <2>6, <3>1
    <3>2. CASE v # w
      <4>1. stmt'[v] = stmt[v]
        BY <1>7, <3>2
      <4>2. stmt[v].place < nextId /\ stmt[v].place \in Nat
        BY <2>3, <2>4, <2>6, <4>1
      <4> QED BY <1>2, <4>1, <4>2
    <3> QED BY <3>1, <3>2
  <2>7. ASSUME NEW v \in Writers, stmt'[v].op = "insert"
        PROVE  row'[stmt'[v].place] = Absent /\ pend'[stmt'[v].place] = Same
    BY <1>7, <2>1, <2>3, <2>7 DEF Unused
  <2>8. ASSUME NEW v \in Writers, stmt'[v].op = "insert", NEW u \in Writers \ {v}, stmt'[u].op # "none"
        PROVE  stmt'[u].place # stmt'[v].place
    <3>1. CASE v = w
      <4>1. stmt[u].op # "none" /\ stmt[u].place \in Parents => stmt[u].place < nextId
        BY <2>3
      <4>2. s.place = nextId /\ stmt'[u] = stmt[u] /\ stmt'[v] = s
        BY <1>7, <2>8, <3>1
      <4>3. s.place \in Parents
        BY <1>7, <2>8, <3>1 DEF Asking, NoStatement
      <4> QED BY <1>2, <2>8, <4>1, <4>2, <4>3
    <3>2. CASE v # w /\ u = w
      BY <1>7, <2>8, <3>2
    <3>3. CASE v # w /\ u # w
      BY <1>7, <2>3, <2>8, <3>3
    <3> QED BY <3>1, <3>2, <3>3
  <2> QED BY <2>5, <2>6, <2>7, <2>8 DEF Fresh, Unused
<1> QED BY <1>1, <1>3, <1>4, <1>5, <1>9, <1>10 DEF Inv

LEMMA AsksSomething ==
  ASSUME Inv, NEW w \in Writers,
         \/ AskInsertParent(w)
         \/ \E p \in Places : AskDelete(w, p)
         \/ \E c \in Children : AskLink(w, c)
  PROVE  Inv'
<1>1. Basis
  BY InvBasis
<1>2. /\ nextId \in Nat /\ MaxIds \in Nat /\ nextId <= MaxIds /\ Parents = 0 .. MaxIds - 1
  BY <1>1, Counters DEF Basis, Parents
<1>3. /\ \A p \in Parents : p >= nextId => Unused(p)
      /\ \A v \in Writers :
           /\ stmt[v].op # "none" /\ stmt[v].place \in Parents => stmt[v].place < nextId
           /\ stmt[v].op = "insert" => Unused(stmt[v].place)
  BY DEF Inv, Fresh
<1>4. ASSUME NEW v \in Writers
      PROVE  /\ stmt[v].op = "insert" => stmt[v].place \in Parents
             /\ stmt[v].op # "none" => stmt[v].place \in Places
  BY <1>1 DEF Basis, ReadsRight, Asking, NoStatement, Places
<1>5. CASE AskInsertParent(w)
  <2> DEFINE s == [op |-> "insert", place |-> nextId, meant |-> nextId, value |-> Null]
  <2>1. nextId < MaxIds /\ nextId' = nextId + 1 /\ Asked(w, s)
    BY <1>5 DEF AskInsertParent
  <2>2. s.op = "insert" /\ s.place = nextId /\ s.meant = nextId
    OBVIOUS
  <2>3. nextId \in Parents /\ nextId' \in nextId .. MaxIds /\ nextId < nextId'
    BY <1>2, <2>1
  <2>4. Asking(s)
    BY <2>3 DEF Asking
  <2>5. Unused(nextId)
    BY <1>2, <1>3, <2>3
  <2>6. \A v \in Writers \ {w} : stmt[v].op = "insert" => nextId # stmt[v].place
    BY <1>2, <1>3, <1>4
  <2> HIDE DEF s
  <2> QED BY <2>1, <2>2, <2>3, <2>4, <2>5, <2>6, Asks
<1>6. ASSUME NEW p \in Places, AskDelete(w, p) PROVE Inv'
  <2> DEFINE s == [op |-> "delete", place |-> p, meant |-> Seen(w, p).meant, value |-> Null]
  <2>1. Seen(w, p) # Absent /\ nextId' = nextId /\ Asked(w, s)
    BY <1>6 DEF AskDelete
  <2>2. s.op = "delete" /\ s.place = p /\ s.meant = Seen(w, p).meant
    OBVIOUS
  <2>3. s.meant \in Parents
    BY <1>1, <2>1, SeenRight, VersionFields DEF Basis
  <2>4. Asking(s)
    BY <2>3 DEF Asking
  <2>5. ~Unused(p)
    BY <2>1, NoRow DEF Seen, Unused
  <2>6. p \in Parents => p < nextId'
    BY <1>2, <1>3, <2>1, <2>5
  <2>7. \A v \in Writers \ {w} : stmt[v].op = "insert" => p # stmt[v].place
    BY <1>3, <2>5
  <2>8. nextId' \in nextId .. MaxIds
    BY <1>2, <2>1
  <2> HIDE DEF s
  <2> QED BY <2>1, <2>2, <2>4, <2>6, <2>7, <2>8, Asks
<1>7. ASSUME NEW c \in Children, AskLink(w, c) PROVE Inv'
  <2>1. PICK k \in known[w] :
          Asked(w, [op |-> "link", place |-> c, meant |-> k.meant, value |-> k.value])
    BY <1>7 DEF AskLink
  <2> DEFINE s == [op |-> "link", place |-> c, meant |-> k.meant, value |-> k.value]
  <2>2. script = "with_fk" /\ nextId' = nextId
    BY <1>7 DEF AskLink
  <2>3. s.op = "link" /\ s.place = c /\ s.meant = k.meant /\ s.value = k.value
    OBVIOUS
  <2>4. k \in Reading /\ ReadRight(k)
    BY <1>1 DEF Basis, ReadsRight
  <2>5. s.meant \in Parents /\ s.value \in Column /\ ReadRight(s)
    BY <2>4 DEF Reading, ReadRight
  <2>6. Asking(s)
    BY <2>2, <2>5 DEF Asking
  <2>7. c \notin Parents
    BY PlacesAssumption
  <2>8. nextId' \in nextId .. MaxIds
    BY <1>2, <2>2
  <2>9. Asked(w, s)
    BY <2>1
  <2> HIDE DEF s
  <2> QED BY <1>4, <2>3, <2>6, <2>7, <2>8, <2>9, Asks
<1> QED BY <1>5, <1>6, <1>7

\* A statement that has its locks holds the table of the row it writes.
LEMMA AbleHolds ==
  ASSUME Basis, NEW w \in Writers, Able(w)
  PROVE  TableOf(stmt[w].place) \in has[w]
<1> DEFINE s == stmt[w]
           tables == TablesOf(s)
<1>1. Asking(s) /\ s # NoStatement /\ s.op # "none"
  BY DEF Basis, ReadsRight, Able, Asking
<1>2. Missing(tables, has[w]) = {}
  BY DEF Able, WriterWants
<1>3. s.op = "insert" => TableOf(s.place) = "parent"
  BY <1>1, SomePlace DEF Asking, Places
<1>4. s.op = "link" => TableOf(s.place) = "child" /\ script # "single"
  BY <1>1, SomePlace DEF Asking, Places
<1>5. s.op \in {"insert", "delete", "link"} /\ (s.op = "delete" => TableOf(s.place) \in {"parent", "child"})
  BY <1>1 DEF Asking, TableOf
<1> HIDE DEF s
<1>6. 1 \in DOMAIN tables /\ tables[1] = TableOf(s.place)
  BY <1>1, <1>3, <1>4, <1>5 DEF TablesOf
<1>7. tables[1] \notin has[w] => tables[1] \in Missing(tables, has[w])
  BY <1>6 DEF Missing
<1> QED BY <1>2, <1>6, <1>7 DEF s

\* The version that an accepted statement writes.
LEMMA WrittenRight ==
  ASSUME Basis, NEW w \in Writers, Able(w), Allowed(w), NEW p, p = stmt[w].place, NEW v, v = Written(w)
  PROVE  /\ p \in Places
         /\ \/ stmt[w].op = "delete" /\ v = Absent
            \/ /\ stmt[w].op \in {"insert", "link"} /\ v \in Version /\ Right(p, v) /\ v.meant = stmt[w].meant
               /\ TableOf(p) \in catalog.trigger => v.dst # Null
               /\ stmt[w].op = "insert" => p \in Parents
               /\ stmt[w].op = "link" => p \in Children /\ Seen(w, v.meant) # Absent
<1>1. Asking(stmt[w]) /\ stmt[w].op \in {"insert", "delete", "link"} /\ p \in Places
  BY DEF Basis, ReadsRight, Able, Asking, Places
<1>2. CASE stmt[w].op = "delete"
  BY <1>1, <1>2 DEF Written
<1>3. CASE stmt[w].op = "insert"
  <2>1. TableOf(p) = "parent" /\ Accepted(w, Written(w))
    BY <1>1, <1>3, Inserted DEF Basis, Allowed
  <2>2. Served("parent")
    BY <2>1 DEF Accepted, Served
  <2> QED BY <1>1, <1>3, <2>2, Inserted DEF Basis
<1>4. CASE stmt[w].op = "link"
  <2>1. Accepted(w, Written(w))
    BY <1>4 DEF Allowed
  <2>2. Right(p, v) /\ Seen(w, stmt[w].meant) # Absent
    BY <1>4, <2>1, LinkAccepted
  <2>3. p \in Children /\ TableOf(p) = "child" /\ v \in Version /\ v.meant = stmt[w].meant
        /\ ("child" \in catalog.trigger => v.dst # Null)
    BY <1>1, <1>4, LinkWritten DEF Basis
  <2> QED BY <1>1, <1>4, <2>2, <2>3
<1> QED BY <1>1, <1>2, <1>3, <1>4

\* A parent that a writer deletes has no child but those the same writer has deleted or moved.
LEMMA DeletedUnreferenced ==
  ASSUME Basis, NEW w \in Writers, Able(w), Allowed(w), stmt[w].op = "delete",
         NEW k \in Parents, k = stmt[w].place, NEW c \in Children
  PROVE  /\ row[c] # Absent /\ row[c].meant = k => owner[c] = w
         /\ ~(pend[c] \notin {Absent, Same} /\ pend[c].meant = k)
<1>1. Unreferenced(w, k)
  BY DEF Allowed
<1>2. k \in Places /\ c \in Places
  BY DEF Places
<1>3. owner[k] \in {w, NoOne}
  BY <1>2 DEF Able, RowsInTheWay, Others
<1>4. w # NoOne /\ (owner[k] = NoOne <=> pend[k] = Same) /\ (owner[c] = NoOne <=> pend[c] = Same)
  BY <1>2, MigrationAssumption DEF Basis, LocksApart
<1>5. ASSUME NEW u, u = Seen(w, c), u # Absent, u.meant = k, Seen(w, k) # Absent PROVE FALSE
  <2>1. Right(c, u) /\ Right(k, Seen(w, k))
    BY <1>2, <1>5, SeenRight DEF Basis
  <2>2. script = "with_fk"
    BY <2>1 DEF Right
  <2>3. catalog.fk # "none" /\ Seen(w, k)[catalog.fk] = u[catalog.fk]
    BY <1>5, <2>1, <2>2, SameReference
  <2> QED BY <1>1, <1>5, <2>3 DEF Unreferenced
<1>6. ASSUME row[c] # Absent, row[c].meant = k, owner[c] # w PROVE FALSE
  <2>1. Seen(w, c) = row[c]
    BY <1>2, <1>6, SeenRight DEF Basis
  <2>2. row[k] # Absent /\ (pend[k] = Absent => owner[c] = owner[k])
    BY <1>6 DEF Basis, Parented
  <2>3. Seen(w, k) # Absent
    <3>1. CASE owner[k] = w
      BY <1>2, <1>6, <2>2, <3>1, SeenRight DEF Basis
    <3>2. CASE owner[k] # w
      BY <1>2, <2>2, <3>2, SeenRight DEF Basis
    <3> QED BY <3>1, <3>2
  <2> QED BY <1>5, <1>6, <2>1, <2>3
<1>7. ASSUME pend[c] \notin {Absent, Same}, pend[c].meant = k PROVE FALSE
  <2>1. owner[c] = w
    BY <1>2, <1>4, <1>7 DEF Able, RowsInTheWay, Others
  <2>2. Seen(w, c) = pend[c]
    BY <1>2, <2>1, SeenRight DEF Basis
  <2>3. \/ owner[k] = NoOne /\ row[k] # Absent
        \/ owner[k] = owner[c] /\ pend[k] # Absent
    BY <1>7 DEF Basis, Parented
  <2>4. Seen(w, k) # Absent
    BY <1>2, <1>4, <2>1, <2>3, SeenRight DEF Basis
  <2> QED BY <1>5, <1>7, <2>2, <2>4
<1> QED BY <1>6, <1>7

\* A writer's statement takes effect: the version is right by the trigger or by the foreign key, and a
\* parent that goes has no children.
LEMMA Applies ==
  ASSUME Inv, NEW w \in Writers, Apply(w)
  PROVE  Inv'
<1> DEFINE p == stmt[w].place
           v == Written(w)
<1>1. Basis
  BY InvBasis
<1>2. /\ Able(w) /\ Allowed(w)
      /\ owner' = [owner EXCEPT ![p] = w]
      /\ pend' = [pend EXCEPT ![p] = v]
      /\ stmt' = [stmt EXCEPT ![w] = NoStatement]
      /\ UNCHANGED <<scriptVars, row, nextId, known, has, count>>
  BY DEF Apply
<1>3. /\ p \in Places
      /\ \/ stmt[w].op = "delete" /\ v = Absent
         \/ /\ stmt[w].op \in {"insert", "link"} /\ v \in Version /\ Right(p, v) /\ v.meant = stmt[w].meant
            /\ TableOf(p) \in catalog.trigger => v.dst # Null
            /\ stmt[w].op = "insert" => p \in Parents
            /\ stmt[w].op = "link" => p \in Children /\ Seen(w, v.meant) # Absent
  BY <1>1, <1>2, WrittenRight
<1>4. v \in Version \cup {Absent} /\ v # Same
  BY <1>3, NoRow
<1>5. TableOf(p) \in has[w]
  BY <1>1, <1>2, AbleHolds
<1>6. p \notin Others(w) /\ owner[p] \in {w, NoOne} /\ w # NoOne
  BY <1>2, <1>3, MigrationAssumption DEF Able, RowsInTheWay, Others
<1>7. /\ stmt[w].op = "link" => owner[stmt[w].meant] \in {w, NoOne}
  BY <1>1, <1>2 DEF Able, RowsInTheWay, Others, Basis, ReadsRight, Asking, Places, NoStatement
<1>8. /\ row \in [Places -> Version \cup {Absent}] /\ owner \in [Places -> Writers \cup {NoOne}]
      /\ pend \in [Places -> Version \cup {Absent, Same}]
      /\ nextId \in 0 .. MaxIds /\ has \in [Writers -> SUBSET Tables] /\ count \in [Writers -> 0 .. MaxStatements]
  BY <1>1 DEF Basis, TypeOK
<1>9. Fresh
  BY DEF Inv
<1> HIDE DEF v
<1>10. DOMAIN stmt = Writers
  BY <1>1 DEF Basis, ReadsRight
<1>11. \A u \in Writers : stmt'[u] = IF u = w THEN NoStatement ELSE stmt[u]
  BY <1>2, <1>10
<1> HIDE DEF p
<1>12. /\ \A q \in Places : owner'[q] = IF q = p THEN w ELSE owner[q]
       /\ \A q \in Places : pend'[q] = IF q = p THEN v ELSE pend[q]
       /\ owner' \in [Places -> Writers \cup {NoOne}] /\ pend' \in [Places -> Version \cup {Absent, Same}]
  BY <1>2, <1>3, <1>4, <1>8
<1>13. TypeOK'
  BY <1>1, <1>2, <1>8, <1>12, TypeKept DEF Basis
<1>14. script' = script /\ catalog' = catalog /\ held' = held /\ row' = row /\ has' = has /\ known' = known
       /\ nextId' = nextId /\ (HalfUndone' <=> HalfUndone)
  BY <1>2 DEF scriptVars, HalfUndone
<1>15. Phase'
  <2>1. \A t \in Tables : GapsOf(t)' = GapsOf(t)
    BY <1>14 DEF GapsOf, Present
  <2> QED BY <1>2, <2>1, PhaseKept DEF Inv
<1>16. LocksApart'
  <2>1. /\ \A u \in Writers : has[u] \cap held = {}
        /\ \A q \in Places : /\ owner[q] = NoOne <=> pend[q] = Same
                             /\ owner[q] # NoOne => TableOf(q) \in has[owner[q]]
    BY <1>1 DEF Basis, LocksApart
  <2>2. ASSUME NEW q \in Places
        PROVE  /\ owner'[q] = NoOne <=> pend'[q] = Same
               /\ owner'[q] # NoOne => TableOf(q) \in has[owner'[q]]
    BY <1>4, <1>5, <1>6, <1>12, <2>1
  <2> QED BY <1>14, <2>1, <2>2 DEF LocksApart, TableOf
<1>17. RowsRight'
  <2>1. \A q \in Places :
          /\ row[q] # Absent => Right(q, row[q])
          /\ pend[q] \notin {Absent, Same} =>
               Right(q, pend[q]) /\ (TableOf(q) \in catalog.trigger => pend[q].dst # Null)
    BY <1>1 DEF Basis, RowsRight
  <2> QED BY <1>3, <1>12, <1>14, <2>1, RowsKept
<1>18. ReadsRight'
  <2>1. Asking(NoStatement)
    BY DEF Asking
  <2>2. DOMAIN stmt' = Writers
    BY <1>2, <1>10
  <2> QED BY <1>1, <1>11, <1>14, <2>1, <2>2, ReadsKept DEF Basis, ReadsRight
<1>19. Parented'
  <2> SUFFICES ASSUME NEW c \in Children
               PROVE  /\ row[c] # Absent =>
                           LET k == row[c].meant IN
                           row[k] # Absent /\ (pend'[k] = Absent => owner'[c] = owner'[k])
                      /\ pend'[c] \notin {Absent, Same} =>
                           LET k == pend'[c].meant IN
                           (owner'[k] = NoOne /\ row[k] # Absent) \/ (owner'[k] = owner'[c] /\ pend'[k] # Absent)
    BY <1>14 DEF Parented
  <2>1. c \in Places /\ c \notin Parents
    BY PlacesAssumption DEF Places
  <2>2. /\ row[c] # Absent =>
             LET k == row[c].meant IN
             row[k] # Absent /\ (pend[k] = Absent => owner[c] = owner[k])
        /\ pend[c] \notin {Absent, Same} =>
             LET k == pend[c].meant IN
             (owner[k] = NoOne /\ row[k] # Absent) \/ (owner[k] = owner[c] /\ pend[k] # Absent)
    BY <1>1 DEF Basis, Parented
  <2>3. \A q \in Places : owner[q] = NoOne <=> pend[q] = Same
    BY <1>1 DEF Basis, LocksApart
  <2>4. ASSUME row[c] # Absent
        PROVE  row[row[c].meant] # Absent /\ (pend'[row[c].meant] = Absent => owner'[c] = owner'[row[c].meant])
    <3> DEFINE k == row[c].meant
    <3>1. k \in Parents /\ k \in Places
      BY <1>8, <2>1, <2>4, VersionFields DEF Places
    <3>2. row[k] # Absent /\ (pend[k] = Absent => owner[c] = owner[k])
      BY <2>2, <2>4
    <3>3. ASSUME p = k, v = Absent PROVE owner'[c] = owner'[k]
      <4>1. stmt[w].op = "delete" /\ k = stmt[w].place
        BY <1>3, <3>3, NoRow DEF p
      <4>2. owner[c] = w
        BY <1>1, <1>2, <2>4, <3>1, <4>1, DeletedUnreferenced
      <4> QED BY <1>12, <2>1, <3>1, <3>3, <4>2
    <3>4. ASSUME p # k, pend[k] = Absent PROVE owner'[c] = owner'[k]
      <4>1. owner[c] = owner[k] /\ owner[k] # NoOne
        BY <2>3, <3>1, <3>2, <3>4, NoRow
      <4>2. p = c => owner[c] = w
        BY <1>6, <4>1
      <4> QED BY <1>12, <2>1, <3>1, <3>4, <4>1, <4>2
    <3> HIDE DEF k
    <3> QED BY <1>12, <3>1, <3>2, <3>3, <3>4 DEF k
  <2>5. ASSUME pend'[c] \notin {Absent, Same}, NEW k, k = pend'[c].meant
        PROVE  (owner'[k] = NoOne /\ row[k] # Absent) \/ (owner'[k] = owner'[c] /\ pend'[k] # Absent)
    <3>1. k \in Parents /\ k \in Places /\ c # k
      BY <1>12, <2>1, <2>5, VersionFields DEF Places
    <3>2. CASE p = c
      <4>1. stmt[w].op = "link" /\ k = stmt[w].meant /\ Seen(w, k) # Absent /\ owner[k] \in {w, NoOne}
        BY <1>3, <1>7, <1>12, <2>1, <2>5, <3>2
      <4>2. owner'[c] = w /\ owner'[k] = owner[k] /\ pend'[k] = pend[k]
        BY <1>12, <2>1, <3>1, <3>2
      <4> QED BY <1>1, <1>6, <3>1, <4>1, <4>2, SeenRight DEF Basis
    <3>3. CASE p # c
      <4>1. pend'[c] = pend[c] /\ owner'[c] = owner[c]
        BY <1>12, <2>1, <3>3
      <4>2. (owner[k] = NoOne /\ row[k] # Absent) \/ (owner[k] = owner[c] /\ pend[k] # Absent)
        BY <2>2, <2>5, <4>1
      <4>3. CASE p # k
        BY <1>12, <3>1, <4>1, <4>2, <4>3
      <4>4. CASE p = k
        <5>1. stmt[w].op # "delete"
          BY <1>1, <1>2, <2>5, <3>1, <4>1, <4>4, DeletedUnreferenced, ZenonT(60) DEF p
        <5>2. stmt[w].op = "insert"
          BY <1>3, <2>1, <3>1, <4>4, <5>1, PlacesAssumption
        <5>3. row[k] = Absent /\ pend[k] = Same
          BY <1>9, <4>4, <5>2 DEF Fresh, Unused, p
        <5>4. owner[c] # NoOne /\ owner[k] = NoOne
          BY <2>1, <2>3, <2>5, <3>1, <4>1, <5>3
        <5> QED BY <4>2, <5>3, <5>4
      <4> QED BY <4>3, <4>4
    <3> QED BY <3>2, <3>3
  <2> QED BY <2>4, <2>5
<1>20. Fresh'
  <2>1. /\ \A q \in Parents : q >= nextId => Unused(q)
        /\ \A u \in Writers :
             /\ stmt[u].op # "none" /\ stmt[u].place \in Parents => stmt[u].place < nextId
             /\ stmt[u].op = "insert" =>
                  /\ Unused(stmt[u].place)
                  /\ \A x \in Writers \ {u} : stmt[x].op # "none" => stmt[x].place # stmt[u].place
    BY <1>9 DEF Fresh
  <2>2. NoStatement.op = "none"
    BY DEF NoStatement
  <2>3. stmt[w].op # "none" /\ Parents \subseteq Nat /\ nextId \in Nat
    BY <1>3, <1>8, Values
  <2>4. ASSUME NEW q \in Parents, q >= nextId PROVE row'[q] = Absent /\ pend'[q] = Same
    <3>1. q # p
      <4>1. p \in Parents => p < nextId
        BY <2>1, <2>3 DEF p
      <4> QED BY <2>3, <2>4, <4>1
    <3> QED BY <1>12, <1>14, <2>1, <2>4, <3>1 DEF Unused, Places
  <2>5. ASSUME NEW u \in Writers, stmt'[u].op = "insert" PROVE row'[stmt'[u].place] = Absent /\ pend'[stmt'[u].place] = Same
    <3>1. u # w /\ stmt'[u] = stmt[u]
      BY <1>11, <2>2, <2>5
    <3>2. stmt[u].place \in Places
      BY <1>1, <2>5, <3>1 DEF Basis, ReadsRight, Asking, NoStatement, Places
    <3>3. p # stmt[u].place
      BY <2>1, <2>3, <2>5, <3>1 DEF p
    <3> QED BY <1>12, <1>14, <2>1, <2>5, <3>1, <3>2, <3>3 DEF Unused
  <2>6. ASSUME NEW u \in Writers
        PROVE  /\ stmt'[u].op # "none" /\ stmt'[u].place \in Parents => stmt'[u].place < nextId
               /\ stmt'[u].op = "insert" =>
                    \A x \in Writers \ {u} : stmt'[x].op # "none" => stmt'[x].place # stmt'[u].place
    BY <1>11, <2>1, <2>2
  <2> QED BY <1>14, <2>4, <2>5, <2>6 DEF Fresh, Unused
<1> QED BY <1>1, <1>13, <1>14, <1>15, <1>16, <1>17, <1>18, <1>19, <1>20 DEF Inv, Basis

\* The end of a transaction of w, with or without its versions.
LEMMA Releases ==
  ASSUME Inv, NEW w \in Writers, Release(w),
         row' = row \/ row' = [p \in Places |-> IF owner[p] = w THEN pend[p] ELSE row[p]]
  PROVE  Inv'
<1>1. Basis
  BY InvBasis
<1>2. /\ owner' = [p \in Places |-> IF owner[p] = w THEN NoOne ELSE owner[p]]
      /\ pend' = [p \in Places |-> IF owner[p] = w THEN Same ELSE pend[p]]
      /\ stmt' = [stmt EXCEPT ![w] = NoStatement]
      /\ has' = [has EXCEPT ![w] = {}]
      /\ count' = [count EXCEPT ![w] = 0]
      /\ UNCHANGED <<scriptVars, nextId, known>>
  BY DEF Release
<1>3. /\ row \in [Places -> Version \cup {Absent}] /\ owner \in [Places -> Writers \cup {NoOne}]
      /\ pend \in [Places -> Version \cup {Absent, Same}]
      /\ nextId \in 0 .. MaxIds /\ has \in [Writers -> SUBSET Tables] /\ count \in [Writers -> 0 .. MaxStatements]
  BY <1>1 DEF Basis, TypeOK
<1>4. /\ \A u \in Writers : has[u] \cap held = {}
      /\ \A q \in Places : /\ owner[q] = NoOne <=> pend[q] = Same
                           /\ owner[q] # NoOne => TableOf(q) \in has[owner[q]]
  BY <1>1 DEF Basis, LocksApart
<1>5. w # NoOne /\ MaxStatements \in Nat
  BY MigrationAssumption
<1>6. ASSUME NEW q \in Places
      PROVE  row'[q] = row[q] \/ (owner[q] = w /\ row'[q] = pend[q] /\ pend[q] # Same)
  BY <1>4, <1>5
<1>7. script' = script /\ catalog' = catalog /\ held' = held /\ known' = known /\ nextId' = nextId
      /\ (HalfUndone' <=> HalfUndone)
  BY <1>2 DEF scriptVars, HalfUndone
<1>8. DOMAIN stmt = Writers
  BY <1>1 DEF Basis, ReadsRight
<1>9. /\ DOMAIN stmt' = Writers
      /\ \A u \in Writers : stmt'[u] = IF u = w THEN NoStatement ELSE stmt[u]
  BY <1>2, <1>8
<1>10. /\ \A q \in Places : owner'[q] = IF owner[q] = w THEN NoOne ELSE owner[q]
       /\ \A q \in Places : pend'[q] = IF owner[q] = w THEN Same ELSE pend[q]
       /\ owner' \in [Places -> Writers \cup {NoOne}] /\ pend' \in [Places -> Version \cup {Absent, Same}]
  BY <1>2, <1>3
<1>11. row' \in [Places -> Version \cup {Absent}]
  <2>1. CASE row' = row
    BY <1>3, <2>1
  <2>2. CASE row' = [p \in Places |-> IF owner[p] = w THEN pend[p] ELSE row[p]]
    BY <1>3, <1>4, <1>5, <2>2
  <2> QED BY <2>1, <2>2
<1>12. TypeOK'
  <2>1. has' \in [Writers -> SUBSET Tables] /\ count' \in [Writers -> 0 .. MaxStatements]
    BY <1>2, <1>3, <1>5
  <2> QED BY <1>1, <1>2, <1>3, <1>10, <1>11, <2>1, TypeKept DEF Basis
<1>13. \A q \in Places :
         /\ row[q] # Absent => Right(q, row[q])
         /\ pend[q] \notin {Absent, Same} =>
              Right(q, pend[q]) /\ (TableOf(q) \in catalog.trigger => pend[q].dst # Null)
  BY <1>1 DEF Basis, RowsRight
<1>14. RowsRight'
  BY <1>6, <1>7, <1>10, <1>13, RowsKept
<1>15. Phase'
  <2> SUFFICES ASSUME NEW t \in Tables, GapsOf(t) = {}, (Early(catalog) /\ t \in catalog.trigger) \/ Late(catalog),
                      NEW q \in PlacesOf(t), row'[q] # Absent, row'[q].dst = Null
               PROVE  FALSE
    BY <1>2, PhaseKept DEF Inv, GapsOf, Present
  <2>1. q \in Places /\ TableOf(q) = t
    BY PlacesAssumption DEF PlacesOf, TableOf, Places, Tables
  <2>2. row'[q] # row[q]
    BY DEF GapsOf, Present
  <2>3. pend[q] \in Version /\ Right(q, pend[q]) /\ pend[q].dst = Null /\ t \notin catalog.trigger
    BY <1>3, <1>6, <1>13, <2>1, <2>2
  <2>4. pend[q].dst = Flip(pend[q].meant)
    BY <2>3, LateVersion
  <2> QED BY ZenonT(60), <2>3, <2>4, VersionFields, Values
<1>16. LocksApart'
  <2>1. ASSUME NEW u \in Writers PROVE has'[u] \cap held' = {} /\ (u # w => has'[u] = has[u])
    BY <1>2, <1>3, <1>4, <1>7
  <2>2. ASSUME NEW q \in Places
        PROVE  /\ owner'[q] = NoOne <=> pend'[q] = Same
               /\ owner'[q] # NoOne => TableOf(q) \in has'[owner'[q]]
    BY <1>3, <1>4, <1>5, <1>10, <2>1
  <2> QED BY <2>1, <2>2 DEF LocksApart, TableOf
<1>17. ReadsRight'
  <2>1. Asking(NoStatement)
    BY DEF Asking
  <2> QED BY <1>1, <1>7, <1>9, <2>1, ReadsKept DEF Basis, ReadsRight
<1>18. Parented'
  <2> SUFFICES ASSUME NEW c \in Children
               PROVE  /\ row'[c] # Absent =>
                           LET k == row'[c].meant IN
                           row'[k] # Absent /\ (pend'[k] = Absent => owner'[c] = owner'[k])
                      /\ pend'[c] \notin {Absent, Same} =>
                           LET k == pend'[c].meant IN
                           (owner'[k] = NoOne /\ row'[k] # Absent) \/ (owner'[k] = owner'[c] /\ pend'[k] # Absent)
    BY DEF Parented
  <2>1. c \in Places
    BY DEF Places
  <2>2. /\ row[c] # Absent =>
             LET k == row[c].meant IN
             row[k] # Absent /\ (pend[k] = Absent => owner[c] = owner[k])
        /\ pend[c] \notin {Absent, Same} =>
             LET k == pend[c].meant IN
             (owner[k] = NoOne /\ row[k] # Absent) \/ (owner[k] = owner[c] /\ pend[k] # Absent)
    BY <1>1 DEF Basis, Parented
  <2>3. ASSUME row'[c] # Absent, NEW k, k = row'[c].meant
        PROVE  row'[k] # Absent /\ (pend'[k] = Absent => owner'[c] = owner'[k])
    <3>1. k \in Places
      BY <1>11, <2>1, <2>3, VersionFields DEF Places
    <3>2. CASE row' = row
      <4>1. row[k] # Absent /\ (pend[k] = Absent => owner[c] = owner[k])
        BY <2>2, <2>3, <3>2
      <4> QED BY <1>10, <2>1, <3>1, <3>2, <4>1, NoRow
    <3>3. CASE row' = [p \in Places |-> IF owner[p] = w THEN pend[p] ELSE row[p]]
      <4>1. row'[k] = IF owner[k] = w THEN pend[k] ELSE row[k]
        BY <3>1, <3>3
      <4>2. CASE owner[c] = w
        <5>1. pend[c] \notin {Absent, Same} /\ k = pend[c].meant
          BY <1>4, <1>5, <2>1, <2>3, <3>3, <4>2
        <5>2. (owner[k] = NoOne /\ row[k] # Absent) \/ (owner[k] = owner[c] /\ pend[k] # Absent)
          BY <2>2, <5>1
        <5> QED BY <1>4, <1>5, <1>10, <2>1, <3>1, <4>1, <4>2, <5>2, NoRow
      <4>3. CASE owner[c] # w
        <5>1. row[c] # Absent /\ k = row[c].meant
          BY <2>1, <2>3, <3>3, <4>3
        <5>2. row[k] # Absent /\ (pend[k] = Absent => owner[c] = owner[k])
          BY <2>2, <5>1
        <5> QED BY <1>10, <2>1, <3>1, <4>1, <4>3, <5>2, NoRow
      <4> QED BY <4>2, <4>3
    <3> QED BY <3>2, <3>3
  <2>4. ASSUME pend'[c] \notin {Absent, Same}, NEW k, k = pend'[c].meant
        PROVE  (owner'[k] = NoOne /\ row'[k] # Absent) \/ (owner'[k] = owner'[c] /\ pend'[k] # Absent)
    <3>1. owner[c] # w /\ pend[c] = pend'[c] /\ owner'[c] = owner[c]
      BY <1>10, <2>1, <2>4
    <3>2. (owner[k] = NoOne /\ row[k] # Absent) \/ (owner[k] = owner[c] /\ pend[k] # Absent)
      BY <2>2, <2>4, <3>1
    <3>3. k \in Places
      BY <1>3, <2>1, <2>4, <3>1, VersionFields DEF Places
    <3> QED BY <1>5, <1>6, <1>10, <3>1, <3>2, <3>3
  <2> QED BY <2>3, <2>4
<1>19. Fresh'
  <2>1. /\ \A q \in Parents : q >= nextId => Unused(q)
        /\ \A u \in Writers :
             /\ stmt[u].op # "none" /\ stmt[u].place \in Parents => stmt[u].place < nextId
             /\ stmt[u].op = "insert" =>
                  /\ Unused(stmt[u].place)
                  /\ \A x \in Writers \ {u} : stmt[x].op # "none" => stmt[x].place # stmt[u].place
    BY DEF Inv, Fresh
  <2>2. NoStatement.op = "none"
    BY DEF NoStatement
  <2>3. ASSUME NEW q \in Places, Unused(q) PROVE row'[q] = Absent /\ pend'[q] = Same
    BY <1>4, <1>5, <1>6, <1>10, <2>3 DEF Unused
  <2>4. ASSUME NEW q \in Parents, q >= nextId PROVE row'[q] = Absent /\ pend'[q] = Same
    BY <2>1, <2>3, <2>4 DEF Places
  <2>5. ASSUME NEW u \in Writers, stmt'[u].op = "insert" PROVE row'[stmt'[u].place] = Absent /\ pend'[stmt'[u].place] = Same
    <3>1. u # w /\ stmt'[u] = stmt[u]
      BY <1>9, <2>2, <2>5
    <3>2. stmt[u].place \in Places
      BY <1>1, <2>5, <3>1 DEF Basis, ReadsRight, Asking, NoStatement, Places
    <3> QED BY <2>1, <2>3, <2>5, <3>1, <3>2
  <2>6. ASSUME NEW u \in Writers
        PROVE  /\ stmt'[u].op # "none" /\ stmt'[u].place \in Parents => stmt'[u].place < nextId
               /\ stmt'[u].op = "insert" =>
                    \A x \in Writers \ {u} : stmt'[x].op # "none" => stmt'[x].place # stmt'[u].place
    BY <1>9, <2>1, <2>2
  <2> QED BY <1>7, <2>4, <2>5, <2>6 DEF Fresh, Unused
<1> QED BY <1>1, <1>7, <1>12, <1>14, <1>15, <1>16, <1>17, <1>18, <1>19 DEF Inv, Basis

\* Every step of the application keeps the invariant.
LEMMA WriterSteps ==
  ASSUME Inv, NEW w \in Writers, WriterNext(w)
  PROVE  Inv'
<1>1. CASE \E k \in Parents : Look(w, k)
  BY <1>1, Looks
<1>2. CASE AskInsertParent(w) \/ (\E p \in Places : AskDelete(w, p)) \/ (\E c \in Children : AskLink(w, c))
  BY <1>2, AsksSomething
<1>3. CASE LockTable(w)
  BY <1>3, LocksTable
<1>4. CASE Apply(w)
  BY <1>4, Applies
<1>5. CASE Reject(w)
  BY <1>5, Releases DEF Reject
<1>6. CASE Commit(w)
  BY <1>6, Releases DEF Commit
<1>7. CASE Rollback(w)
  BY <1>7, Releases DEF Rollback
<1>8. CASE WriterVictim(w)
  BY <1>8, Releases DEF WriterVictim
<1> QED BY <1>1, <1>2, <1>3, <1>4, <1>5, <1>6, <1>7, <1>8 DEF WriterNext

\* Steps of the program that touch neither rows nor the committed schema.
LEMMA QuietKept ==
  ASSUME Inv, UNCHANGED <<script, catalog, tableVars, writerVars>>,
         HalfUndone /\ ~HalfUndone' => \A t \in Tables : "dst" \notin catalog.columns[t]
  PROVE  RowsRight' /\ ReadsRight' /\ Parented' /\ Fresh'
<1>1. UNCHANGED <<script, catalog, row, owner, pend, nextId, known, stmt, has, count>>
  BY DEF tableVars, writerVars
<1>2. RowsRight'
  <2>1. ASSUME NEW p \in Places, NEW v, Right(p, v)
        PROVE  /\ p \in Parents => v.meant = p
               /\ p \in Children => script = "with_fk"
               /\ Before =>
                    /\ v.src = v.meant
                    /\ v.dst # Null => /\ "dst" \in catalog.columns[TableOf(p)]
                                       /\ TableOf(p) \in catalog.trigger => v.dst = Flip(v.meant)
                                       /\ ~HalfUndone' => TableOf(p) \in catalog.trigger
               /\ ~Before => v.dst = Flip(v.meant)
    BY <2>1, SomePlace DEF Right
  <2>2. ASSUME NEW p \in Places, row[p] # Absent PROVE Right(p, row[p])'
    BY <1>1, <2>1, <2>2 DEF Inv, RowsRight, Right, Before, TableOf
  <2>3. ASSUME NEW p \in Places, pend[p] \notin {Absent, Same}
        PROVE  Right(p, pend[p])' /\ (TableOf(p) \in catalog.trigger => pend[p].dst # Null)
    BY <1>1, <2>1, <2>3 DEF Inv, RowsRight, Right, Before, TableOf
  <2> QED BY <1>1, <2>2, <2>3 DEF RowsRight, TableOf
<1>3. ReadsRight'
  BY <1>1, ReadsKept DEF Inv, ReadsRight
<1>4. Parented'
  BY <1>1 DEF Inv, Parented
<1>5. Fresh'
  BY <1>1 DEF Inv, Fresh, Unused
<1> QED BY <1>2, <1>3, <1>4, <1>5

LEMMA Resting ==
  ASSUME Inv, ~Running
  PROVE  Idle
<1>1. ASSUME NEW k \in 1 .. Last, Migrating(k) PROVE FALSE
  BY <1>1, NextOfMigrate DEF Inv, Migrating
<1>2. ASSUME Undoing PROVE FALSE
  BY <1>2, NextOfUndo
<1> QED BY <1>1, <1>2 DEF Inv, Phase

\* A run starts from any schema a lost one left.
LEMMA StartsRun ==
  ASSUME Inv, Start
  PROVE  Inv'
<1>1. /\ ~Running /\ runs < MaxRuns /\ runs' = runs + 1
      /\ \/ ended \in {"never", "undone"} /\ todo' = Migrate /\ ended' = "running"
         \/ /\ ended \in {"failed", "cut short"} /\ catalog.named["parent"] = "src" /\ todo' \in Undo(catalog)
            /\ ended' = IF todo' = <<>> THEN "undone" ELSE "undoing"
      /\ UNCHANGED <<script, sent, held, inTx, catalog, draft, tableVars, writerVars>>
  BY DEF Start
<1>2. script \in {"single", "with_fk"} /\ script' = script /\ catalog \in Catalog
  BY <1>1 DEF Inv, TypeOK
<1>3. Idle
  BY <1>1, Resting
<1>4. TypeOK'
  <2>1. runs' \in 0 .. MaxRuns
    <3>1. runs \in 0 .. MaxRuns /\ MaxRuns \in Nat
      BY Counters DEF Inv
    <3>2. runs < MaxRuns /\ runs' = runs + 1
      BY <1>1
    <3> QED BY <3>1, <3>2
  <2>2. ended' \in {"running", "undone", "undoing"}
    BY <1>1
  <2> QED BY <1>1, <2>1, <2>2 DEF Inv, TypeOK, tableVars, writerVars
<1>5. LocksApart'
  BY <1>1 DEF Inv, LocksApart, TableOf, tableVars, writerVars
<1>6. Migrate' = Migrate /\ Begin' = Begin /\ End' = End /\ Last' = Last
      /\ SchemaAt(1)' = SchemaAt(1) /\ Since(1, "backfill")' = Since(1, "backfill")
  BY <1>2, ScriptKept
<1>7. Begin \in Nat /\ 1 <= Begin /\ 1 \in 1 .. Last
  BY <1>2, Bounds
<1>8. CASE ended \in {"never", "undone"} /\ todo' = Migrate /\ ended' = "running"
  <2>1. Rest(Migrate, 1) = Migrate
    BY <1>2, Programs, WholeProgram
  <2>2. Rest(Migrate, 1)' = Rest(Migrate, 1)
    BY <1>6 DEF Rest
  <2>3. Since(1, "backfill") = {}
    <3>1. ASSUME NEW t \in Tables PROVE ~Past(1, "backfill", t)
      <4>1. CASE script = "single"
        BY <4>1 DEF Turn, Never, Past, Tables
      <4>2. CASE script # "single"
        BY <4>2 DEF Turn, Never, Past, Tables
      <4> QED BY <4>1, <4>2
    <3> QED BY <3>1 DEF Since
  <2>4. catalog = SchemaAt(1) /\ draft = catalog /\ ~inTx
    BY <1>3, <1>8 DEF Idle
  <2>5. Migrating(1)'
    BY <1>1, <1>6, <1>7, <1>8, <2>1, <2>2, <2>3, <2>4 DEF Migrating
  <2>6. Phase'
    BY <1>6, <1>7, <2>5 DEF Phase
  <2>7. RowsRight' /\ ReadsRight' /\ Parented' /\ Fresh'
    BY <1>1, <1>8, QuietKept DEF HalfUndone
  <2> QED BY <1>2, <1>4, <1>5, <2>6, <2>7 DEF Inv
<1>9. CASE /\ ended \in {"failed", "cut short"} /\ catalog.named["parent"] = "src" /\ todo' \in Undo(catalog)
           /\ ended' = IF todo' = <<>> THEN "undone" ELSE "undoing"
  <2>1. Halfway(catalog) /\ draft = catalog /\ ~inTx
    <3>1. ~Later(catalog)
      BY <1>2, <1>9, LateShape DEF Late
    <3> QED BY <1>2, <1>3, <3>1, EarlierHalfway DEF Idle
  <2>2. Halfway(catalog)' /\ UndoLeft(catalog)' = UndoLeft(catalog)
    BY <1>1, <2>1, HalfwayNext DEF UndoLeft
  <2>3. CASE UndoLeft(catalog) = {}
    <3>1. todo' = <<>> /\ ended' = "undone"
      BY <1>9, <2>3 DEF Undo
    <3>2. catalog = SchemaAt(1) /\ \A t \in Tables : "dst" \notin catalog.columns[t]
      BY <1>2, <2>1, <2>3, UndoneFully
    <3>3. 1 \in 1 .. Begin
      BY <1>7
    <3>4. Earlier(catalog)'
      BY <1>1, <1>2, <3>2, <3>3, EarlierNext DEF Earlier
    <3>5. Phase'
      BY <1>1, <1>6, <2>1, <3>1, <3>2, <3>4 DEF Phase, Idle
    <3>6. RowsRight' /\ ReadsRight' /\ Parented' /\ Fresh'
      BY <1>1, <3>2, QuietKept
    <3> QED BY <1>2, <1>4, <1>5, <3>5, <3>6 DEF Inv
  <2>4. CASE UndoLeft(catalog) # {}
    <3>1. PICK s \in UndoLeft(catalog) : todo' = <<s>>
      BY <1>9, <2>4 DEF Undo
    <3>2. ended' = "undoing"
      BY <1>9, <3>1
    <3>3. Undoing'
      BY <1>1, <2>1, <2>2, <3>1, <3>2 DEF Undoing
    <3>4. RowsRight' /\ ReadsRight' /\ Parented' /\ Fresh'
      BY <1>1, <3>2, QuietKept DEF HalfUndone
    <3> QED BY <1>2, <1>4, <1>5, <3>3, <3>4 DEF Inv, Phase
  <2> QED BY <2>3, <2>4
<1> QED BY <1>1, <1>8, <1>9

\* A failure leaves the committed schema, of which no statement of a transaction is part.
LEMMA Fails ==
  ASSUME Inv, Running, Fail
  PROVE  Inv'
<1>1. /\ todo' = <<>> /\ sent' = FALSE /\ held' = {} /\ inTx' = FALSE /\ draft' = catalog
      /\ ended' = IF ended = "undoing" THEN "cut short" ELSE "failed"
      /\ UNCHANGED <<script, catalog, runs, tableVars, writerVars>>
  BY DEF Fail, Broken
<1>2. TypeOK'
  BY <1>1 DEF Inv, TypeOK, tableVars, writerVars
<1>3. LocksApart'
  BY <1>1 DEF Inv, LocksApart, TableOf, tableVars, writerVars
<1>4. ~Idle
  BY DEF Idle, Running
<1>5. CASE \E k \in 1 .. Last : Migrating(k)
  <2>1. ended = "running" /\ (Earlier(catalog) \/ Later(catalog))
    BY <1>5, MigratingSchema DEF Inv, Migrating
  <2>2. ended' = "failed" /\ (Earlier(catalog)' \/ Later(catalog)')
    BY <1>1, <2>1, EarlierNext, LaterNext
  <2>3. Phase'
    BY <1>1, <2>2 DEF Phase, Idle
  <2>4. RowsRight' /\ ReadsRight' /\ Parented' /\ Fresh'
    BY <1>1, <2>1, QuietKept DEF HalfUndone
  <2> QED BY <1>1, <1>2, <1>3, <2>3, <2>4 DEF Inv
<1>6. CASE Undoing
  <2>1. ended = "undoing" /\ Halfway(catalog)
    BY <1>6 DEF Undoing
  <2>2. ended' = "cut short" /\ Halfway(catalog)'
    BY <1>1, <2>1, HalfwayNext
  <2>3. Phase'
    BY <1>1, <2>2 DEF Phase, Idle
  <2>4. RowsRight' /\ ReadsRight' /\ Parented' /\ Fresh'
    BY <1>1, <2>2, QuietKept DEF HalfUndone
  <2> QED BY <1>1, <1>2, <1>3, <2>3, <2>4 DEF Inv
<1> QED BY <1>4, <1>5, <1>6 DEF Inv, Phase

\* The program is a victim only while it waits.
LEMMA VictimRuns ==
  ASSUME OnCycle(Migrator)
  PROVE  Running
<1>1. Migrator \notin Writers
  BY MigrationAssumption
<1>2. WaitsFor(Migrator) # {}
  BY DEF OnCycle
<1>3. ScriptWants # {}
  BY <1>1, <1>2 DEF WaitsFor
<1> QED BY <1>3 DEF ScriptWants

LEMMA Sends ==
  ASSUME Inv, Send \/ Lock
  PROVE  Inv'
<1>1. /\ held \subseteq held' /\ held' \subseteq Tables /\ sent' \in BOOLEAN
      /\ \A w \in Writers : has[w] \cap held' = {}
      /\ UNCHANGED <<script, todo, inTx, catalog, draft, ended, runs, tableVars, writerVars>>
  <2>1. /\ held \subseteq Tables /\ sent \in BOOLEAN
        /\ \A w \in Writers : has[w] \cap held = {}
    BY DEF Inv, TypeOK, LocksApart
  <2>2. CASE Send
    BY <2>1, <2>2 DEF Send
  <2>3. CASE Lock
    <3>1. PICK t \in ScriptWants :
            /\ \A w \in Writers : t \notin has[w]
            /\ held' = held \cup {t}
            /\ UNCHANGED <<script, todo, sent, inTx, catalog, draft, ended, runs, tableVars, writerVars>>
      BY <2>3 DEF Lock
    <3>2. t \in Tables
      <4>1. Statement.table \in Tables /\ Running
        <5>1. Running
          BY DEF ScriptWants
        <5>2. CASE Idle
          BY <5>1, <5>2 DEF Idle, Running
        <5>3. CASE \E k \in 1 .. Last : Migrating(k)
          BY <5>3, NextOfMigrate DEF Inv, Migrating, Statements
        <5>4. CASE Undoing
          BY <5>4, NextOfUndo
        <5> QED BY <5>1, <5>2, <5>3, <5>4 DEF Inv, Phase
      <4> QED BY <3>1, <4>1 DEF ScriptWants, LocksLeft, Missing, LocksOf, Tables
    <3> QED BY <2>1, <3>1, <3>2
  <2> QED BY <2>2, <2>3
<1>2. RowsRight' /\ ReadsRight' /\ Parented' /\ Fresh'
  BY <1>1, QuietKept DEF HalfUndone
<1>3. TypeOK'
  BY <1>1 DEF Inv, TypeOK, tableVars, writerVars
<1>4. LocksApart'
  BY <1>1 DEF Inv, LocksApart, TableOf, tableVars, writerVars
<1>5. Phase'
  <2>1. \A t \in Tables : GapsOf(t)' = GapsOf(t)
    BY <1>1 DEF GapsOf, Present, tableVars
  <2> QED BY <1>1, <2>1, PhaseMoved DEF Inv
<1> QED BY <1>1, <1>2, <1>3, <1>4, <1>5 DEF Inv

\* Only a table with its trigger is filled.
LEMMA BackfillWatched ==
  ASSUME Inv, Running, Statement.op = "backfill"
  PROVE  /\ Statement.table \in Tables /\ Statement.table \in catalog.trigger
         /\ Early(catalog) /\ Whole(catalog) /\ ~HalfUndone
<1> DEFINE t == Statement.table
<1>1. script \in {"single", "with_fk"} /\ Phase
  BY DEF Inv
<1>2. ~Idle
  BY DEF Idle, Running
<1>3. ASSUME Undoing PROVE FALSE
  BY <1>3, NextOfUndo
<1>4. PICK k \in 1 .. Last : Migrating(k)
  BY <1>1, <1>2, <1>3 DEF Phase
<1>5. t \in Tables /\ Turn("backfill", t) = k
  BY <1>1, <1>4, NextOfMigrate DEF Migrating, Statements
<1> HIDE DEF t
<1>6. k # Never /\ k \in Nat /\ 1 <= k /\ Begin \in Nat
  <2>1. Last \in Nat /\ Last < Never /\ Begin \in Nat
    BY <1>1, Bounds DEF Never
  <2> QED BY <2>1
<1>7. k <= Begin /\ Past(k, "install_trigger", t)
  <2>1. CASE script = "single"
    BY <1>5, <1>6, <2>1 DEF Turn, Never, Past, Begin, Tables
  <2>2. CASE script # "single"
    BY <1>5, <1>6, <2>2 DEF Turn, Never, Past, Begin, Tables
  <2> QED BY <2>1, <2>2
<1>8. catalog = SchemaAt(k) /\ Earlier(catalog)
  BY <1>1, <1>4, <1>7, MigratingSchema
<1>9. k \in 1 .. Begin
  BY <1>6, <1>7
<1>10. ~Past(k, "drop_trigger", t)
  BY <1>1, <1>5, <1>9, EarlyOrder
<1>11. t \in catalog.trigger
  BY <1>5, <1>7, <1>8, <1>10 DEF SchemaAt, Watched, Since
<1>12. Early(catalog) /\ Whole(catalog)
  BY <1>1, <1>8, EarlyShape
<1>13. ~HalfUndone
  BY <1>4 DEF Migrating, HalfUndone
<1> QED BY <1>5, <1>11, <1>12, <1>13 DEF t

\* The backfill fills a row as the trigger would have.
LEMMA Fills ==
  ASSUME Inv, Fill
  PROVE  Inv'
<1>1. Basis
  BY InvBasis
<1> DEFINE t == Statement.table
<1>2. PICK p \in GapsOf(t) : owner[p] = NoOne /\ row' = [row EXCEPT ![p] = Refilled(@)]
  BY DEF Fill
<1>3. Running /\ Statement.op = "backfill" /\ UNCHANGED <<scriptVars, owner, pend, nextId, writerVars>>
  BY DEF Fill, Ready
<1>4. t \in Tables /\ t \in catalog.trigger /\ Early(catalog) /\ "dst" \in catalog.columns[t]
  BY <1>3, BackfillWatched DEF Whole
<1> HIDE DEF t
<1>5. p \in Places /\ TableOf(p) = t /\ row[p] # Absent
  BY <1>2, <1>4, PlacesAssumption DEF GapsOf, Present, PlacesOf, TableOf, Places, Tables
<1>6. /\ row \in [Places -> Version \cup {Absent}]
      /\ owner \in [Places -> Writers \cup {NoOne}] /\ pend \in [Places -> Version \cup {Absent, Same}]
      /\ nextId \in 0 .. MaxIds /\ has \in [Writers -> SUBSET Tables] /\ count \in [Writers -> 0 .. MaxStatements]
  BY <1>1 DEF Basis, TypeOK
<1>7. \A q \in Places :
        /\ row[q] # Absent => Right(q, row[q])
        /\ pend[q] \notin {Absent, Same} =>
             Right(q, pend[q]) /\ (TableOf(q) \in catalog.trigger => pend[q].dst # Null)
  BY <1>1 DEF Basis, RowsRight
<1>8. row[p] \in Version /\ row[p].meant \in Parents /\ row[p].src = row[p].meant
  BY <1>4, <1>5, <1>6, <1>7, EarlyVersion, VersionFields
<1> DEFINE new == Refilled(row[p])
<1>9. Flip(row[p].meant) \in Ids /\ Null \notin Ids
  BY <1>8, Values
<1>10. /\ new.meant = row[p].meant /\ new.src = row[p].src /\ new.dst = Flip(row[p].meant)
       /\ new \in Version /\ new # Absent
  BY <1>8, <1>9, NoRow DEF Refilled, Version, Column
<1>11. Right(p, new)
  BY <1>4, <1>5, <1>7, <1>8, <1>10, BeforeIsEarly DEF Right
<1> HIDE DEF new
<1>12. \A q \in Places : row'[q] = IF q = p THEN new ELSE row[q]
  BY <1>2, <1>6 DEF new
<1>13. row' \in [Places -> Version \cup {Absent}]
  BY <1>2, <1>6, <1>10 DEF new
<1>14. UNCHANGED <<script, catalog, held, ended, owner, pend, nextId, known, stmt, has, count>>
  BY <1>3 DEF scriptVars, writerVars
<1>15. TypeOK'
  BY <1>1, <1>3, <1>6, <1>13, <1>14, TypeKept DEF Basis
<1>16. Phase'
  <2>1. ASSUME NEW u \in Tables, GapsOf(u) = {} PROVE GapsOf(u)' = {}
    <3> SUFFICES ASSUME NEW q \in PlacesOf(u), row'[q] # Absent, row'[q].dst = Null PROVE FALSE
      BY DEF GapsOf, Present, PlacesOf
    <3>1. q \in Places
      BY DEF PlacesOf, Places
    <3> QED BY <1>9, <1>10, <1>12, <2>1, <3>1 DEF GapsOf, Present
  <2> QED BY <1>3, <2>1, PhaseKept DEF Inv
<1>17. RowsRight'
  BY <1>7, <1>11, <1>12, <1>14, RowsKept DEF HalfUndone
<1>18. ReadsRight'
  BY <1>1, <1>14, ReadsKept DEF Basis, ReadsRight
<1>19. LocksApart'
  BY <1>1, <1>14 DEF Basis, LocksApart, TableOf
<1>20. \A q \in Places : (row'[q] = Absent <=> row[q] = Absent) /\ (row[q] # Absent => row'[q].meant = row[q].meant)
  BY <1>5, <1>10, <1>12
<1>21. Parented'
  <2> SUFFICES ASSUME NEW c \in Children
               PROVE  /\ row'[c] # Absent =>
                           LET k == row'[c].meant IN
                           row'[k] # Absent /\ (pend[k] = Absent => owner[c] = owner[k])
                      /\ pend[c] \notin {Absent, Same} =>
                           LET k == pend[c].meant IN
                           (owner[k] = NoOne /\ row'[k] # Absent) \/ (owner[k] = owner[c] /\ pend[k] # Absent)
    BY <1>14 DEF Parented
  <2>1. c \in Places
    BY DEF Places
  <2>2. row[c] # Absent => row[c].meant \in Places
    BY <1>6, <2>1, VersionFields DEF Places
  <2>3. pend[c] \notin {Absent, Same} => pend[c].meant \in Places
    BY <1>6, <2>1, VersionFields DEF Places
  <2> QED BY <1>1, <1>20, <2>1, <2>2, <2>3 DEF Basis, Parented
<1>22. Fresh'
  <2>1. ASSUME NEW w \in Writers, stmt[w].op = "insert" PROVE stmt[w].place \in Places
    BY <1>1, <2>1 DEF Basis, ReadsRight, Asking, NoStatement, Places
  <2> QED BY <1>14, <1>20, <2>1 DEF Inv, Fresh, Unused, Places
<1> QED BY <1>1, <1>14, <1>15, <1>16, <1>17, <1>18, <1>19, <1>21, <1>22 DEF Inv, Basis

\* How a statement of the program changes the committed schema.
SchemaMoves(c) ==
  \/ /\ Early(catalog) /\ Early(c)
     /\ \A t \in Tables :
          /\ t \in c.trigger \ catalog.trigger => t \in held /\ ~HalfUndone
          /\ "dst" \in catalog.columns[t] \ c.columns[t] => t \in held
          /\ ~HalfUndone' /\ "dst" \in c.columns[t] => ~HalfUndone /\ (t \in catalog.trigger => t \in c.trigger)
  \/ /\ Early(catalog) /\ Late(c)
     /\ \A t \in Tables : t = "parent" \/ script = "with_fk" => t \in catalog.trigger /\ GapsOf(t) = {}
  \/ Late(catalog) /\ Late(c)

\* Rows and statements keep their meaning.
LEMMA Moved ==
  ASSUME Inv, NEW c \in Catalog, SchemaMoves(c), catalog' = c, row' = [p \in Places |-> Dropped(c, p)],
         UNCHANGED <<script, owner, pend, nextId, writerVars>>
  PROVE  /\ row' \in [Places -> Version \cup {Absent}]
         /\ \A t \in Tables : "dst" \in c.columns[t] => GapsOf(t)' = GapsOf(t)
         /\ RowsRight' /\ ReadsRight' /\ Parented' /\ Fresh'
<1>1. Basis
  BY InvBasis
<1>2. /\ row \in [Places -> Version \cup {Absent}]
      /\ owner \in [Places -> Writers \cup {NoOne}] /\ pend \in [Places -> Version \cup {Absent, Same}]
      /\ held \subseteq Tables
  BY <1>1 DEF Basis, TypeOK
<1>3. UNCHANGED <<known, stmt, has, count>>
  BY DEF writerVars
<1>4. ASSUME NEW p \in Places
      PROVE  /\ row'[p] \in Version \cup {Absent}
             /\ row'[p] = Absent <=> row[p] = Absent
             /\ "dst" \in c.columns[TableOf(p)] => row'[p] = row[p]
             /\ row[p] # Absent => /\ row[p] \in Version /\ row'[p].meant = row[p].meant /\ row'[p].src = row[p].src
                                   /\ "dst" \notin c.columns[TableOf(p)] => row'[p].dst = Null
  <2>1. row'[p] = Dropped(c, p)
    OBVIOUS
  <2>2. CASE row[p] = Absent
    BY <2>1, <2>2 DEF Dropped
  <2>3. CASE row[p] # Absent
    <3>1. row[p] \in Version
      BY <1>2, <2>3
    <3>2. [row[p] EXCEPT !.dst = Null] \in Version
      BY <3>1 DEF Version, Column
    <3> QED BY <2>1, <2>3, <3>1, <3>2, NoRow DEF Dropped, Version
  <2> QED BY <2>2, <2>3
<1>5. row' \in [Places -> Version \cup {Absent}]
  BY <1>4
<1>6. ASSUME NEW t \in Tables, "dst" \in c.columns[t] PROVE GapsOf(t)' = GapsOf(t)
  <2>1. \A p \in PlacesOf(t) : row'[p] = row[p]
    BY <1>4, <1>6, PlacesAssumption DEF PlacesOf, Places, TableOf, Tables
  <2> QED BY <2>1 DEF GapsOf, Present, PlacesOf
<1>7. \A p \in Places :
        /\ row[p] # Absent => Right(p, row[p])
        /\ pend[p] \notin {Absent, Same} =>
             Right(p, pend[p]) /\ (TableOf(p) \in catalog.trigger => pend[p].dst # Null)
  BY <1>1 DEF Basis, RowsRight
<1>8. ASSUME NEW p \in Places, TableOf(p) \in held PROVE pend[p] = Same
  BY <1>1, <1>2, <1>8 DEF Basis, LocksApart
<1>9. ASSUME NEW p \in Places, row[p] # Absent \/ pend[p] \notin {Absent, Same}
      PROVE  TableOf(p) = "parent" \/ script = "with_fk"
  BY <1>7, <1>9, SomePlace DEF Right
<1>10. (c.named["parent"] = "src" <=> Early(c)) /\ (Early(c) \/ Late(c)) /\ ~(Early(c) /\ Late(c))
  BY DEF SchemaMoves, Early, Late, Tables
<1>11. (Early(catalog) <=> Before) /\ (Late(catalog) <=> ~Before)
  BY <1>1, BeforeIsEarly DEF Basis
<1> DEFINE Fits(p, v) ==
             /\ p \in Parents => v.meant = p
             /\ p \in Children => script = "with_fk"
             /\ Early(c) =>
                  /\ v.src = v.meant
                  /\ v.dst # Null => /\ "dst" \in c.columns[TableOf(p)]
                                     /\ TableOf(p) \in c.trigger => v.dst = Flip(v.meant)
                                     /\ ~HalfUndone' => TableOf(p) \in c.trigger
             /\ ~Early(c) => v.dst = Flip(v.meant)
<1>12. ASSUME NEW p \in Places, row'[p] # Absent PROVE Fits(p, row'[p])
  <2>1. Right(p, row[p]) /\ row[p] # Absent
    BY <1>4, <1>7, <1>12
  <2>2. CASE Early(catalog) /\ Early(c)
    <3> DEFINE t == TableOf(p)
    <3>1. /\ t \in c.trigger \ catalog.trigger => t \in held /\ ~HalfUndone
          /\ ~HalfUndone' /\ "dst" \in c.columns[t] => ~HalfUndone /\ (t \in catalog.trigger => t \in c.trigger)
      BY <1>10, <1>11, <2>2, SomePlace DEF SchemaMoves
    <3> HIDE DEF t
    <3>2. CASE "dst" \notin c.columns[t]
      BY <1>4, <1>11, <2>1, <2>2, <3>2 DEF Right, t
    <3>3. CASE "dst" \in c.columns[t]
      <4>1. row'[p] = row[p]
        BY <1>4, <3>3 DEF t
      <4> QED BY <1>11, <2>1, <2>2, <3>1, <3>3, <4>1 DEF Right, t
    <3> QED BY <3>2, <3>3
  <2>3. CASE Early(catalog) /\ Late(c)
    <3>1. TableOf(p) \in catalog.trigger /\ GapsOf(TableOf(p)) = {}
      BY <1>9, <1>10, <1>11, <2>1, <2>3, SomePlace DEF SchemaMoves
    <3>2. row[p].dst # Null
      BY <2>1, <3>1, SomePlace DEF GapsOf, Present
    <3>3. "dst" \in c.columns[TableOf(p)]
      BY <1>9, <2>1, <2>3, SomePlace DEF Late, Tables
    <3>4. row[p].dst = Flip(row[p].meant) /\ row'[p] = row[p]
      BY <1>4, <1>11, <2>1, <2>3, <3>1, <3>2, <3>3 DEF Right
    <3> QED BY <1>10, <2>1, <2>3, <3>4 DEF Right
  <2>4. CASE Late(catalog) /\ Late(c)
    <3>1. "dst" \in c.columns[TableOf(p)]
      BY <1>9, <2>1, <2>4, SomePlace DEF Late, Tables
    <3> QED BY <1>4, <1>10, <1>11, <2>1, <2>4, <3>1 DEF Right
  <2> QED BY <2>2, <2>3, <2>4 DEF SchemaMoves
<1>13. ASSUME NEW p \in Places, pend[p] \notin {Absent, Same}
       PROVE  Fits(p, pend[p]) /\ (TableOf(p) \in c.trigger => pend[p].dst # Null)
  <2>1. Right(p, pend[p]) /\ (TableOf(p) \in catalog.trigger => pend[p].dst # Null) /\ TableOf(p) \notin held
    BY <1>7, <1>8, <1>13
  <2>2. CASE Early(catalog) /\ Early(c)
    <3> DEFINE t == TableOf(p)
    <3>1. /\ t \in c.trigger \ catalog.trigger => t \in held /\ ~HalfUndone
          /\ "dst" \in catalog.columns[t] \ c.columns[t] => t \in held
          /\ ~HalfUndone' /\ "dst" \in c.columns[t] => ~HalfUndone /\ (t \in catalog.trigger => t \in c.trigger)
      BY <1>10, <1>11, <2>2, SomePlace DEF SchemaMoves
    <3> HIDE DEF t
    <3> QED BY <1>11, <2>1, <2>2, <3>1 DEF Right, t
  <2>3. CASE Early(catalog) /\ Late(c)
    <3>1. TableOf(p) \in catalog.trigger
      BY <1>9, <1>10, <1>11, <1>13, <2>3, SomePlace DEF SchemaMoves
    <3>2. c.trigger = {}
      BY <2>3 DEF Late
    <3> QED BY <1>10, <1>11, <2>1, <2>3, <3>1, <3>2 DEF Right
  <2>4. CASE Late(catalog) /\ Late(c)
    <3>2. c.trigger = {}
      BY <2>4 DEF Late
    <3> QED BY <1>10, <1>11, <2>1, <2>4, <3>2 DEF Right
  <2> QED BY <2>2, <2>3, <2>4 DEF SchemaMoves
<1>14. RowsRight'
  <2>1. ASSUME NEW p, NEW v, Fits(p, v)
        PROVE  /\ p \in Parents => v.meant = p
               /\ p \in Children => script' = "with_fk"
               /\ catalog'.named["parent"] = "src" =>
                    /\ v.src = v.meant
                    /\ v.dst # Null => /\ "dst" \in catalog'.columns[TableOf(p)]
                                       /\ TableOf(p) \in catalog'.trigger => v.dst = Flip(v.meant)
                                       /\ ~HalfUndone' => TableOf(p) \in catalog'.trigger
               /\ catalog'.named["parent"] # "src" => v.dst = Flip(v.meant)
    BY <1>10, <2>1
  <2> HIDE DEF Fits
  <2>2. ASSUME NEW p \in Places, row'[p] # Absent PROVE Right(p, row[p])'
    BY <1>12, <2>1, <2>2 DEF Right, Before, TableOf
  <2>3. ASSUME NEW p \in Places, pend'[p] \notin {Absent, Same}
        PROVE  Right(p, pend[p])' /\ (TableOf(p) \in catalog'.trigger => pend'[p].dst # Null)
    BY <1>13, <2>1, <2>3 DEF Right, Before, TableOf
  <2> QED BY <2>2, <2>3 DEF RowsRight, TableOf
<1> HIDE DEF Fits
<1>15. ReadsRight'
  <2>1. catalog'.named["parent"] = "src" => Before
    BY <1>10, <1>11 DEF SchemaMoves
  <2>2. \A k : ReadRight(k) => ReadRight(k)'
    BY <2>1 DEF ReadRight, Before
  <2>3. \A s : Asking(s) => Asking(s)'
    BY <2>2 DEF Asking, NoStatement
  <2> QED BY <1>1, <1>3, <2>2, <2>3 DEF Basis, ReadsRight
<1>16. Parented'
  <2> SUFFICES ASSUME NEW d \in Children
               PROVE  /\ row'[d] # Absent =>
                           LET k == row'[d].meant IN
                           row'[k] # Absent /\ (pend[k] = Absent => owner[d] = owner[k])
                      /\ pend[d] \notin {Absent, Same} =>
                           LET k == pend[d].meant IN
                           (owner[k] = NoOne /\ row'[k] # Absent) \/ (owner[k] = owner[d] /\ pend[k] # Absent)
    BY DEF Parented
  <2>1. d \in Places
    BY DEF Places
  <2>2. row[d] # Absent => row[d].meant \in Places
    BY <1>2, <2>1, VersionFields DEF Places
  <2>3. pend[d] \notin {Absent, Same} => pend[d].meant \in Places
    BY <1>2, <2>1, VersionFields DEF Places
  <2> QED BY <1>1, <1>4, <2>1, <2>2, <2>3 DEF Basis, Parented
<1>17. Fresh'
  <2>1. ASSUME NEW w \in Writers, stmt[w].op = "insert" PROVE stmt[w].place \in Places
    BY <1>1, <2>1 DEF Basis, ReadsRight, Asking, NoStatement, Places
  <2> QED BY <1>3, <1>4, <2>1 DEF Inv, Fresh, Unused, Places
<1> QED BY <1>5, <1>6, <1>14, <1>15, <1>16, <1>17

\* A statement that takes effect has its table.
LEMMA HasTable ==
  ASSUME NEW t, LocksOf(Statement) = <<t>>, LocksLeft = {}
  PROVE  t \in held
<1>1. 1 \in DOMAIN <<t>> /\ <<t>>[1] = t /\ 1 .. 1 - 1 = {}
  OBVIOUS
<1>2. Missing(<<t>>, held) = {}
  BY DEF LocksLeft
<1> QED BY <1>1, <1>2 DEF Missing

\* The effect of a statement, part by part.
LEMMA Effect ==
  ASSUME Execute
  PROVE  /\ Running /\ LocksLeft = {}
         /\ Statement.op = "backfill" => GapsOf(Statement.table) = {}
         /\ Statement.op = "begin" => inTx' = TRUE
         /\ Statement.op = "commit" => inTx' = FALSE
         /\ Statement.op \notin {"begin", "commit"} => inTx' = inTx
         /\ draft' = Altered(draft, Statement)
         /\ inTx' => catalog' = catalog /\ held' = held
         /\ ~inTx' => catalog' = draft' /\ held' = {}
         /\ row' = [p \in Places |-> Dropped(catalog', p)]
         /\ ended = "undoing" => todo' \in Undo(draft')
         /\ ended # "undoing" => todo' = Tail(todo)
         /\ sent' = FALSE
         /\ todo' # <<>> => ended' = ended
         /\ todo' = <<>> => ended' = IF ended = "undoing" THEN "undone" ELSE "done"
         /\ UNCHANGED <<script, runs, owner, pend, nextId, writerVars>>
BY DEF Execute, Ready

\* What is left to show of a statement: the schema it commits and the phase after it.
LEMMA Executed ==
  ASSUME Inv, Execute, SchemaMoves(catalog'), draft' \in Catalog, inTx' \in BOOLEAN,
         row' \in [Places -> Version \cup {Absent}] /\ RowsRight' /\ ReadsRight' /\ Parented' /\ Fresh' => Phase'
  PROVE  Inv'
<1>1. TypeOK /\ LocksApart /\ script \in {"single", "with_fk"}
  BY DEF Inv
<1>2. /\ inTx' => catalog' = catalog /\ held' = held
      /\ ~inTx' => catalog' = draft' /\ held' = {}
      /\ row' = [p \in Places |-> Dropped(catalog', p)]
      /\ sent' = FALSE
      /\ ended' \in {ended, "done", "undone"}
      /\ UNCHANGED <<script, runs, owner, pend, nextId, writerVars>>
  BY Effect
<1>3. catalog' \in Catalog
  BY <1>1, <1>2 DEF TypeOK
<1>4. /\ row' \in [Places -> Version \cup {Absent}]
      /\ RowsRight' /\ ReadsRight' /\ Parented' /\ Fresh'
  BY <1>2, <1>3, Moved
<1>5. TypeOK'
  BY <1>1, <1>2, <1>3, <1>4 DEF TypeOK, writerVars
<1>6. LocksApart'
  BY <1>1, <1>2 DEF LocksApart, TableOf, writerVars
<1> QED BY <1>1, <1>2, <1>4, <1>5, <1>6 DEF Inv

\* The one transaction of a migration is the cutover.
LEMMA TransactionOfMigrate ==
  ASSUME script \in {"single", "with_fk"}, NEW s \in Statements, NEW k \in 1 .. Last, Turn(s.op, s.table) = k
  PROVE  /\ s.op = "begin" <=> k = Begin
         /\ s.op = "commit" <=> k = End
<1>1. k # Never /\ s.op \in Ops /\ s.table \in Tables
  <2>1. Last \in Nat /\ Last < Never
    BY Bounds DEF Never
  <2> QED BY <2>1 DEF Statements
<1>2. Turn("begin", "child") = Never /\ Turn("commit", "child") = Never
  BY DEF Turn
<1>3. s.op = "begin" => k = Begin
  BY <1>1, <1>2 DEF Begin, Tables
<1>4. s.op = "commit" => k = End
  BY <1>1, <1>2 DEF End, Tables
<1>5. "begin" \in Ops /\ "commit" \in Ops /\ "parent" \in Tables
  BY DEF Ops, Tables
<1>6. k = Begin => s.op = "begin"
  BY <1>1, <1>5, TurnsDiffer DEF Begin
<1>7. k = End => s.op = "commit"
  BY <1>1, <1>5, TurnsDiffer DEF End
<1> QED BY <1>3, <1>4, <1>6, <1>7

\* What has been filled has the column.
LEMMA FilledOrder ==
  ASSUME script \in {"single", "with_fk"}, NEW k \in 1 .. Last + 1, NEW t \in Tables, Past(k, "backfill", t)
  PROVE  Past(k, "add_column", t) /\ Past(Begin, "add_column", t)
<1>1. k \in Nat /\ k < Never
  <2>1. Last = 20 \/ Last = 36
    BY Bounds
  <2> QED BY <2>1 DEF Never
<1>2. CASE script = "single"
  <2>1. t = "parent"
    BY <1>1, <1>2 DEF Turn, Never, Past, Tables
  <2> QED BY <1>1, <1>2, <2>1, SingleTurns DEF Past, Begin
<1>3. CASE script # "single"
  <2>1. CASE t = "parent"
    BY <1>1, <1>3, <2>1, FamilyTurns DEF Past, Begin
  <2>2. CASE t = "child"
    BY <1>1, <1>3, <2>2, FamilyTurns DEF Past, Begin
  <2> QED BY <2>1, <2>2 DEF Tables
<1> QED BY <1>2, <1>3

\* At the cutover every table of the migration has its trigger and has been filled.
LEMMA ReadyToCutOver ==
  ASSUME script \in {"single", "with_fk"}, NEW t \in Tables, t = "parent" \/ script = "with_fk"
  PROVE  t \in Watched(Begin) /\ t \in Since(End, "backfill")
<1>1. CASE script = "single"
  BY <1>1, SingleTurns DEF Watched, Since, Past, Begin, End
<1>2. CASE script # "single"
  BY <1>2, FamilyTurns DEF Watched, Since, Past, Begin, End, Tables
<1> QED BY <1>1, <1>2

\* The schema that is committed by the k-th statement of a migration.
LEMMA MigrateMoves ==
  ASSUME Inv, Execute, NEW k \in 1 .. Last, Migrating(k)
  PROVE  /\ draft' = SchemaAt(k + 1) /\ draft' \in Catalog /\ inTx' \in BOOLEAN
         /\ inTx' <=> Begin < k + 1 /\ k + 1 <= End
         /\ catalog' = IF inTx' THEN SchemaAt(Begin) ELSE SchemaAt(k + 1)
         /\ ~HalfUndone /\ ~HalfUndone'
         /\ SchemaMoves(catalog')
<1> DEFINE s == Statement
<1>1. script \in {"single", "with_fk"} /\ Begin \in Nat /\ End \in Nat /\ Last \in Nat /\ k \in Nat
      /\ 1 <= Begin /\ Begin < End /\ 1 <= k /\ k <= Last /\ k < Never
  <2>1. (Begin = 10 /\ End = 18 /\ Last = 20) \/ (Begin = 18 /\ End = 31 /\ Last = 36)
    BY Bounds DEF Inv
  <2>2. Begin \in Nat /\ End \in Nat /\ Last \in Nat /\ 1 <= Begin /\ Begin < End /\ Last < 99 /\ Never = 99
    BY <2>1 DEF Never
  <2>3. k \in Nat /\ 1 <= k /\ k <= Last
    BY <2>2
  <2> QED BY <2>2, <2>3 DEF Inv
<1>2. s \in Statements /\ Turn(s.op, s.table) = k
  BY <1>1, NextOfMigrate DEF Migrating
<1>3. /\ s.op = "begin" <=> k = Begin
      /\ s.op = "commit" <=> k = End
  BY <1>1, <1>2, TransactionOfMigrate
<1>4. draft = SchemaAt(k) /\ (inTx <=> Begin < k /\ k <= End) /\ inTx \in BOOLEAN
  BY DEF Migrating, Inv, TypeOK
<1>5. /\ LocksLeft = {}
      /\ s.op = "begin" => inTx' = TRUE
      /\ s.op = "commit" => inTx' = FALSE
      /\ s.op \notin {"begin", "commit"} => inTx' = inTx
      /\ draft' = Altered(draft, s)
      /\ inTx' => catalog' = catalog
      /\ ~inTx' => catalog' = draft'
  BY Effect
<1>15. ~HalfUndone /\ ~HalfUndone'
  BY Effect DEF Migrating, HalfUndone
<1> HIDE DEF s
<1>6. inTx' \in BOOLEAN /\ (inTx' <=> Begin < k + 1 /\ k + 1 <= End)
  <2>1. CASE k = Begin
    <3>1. inTx' = TRUE
      BY <1>3, <1>5, <2>1
    <3>2. Begin < k + 1 /\ k + 1 <= End
      BY <1>1, <2>1
    <3> QED BY <3>1, <3>2
  <2>2. CASE k = End
    <3>1. inTx' = FALSE
      BY <1>3, <1>5, <2>2
    <3>2. ~(k + 1 <= End)
      BY <1>1, <2>2
    <3> QED BY <3>1, <3>2
  <2>3. CASE k # Begin /\ k # End
    <3>1. inTx' = inTx
      BY <1>3, <1>5, <2>3
    <3>2. (Begin < k /\ k <= End) <=> (Begin < k + 1 /\ k + 1 <= End)
      BY <1>1, <2>3
    <3> QED BY <1>4, <3>1, <3>2
  <2> QED BY <2>1, <2>2, <2>3
<1>7. draft' = SchemaAt(k + 1)
  BY <1>1, <1>2, <1>4, <1>5, SchemaStep
<1>8. draft' \in Catalog
  BY <1>1, <1>7, SchemaType
<1>9. k <= Begin => catalog = SchemaAt(k) /\ Early(catalog)
  BY <1>1, MigratingSchema, EarlyShape
<1>10. Begin < k /\ k <= End => catalog = SchemaAt(Begin) /\ Early(catalog)
  BY <1>1, MigratingSchema, EarlyShape
<1>11. catalog' = IF inTx' THEN SchemaAt(Begin) ELSE SchemaAt(k + 1)
  BY <1>1, <1>5, <1>6, <1>7, <1>9, <1>10
<1>12. CASE k + 1 <= Begin
  <2>1. catalog = SchemaAt(k) /\ Early(catalog) /\ catalog' = SchemaAt(k + 1)
    BY <1>1, <1>6, <1>9, <1>11, <1>12
  <2>2. k + 1 \in 1 .. Begin /\ k \in 1 .. Begin
    BY <1>1, <1>12
  <2>3. Early(catalog')
    BY <1>1, <2>1, <2>2, EarlyShape DEF Earlier
  <2>4. catalog.trigger = Since(k, "install_trigger") /\ catalog'.trigger = Since(k + 1, "install_trigger")
    <3>1. Since(k, "drop_trigger") = {} /\ Since(k + 1, "drop_trigger") = {}
      BY <1>1, <2>2, EarlyOrder DEF Since
    <3> QED BY <2>1, <3>1 DEF SchemaAt, Watched
  <2>5. ASSUME NEW t \in Tables PROVE Turn("install_trigger", t) \in Nat
    BY TurnType
  <2>6. catalog.trigger \subseteq catalog'.trigger
    BY <1>1, <2>4, <2>5 DEF Since, Past
  <2>7. ASSUME NEW t \in catalog'.trigger, t \notin catalog.trigger PROVE t \in held
    <3>1. t \in Tables /\ Turn("install_trigger", t) = k
      BY <1>1, <2>4, <2>5, <2>7 DEF Since, Past
    <3>2. s.op = "install_trigger" /\ s.table = t
      <4>1. "install_trigger" \in Ops /\ s.op \in Ops /\ s.table \in Tables
        BY <1>2 DEF Ops, Statements
      <4> QED BY <1>1, <1>2, <3>1, <4>1, TurnsDiffer
    <3>3. LocksOf(s) = <<t>>
      BY <3>2 DEF LocksOf
    <3> QED BY <1>5, <3>3, HasTable DEF s
  <2>9. ASSUME NEW t \in Tables, "dst" \in catalog.columns[t] PROVE "dst" \in catalog'.columns[t]
    <3>1. Turn("add_column", t) \in Nat
      BY TurnType
    <3> QED BY <1>1, <2>1, <2>9, <3>1 DEF SchemaAt, Columns, Past
  <2>8. SchemaMoves(catalog')
    BY <1>15, <2>1, <2>3, <2>6, <2>7, <2>9 DEF SchemaMoves
  <2> QED BY <1>6, <1>7, <1>8, <1>11, <1>15, <2>8
<1>13. CASE Begin < k + 1 /\ k + 1 <= End
  <2>1. catalog' = catalog /\ Early(catalog)
    BY <1>1, <1>5, <1>6, <1>9, <1>10, <1>13
  <2>2. SchemaMoves(catalog)
    BY <1>15, <2>1 DEF SchemaMoves
  <2> QED BY <1>6, <1>7, <1>8, <1>11, <1>15, <2>1, <2>2
<1>14. CASE End < k + 1
  <2>1. catalog' = SchemaAt(k + 1) /\ k + 1 \in End + 1 .. Last + 1
    BY <1>1, <1>6, <1>11, <1>14
  <2>2. Late(catalog')
    BY <1>1, <2>1, LateShape DEF Later
  <2>3. CASE k = End
    <3>1. catalog = SchemaAt(Begin) /\ Early(catalog)
      BY <1>1, <1>10, <2>3
    <3>2. ASSUME NEW t \in Tables, t = "parent" \/ script = "with_fk"
          PROVE  t \in catalog.trigger /\ GapsOf(t) = {}
      BY <1>1, <2>3, <3>1, <3>2, ReadyToCutOver DEF Migrating, SchemaAt
    <3>3. SchemaMoves(catalog')
      BY <2>2, <3>1, <3>2 DEF SchemaMoves
    <3> QED BY <1>6, <1>7, <1>8, <1>11, <1>15, <3>3
  <2>4. CASE k # End
    <3>1. Late(catalog)
      BY <1>1, <1>14, <2>4, MigratingSchema, LateShape
    <3>2. SchemaMoves(catalog')
      BY <2>2, <3>1 DEF SchemaMoves
    <3> QED BY <1>6, <1>7, <1>8, <1>11, <1>15, <3>2
  <2> QED BY <2>3, <2>4
<1> QED BY <1>1, <1>12, <1>13, <1>14

\* A statement of a migration leads to the next phase, and the last one to rest.
LEMMA MigrateExecutes ==
  ASSUME Inv, Execute, NEW k \in 1 .. Last, Migrating(k)
  PROVE  Inv'
<1>1. script \in {"single", "with_fk"} /\ script' = script
  BY Effect DEF Inv
<1>2. Begin \in Nat /\ End \in Nat /\ Last \in Nat /\ k \in Nat
      /\ 1 <= Begin /\ Begin < End /\ End < Last /\ 1 <= k /\ k <= Last /\ k < Never
  <2>1. (Begin = 10 /\ End = 18 /\ Last = 20) \/ (Begin = 18 /\ End = 31 /\ Last = 36)
    BY <1>1, Bounds
  <2>2. Begin \in Nat /\ End \in Nat /\ Last \in Nat /\ 1 <= Begin /\ Begin < End /\ End < Last /\ Last < 99 /\ Never = 99
    BY <2>1 DEF Never
  <2>3. k \in Nat /\ 1 <= k /\ k <= Last
    BY <2>2
  <2> QED BY <2>2, <2>3
<1>3. /\ draft' = SchemaAt(k + 1) /\ draft' \in Catalog /\ inTx' \in BOOLEAN
      /\ inTx' <=> Begin < k + 1 /\ k + 1 <= End
      /\ catalog' = IF inTx' THEN SchemaAt(Begin) ELSE SchemaAt(k + 1)
      /\ SchemaMoves(catalog')
  BY MigrateMoves
<1>4. /\ Statement \in Statements /\ Turn(Statement.op, Statement.table) = k
      /\ Tail(todo) = Rest(Migrate, k + 1)
      /\ Tail(todo) = <<>> <=> k = Last
  BY <1>1, NextOfMigrate DEF Migrating
<1>5. /\ Statement.op = "backfill" => GapsOf(Statement.table) = {}
      /\ row' = [p \in Places |-> Dropped(catalog', p)]
      /\ todo' = Tail(todo)
      /\ todo' # <<>> => ended' = ended
      /\ todo' = <<>> => ended' = "done"
      /\ UNCHANGED <<script, runs, owner, pend, nextId, writerVars>>
  BY Effect DEF Migrating
<1>6. /\ Migrate' = Migrate /\ Begin' = Begin /\ End' = End /\ Last' = Last
      /\ \A j : SchemaAt(j)' = SchemaAt(j)
      /\ \A j, op : Since(j, op)' = Since(j, op)
  BY <1>1, ScriptKept
<1>7. ended = "running" /\ \A t \in Since(k, "backfill") : GapsOf(t) = {}
  BY DEF Migrating
<1>8. catalog' \in Catalog
  BY <1>2, <1>3, SchemaType
<1>9. CASE k = Last
  <2>1. ~inTx' /\ catalog' = SchemaAt(k + 1) /\ todo' = <<>> /\ draft' = catalog'
    BY <1>2, <1>3, <1>4, <1>5, <1>9
  <2>2. k + 1 \in End + 1 .. Last + 1
    BY <1>2, <1>9
  <2>3. Later(catalog') /\ Late(catalog')
    BY <1>1, <2>1, <2>2, LateShape DEF Later
  <2>4. ended' = "done"
    BY <1>5, <2>1
  <2>5. Later(catalog)'
    BY <1>1, <2>3, LaterNext
  <2>6. Phase'
    BY <2>1, <2>4, <2>5 DEF Phase, Idle
  <2> QED BY <1>3, <2>6, Executed
<1>10. CASE k # Last
  <2>1. k + 1 \in 1 .. Last
    BY <1>2, <1>10
  <2>2. todo' = Rest(Migrate, k + 1) /\ ended' = "running"
    BY <1>4, <1>5, <1>7, <1>10
  <2>3. Rest(Migrate, k + 1)' = Rest(Migrate, k + 1)
    BY <1>6 DEF Rest
  <2>4. ASSUME NEW t \in Since(k + 1, "backfill") PROVE GapsOf(t)' = {}
    <3>1. t \in Tables /\ Past(k + 1, "backfill", t) /\ Turn("backfill", t) \in Nat
      BY TurnType DEF Since
    <3>2. GapsOf(t) = {}
      <4>1. CASE Turn("backfill", t) < k
        BY <1>7, <3>1, <4>1 DEF Since, Past
      <4>2. CASE Turn("backfill", t) = k
        <5>1. "backfill" \in Ops /\ Statement.op \in Ops /\ Statement.table \in Tables
          BY <1>4 DEF Ops, Statements
        <5>2. Statement.op = "backfill" /\ Statement.table = t
          BY <1>2, <1>4, <3>1, <4>2, <5>1, TurnsDiffer
        <5> QED BY <1>5, <5>2
      <4> QED BY <1>2, <3>1, <4>1, <4>2 DEF Past
    <3>3. Past(k + 1, "add_column", t) /\ Past(Begin, "add_column", t)
      <4>1. k + 1 \in 1 .. Last + 1
        BY <1>2
      <4> QED BY <1>1, <3>1, <4>1, FilledOrder
    <3>4. "dst" \in catalog'.columns[t]
      BY <1>3, <3>1, <3>3 DEF SchemaAt, Columns
    <3> QED BY <1>3, <1>5, <1>8, <3>1, <3>2, <3>4, Moved
  <2>5. Migrating(k + 1)'
    BY <1>3, <1>6, <2>2, <2>3, <2>4 DEF Migrating
  <2>6. Phase'
    BY <1>6, <2>1, <2>5 DEF Phase
  <2> QED BY <1>3, <2>6, Executed
<1> QED BY <1>9, <1>10

\* So does a statement of the undo, which commits on its own.
LEMMA UndoExecutes ==
  ASSUME Inv, Execute, Undoing
  PROVE  Inv'
<1> DEFINE s == Statement
<1>1. script \in {"single", "with_fk"} /\ script' = script /\ catalog \in Catalog /\ inTx \in BOOLEAN
  BY Effect DEF Inv, TypeOK
<1>2. /\ s \in UndoLeft(catalog) /\ s.table \in Tables /\ s.op \in {"drop_sibling", "drop_trigger"}
      /\ LocksOf(s) = <<s.table>>
  BY NextOfUndo
<1>3. ended = "undoing" /\ ~inTx /\ draft = catalog /\ Halfway(catalog)
  BY DEF Undoing
<1>4. /\ inTx' = FALSE /\ draft' = Altered(catalog, s) /\ catalog' = draft'
      /\ todo' \in Undo(draft')
      /\ todo' # <<>> => ended' = "undoing"
      /\ todo' = <<>> => ended' = "undone"
  BY <1>1, <1>2, <1>3, Effect
<1>5. s.table \in held
  BY <1>2, HasTable, Effect
<1> HIDE DEF s
<1>6. /\ draft' \in Catalog /\ Halfway(catalog')
      /\ catalog'.trigger \subseteq catalog.trigger
      /\ \A t \in Tables : "dst" \in catalog.columns[t] \ catalog'.columns[t] => t = s.table
  BY <1>1, <1>2, <1>3, <1>4, UndoStep
<1>7. Halfway(catalog)' /\ UndoLeft(catalog)' = UndoLeft(catalog')
  BY <1>1, <1>6, HalfwayNext DEF UndoLeft
<1>8. Early(catalog) /\ Early(catalog')
  BY <1>3, <1>6 DEF Halfway
<1>9. CASE UndoLeft(catalog') = {}
  <2>1. todo' = <<>> /\ ended' = "undone"
    BY <1>4, <1>9 DEF Undo
  <2>2. catalog' = SchemaAt(1) /\ \A t \in Tables : "dst" \notin catalog'.columns[t]
    BY <1>1, <1>4, <1>6, <1>9, UndoneFully
  <2>3. SchemaMoves(catalog')
    BY <1>5, <1>6, <1>8, <2>2 DEF SchemaMoves
  <2>4. 1 \in 1 .. Begin
    BY <1>1, Bounds
  <2>5. SchemaAt(1)' = SchemaAt(1) /\ Earlier(catalog)'
    BY <1>1, <2>2, <2>4, ScriptKept, EarlierNext DEF Earlier
  <2>6. Phase'
    BY <1>4, <2>1, <2>2, <2>5 DEF Phase, Idle
  <2> QED BY <1>4, <1>6, <2>3, <2>6, Executed
<1>10. CASE UndoLeft(catalog') # {}
  <2>1. PICK next \in UndoLeft(catalog') : todo' = <<next>>
    BY <1>4, <1>10 DEF Undo
  <2>2. ended' = "undoing"
    BY <1>4, <2>1
  <2>3. SchemaMoves(catalog')
    BY <1>5, <1>6, <1>8, <2>2 DEF SchemaMoves, HalfUndone
  <2>4. Undoing'
    BY <1>4, <1>7, <2>1, <2>2 DEF Undoing
  <2> QED BY <1>4, <1>6, <2>3, <2>4, Executed DEF Phase
<1> QED BY <1>9, <1>10

LEMMA Executes ==
  ASSUME Inv, Execute
  PROVE  Inv'
<1>1. Running
  BY Effect
<1>2. ~Idle
  BY <1>1 DEF Idle, Running
<1> QED BY <1>2, MigrateExecutes, UndoExecutes DEF Inv, Phase

LEMMA ScriptSteps ==
  ASSUME Inv, ScriptNext
  PROVE  Inv'
<1>1. CASE Start
  BY <1>1, StartsRun
<1>2. CASE Send \/ Lock
  BY <1>2, Sends
<1>3. CASE Fill
  BY <1>3, Fills
<1>4. CASE FillTimesOut \/ Lost \/ ScriptVictim
  BY <1>4, Fails, VictimRuns DEF FillTimesOut, Lost, ScriptVictim, Ready
<1>5. CASE Execute
  BY <1>5, Executes
<1> QED BY <1>1, <1>2, <1>3, <1>4, <1>5 DEF ScriptNext

LEMMA Stutters ==
  ASSUME Inv, UNCHANGED vars
  PROVE  Inv'
<1>1. UNCHANGED scriptVars /\ UNCHANGED <<row, owner, pend, nextId, known, stmt, has, count>>
  BY DEF vars, scriptVars
<1>2. script' = script /\ catalog' = catalog /\ held' = held
  BY <1>1 DEF scriptVars
<1>3. Phase' /\ RowsRight' /\ Parented'
  BY <1>1, TablesKept
<1>4. TypeOK'
  BY <1>1, TypeKept DEF Inv, TypeOK
<1>5. LocksApart'
  BY <1>1, <1>2 DEF Inv, LocksApart, TableOf
<1>6. ReadsRight'
  BY <1>1, <1>2, ReadsKept DEF Inv, ReadsRight
<1>7. Fresh'
  BY <1>1 DEF Inv, Fresh, Unused
<1> QED BY <1>2, <1>3, <1>4, <1>5, <1>6, <1>7 DEF Inv

-----------------------------------------------------------------------------
(* The results. *)

\* Schema, phase of the program, locks, versions of rows and the identifiers in writers' hands agree
\* in every reachable state, for any rows, writers, transactions, failures and runs.
THEOREM Inductive == Spec => []Inv
<1>1. ASSUME Inv, Next PROVE Inv'
  BY <1>1, ScriptSteps, WriterSteps DEF Next
<1>2. ASSUME Inv, [Next]_vars PROVE Inv'
  BY <1>1, <1>2, Stutters
<1> QED BY <1>2, Starts, PTL DEF Spec

\* The program, the tables and the transactions keep their types.
THEOREM TypeCorrect == Spec => []TypeOK
<1>1. Inv => TypeOK
  BY DEF Inv
<1> QED BY <1>1, Inductive, PTL

\* A child refers to the parent its writer meant, before and after the cutover,
\* also with an identifier read before it.
THEOREM LinksAlwaysKept == Spec => []LinksKept
BY Inductive, KeepsLinks, PTL

\* No transaction of the application ever sees a parent without key or default or a child without
\* foreign key, nor, but in an undo, a trigger without its columns: the cutover commits as a whole.
THEOREM NeverSeenHalfMigrated == Spec => []NeverHalfMigrated
BY Inductive, NeverHalf, PTL

\* No statement of a migration makes an insert or a link with a current identifier fail that has its
\* locks; a statement of an undo does so only in a table that it has left without the trigger or the
\* column that the other needs.
THEOREM WritersNeverHarmed == Spec => []WritersUnharmed
BY Inductive, Unharmed, PTL

\* No statement of the programs fails and no assertion panics, from wherever an undo or a new run began.
THEOREM ScriptAlwaysSound == Spec => []ScriptSound
BY Inductive, SoundScript, PTL
=============================================================================
