---------------------------- MODULE TestSurface ----------------------------
(***************************************************************************)
(* The gate that keeps skipped and focused tests out of the repository:    *)
(* cargo xtask check-test-surface.  It collects the files of each kind     *)
(* (Collect), reads and scans them (Scan) and reports (Report), while the  *)
(* files may change on disk (Edit).                                        *)
(***************************************************************************)
EXTENDS SourceGrammar

CONSTANTS
  Places,         \* files, each a kind and the directories from the root of that kind
  Settings,       \* what is on disk, how often it changes meanwhile, and the mode
  Saves,          \* files and what an editor makes of them
  Absent          \* no file here

Kinds == <<"rust", "python", "typescript", "dotnet", "workflow">>
MaskedKinds == {"rust", "typescript", "dotnet"}

\* The lines of a source that skip a test, by its language; what is shown of it has blanks in
\* place of its comments and literals.
SkipLines(kind, source) ==
  CASE kind = "rust" -> LinesOf(source.text, RustSkips(source.shown))
    [] kind = "typescript" -> LinesOf(source.text, TypeScriptSkips(source.shown)) \cup NamedLines(source.shown)
    [] kind = "dotnet" -> LinesOf(source.text, DotnetSkips(source.shown)) \cup NamedLines(source.shown)
    [] kind = "python" -> PythonSkips(source.text)
    [] kind = "workflow" -> LinesOf(source.text, WorkflowSkips(source.text))

\* A source comes with what its language says of it: what is shown, where its pieces start, the
\* lines that skip a test (bad), and those of which the gate may say so (doubtful).  It is within
\* the limits of the scanners.
Described(kind, source) ==
  /\ source.text \in Seq(Token)
  /\ kind \in MaskedKinds =>
       source.shown \in Seq(Token) /\ source.at \in Seq(Nat) /\ Lexed(kind, source.text, source.shown, source.at)
  /\ Within(kind, source.text, source.shown, source.at)
  /\ source.bad \subseteq SkipLines(kind, source)
  /\ SkipLines(kind, source) \subseteq source.bad \cup source.doubtful

ASSUME TestSurfaceAssumption ==
  /\ \A p \in Places : p.kind \in ToSet(Kinds) /\ p.dirs \in Seq(STRING)
  /\ \A setting \in Settings :
       /\ setting.disk = [p \in Places |-> setting.disk[p]]
       /\ \A p \in Places : setting.disk[p] # Absent => Described(p.kind, setting.disk[p])
  /\ \A save \in Saves :
       save.place \in Places /\ (save.source # Absent => Described(save.place.kind, save.source))

VARIABLES
  disk,           \* the source of each file
  editsLeft,      \* bound on the changes while the check runs
  edited,         \* files that were changed
  listOnly,       \* whether only the paths with findings are printed
  toCollect,      \* kinds whose files are not collected yet
  files,          \* the files collected
  read,           \* what was read of each of them
  findings,       \* pairs of a file and a line
  printed,        \* the report
  outcome         \* the exit code

vars == <<disk, editsLeft, edited, listOnly, toCollect, files, read, findings, printed, outcome>>

-----------------------------------------------------------------------------
(* The walk. *)

Avoids(dirs, names) == ToSet(dirs) \cap names = {}

\* Any component of the path makes a Rust file active; build output and hidden ones do not.
RustReached(dirs) ==
  Avoids(dirs, {"target", ".hidden"}) /\ ~Avoids(dirs, {"src", "tests", "examples", "benches"})

\* Mutant of PythonReached: tests are expected right under the root.
TopTestsOnly(dirs) == Avoids(dirs, {"__pycache__"}) /\ dirs # <<>> /\ dirs[1] = "tests"

\* A file anywhere in a directory named tests, anywhere under the root.
PythonReached(dirs) == Avoids(dirs, {"__pycache__"}) /\ Contains(dirs, "tests")

Reached(p) ==
  CASE p.kind = "rust" -> RustReached(p.dirs)
    [] p.kind = "python" -> PythonReached(p.dirs)
    [] p.kind \in {"typescript", "dotnet"} -> Avoids(p.dirs, {"node_modules", "bin", "obj"})
    [] p.kind = "workflow" -> TRUE

-----------------------------------------------------------------------------
(* The scan. *)

FindingsIn(kind, text) ==
  CASE kind = "rust" -> LinesOf(text, RustFindings(Masked(text)))
    [] kind = "typescript" -> LinesOf(text, TypeScriptFindings(Masked(text))) \cup NamedLines(Masked(text))
    [] kind = "dotnet" -> LinesOf(text, DotnetFindings(Masked(text))) \cup NamedLines(Masked(text))
    [] kind = "python" -> PythonFindings(text)
    [] kind = "workflow" -> WorkflowFindings(text)

-----------------------------------------------------------------------------
(* The program. *)

Running == outcome = "none"

Collect ==
  /\ Running
  /\ toCollect # <<>>
  /\ files' = files \cup {p \in Places : p.kind = Head(toCollect) /\ disk[p] # Absent /\ Reached(p)}
  /\ toCollect' = Tail(toCollect)
  /\ UNCHANGED <<disk, editsLeft, edited, listOnly, read, findings, printed, outcome>>

\* A directory cannot be read.
CollectFails ==
  /\ Running
  /\ toCollect # <<>>
  /\ outcome' = "failure"
  /\ UNCHANGED <<disk, editsLeft, edited, listOnly, toCollect, files, read, findings, printed>>

\* The kinds are scanned one after another; the order of the files of one kind leaves no trace.
NextFiles ==
  LET unread == files \ DOMAIN read
      first == CHOOSE i \in DOMAIN Kinds :
                 /\ \E p \in unread : p.kind = Kinds[i]
                 /\ \A j \in 1 .. i - 1, p \in unread : p.kind # Kinds[j]
  IN IF toCollect # <<>> \/ unread = {} THEN {} ELSE {p \in unread : p.kind = Kinds[first]}

Scan(p) ==
  /\ Running
  /\ p \in NextFiles
  /\ disk[p] # Absent
  /\ read' = [q \in DOMAIN read \cup {p} |-> IF q = p THEN disk[p] ELSE read[q]]
  /\ findings' = findings \cup {<<p, line>> : line \in FindingsIn(p.kind, disk[p].text)}
  /\ UNCHANGED <<disk, editsLeft, edited, listOnly, toCollect, files, printed, outcome>>

\* The file was removed after the walk, cannot be read, or is not UTF-8.
ScanFails(p) ==
  /\ Running
  /\ p \in NextFiles
  /\ outcome' = "failure"
  /\ UNCHANGED <<disk, editsLeft, edited, listOnly, toCollect, files, read, findings, printed>>

Report ==
  /\ Running
  /\ toCollect = <<>>
  /\ files = DOMAIN read
  /\ printed' = IF listOnly THEN {f[1] : f \in findings} ELSE findings
  /\ outcome' = IF findings = {} THEN "success" ELSE "failure"
  /\ UNCHANGED <<disk, editsLeft, edited, listOnly, toCollect, files, read, findings>>

\* A file is saved or removed.
Edit(p) ==
  /\ Running
  /\ editsLeft > 0
  /\ \E save \in Saves :
       /\ save.place = p
       /\ save.source # disk[p]
       /\ disk' = [disk EXCEPT ![p] = save.source]
  /\ editsLeft' = editsLeft - 1
  /\ edited' = edited \cup {p}
  /\ UNCHANGED <<listOnly, toCollect, files, read, findings, printed, outcome>>

Init ==
  /\ \E setting \in Settings :
       disk = setting.disk /\ editsLeft = setting.edits /\ listOnly = setting.listOnly
  /\ edited = {}
  /\ toCollect = Kinds
  /\ files = {}
  /\ read = <<>>
  /\ findings = {}
  /\ printed = {}
  /\ outcome = "none"

Next ==
  \/ Collect
  \/ CollectFails
  \/ \E p \in Places : Scan(p) \/ ScanFails(p) \/ Edit(p)
  \/ Report

Spec == Init /\ [][Next]_vars

-----------------------------------------------------------------------------
(* Properties. *)

\* Exactly the comments and literals of a source are blanked, wherever they stand beside code
\* and beside each other, and every line keeps its number.
MaskExact ==
  \A p \in DOMAIN read : p.kind \in MaskedKinds => Masked(read[p].text) = read[p].shown

\* No skipped or focused test passes the scan: not after a comment, literal or gate that ended,
\* not in a chain with calls in it.
NothingEscapes ==
  \A p \in DOMAIN read : \A line \in read[p].bad : <<p, line>> \in findings

\* No other line is reported, except where a comment ends a gate that Python goes on with.
NoFalseAlarm ==
  \A f \in findings : f[2] \in read[f[1]].bad \cup read[f[1]].doubtful

\* Build output, dependencies and caches of each kind.
Exempt(kind) ==
  CASE kind = "rust" -> {"target", ".hidden"}
    [] kind = "python" -> {"__pycache__"}
    [] kind \in {"typescript", "dotnet"} -> {"node_modules", "bin", "obj"}
    [] kind = "workflow" -> {}

\* What belongs to a test surface, said of the path as a whole.
OnSurface(p) ==
  /\ \A i \in DOMAIN p.dirs : p.dirs[i] \notin Exempt(p.kind)
  /\ p.kind = "rust" => \E i \in DOMAIN p.dirs : p.dirs[i] \in {"src", "tests", "examples", "benches"}
  /\ p.kind = "python" => \E i \in DOMAIN p.dirs : p.dirs[i] = "tests"

\* The check succeeds only if it has read all that is on a test surface and was there from start
\* to end, and nothing it has read skips a test, whatever was removed or saved meanwhile; when it
\* has read everything and fails, it says where, in either mode.
VerdictSound ==
  /\ outcome = "success" =>
       /\ \A p \in Places \ edited : OnSurface(p) /\ disk[p] # Absent => p \in DOMAIN read
       /\ \A p \in DOMAIN read : read[p].bad = {}
  /\ outcome = "failure" /\ toCollect = <<>> /\ files = DOMAIN read => printed # {}
=============================================================================
