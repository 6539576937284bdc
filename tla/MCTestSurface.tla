--------------------------- MODULE MCTestSurface ---------------------------
(***************************************************************************)
(* Sources for TestSurface, composed from pieces of which their language   *)
(* says what they are, and a few files on disk.                            *)
(***************************************************************************)
EXTENDS TestSurface

\* A piece of source: its text, whether it is a comment or literal, whether it skips a test.
Code(text) == [text |-> text, hidden |-> FALSE, bad |-> FALSE]
Skip(text) == [text |-> text, hidden |-> FALSE, bad |-> TRUE]
Hidden(text) == [text |-> text, hidden |-> TRUE, bad |-> FALSE]

NewLine == Code(<<Newline>>)
Quoted(text) == Hidden(<<DoubleQuote>> \o text \o <<DoubleQuote>>)
Escaping(text) == Quoted(<<Backslash, DoubleQuote>> \o text \o <<Backslash, Backslash>>)
BlockComment(text) == Hidden(<<"/", "*">> \o text \o <<"*", "/">>)
LineComment(text) == Hidden(<<"/", "/">> \o text)
Raw(prefix, text) == Hidden(prefix \o <<"#", DoubleQuote>> \o text \o <<DoubleQuote, "#">>)

IgnoreAttr == <<"#", "[", "ignore", "]">>
RustPieces ==
  {NewLine, Skip(IgnoreAttr),
   Skip(<<"#", "!", Space, "[", "cfg_attr", "(", "all", "(", "a", ",", "b", ")", ",", "ignore", ")", "]">>),
   Code(<<"#", "[", "cfg_attr", "(", "any", "(", "a", ",", "ignore", ")", ",", "word", ")", "]">>),
   Code(<<"#", "[", "should_panic", "(", "ignore", ")", "]">>),
   Code(<<SingleQuote, "a", Space>>),
   Quoted(IgnoreAttr), Escaping(IgnoreAttr), Quoted(<<"/", "/">>), Raw(<<"b", "r">>, <<DoubleQuote, Space>> \o IgnoreAttr),
   Hidden(<<SingleQuote, DoubleQuote, SingleQuote>>), Hidden(<<"b", SingleQuote, Backslash, SingleQuote, SingleQuote>>),
   BlockComment(<<"/", "*">> \o IgnoreAttr \o <<"*", "/", DoubleQuote, Newline>>)}

TypeScriptPieces ==
  {NewLine, Skip(<<"it", ".", "skip", "(", "word", ")">>),
   Skip(<<"test", ".", "each", "(", "[", "(", "]", ")", ")", Space, ".", "only", "(", ")">>),
   Skip(<<"describe", ".", "concurrent", ".", Newline, "skipIf", "(", ")">>),
   Code(<<"unit", ".", "skip", "(", ")", Space>>), Code(<<"test", "(", "it", ")", Space>>),
   Quoted(<<"it", ".", "skip">>), Hidden(<<Backtick, "it", ".", "skip", Newline, Backtick>>),
   Hidden(<<SingleQuote, "it", ".", "only", DoubleQuote, SingleQuote>>), Quoted(<<")">>),
   BlockComment(<<"it", ".", "skip", "(">>), Skip(<<"quarantine", Space>>)}

DotnetPieces ==
  {NewLine, Skip(<<"[", "Fact", "(", "x", ",", Space, "Skip", "=", "why", ")", "]">>), Skip(<<"[", Space, "Ignore", "]">>),
   Skip(<<"[", "Explicit", ",", "Category", "(", ")", "]">>), Code(<<"[", "Fact", ",", "Category", "(", "x", ")", "]">>), Code(<<"x", "[", "y", "[", "Skip", "]", "]">>),
   Code(<<"[", "Category", "(", "Skip", ")", "]">>), Quoted(<<"[", "Ignore", "]">>), Escaping(<<"[">>),
   Hidden(<<SingleQuote, "[", SingleQuote>>), BlockComment(<<"[", "Fact", "(", "Skip", ")", "]">>),
   Skip(<<"quarantine", Space>>)}

\* A line comment ends with its line.
Closed(piece) ==
  <<piece>> \o IF piece.hidden /\ piece.text[1] = "/" /\ piece.text[2] = "/" THEN <<NewLine>> ELSE <<>>

Source(text, shown, at, bad, doubtful) ==
  [text |-> text, shown |-> shown, at |-> at, bad |-> bad, doubtful |-> doubtful]

Texts(pieces) == FlattenSeq([i \in DOMAIN pieces |-> pieces[i].text])
Shown(pieces) ==
  FlattenSeq([i \in DOMAIN pieces |-> IF pieces[i].hidden THEN Blanked(pieces[i].text) ELSE pieces[i].text])

\* A comment or literal is one piece of a source; so is each token of its code.
Starting(pieces) ==
  LET before(i) == Len(Texts(SubSeq(pieces, 1, i - 1)))
      starts(i) == IF pieces[i].hidden THEN <<before(i) + 1>>
                   ELSE [k \in DOMAIN pieces[i].text |-> before(i) + k]
  IN Append(FlattenSeq([i \in DOMAIN pieces |-> starts(i)]), Len(Texts(pieces)) + 1)

\* A finding is at the line of the attribute, or of the link in the chain.
BadLine(pieces, i) ==
  LET before == Texts(SubSeq(pieces, 1, i - 1))
      text == pieces[i].text
      link == {j \in DOMAIN text : text[j] \in {"skip", "skipIf", "only"}}
  IN LineOf(before \o text, Len(before) + IF link = {} THEN 1 ELSE Min(link))

Composed(pieces) ==
  Source(Texts(pieces), Shown(pieces), Starting(pieces),
         {BadLine(pieces, i) : i \in {j \in DOMAIN pieces : pieces[j].bad}}, {})

\* Every source of up to three pieces, with a line comment among them, within the scanners' limits:
\* not with two lifetimes on a line, or two strings of C# side by side.
SourcesOf(kind, pieces, comment) ==
  {source \in {Composed(FlattenSeq([i \in DOMAIN s |-> Closed(s[i])])) : s \in BoundedSeq(pieces \cup {comment}, 3)} :
     Within(kind, source.text, source.shown, source.at)}

-----------------------------------------------------------------------------
(* Python: lines whose meaning is that of the language. *)

\* opens: a block that is entered only when a variable is missing; skips: never, always, or in
\* such a block; comments and continuations have no indentation.
Line(depth, text, opens, skips, free) ==
  [depth |-> depth, text |-> [i \in 1 .. depth |-> Space] \o text, opens |-> opens, skips |-> skips, free |-> free]

PythonLines ==
  {Line(0, <<"if">> \o <<Space>> \o Spaced(<<"URL", "is", "None", ":">>), TRUE, "never", FALSE),
   Line(1, <<"if">> \o <<Space>> \o Spaced(<<"not", "URL", ":">>), TRUE, "never", FALSE),
   Line(0, <<"if">> \o <<Space>> \o Spaced(<<"URL", "is", "not", "None", ":">>), FALSE, "never", FALSE),
   Line(0, <<"else", ":">>, FALSE, "never", FALSE),
   Line(0, <<"pytest.skip", "(", "x", ",", "allow_module_level=True", ")">>, FALSE, "gated", FALSE),
   Line(1, <<"pytest.skip", "(", "x", ",", "allow_module_level=True", ")">>, FALSE, "gated", FALSE),
   Line(2, <<"pytest.skip", "(", "x", ",", Newline, Space, Space, Space, "allow_module_level=True", ")">>, FALSE, "gated", FALSE),
   Line(1, <<"pytest.skip", "(", "x", ")", "#", "allow_module_level=True">>, FALSE, "always", FALSE),
   Line(0, <<"pytest.mark.skipif", "(", Newline, "not", Space, "URL", ",", "pytest.skip", ")">>, FALSE, "never", FALSE),
   Line(0, <<"pytest.mark.skipif", "(", "f", "(", "x", ",", "y", ")", ",", "not", Space, "URL", ")">>, FALSE, "always", FALSE),
   Line(0, <<"#", "pytest.mark.skip">>, FALSE, "never", TRUE),
   Line(1, <<"unittest.skip", "(", ")">>, FALSE, "always", FALSE)}

Inside(lines, n, counts(_)) ==
  \E k \in 1 .. n - 1 :
    /\ lines[k].opens
    /\ \A m \in k + 1 .. n : counts(lines[m]) => lines[m].depth > lines[k].depth

PythonSource(lines) ==
  LET text == FlattenSeq([i \in DOMAIN lines |-> Append(lines[i].text, Newline)])
      at(i) == LineOf(text, 1 + Len(FlattenSeq([j \in 1 .. i - 1 |-> Append(lines[j].text, Newline)])))
      gated == {i \in DOMAIN lines : lines[i].skips = "gated"}
      open == {i \in gated : Inside(lines, i, LAMBDA line : ~line.free)}
      closed == {i \in gated : ~Inside(lines, i, LAMBDA line : TRUE)}
  IN Source(text, text, <<>>,
            {at(i) : i \in (gated \ open) \cup {j \in DOMAIN lines : lines[j].skips = "always"}},
            {at(i) : i \in open \cap closed})

PythonSources == {PythonSource(s) : s \in BoundedSeq(PythonLines, 3)}

WorkflowSources ==
  {Source(<<"run", Space, "--ignored", Newline>>, <<>>, <<>>, {1}, {}),
   Source(<<"#", "--ignored", Newline, "run", Newline>>, <<>>, <<>>, {}, {}),
   Source(<<"run", Space, "#", "quarantine", Newline, "x#y", Space, "quarantine">>, <<>>, <<>>, {2}, {})}

-----------------------------------------------------------------------------
(* The disk. *)

File(kind, dirs) == [kind |-> kind, dirs |-> dirs]

ThePlaces ==
  {File("rust", <<"crate", "src">>), File("rust", <<"target", "src">>), File("rust", <<"crate", "docs">>),
   File("rust", <<"crate", "src", "bin">>),
   File("python", <<"django", "tests", "unit">>), File("python", <<"django">>),
   File("typescript", <<>>), File("typescript", <<"node_modules", "x">>),
   File("dotnet", <<"Tests">>), File("workflow", <<>>)}

Main == {p \in ThePlaces : p.dirs \in {<<"crate", "src">>, <<"django", "tests", "unit">>, <<>>, <<"Tests">>}}

SourcesFor(kind) ==
  CASE kind = "rust" -> SourcesOf(kind, RustPieces, LineComment(IgnoreAttr))
    [] kind = "typescript" -> SourcesOf(kind, TypeScriptPieces, LineComment(<<DoubleQuote>>))
    [] kind = "dotnet" -> SourcesOf(kind, DotnetPieces, LineComment(<<"[">>))
    [] kind = "python" -> PythonSources
    [] kind = "workflow" -> WorkflowSources

Clean == Source(<<Newline>>, <<Newline>>, <<1, 2>>, {}, {})
Dirty(kind) ==
  CASE kind = "rust" -> Composed(<<Skip(IgnoreAttr)>>)
    [] kind = "typescript" -> Composed(<<Skip(<<"it", ".", "only">>)>>)
    [] kind = "dotnet" -> Composed(<<Skip(<<"[", "Ignore", "]">>)>>)
    [] kind = "python" -> Source(<<"pytest.mark.skip">>, <<"pytest.mark.skip">>, <<>>, {1}, {})
    [] kind = "workflow" -> Source(<<"quarantine">>, <<>>, <<>>, {1}, {})

Disk(changed, source) == [p \in ThePlaces |-> IF p \in changed THEN source[p] ELSE Absent]

TheSaves ==
  {[place |-> p, source |-> source] : p \in Main, source \in {Absent, Clean}}
  \cup {[place |-> p, source |-> Dirty(p.kind)] : p \in {q \in Main : q.kind \in {"rust", "workflow"}}}

\* One file of any source, alone; and files everywhere, one of them dirty or absent, that change
\* once or twice while the check runs.
TheSettings ==
  UNION {{[disk |-> Disk({p}, [q \in {p} |-> source]), edits |-> 0, listOnly |-> FALSE] :
            source \in SourcesFor(p.kind)} : p \in Main}
  \cup {[disk |-> [p \in ThePlaces |-> IF p = dirty THEN Dirty(p.kind) ELSE Clean],
         edits |-> 1, listOnly |-> mode] : dirty \in ThePlaces, mode \in BOOLEAN}
  \cup {[disk |-> [p \in ThePlaces |-> IF p \in Main THEN Clean ELSE Dirty(p.kind)],
         edits |-> 2, listOnly |-> TRUE]}
=============================================================================
