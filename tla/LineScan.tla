------------------------------ MODULE LineScan ------------------------------
(***************************************************************************)
(* What check-test-surface looks for line by line: skips in Python tests   *)
(* (scan_python_no_quarantine) and hidden lanes in GitHub workflows        *)
(* (scan_workflow_no_quarantine).                                          *)
(*                                                                         *)
(* A source is a sequence of tokens as in SourceMask; the spaces before    *)
(* the first other token of a line are its indentation.                    *)
(***************************************************************************)
EXTENDS SourceMask

CONSTANTS
  LookAhead,      \* lines that a call may go on for
  GateVars        \* variables whose absence may skip a test

ASSUME LineScanAssumption == LookAhead \in Nat

LinesIn(source) ==
  LET starts == {1} \cup {j + 1 : j \in {k \in DOMAIN source : source[k] = Newline}}
      start(n) == CHOOSE j \in starts : LineOf(source, j) = n
  IN [n \in 1 .. LineOf(source, Len(source) + 1) |->
        SubSeq(source, start(n), LineCommentEnd(source, start(n)) - 1)]

Indent(line) == AfterSpace(line, 1) - 1
IsBlank(line) == AfterSpace(line, 1) > Len(line)

\* What is left of a line before its first #, also if that is in a string.
Active(line) == SubSeq(line, 1, FirstOf(line, {j \in DOMAIN line : line[j] = "#"}) - 1)

Mentions(text, pattern) ==
  \E i \in 1 .. Len(text) - Len(pattern) + 1 : SubSeq(text, i, i + Len(pattern) - 1) = pattern

-----------------------------------------------------------------------------
(* Gates: conditions that hold only where a variable of the environment is missing. *)

\* Every run of white space is one space.
Normalized(text) ==
  LET add(seq, token) ==
        IF token \notin {Space, Newline} THEN Append(seq, token)
        ELSE IF seq = <<>> \/ Last(seq) = Space THEN seq ELSE Append(seq, Space)
  IN FoldLeft(add, <<>>, text)

Spaced(words) ==
  [i \in 1 .. 2 * Len(words) - 1 |-> IF i % 2 = 1 THEN words[(i + 1) \div 2] ELSE Space]

PresentPatterns(var) ==
  {Spaced(<<var, "is", "not", "None">>), Spaced(<<var, "!=", "None">>), Spaced(<<var, "!=", "empty">>),
   Spaced(<<"not", var, "is", "None">>), <<"not", Space, "(">> \o Spaced(<<var, "is", "None">>)}

MissingPatterns(var) ==
  {Spaced(<<var, "is", "None">>), Spaced(<<var, "==", "None">>), Spaced(<<var, "==", "empty">>),
   Spaced(<<"not", var>>)}

IsGate(text) ==
  LET mentioned(patterns) == \E pattern \in patterns : Mentions(Normalized(text), pattern) IN
  /\ ~mentioned(UNION {PresentPatterns(var) : var \in GateVars})
  /\ mentioned(UNION {MissingPatterns(var) : var \in GateVars})

\* The line is looked at with its comment.
OpensGate(line) == Starts(line, AfterSpace(line, 1), "if", Space) /\ IsGate(line)

NoGate == -1

\* Mutant of Left: a line at the indentation of the gate's opener still is in it.
LeftBelow(line, gate) == Indent(line) < gate

\* A line at or above the indentation of the gate's opener ends the gate, a comment as well.
Left(line, gate) == Indent(line) <= gate

\* The indentation of the gate that each line is in, or opens.
GateAt(lines, n) ==
  LET gate[k \in 0 .. Len(lines)] ==
        IF k = 0 THEN NoGate
        ELSE IF IsBlank(lines[k]) THEN gate[k - 1]
        ELSE IF gate[k - 1] # NoGate /\ ~Left(lines[k], gate[k - 1]) THEN gate[k - 1]
        ELSE IF OpensGate(lines[k]) THEN Indent(lines[k]) ELSE NoGate
  IN gate[n]

-----------------------------------------------------------------------------
(* Calls, which may go on over lines. *)

OpenParens(text) ==
  Cardinality({j \in DOMAIN text : text[j] = "("}) - Cardinality({j \in DOMAIN text : text[j] = ")"})

\* The line and the lines after it until its parentheses are closed, or LookAhead lines.
CallText(lines, n) ==
  LET text[k \in Nat] ==
        IF k <= n THEN Active(lines[n])
        ELSE IF OpenParens(text[k - 1]) <= 0 THEN text[k - 1]
        ELSE Append(text[k - 1], Newline) \o Active(lines[k])
  IN text[Min({n + LookAhead, Len(lines)})]

\* From the first parenthesis of the text to the first comma or to its end.
FirstArgument(text) ==
  LET open == FirstOf(text, {j \in DOMAIN text : text[j] = "("})
      ends == {j \in open + 1 .. Len(text) : text[j] \in {",", ")"} /\ Depth(text, open, j - 1) = 0}
  IN IF open > Len(text) THEN text ELSE SubSeq(text, open + 1, FirstOf(text, ends) - 1)

-----------------------------------------------------------------------------
(* Lines with findings. *)

PythonBad(lines, n) ==
  LET tokens == ToSet(Active(lines[n])) IN
  \/ tokens \cap {"pytest.mark.skip", "unittest.skip", "quarantine"} # {}
  \/ /\ tokens \cap {"pytest.mark.skipif", "unittest.skipIf", "unittest.skipUnless"} # {}
     /\ ~IsGate(FirstArgument(CallText(lines, n)))
  \/ /\ Mentions(Active(lines[n]), <<"pytest.skip", "(">>)
     /\ \/ GateAt(lines, n) = NoGate
        \/ ~Contains(CallText(lines, n), "allow_module_level=True")

PythonFindings(source) ==
  LET lines == LinesIn(source) IN {n \in DOMAIN lines : ~IsBlank(lines[n]) /\ PythonBad(lines, n)}

\* A comment starts with # at the start of a line or after a space.
WorkflowActive(line) ==
  SubSeq(line, 1, FirstOf(line, {j \in DOMAIN line : line[j] = "#" /\ At(line, j - 1) \in {Space, "end"}}) - 1)

WorkflowFindings(source) ==
  LET lines == LinesIn(source)
      banned == {"--ignored", "--include-ignored", "run-ignored", "quarantine"}
  IN {n \in DOMAIN lines : ToSet(WorkflowActive(lines[n])) \cap banned # {}}
=============================================================================
