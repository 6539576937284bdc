----------------------------- MODULE SourceMask -----------------------------
(***************************************************************************)
(* How check-test-surface hides comments and literals before it looks for  *)
(* attributes (strip_comments_and_literals), and what it looks for in Rust,*)
(* TypeScript and C# (scan_rust_no_quarantine and its sisters).            *)
(*                                                                         *)
(* A source is a sequence of tokens: a character that matters to the       *)
(* scanner, by its name where it is a quote, or a whole word.              *)
(***************************************************************************)
EXTENDS Integers, FiniteSets, Sequences, FiniteSetsExt, SequencesExt

Newline == "newline"
Space == " "
DoubleQuote == "dquote"
SingleQuote == "squote"
Backtick == "backtick"
Backslash == "backslash"
Punctuation ==
  {"/", "*", "#", "!", "[", "]", "(", ")", "{", "}", ",", ".", "=", "<", ">",
   DoubleQuote, SingleQuote, Backtick, Backslash, Space, Newline}

\* The first of a set of positions, or the one after the end.
FirstOf(source, positions) == Min(positions \cup {Len(source) + 1})

At(source, i) == IF i \in DOMAIN source THEN source[i] ELSE "end"
Starts(source, i, a, b) == At(source, i) = a /\ At(source, i + 1) = b

-----------------------------------------------------------------------------
(* Where a comment or literal that starts at i ends: the position after it. *)

LineCommentEnd(source, i) == FirstOf(source, {j \in i .. Len(source) : source[j] = Newline})

\* Mutant of BlockCommentEnd: comments do not nest.
FlatCommentEnd(source, i) ==
  FirstOf(source, {j \in i + 4 .. Len(source) + 1 : Starts(source, j - 2, "*", "/")})

BlockCommentEnd(source, i) ==
  LET end[p \in Nat \X Nat] ==
        LET j == p[1]
            depth == p[2]
        IN IF j > Len(source) THEN Len(source) + 1
           ELSE IF Starts(source, j, "/", "*") THEN end[<<j + 2, depth + 1>>]
           ELSE IF Starts(source, j, "*", "/") THEN IF depth <= 1 THEN j + 2 ELSE end[<<j + 2, depth - 1>>]
           ELSE end[<<j + 1, depth>>]
  IN end[<<i, 0>>]

\* Positions that a run of backslashes of odd length precedes, counted from the opening quote.
Escaped(source, open, j) ==
  LET run == {k \in open + 1 .. j - 1 : \A l \in k .. j - 1 : source[l] = Backslash}
  IN Cardinality(run) % 2 = 1

Closers(source, open) ==
  {j \in open + 1 .. Len(source) : source[j] = source[open] /\ ~Escaped(source, open, j)}

QuotedEnd(source, open) ==
  IF Closers(source, open) = {} THEN Len(source) + 1 ELSE Min(Closers(source, open)) + 1

\* A character literal ends on its line; a lifetime has no end, and is code.
CharEnd(source, open) ==
  LET here == {j \in Closers(source, open) : j < LineCommentEnd(source, open)}
  IN IF here = {} THEN 0 ELSE Min(here) + 1

Hashes(source, i) == FirstOf(source, {j \in i .. Len(source) : source[j] # "#"}) - i

\* The position of r in a raw string that starts at i, or 0.
RawPrefix(source, i) ==
  LET r == IF At(source, i) = "r" THEN i
           ELSE IF At(source, i) \in {"b", "c"} /\ At(source, i + 1) = "r" THEN i + 1 ELSE 0
  IN IF r # 0 /\ At(source, r + 1 + Hashes(source, r + 1)) = DoubleQuote THEN r ELSE 0

RawEnd(source, r) ==
  LET n == Hashes(source, r + 1)
      closers == {j \in r + n + 2 .. Len(source) :
                    source[j] = DoubleQuote /\ \A k \in 1 .. n : At(source, j + k) = "#"}
  IN IF closers = {} THEN Len(source) + 1 ELSE Min(closers) + n + 1

\* Where what starts at i is hidden to, or i if it is code.
HiddenTo(source, i) ==
  LET char(open) == IF CharEnd(source, open) = 0 THEN i ELSE CharEnd(source, open) IN
  CASE Starts(source, i, "/", "/") -> LineCommentEnd(source, i)
    [] Starts(source, i, "/", "*") -> BlockCommentEnd(source, i)
    [] RawPrefix(source, i) # 0 -> RawEnd(source, RawPrefix(source, i))
    [] Starts(source, i, "b", DoubleQuote) \/ Starts(source, i, "c", DoubleQuote) -> QuotedEnd(source, i + 1)
    [] source[i] \in {DoubleQuote, Backtick} -> QuotedEnd(source, i)
    [] Starts(source, i, "b", SingleQuote) -> char(i + 1)
    [] source[i] = SingleQuote -> char(i)
    [] OTHER -> i

Blank(token) == IF token = Newline THEN Newline ELSE Space
Blanked(tokens) == [j \in DOMAIN tokens |-> Blank(tokens[j])]

Masked(source) ==
  LET from[i \in 1 .. Len(source) + 1] ==
        IF i > Len(source) THEN <<>>
        ELSE IF HiddenTo(source, i) = i THEN <<source[i]>> \o from[i + 1]
        ELSE Blanked(SubSeq(source, i, HiddenTo(source, i) - 1)) \o from[HiddenTo(source, i)]
  IN from[1]

-----------------------------------------------------------------------------
(* Attributes and chains in a masked source. *)

AfterSpace(source, i) ==
  FirstOf(source, {j \in i .. Len(source) : source[j] \notin {Space, Newline}})

\* The bracket or parenthesis that closes the one at i, or 0.
Closing(source, i) ==
  LET close == IF source[i] = "[" THEN "]" ELSE ")"
      count(j, token) == Cardinality({k \in i .. j : source[k] = token})
      balanced == {j \in i .. Len(source) : source[j] = close /\ count(j, source[i]) = count(j, close)}
  IN IF balanced = {} THEN 0 ELSE Min(balanced)

StartsWith(attr, word) == At(attr, AfterSpace(attr, 1)) = word

\* Brackets open at j of those after a first one; a closing bracket too many is passed over.
Depth(text, open, j) ==
  LET depth[k \in Nat] ==
        CASE k <= open -> 0
          [] text[k] \in {"(", "[", "{"} -> depth[k - 1] + 1
          [] text[k] \in {")", "]", "}"} /\ depth[k - 1] > 0 -> depth[k - 1] - 1
          [] OTHER -> depth[k - 1]
  IN depth[j]

\* Mutant of PayloadContains: the condition of cfg_attr is searched as well.
ContainsAnywhere(attr, word) == Contains(attr, word)

\* Whether word stands after the first comma of cfg_attr(...) outside inner brackets.
PayloadContains(attr, word) ==
  LET open == FirstOf(attr, {j \in DOMAIN attr : attr[j] = "("})
      commas == {j \in open + 1 .. Len(attr) : attr[j] = "," /\ Depth(attr, open, j) = 0}
  IN commas # {} /\ Contains(SubSeq(attr, Min(commas) + 1, Len(attr)), word)

Ignores(attr) ==
  \/ StartsWith(attr, "ignore")
  \/ StartsWith(attr, "cfg_attr") /\ PayloadContains(attr, "ignore")

\* Only the first attribute of a list in brackets is looked at.
Skips(attr) ==
  \/ StartsWith(attr, "Ignore")
  \/ StartsWith(attr, "Explicit")
  \/ (StartsWith(attr, "Fact") \/ StartsWith(attr, "Theory")) /\ Contains(attr, "Skip")

\* The # of each attribute that ignores a test; what is in an attribute is not looked at again.
RustFindings(source) ==
  LET from[i \in 1 .. Len(source) + 1] ==
        LET hash == FirstOf(source, {j \in i .. Len(source) : source[j] = "#"})
            open == AfterSpace(source, IF At(source, hash + 1) = "!" THEN hash + 2 ELSE hash + 1)
        IN IF hash > Len(source) THEN {}
           ELSE IF At(source, open) # "[" THEN from[open]
           ELSE IF Closing(source, open) = 0 THEN from[open + 1]
           ELSE (IF Ignores(SubSeq(source, open + 1, Closing(source, open) - 1)) THEN {hash} ELSE {})
                \cup from[Closing(source, open) + 1]
  IN from[1]

DotnetFindings(source) ==
  LET from[i \in 1 .. Len(source) + 1] ==
        LET open == FirstOf(source, {j \in i .. Len(source) : source[j] = "["})
        IN IF open > Len(source) THEN {}
           ELSE IF Closing(source, open) = 0 THEN from[open + 1]
           ELSE (IF Skips(SubSeq(source, open + 1, Closing(source, open) - 1)) THEN {open} ELSE {})
                \cup from[Closing(source, open) + 1]
  IN from[1]

\* The links of a chain of a runner that skip or focus; calls in it are passed over.
ChainFindings(source, i) ==
  LET from[j \in 1 .. Len(source) + 1] ==
        LET next == AfterSpace(source, j)
            name == AfterSpace(source, next + 1)
        IN CASE At(source, next) = "." /\ At(source, name) \notin Punctuation \cup {"end"} ->
                  (IF source[name] \in {"skip", "skipIf", "only"} THEN {name} ELSE {}) \cup from[name + 1]
             [] At(source, next) = "(" /\ Closing(source, next) # 0 -> from[Closing(source, next) + 1]
             [] OTHER -> {}
  IN from[i]

TypeScriptFindings(source) ==
  UNION {ChainFindings(source, i + 1) :
           i \in {j \in DOMAIN source : source[j] \in {"describe", "it", "test", "suite"}}}

LineOf(source, i) == 1 + Cardinality({j \in 1 .. i - 1 : source[j] = Newline})
LinesOf(source, positions) == {LineOf(source, i) : i \in positions}

\* Lines that name a quarantine.
NamedLines(source) == LinesOf(source, {i \in DOMAIN source : source[i] = "quarantine"})
=============================================================================
