--------------------------- MODULE SourceGrammar ---------------------------
(***************************************************************************)
(* What the languages say of a source: where its comments and literals     *)
(* end, what an attribute, a chain of calls or a gate is.  It is stated of *)
(* whole sources, without a scan, and language by language.                *)
(*                                                                         *)
(* The scanners read all languages in one way, so they are right for less  *)
(* than the languages allow.  Within says for how much; TestSurfaceProofs  *)
(* shows that in a source within these limits they find what is said here. *)
(*                                                                         *)
(* A test is skipped by the names that the gate forbids, and each of them  *)
(* (ignore, Fact, describe) means the attribute or runner of that name.    *)
(***************************************************************************)
EXTENDS LineScan

\* "end" is what stands after the end.
Token == (STRING \cup Punctuation) \ {"end"}

-----------------------------------------------------------------------------
(* Pieces of a source, from i to before j. *)

OnOneLine(source, i, j) == \A k \in i .. j - 1 : source[k] # Newline

IsLineComment(source, i, j) ==
  /\ Starts(source, i, "/", "/")
  /\ OnOneLine(source, i, j)
  /\ j = Len(source) + 1 \/ source[j] = Newline

\* Rust: comments nest; /*/ only opens.
NestedComment(source, i, j) ==
  \E opens \in SUBSET {k \in i .. j - 2 : Starts(source, k, "/", "*")},
     closes \in SUBSET {k \in i .. j - 2 : Starts(source, k, "*", "/")} :
    LET marks == opens \cup closes
        depth(k) == Cardinality({o \in opens : o < k}) - Cardinality({c \in closes : c < k})
    IN /\ i \in opens
       /\ \A k \in marks : k + 1 \notin marks
       /\ \A k \in i .. j - 2 :
            Starts(source, k, "/", "*") \/ Starts(source, k, "*", "/") => k \in marks \/ k - 1 \in marks
       /\ \A k \in i + 1 .. j - 2 : depth(k) > 0
       /\ j - 2 \in closes
       /\ depth(j - 1) = 0

\* A backslash escapes what follows it, unless it is escaped itself.
IsQuoted(source, open, j) ==
  \E escapes \in SUBSET {k \in open + 1 .. j - 3 : source[k] = Backslash} :
    /\ open < j - 1
    /\ source[j - 1] = source[open]
    /\ \A k \in escapes : k + 1 \notin escapes
    /\ \A k \in open + 1 .. j - 2 : source[k] = Backslash => k \in escapes \/ k - 1 \in escapes
    /\ \A k \in open + 1 .. j - 2 : source[k] = source[open] => k - 1 \in escapes

\* A raw string with n hashes, whose r is at r.
RawOpens(source, i, r, n) ==
  /\ r = i \/ (r = i + 1 /\ source[i] \in {"b", "c"})
  /\ r + n + 1 <= Len(source)
  /\ source[r] = "r"
  /\ \A k \in 1 .. n : source[r + k] = "#"
  /\ source[r + n + 1] = DoubleQuote

IsRawString(source, i, j) ==
  \E r \in {i, i + 1}, n \in 0 .. j - i :
    LET close == j - 1 - n IN
    /\ RawOpens(source, i, r, n)
    /\ r + n + 1 < close
    /\ source[close] = DoubleQuote
    /\ \A k \in 1 .. n : source[close + k] = "#"
    /\ \A q \in r + n + 2 .. close - 1 : source[q] = DoubleQuote => \E k \in 1 .. n : source[q + k] # "#"

\* TypeScript and C#: a comment ends at the first closer.
FlatComment(source, i, j) ==
  /\ Starts(source, i, "/", "*")
  /\ i + 4 <= j
  /\ Starts(source, j - 2, "*", "/")
  /\ \A k \in i + 2 .. j - 3 : ~Starts(source, k, "*", "/")

QuotedOnLine(source, open, j) == IsQuoted(source, open, j) /\ OnOneLine(source, open, j)

\* One character between single quotes, or an escape.
IsChar(source, open, j) ==
  /\ source[open] = SingleQuote
  /\ QuotedOnLine(source, open, j)
  /\ j = open + 3 \/ source[open + 1] = Backslash

RustHides(source, i, j) ==
  \/ IsLineComment(source, i, j)
  \/ NestedComment(source, i, j)
  \/ IsRawString(source, i, j)
  \/ source[i] = DoubleQuote /\ IsQuoted(source, i, j)
  \/ \E prefix \in {"b", "c"} : Starts(source, i, prefix, DoubleQuote) /\ IsQuoted(source, i + 1, j)
  \/ IsChar(source, i, j)
  \/ Starts(source, i, "b", SingleQuote) /\ IsChar(source, i + 1, j)

TypeScriptHides(source, i, j) ==
  \/ IsLineComment(source, i, j)
  \/ FlatComment(source, i, j)
  \/ source[i] \in {DoubleQuote, SingleQuote} /\ QuotedOnLine(source, i, j)
  \/ source[i] = Backtick /\ IsQuoted(source, i, j)

DotnetHides(source, i, j) ==
  \/ IsLineComment(source, i, j)
  \/ FlatComment(source, i, j)
  \/ source[i] = DoubleQuote /\ QuotedOnLine(source, i, j)
  \/ IsChar(source, i, j)

IsHidden(language, source, i, j) ==
  \/ language = "rust" /\ RustHides(source, i, j)
  \/ language = "typescript" /\ TypeScriptHides(source, i, j)
  \/ language = "dotnet" /\ DotnetHides(source, i, j)

\* The literals with a prefix: b, c, r and both.
PrefixedOpens(source, i) ==
  \/ \E prefix \in {"b", "c"} : Starts(source, i, prefix, DoubleQuote)
  \/ Starts(source, i, "b", SingleQuote)
  \/ \E r \in {i, i + 1}, n \in 0 .. Len(source) : RawOpens(source, i, r, n)

\* A single quote and a name, which is no character in quotes.
IsLifetime(source, i) ==
  /\ source[i] = SingleQuote
  /\ At(source, i + 1) \notin Punctuation \cup {"end"}
  /\ At(source, i + 2) # SingleQuote

\* Nothing hidden starts at i.
IsCode(language, source, i) ==
  /\ source[i] \notin {DoubleQuote, Backtick}
  /\ \A next \in {"/", "*"} : ~Starts(source, i, "/", next)
  /\ source[i] = SingleQuote => language = "rust" /\ IsLifetime(source, i)
  /\ language = "rust" => ~PrefixedOpens(source, i)

\* A source, what is shown of it, and where its pieces start, with the end of the last.
Lexed(language, source, shown, at) ==
  /\ at # <<>> /\ at[1] = 1 /\ at[Len(at)] = Len(source) + 1
  /\ Len(shown) = Len(source)
  /\ \A k \in 1 .. Len(at) - 1 :
       /\ at[k] \in 1 .. Len(source)
       /\ at[k + 1] \in at[k] + 1 .. Len(source) + 1
       /\ \/ /\ IsHidden(language, source, at[k], at[k + 1])
             /\ \A m \in at[k] .. at[k + 1] - 1 : shown[m] = Blank(source[m])
          \/ /\ IsCode(language, source, at[k])
             /\ at[k + 1] = at[k] + 1
             /\ shown[at[k]] = source[at[k]]

-----------------------------------------------------------------------------
(* Brackets, and what stands in them. *)

Closer(token) == IF token = "[" THEN "]" ELSE ")"

\* How many of the brackets like the one at open are open after k.
Level(text, open, k) ==
  Cardinality({m \in open .. k : text[m] = text[open]})
    - Cardinality({m \in open .. k : text[m] = Closer(text[open])})

Matches(text, open, close) ==
  /\ close \in open + 1 .. Len(text)
  /\ Level(text, open, close) = 0
  /\ \A k \in open .. close - 1 : Level(text, open, k) > 0

\* #[...] and #![...], also with spaces before the bracket.
Bracket(text, hash) == AfterSpace(text, IF At(text, hash + 1) = "!" THEN hash + 2 ELSE hash + 1)
Attribute(text, hash, close) ==
  /\ text[hash] = "#"
  /\ At(text, Bracket(text, hash)) = "["
  /\ Matches(text, Bracket(text, hash), close)

\* The commas of cfg_attr(...) outside inner brackets; after each of them an attribute is added.
AddingCommas(attr) ==
  {comma \in DOMAIN attr :
     /\ attr[comma] = ","
     /\ \E open \in 1 .. comma - 1 :
          attr[open] = "(" /\ (\A k \in 1 .. open - 1 : attr[k] # "(") /\ Depth(attr, open, comma) = 0}

\* ignore, or ignore among what cfg_attr adds under its condition.
IgnoresTest(attr) ==
  \/ StartsWith(attr, "ignore")
  \/ /\ StartsWith(attr, "cfg_attr")
     /\ \E comma \in AddingCommas(attr) : At(attr, AfterSpace(attr, comma + 1)) = "ignore"

\* A list of attributes in C#, and where each of them starts.
List(text, open, close) == text[open] = "[" /\ Matches(text, open, close)
Heads(list) ==
  {AfterSpace(list, k + 1) : k \in {0} \cup {c \in DOMAIN list : list[c] = "," /\ Depth(list, 0, c) = 0}}

\* The name of the attribute that starts at head, which a target and a namespace may precede.
IsNameOf(list, head, name) ==
  /\ name \in head .. Len(list)
  /\ list[name] \notin Punctuation
  /\ \A k \in head .. name - 1 : list[k] \notin Punctuation \ {".", Space, Newline}
  /\ At(list, AfterSpace(list, name + 1)) \in {"(", ",", "end"}

\* An argument in the parentheses after that name, such as Skip = "...".
IsArgument(list, name, word) ==
  LET open == AfterSpace(list, name + 1) IN
  /\ At(list, open) = "(" /\ open < word
  /\ Depth(list, open, word - 1) = 0
  /\ \A k \in open + 1 .. word : list[k] = ")" => Depth(list, open, k - 1) > 0
  /\ \E k \in open .. word - 1 : list[k] \in {"(", ","} /\ AfterSpace(list, k + 1) = word
  /\ At(list, AfterSpace(list, word + 1)) = "="

SkipNames == {"Ignore", "IgnoreAttribute", "Explicit", "ExplicitAttribute"}
TestNames == {"Fact", "FactAttribute", "Theory", "TheoryAttribute"}

\* One of the attributes skips: by its name, or as a test with the argument Skip.
SkipsTest(list) ==
  \E head \in Heads(list), name \in DOMAIN list :
    /\ IsNameOf(list, head, name)
    /\ \/ list[name] \in SkipNames
       \/ /\ list[name] \in TestNames
          /\ \E word \in DOMAIN list : list[word] = "Skip" /\ IsArgument(list, name, word)

\* The attributes, and the lists of attributes, that skip a test and are not written in another.
RustSkips(text) ==
  {hash \in DOMAIN text :
     /\ \E close \in DOMAIN text :
          Attribute(text, hash, close) /\ IgnoresTest(SubSeq(text, Bracket(text, hash) + 1, close - 1))
     /\ \A outer \in 1 .. hash - 1, close \in hash .. Len(text) : ~Attribute(text, outer, close)}

DotnetSkips(text) ==
  {open \in DOMAIN text :
     /\ \E close \in DOMAIN text : List(text, open, close) /\ SkipsTest(SubSeq(text, open + 1, close - 1))
     /\ \A outer \in 1 .. open - 1, close \in open .. Len(text) : ~List(text, outer, close)}

-----------------------------------------------------------------------------
(* Chains of names and calls, such as .each([1, 2]).skip(...). *)

Parens(text, i, k) ==
  Cardinality({m \in i .. k : text[m] = "("}) - Cardinality({m \in i .. k : text[m] = ")"})

\* A dot with a name after it.
Link(text, dot) ==
  text[dot] = "." /\ At(text, AfterSpace(text, dot + 1)) \notin Punctuation \cup {"end"}

\* Outside its calls, the text from i to last has nothing but links.
OnlyLinks(text, i, last) ==
  /\ Parens(text, i, last) = 0
  /\ \A k \in i .. last :
       /\ Parens(text, i, k) >= 0
       /\ Parens(text, i, k - 1) = 0 /\ text[k] \notin {Space, Newline, "("} =>
            \E dot \in i .. k : Link(text, dot) /\ k \in {dot, AfterSpace(text, dot + 1)}

Chain(text, i, name) ==
  /\ name \in i .. Len(text)
  /\ text[name] \notin Punctuation
  /\ OnlyLinks(text, i, name)

Runners == {"describe", "it", "test", "suite"}

TypeScriptSkips(text) ==
  {name \in DOMAIN text :
     /\ text[name] \in {"skip", "skipIf", "only"}
     /\ \E i \in DOMAIN text : text[i] \in Runners /\ Chain(text, i + 1, name)}

-----------------------------------------------------------------------------
(* Lines. *)

\* A lane that is named on a line, before any comment on it: a # at its start or after a space.
WorkflowSkips(text) ==
  {i \in DOMAIN text :
     /\ text[i] \in {"--ignored", "--include-ignored", "run-ignored", "quarantine"}
     /\ \A hash \in 1 .. i - 1 :
          text[hash] = "#" /\ OnOneLine(text, hash, i) => At(text, hash - 1) \notin {Space, Newline, "end"}}

\* In the block of a gate, or at its opener: all lines since then are blank or have more indentation.
\* (What opens a gate, and the text and first argument of a call, are as LineScan reads them.)
InGate(lines, n) ==
  \E opener \in 1 .. n :
    /\ OpensGate(lines[opener])
    /\ \A m \in opener + 1 .. n : IsBlank(lines[m]) \/ Indent(lines[m]) > Indent(lines[opener])

\* The lines that skip a test which may run where a database has to be.
PythonSkips(text) ==
  LET lines == LinesIn(text) IN
  {n \in DOMAIN lines :
     LET tokens == ToSet(Active(lines[n])) IN
     /\ ~IsBlank(lines[n])
     /\ \/ tokens \cap {"pytest.mark.skip", "unittest.skip", "quarantine"} # {}
        \/ /\ tokens \cap {"pytest.mark.skipif", "unittest.skipIf", "unittest.skipUnless"} # {}
           /\ ~IsGate(FirstArgument(CallText(lines, n)))
        \/ /\ Mentions(Active(lines[n]), <<"pytest.skip", "(">>)
           /\ InGate(lines, n) => ~Contains(CallText(lines, n), "allow_module_level=True")}

-----------------------------------------------------------------------------
(* What the scanners are right for. *)

\* No other single quote on the rest of its line.
LastOnLine(source, i) ==
  \A k \in i + 1 .. Len(source) : source[k] = SingleQuote => ~OnOneLine(source, i, k)

\* A lifetime is not followed by another, or by a character, on its line.
RustPieceWithin(source, i, j) == source[i] = SingleQuote /\ j = i + 1 => LastOnLine(source, i)

\* Comments do not contain an opener, and no word that ends in b, c or r stands right before
\* a literal (its last letters are tokens of their own there).
PlainPiece(source, i, j) ==
  /\ Starts(source, i, "/", "*") => \A k \in i + 1 .. j - 2 : ~Starts(source, k, "/", "*")
  /\ ~PrefixedOpens(source, i)

\* No slash that divides or starts a regular expression, and no ${ in a template.
TypeScriptPieceWithin(source, i, j) ==
  /\ PlainPiece(source, i, j)
  /\ j = i + 1 => source[i] # "/"
  /\ source[i] = Backtick => \A k \in i .. j - 1 : ~Starts(source, k, "$", "{")

\* No directive of the preprocessor, and no verbatim, interpolated or raw string.
DotnetPieceWithin(source, i, j) ==
  /\ PlainPiece(source, i, j)
  /\ source[i] # "#"
  /\ source[i] = DoubleQuote =>
       At(source, i - 1) \notin {"@", "$", DoubleQuote} /\ At(source, j) # DoubleQuote

\* In what cfg_attr adds, ignore is an attribute, and in no inner cfg_attr.
AttributeWithin(attr) ==
  \A comma \in AddingCommas(attr), word \in DOMAIN attr :
    comma < word /\ attr[word] = "ignore" =>
      \E c \in AddingCommas(attr) : word = AfterSpace(attr, c + 1)

\* No space between # and !.
RustTextWithin(text) ==
  \A hash \in DOMAIN text : text[hash] = "#" =>
    /\ At(text, hash + 1) = "!" \/ At(text, AfterSpace(text, hash + 1)) # "!"
    /\ \A close \in DOMAIN text :
         Attribute(text, hash, close) => AttributeWithin(SubSeq(text, Bracket(text, hash) + 1, close - 1))

\* An attribute that may skip is the first of its list, with its short name alone before its
\* arguments, and Skip is an argument of a test.
ListWithin(list) ==
  LET first == AfterSpace(list, 1) IN
  /\ \A head \in Heads(list), name \in DOMAIN list :
       IsNameOf(list, head, name) /\ list[name] \in SkipNames \cup TestNames =>
         name = first /\ list[name] \in {"Ignore", "Explicit", "Fact", "Theory"}
  /\ At(list, first) \in {"Ignore", "Explicit", "Fact", "Theory"} => IsNameOf(list, first, first)
  /\ At(list, first) \in {"Fact", "Theory"} =>
       \A word \in DOMAIN list : list[word] = "Skip" => IsArgument(list, first, word)

DotnetTextWithin(text) ==
  \A open, close \in DOMAIN text : List(text, open, close) => ListWithin(SubSeq(text, open + 1, close - 1))

\* A chain of a runner does not go on with an index, type arguments, ! or ?.
TypeScriptTextWithin(text) ==
  \A i \in DOMAIN text : text[i] \in Runners =>
    \A last \in i .. Len(text) : OnlyLinks(text, i + 1, last) => At(text, last + 1) \notin {"[", "<", "!", "?"}

\* A string is one word, which names nothing and has no # in it.
NoQuotes(text) == \A i \in DOMAIN text : text[i] \notin {DoubleQuote, SingleQuote}

\* No if in brackets, and none that opens a gate, or does not, because of a comment.
PythonTextWithin(text) ==
  /\ NoQuotes(text)
  /\ \A i \in DOMAIN text : text[i] = "if" =>
       Cardinality({k \in 1 .. i : text[k] \in {"(", "[", "{"}})
         = Cardinality({k \in 1 .. i : text[k] \in {")", "]", "}"}})
  /\ \A n \in DOMAIN LinesIn(text) : OpensGate(LinesIn(text)[n]) <=> OpensGate(Active(LinesIn(text)[n]))

PieceWithin(language, source, i, j) ==
  /\ language = "rust" => RustPieceWithin(source, i, j)
  /\ language = "typescript" => TypeScriptPieceWithin(source, i, j)
  /\ language = "dotnet" => DotnetPieceWithin(source, i, j)

\* A source whose pieces start at the places at, and what is shown of it.
Within(language, text, shown, at) ==
  /\ \A k \in 1 .. Len(at) - 1 : PieceWithin(language, text, at[k], at[k + 1])
  /\ language = "rust" => RustTextWithin(shown)
  /\ language = "typescript" => TypeScriptTextWithin(shown)
  /\ language = "dotnet" => DotnetTextWithin(shown)
  /\ language = "python" => PythonTextWithin(text)
  /\ language = "workflow" => NoQuotes(text)
=============================================================================
