------------------------- MODULE TestSurfaceProofs -------------------------
(***************************************************************************)
(* For sources of any length that are within the limits of the scanners    *)
(* (Within), the gate passes over no line that skips a test and reports no *)
(* other.  Two things are shown.  What the scanners compute by recursion   *)
(* is a reading of the whole source of their own (Reads, RustReads,        *)
(* DotnetReads): each recursion is shown to have a solution, and its value *)
(* is found by induction on the positions of the source, as a set of       *)
(* numbers that is closed.  And within the limits that reading is what     *)
(* SourceGrammar says of each language (PiecesAreRead, RustIsRead,         *)
(* DotnetIsRead).                                                          *)
(***************************************************************************)
EXTENDS TestSurface, FiniteSetTheorems, SequenceTheorems, TLAPS

-----------------------------------------------------------------------------
(* How the scanners read a source, whatever its language: comments nest, what is between two     *)
(* single quotes on a line is a literal, and ignore is looked for after the first comma of       *)
(* cfg_attr, the names of C# at the start of a list.                                              *)

ReadsHidden(source, i, j) ==
  \/ IsLineComment(source, i, j)
  \/ NestedComment(source, i, j)
  \/ IsRawString(source, i, j)
  \/ source[i] \in {DoubleQuote, Backtick} /\ IsQuoted(source, i, j)
  \/ \E prefix \in {"b", "c"} : Starts(source, i, prefix, DoubleQuote) /\ IsQuoted(source, i + 1, j)
  \/ source[i] = SingleQuote /\ IsQuoted(source, i, j) /\ OnOneLine(source, i, j)
  \/ Starts(source, i, "b", SingleQuote) /\ IsQuoted(source, i + 1, j) /\ OnOneLine(source, i, j)

\* Nothing that the lexer hides starts at i.
ReadsCode(source, i) ==
  /\ source[i] \notin {DoubleQuote, Backtick}
  /\ \A next \in {"/", "*"} : ~Starts(source, i, "/", next)
  /\ \A prefix \in {"b", "c"} : ~Starts(source, i, prefix, DoubleQuote)
  /\ \A r \in {i, i + 1}, n \in 0 .. Len(source) : ~RawOpens(source, i, r, n)
  /\ source[i] = SingleQuote => LastOnLine(source, i)
  /\ Starts(source, i, "b", SingleQuote) => LastOnLine(source, i + 1)

\* Pieces of a source as the lexer reads them.
Reads(source, shown, at) ==
  /\ at # <<>> /\ at[1] = 1 /\ at[Len(at)] = Len(source) + 1
  /\ Len(shown) = Len(source)
  /\ \A k \in 1 .. Len(at) - 1 :
       /\ at[k] \in 1 .. Len(source)
       /\ at[k + 1] \in at[k] + 1 .. Len(source) + 1
       /\ \/ /\ ReadsHidden(source, at[k], at[k + 1])
             /\ \A m \in at[k] .. at[k + 1] - 1 : shown[m] = Blank(source[m])
          \/ /\ ReadsCode(source, at[k])
             /\ at[k + 1] = at[k] + 1
             /\ shown[at[k]] = source[at[k]]

MentionsIgnore(attr) ==
  \/ StartsWith(attr, "ignore")
  \/ /\ StartsWith(attr, "cfg_attr")
     /\ \E open, comma, word \in DOMAIN attr :
          /\ attr[open] = "(" /\ \A k \in 1 .. open - 1 : attr[k] # "("
          /\ open < comma /\ attr[comma] = "," /\ Depth(attr, open, comma) = 0
          /\ comma < word /\ attr[word] = "ignore"

\* The attributes and lists in which the scanners find a skip.
RustReads(text) ==
  {hash \in DOMAIN text :
     /\ \E close \in DOMAIN text :
          Attribute(text, hash, close) /\ MentionsIgnore(SubSeq(text, Bracket(text, hash) + 1, close - 1))
     /\ \A outer \in 1 .. hash - 1, close \in hash .. Len(text) : ~Attribute(text, outer, close)}

DotnetReads(text) ==
  {open \in DOMAIN text :
     /\ \E close \in DOMAIN text : List(text, open, close) /\ Skips(SubSeq(text, open + 1, close - 1))
     /\ \A outer \in 1 .. open - 1, close \in open .. Len(text) : ~List(text, outer, close)}

-----------------------------------------------------------------------------
(* Numbers: induction, and recursions that have a solution. *)

\* A set of numbers has a least element.
LEMMA LeastNumber ==
  ASSUME NEW T \in SUBSET Nat, T # {}
  PROVE  \E m \in T : \A k \in T : m <= k
  <1> DEFINE R == OpToRel(<, Nat)
  <1>1. IsWellFoundedOn(R, Nat)
    BY NatLessThanWellFounded
  <1>2. R = {ss \in Nat \X Nat : ss[1] < ss[2]}
    BY DEF OpToRel
  <1> HIDE DEF R
  <1>3. PICK m \in T : \A y \in T : ~ (<<y, m>> \in R)
    BY <1>1, WFMin
  <1>4. ASSUME NEW k \in T PROVE m <= k
    <2>1. ~(k < m)
      <3>1. <<k, m>> \notin R
        BY <1>3
      <3>2. k \in Nat /\ m \in Nat
        OBVIOUS
      <3> QED BY <1>2, <3>1, <3>2
    <2> QED BY <2>1
  <1> QED
    BY <1>4

\* A set of numbers with 0 and the successor of each of its elements has all numbers.
LEMMA Induction ==
  ASSUME NEW T \in SUBSET Nat, 0 \in T, \A n \in T : n + 1 \in T
  PROVE  T = Nat
  <1> SUFFICES ASSUME Nat \ T # {}
               PROVE  FALSE
    OBVIOUS
  <1>1. PICK m \in Nat \ T : \A k \in Nat \ T : m <= k
    <2> DEFINE U == Nat \ T
    <2>1. U \in SUBSET Nat /\ U # {}
      OBVIOUS
    <2> HIDE DEF U
    <2>2. \E m \in U : \A k \in U : m <= k
      BY <2>1, LeastNumber
    <2> QED BY <2>2 DEF U
  <1>2. m # 0 /\ m - 1 \in Nat
    BY <1>1
  <1>3. m - 1 \in T
    BY <1>1, <1>2
  <1> QED
    BY <1>1, <1>2, <1>3

\* A set of numbers with each number below which it has all has all numbers.
LEMMA StrongInduction ==
  ASSUME NEW T \in SUBSET Nat, \A n \in Nat : (\A m \in Nat : m < n => m \in T) => n \in T
  PROVE  T = Nat
  <1> SUFFICES ASSUME Nat \ T # {}
               PROVE  FALSE
    OBVIOUS
  <1> DEFINE U == Nat \ T
  <1>1. U \in SUBSET Nat /\ U # {}
    OBVIOUS
  <1> HIDE DEF U
  <1>2. PICK m \in U : \A k \in U : m <= k
    BY <1>1, LeastNumber
  <1>3. m \in Nat /\ m \notin T /\ \A k \in Nat : k < m => k \in T
    BY <1>2 DEF U
  <1> QED
    BY <1>3

\* A recursion whose argument gets smaller in some measure ...
Descends(I, V, size, next, base, step) ==
  /\ size \in [I -> Nat] /\ next \in [I -> I]
  /\ base \in [I -> V] /\ step \in [I \X V -> V]
  /\ \A i \in I : size[i] # 0 => size[next[i]] < size[i]

\* ... has a solution: the function that is meant by its definition.
Solution(f, I, V, size, next, base, step) ==
  /\ f \in [I -> V]
  /\ f = [i \in I |-> IF size[i] = 0 THEN base[i] ELSE step[<<i, f[next[i]]>>]]

\* A recursion that descends has a solution.
LEMMA Recursion ==
  ASSUME NEW I, NEW V, NEW size, NEW next, NEW base, NEW step,
         Descends(I, V, size, next, base, step)
  PROVE  \E f : Solution(f, I, V, size, next, base, step)
  <1> USE DEF Descends
  <1> DEFINE Body(g, i) == IF size[i] = 0 THEN base[i] ELSE step[<<i, g[next[i]]>>]
             Solves(g, k) == g \in [I -> V] /\ \A i \in I : size[i] <= k => g[i] = Body(g, i)
  <1>1. ASSUME NEW g \in [I -> V], NEW i \in I PROVE Body(g, i) \in V
    OBVIOUS
  <1>2. ASSUME NEW g, NEW h, NEW i \in I, size[i] # 0 => g[next[i]] = h[next[i]]
        PROVE  Body(g, i) = Body(h, i)
    BY <1>2
  <1> HIDE DEF Body
  <1>3. \A k \in Nat : \E g : Solves(g, k)
    <2> DEFINE T == {k \in Nat : \E g : Solves(g, k)}
    <2>1. 0 \in T
      <3>1. ASSUME NEW i \in I, size[i] <= 0 PROVE Body(base, i) = base[i]
        BY <3>1 DEF Body
      <3>2. Solves(base, 0)
        BY <3>1
      <3> QED BY <3>2
    <2>2. ASSUME NEW k \in T PROVE k + 1 \in T
      <3>1. PICK g : Solves(g, k)
        BY <2>2
      <3> DEFINE h == [i \in I |-> Body(g, i)]
      <3>2. h \in [I -> V]
        BY <1>1, <3>1
      <3>3. ASSUME NEW i \in I, size[i] <= k PROVE h[i] = g[i]
        BY <3>1, <3>3
      <3>4. ASSUME NEW i \in I, size[i] <= k + 1 PROVE h[i] = Body(h, i)
        <4>1. ASSUME size[i] # 0 PROVE g[next[i]] = h[next[i]]
          <5>1. next[i] \in I /\ size[next[i]] \in Nat /\ size[i] \in Nat /\ k \in Nat
            BY <2>2
          <5>2. size[next[i]] <= k
            BY <5>1, <3>4, <4>1
          <5> QED BY <5>1, <5>2, <3>3
        <4>2. Body(g, i) = Body(h, i)
          <5> HIDE DEF h
          <5> QED BY <4>1, <1>2
        <4> QED BY <4>2
      <3>5. Solves(h, k + 1)
        <4> HIDE DEF h
        <4> QED BY <3>2, <3>4
      <3>6. k + 1 \in Nat
        BY <2>2
      <3> QED BY <3>5, <3>6
    <2>3. T \in SUBSET Nat
      OBVIOUS
    <2>4. T = Nat
      <3> HIDE DEF T
      <3> QED BY <2>1, <2>2, <2>3, Induction
    <2> QED BY <2>4
  <1>4. ASSUME NEW j \in Nat, NEW k \in Nat, NEW g, NEW h, Solves(g, j), Solves(h, k)
        PROVE  \A i \in I : size[i] <= j /\ size[i] <= k => g[i] = h[i]
    <2> DEFINE T == {n \in Nat : \A i \in I : size[i] = n /\ n <= j /\ n <= k => g[i] = h[i]}
    <2>1. ASSUME NEW n \in Nat, \A m \in Nat : m < n => m \in T PROVE n \in T
      <3>1. ASSUME NEW i \in I, size[i] = n, n <= j, n <= k PROVE g[i] = h[i]
        <4>1. ASSUME size[i] # 0 PROVE g[next[i]] = h[next[i]]
          <5>1. next[i] \in I /\ size[next[i]] \in Nat /\ size[next[i]] < n
            BY <3>1, <4>1
          <5>2. size[next[i]] \in T
            BY <5>1, <2>1
          <5>3. size[next[i]] <= j /\ size[next[i]] <= k
            BY <5>1, <3>1
          <5> QED BY <5>1, <5>2, <5>3
        <4>2. Body(g, i) = Body(h, i)
          BY <4>1, <1>2
        <4> QED BY <1>4, <3>1, <4>2
      <3> QED BY <3>1
    <2>2. T \in SUBSET Nat
      OBVIOUS
    <2>3. T = Nat
      <3> HIDE DEF T
      <3> QED BY <2>1, <2>2, StrongInduction
    <2>4. ASSUME NEW i \in I, size[i] <= j, size[i] <= k PROVE g[i] = h[i]
      <3>1. size[i] \in T
        BY <2>3
      <3> QED BY <2>4, <3>1
    <2> QED BY <2>4
  <1> DEFINE g(k) == CHOOSE g : Solves(g, k)
             f == [i \in I |-> g(size[i])[i]]
  <1>5. \A k \in Nat : Solves(g(k), k)
    BY <1>3
  <1> HIDE DEF g, Solves
  <1>6. \A k \in Nat : g(k) \in [I -> V] /\ \A i \in I : size[i] <= k => g(k)[i] = Body(g(k), i)
    BY <1>5 DEF Solves
  <1>7. f \in [I -> V]
    <2>1. ASSUME NEW i \in I PROVE g(size[i])[i] \in V
      <3>1. g(size[i]) \in [I -> V]
        BY <1>6
      <3> QED BY <3>1
    <2> QED BY <2>1
  <1>8. ASSUME NEW i \in I PROVE f[i] = Body(f, i)
    <2>1. size[i] \in Nat /\ f[i] = g(size[i])[i]
      OBVIOUS
    <2>2. g(size[i])[i] = Body(g(size[i]), i)
      BY <2>1, <1>6
    <2>3. ASSUME size[i] # 0 PROVE g(size[i])[next[i]] = f[next[i]]
      <3>1. next[i] \in I /\ size[next[i]] \in Nat /\ size[next[i]] < size[i]
        BY <2>3
      <3>2. f[next[i]] = g(size[next[i]])[next[i]]
        BY <3>1
      <3>3. Solves(g(size[i]), size[i]) /\ Solves(g(size[next[i]]), size[next[i]])
        BY <2>1, <3>1, <1>5
      <3>4. size[next[i]] <= size[i] /\ size[next[i]] <= size[next[i]]
        BY <2>1, <3>1
      <3> QED BY <3>1, <3>2, <3>3, <3>4, <2>1, <1>4
    <2>4. Body(g(size[i]), i) = Body(f, i)
      BY <2>3, <1>2
    <2> QED BY <2>1, <2>2, <2>4
  <1>9. f = [i \in I |-> Body(f, i)]
    <2>1. f = [i \in I |-> f[i]]
      BY <1>7
    <2> HIDE DEF f
    <2> QED BY <1>8, <2>1
  <1> HIDE DEF f
  <1> QED
    BY <1>7, <1>9 DEF Body, Solution

-----------------------------------------------------------------------------
(* The first of a set of positions. *)

\* The least of a set of numbers is in it, and below all of it.
LEMMA MinOf ==
  ASSUME NEW S \in SUBSET Nat, S # {}
  PROVE  Min(S) \in S /\ Min(S) \in Nat /\ \A k \in S : Min(S) <= k
  <1>1. \E m \in S : \A k \in S : m <= k
    BY LeastNumber
  <1> QED
    BY <1>1 DEF Min

\* A number of a set that is below all of it is its least.
LEMMA MinIs ==
  ASSUME NEW S \in SUBSET Nat, NEW m \in S, \A k \in S : m <= k
  PROVE  Min(S) = m
  <1>1. Min(S) \in S /\ Min(S) \in Nat /\ Min(S) <= m
    BY MinOf
  <1> QED
    BY <1>1

\* The first of a set of positions.
LEMMA FirstFound ==
  ASSUME NEW X, NEW source \in Seq(X), NEW P \in SUBSET Nat
  PROVE  /\ FirstOf(source, P) \in Nat
         /\ FirstOf(source, P) <= Len(source) + 1
         /\ FirstOf(source, P) \in P \/ FirstOf(source, P) = Len(source) + 1
         /\ \A k \in P : FirstOf(source, P) <= k
  <1> DEFINE S == P \cup {Len(source) + 1}
  <1>0. Len(source) + 1 \in Nat
    OBVIOUS
  <1>1. S \in SUBSET Nat /\ S # {}
    BY <1>0
  <1> HIDE DEF S
  <1>3. FirstOf(source, P) = Min(S)
    BY DEF FirstOf, S
  <1>2. Min(S) \in S /\ Min(S) \in Nat /\ \A k \in S : Min(S) <= k
    BY <1>1, MinOf
  <1> QED
    BY <1>1, <1>2, <1>3 DEF S

\* A position before all of a set, in it or after the end, is what FirstOf finds.
LEMMA FirstIs ==
  ASSUME NEW X, NEW source \in Seq(X), NEW P \in SUBSET Nat, NEW m \in Nat,
         m \in P \/ m = Len(source) + 1, m <= Len(source) + 1, \A k \in P : m <= k
  PROVE  FirstOf(source, P) = m
  <1>1. /\ FirstOf(source, P) \in Nat
        /\ FirstOf(source, P) <= Len(source) + 1
        /\ FirstOf(source, P) \in P \/ FirstOf(source, P) = Len(source) + 1
        /\ \A k \in P : FirstOf(source, P) <= k
    BY FirstFound
  <1> QED
    BY <1>1

\* The end of a line comment.
LEMMA LineCommentEnds ==
  ASSUME NEW source \in Seq(Token), NEW i \in 1 .. Len(source), NEW j \in i + 1 .. Len(source) + 1,
         IsLineComment(source, i, j)
  PROVE  LineCommentEnd(source, i) = j
  <1> DEFINE P == {k \in i .. Len(source) : source[k] = Newline}
  <1>1. P \in SUBSET Nat /\ LineCommentEnd(source, i) = FirstOf(source, P)
    BY DEF LineCommentEnd
  <1>2. j \in P \/ j = Len(source) + 1
    BY DEF IsLineComment
  <1>3. \A k \in P : j <= k
    BY DEF IsLineComment, OnOneLine
  <1> HIDE DEF P
  <1> QED
    BY <1>1, <1>2, <1>3, FirstIs

\* The equation of the function in BlockCommentEnd.
BlockEq(source, f) ==
  f = [p \in Nat \X Nat |->
        LET j == p[1]
            depth == p[2]
        IN IF j > Len(source) THEN Len(source) + 1
           ELSE IF Starts(source, j, "/", "*") THEN f[<<j + 2, depth + 1>>]
           ELSE IF Starts(source, j, "*", "/") THEN IF depth <= 1 THEN j + 2 ELSE f[<<j + 2, depth - 1>>]
           ELSE f[<<j + 1, depth>>]]


-----------------------------------------------------------------------------
(* Where comments and literals end. *)

\* How many of a set are below k.
Below(S, k) == Cardinality({x \in S : x < k})

\* From one number to the next, the number itself is counted.
LEMMA BelowNext ==
  ASSUME NEW S \in SUBSET Nat, NEW k \in Nat
  PROVE  /\ Below(S, k) \in Nat
         /\ Below(S, k + 1) = Below(S, k) + (IF k \in S THEN 1 ELSE 0)
         /\ (\A x \in S : k <= x) => Below(S, k) = 0
  <1> DEFINE B == {x \in S : x < k}
  <1>0. \A x \in S : x \in Nat
    OBVIOUS
  <1>1. IsFiniteSet(B)
    <2>1. B \subseteq 0 .. k - 1
      <3> SUFFICES ASSUME NEW x \in S, x < k PROVE x \in 0 .. k - 1
        OBVIOUS
      <3>1. x \in Nat
        BY <1>0
      <3> QED BY <3>1
    <2>2. IsFiniteSet(0 .. k - 1)
      BY FS_Interval
    <2> HIDE DEF B
    <2> QED BY <2>1, <2>2, FS_Subset
  <1>2. Cardinality(B) \in Nat
    <2> HIDE DEF B
    <2> QED BY <1>1, FS_CardinalityType
  <1>3. {x \in S : x < k + 1} = IF k \in S THEN B \cup {k} ELSE B
    <2>1. ASSUME NEW x \in S PROVE x < k + 1 <=> x < k \/ x = k
      BY <1>0
    <2> QED BY <2>1
  <1>4. k \notin B
    OBVIOUS
  <1>5. Cardinality(B \cup {k}) = Cardinality(B) + 1
    <2> HIDE DEF B
    <2> QED BY <1>1, <1>4, FS_AddElement
  <1>6. (\A x \in S : k <= x) => B = {}
    <2> SUFFICES ASSUME \A x \in S : k <= x, NEW x \in S, x < k PROVE FALSE
      OBVIOUS
    <2>1. x \in Nat /\ k <= x
      BY <1>0
    <2> QED BY <2>1
  <1>7. Cardinality({}) = 0
    BY FS_EmptySet
  <1>8. Below(S, k) = Cardinality(B)
    BY DEF Below
  <1>9. Below(S, k + 1) = Cardinality(IF k \in S THEN B \cup {k} ELSE B)
    BY <1>3 DEF Below
  <1> HIDE DEF B
  <1> QED
    BY <1>2, <1>5, <1>6, <1>7, <1>8, <1>9

\* The function in BlockCommentEnd is defined: at each step it goes on to the right.
LEMMA BlockFn ==
  ASSUME NEW source \in Seq(Token), NEW i \in Nat
  PROVE  \E f : BlockEq(source, f) /\ BlockCommentEnd(source, i) = f[<<i, 0>>]
  <1> DEFINE I == Nat \X Nat
             n == Len(source)
             After(p) == IF Starts(source, p[1], "/", "*") THEN <<p[1] + 2, p[2] + 1>>
                        ELSE IF Starts(source, p[1], "*", "/")
                             THEN IF p[2] <= 1 THEN <<p[1] + 2, p[2]>> ELSE <<p[1] + 2, p[2] - 1>>
                        ELSE <<p[1] + 1, p[2]>>
             size == [p \in I |-> IF p[1] > n THEN 0 ELSE n + 1 - p[1]]
             next == [p \in I |-> After(p)]
             base == [p \in I |-> n + 1]
             step == [q \in I \X Nat |->
                        IF Starts(source, q[1][1], "/", "*") THEN q[2]
                        ELSE IF Starts(source, q[1][1], "*", "/") /\ q[1][2] <= 1 THEN q[1][1] + 2
                        ELSE q[2]]
  <1>1. n \in Nat
    OBVIOUS
  <1> HIDE DEF n
  <1>2. ASSUME NEW p \in I PROVE After(p) \in I /\ After(p)[1] > p[1]
    OBVIOUS
  <1> HIDE DEF After
  <1>3. size \in [I -> Nat] /\ base \in [I -> Nat]
    BY <1>1
  <1>4. next \in [I -> I]
    BY <1>2
  <1>5. step \in [I \X Nat -> Nat]
    OBVIOUS
  <1>6. ASSUME NEW p \in I, size[p] # 0 PROVE size[next[p]] < size[p]
    <2>1. next[p] \in I /\ next[p][1] > p[1] /\ next[p][1] \in Nat /\ p[1] \in Nat
      BY <1>2
    <2>2. p[1] <= n
      BY <1>6, <1>1
    <2> HIDE DEF next
    <2> QED BY <2>1, <2>2, <1>1
  <1>7. PICK f : Solution(f, I, Nat, size, next, base, step)
    <2> HIDE DEF I, size, next, base, step
    <2>1. Descends(I, Nat, size, next, base, step)
      BY <1>3, <1>4, <1>5, <1>6 DEF Descends
    <2> QED BY <2>1, Recursion
  <1>8. ASSUME NEW p \in I
        PROVE  f[p] = IF p[1] > n THEN n + 1
                      ELSE IF Starts(source, p[1], "/", "*") THEN f[<<p[1] + 2, p[2] + 1>>]
                      ELSE IF Starts(source, p[1], "*", "/")
                           THEN IF p[2] <= 1 THEN p[1] + 2 ELSE f[<<p[1] + 2, p[2] - 1>>]
                      ELSE f[<<p[1] + 1, p[2]>>]
    <2>1. f \in [I -> Nat] /\ f[p] = IF size[p] = 0 THEN base[p] ELSE step[<<p, f[next[p]]>>]
      <3> HIDE DEF size, next, base, step, I
      <3> QED BY <1>7 DEF Solution
    <2>2. size[p] = 0 <=> p[1] > n
      BY <1>1
    <2>3. base[p] = n + 1
      OBVIOUS
    <2>4. next[p] \in I /\ f[next[p]] \in Nat /\ next[p] = After(p)
      BY <1>4, <2>1
    <2>5. step[<<p, f[next[p]]>>] = IF Starts(source, p[1], "/", "*") THEN f[next[p]]
                        ELSE IF Starts(source, p[1], "*", "/") /\ p[2] <= 1 THEN p[1] + 2
                        ELSE f[next[p]]
      <3> DEFINE v == f[next[p]]
      <3>1. v \in Nat
        BY <2>4
      <3> HIDE DEF v
      <3>2. step[<<p, v>>] = IF Starts(source, p[1], "/", "*") THEN v
                        ELSE IF Starts(source, p[1], "*", "/") /\ p[2] <= 1 THEN p[1] + 2
                        ELSE v
        BY <3>1
      <3> QED BY <3>2 DEF v
    <2> HIDE DEF size, base, step, next
    <2> QED BY <2>1, <2>2, <2>3, <2>4, <2>5 DEF After
  <1>9. f = [p \in I |-> f[p]]
    BY <1>7 DEF Solution
  <1>10. BlockEq(source, f)
    BY <1>8, <1>9 DEF BlockEq, n
  <1> DEFINE M == CHOOSE g : BlockEq(source, g)
  <1>11. BlockEq(source, M)
    BY <1>10
  <1>12. BlockCommentEnd(source, i) = M[<<i, 0>>]
    BY DEF BlockCommentEnd, BlockEq
  <1> HIDE DEF M
  <1> QED
    BY <1>11, <1>12

\* Tokens at places of a source.
LEMMA StartsAt ==
  ASSUME NEW source \in Seq(Token), NEW k \in Nat, NEW a, NEW b, a # "end", b # "end"
  PROVE  Starts(source, k, a, b) <=>
           k \in 1 .. Len(source) /\ k + 1 \in 1 .. Len(source) /\ source[k] = a /\ source[k + 1] = b
  BY DEF Starts, At

\* The scanner's depth is that of the comments that are open: it ends a block comment where the
\* language does, nested comments and all.
LEMMA BlockCommentEnds ==
  ASSUME NEW source \in Seq(Token), NEW i \in 1 .. Len(source), NEW j \in i + 1 .. Len(source) + 1,
         NestedComment(source, i, j)
  PROVE  BlockCommentEnd(source, i) = j
  <1> DEFINE Opens(k) == Starts(source, k, "/", "*")
             Closes(k) == Starts(source, k, "*", "/")
  <1>1. PICK opens \in SUBSET {k \in i .. j - 2 : Opens(k)},
             closes \in SUBSET {k \in i .. j - 2 : Closes(k)} :
          /\ i \in opens
          /\ \A k \in opens \cup closes : k + 1 \notin opens \cup closes
          /\ \A k \in i .. j - 2 :
               Opens(k) \/ Closes(k) => k \in opens \cup closes \/ k - 1 \in opens \cup closes
          /\ \A k \in i + 1 .. j - 2 : Below(opens, k) - Below(closes, k) > 0
          /\ j - 2 \in closes
          /\ Below(opens, j - 1) - Below(closes, j - 1) = 0
    BY DEF NestedComment, Below
  <1>2. PICK f : BlockEq(source, f) /\ BlockCommentEnd(source, i) = f[<<i, 0>>]
    BY BlockFn
  <1> DEFINE end(k, d) == f[<<k, d>>]
  <1>3. ASSUME NEW k \in Nat, NEW d \in Nat, k <= Len(source)
        PROVE  /\ Opens(k) => end(k, d) = end(k + 2, d + 1)
               /\ ~Opens(k) /\ Closes(k) /\ d <= 1 => end(k, d) = k + 2
               /\ ~Opens(k) /\ Closes(k) /\ ~(d <= 1) => end(k, d) = end(k + 2, d - 1)
               /\ ~Opens(k) /\ ~Closes(k) => end(k, d) = end(k + 1, d)
    <2>1. f[<<k, d>>] =
            IF k > Len(source) THEN Len(source) + 1
            ELSE IF Starts(source, k, "/", "*") THEN f[<<k + 2, d + 1>>]
            ELSE IF Starts(source, k, "*", "/") THEN IF d <= 1 THEN k + 2 ELSE f[<<k + 2, d - 1>>]
            ELSE f[<<k + 1, d>>]
      BY <1>2 DEF BlockEq
    <2> QED BY <2>1, <1>3
  <1> HIDE DEF end
  <1>4. ASSUME NEW k \in Nat
        PROVE  /\ Opens(k) => ~Closes(k)
               /\ Opens(k) => k + 1 <= Len(source)
               /\ Closes(k) => k + 1 <= Len(source)
    BY StartsAt
  <1>5. /\ \A k \in opens : k \in Nat /\ i <= k /\ k <= j - 2 /\ Opens(k)
        /\ \A k \in closes : k \in Nat /\ i <= k /\ k <= j - 2 /\ Closes(k)
    BY <1>1
  <1>6. opens \in SUBSET Nat /\ closes \in SUBSET Nat
    BY <1>5
  <1> HIDE DEF Opens, Closes
  <1> DEFINE depth(k) == Below(opens, k) - Below(closes, k)
  <1>7. ASSUME NEW k \in Nat
        PROVE  /\ depth(k) \in Int
               /\ k \in opens => depth(k + 1) = depth(k) + 1 /\ k \notin closes
               /\ k \in closes => depth(k + 1) = depth(k) - 1 /\ k \notin opens
               /\ k \notin opens \cup closes => depth(k + 1) = depth(k)
    <2>1. k \in opens => k \notin closes
      BY <1>5, <1>4
    <2>2. /\ Below(opens, k) \in Nat
          /\ Below(opens, k + 1) = Below(opens, k) + (IF k \in opens THEN 1 ELSE 0)
      BY <1>6, BelowNext
    <2>3. /\ Below(closes, k) \in Nat
          /\ Below(closes, k + 1) = Below(closes, k) + (IF k \in closes THEN 1 ELSE 0)
      BY <1>6, BelowNext
    <2> QED BY <2>1, <2>2, <2>3
  <1>8. depth(i) = 0
    <2>3. i \in Nat /\ (\A x \in opens : i <= x) /\ (\A x \in closes : i <= x)
      BY <1>5
    <2>1. Below(opens, i) = 0
      BY <2>3, <1>6, BelowNext
    <2>2. Below(closes, i) = 0
      BY <2>3, <1>6, BelowNext
    <2> QED BY <2>1, <2>2
  <1>9. \A k \in i + 1 .. j - 2 : depth(k) > 0
    BY <1>1
  <1>10. depth(j - 1) = 0
    BY <1>1
  <1> HIDE DEF depth
  <1> DEFINE T == {n \in Nat : \A k \in i .. j - 2 : k = n /\ k - 1 \notin opens \cup closes =>
                                    depth(k) \in Nat /\ end(i, 0) = end(k, depth(k))}
  <1>11. ASSUME NEW n \in Nat, \A m \in Nat : m < n => m \in T PROVE n \in T
    <2> SUFFICES ASSUME NEW k \in i .. j - 2, k = n, k - 1 \notin opens \cup closes
                 PROVE  depth(k) \in Nat /\ end(i, 0) = end(k, depth(k))
      OBVIOUS
    <2>1. CASE k = i
      BY <2>1, <1>8
    <2>2. CASE k # i
      <3>1. k \in i + 1 .. j - 2 /\ depth(k) > 0
        BY <2>2, <1>9
      <3>2. depth(k) \in Nat
        BY <3>1, <1>7
      <3>3. CASE k - 2 \in opens \cup closes
        <4>1. k - 2 \in i .. j - 2 /\ k - 2 \in Nat /\ k - 2 < n
          BY <3>3, <1>5
        <4>2. k - 3 \notin opens \cup closes
          <5>1. ASSUME k - 3 \in opens \cup closes PROVE FALSE
            <6>1. (k - 3) + 1 \notin opens \cup closes
              BY <5>1, <1>1
            <6> QED BY <6>1, <3>3
          <5> QED BY <5>1
        <4>3. depth(k - 2) \in Nat /\ end(i, 0) = end(k - 2, depth(k - 2))
          <5>1. k - 2 \in T
            BY <4>1, <1>11
          <5>2. (k - 2) - 1 = k - 3
            OBVIOUS
          <5> QED BY <4>1, <4>2, <5>1, <5>2
        <4>4. depth(k) = depth(k - 1)
          <5>1. k - 1 \in Nat /\ (k - 1) + 1 = k
            OBVIOUS
          <5> QED BY <5>1, <1>7
        <4>5. CASE k - 2 \in opens
          <5>1. depth(k - 1) = depth(k - 2) + 1
            <6>1. (k - 2) + 1 = k - 1
              OBVIOUS
            <6> QED BY <4>1, <4>5, <6>1, <1>7
          <5>2. Opens(k - 2) /\ k - 2 <= Len(source)
            BY <4>5, <1>5, <1>4
          <5>3. end(k - 2, depth(k - 2)) = end((k - 2) + 2, depth(k - 2) + 1)
            BY <5>2, <4>1, <4>3, <1>3
          <5>4. (k - 2) + 2 = k
            OBVIOUS
          <5> QED BY <5>1, <5>3, <5>4, <4>3, <4>4, <3>2
        <4>6. CASE k - 2 \in closes
          <5>1. depth(k - 1) = depth(k - 2) - 1
            <6>1. (k - 2) + 1 = k - 1
              OBVIOUS
            <6> QED BY <4>1, <4>6, <6>1, <1>7
          <5>2. Closes(k - 2) /\ ~Opens(k - 2) /\ k - 2 <= Len(source)
            BY <4>6, <1>5, <1>4
          <5>3. ~(depth(k - 2) <= 1)
            BY <5>1, <4>3, <4>4, <3>1
          <5>4. end(k - 2, depth(k - 2)) = end((k - 2) + 2, depth(k - 2) - 1)
            BY <5>2, <5>3, <4>1, <4>3, <1>3
          <5>5. (k - 2) + 2 = k
            OBVIOUS
          <5> QED BY <5>1, <5>4, <5>5, <4>3, <4>4, <3>2
        <4> QED BY <3>3, <4>5, <4>6
      <3>4. CASE k - 2 \notin opens \cup closes
        <4>1. k - 1 \in i .. j - 2 /\ k - 1 \in Nat /\ k - 1 < n /\ (k - 1) - 1 = k - 2 /\ (k - 1) + 1 = k
          BY <3>1
        <4>2. depth(k - 1) \in Nat /\ end(i, 0) = end(k - 1, depth(k - 1))
          <5>1. k - 1 \in T
            BY <4>1, <1>11
          <5> QED BY <4>1, <3>4, <5>1
        <4>3. ~Opens(k - 1) /\ ~Closes(k - 1)
          BY <4>1, <3>4, <1>1
        <4>4. depth(k) = depth(k - 1)
          BY <4>1, <1>7
        <4>5. k - 1 <= Len(source)
          BY <4>1
        <4>6. end(k - 1, depth(k - 1)) = end((k - 1) + 1, depth(k - 1))
          BY <4>1, <4>2, <4>3, <4>5, <1>3
        <4> QED BY <4>1, <4>2, <4>4, <4>6
      <3> QED BY <3>3, <3>4
    <2> QED BY <2>1, <2>2
  <1>12. T = Nat
    <2>1. T \in SUBSET Nat
      OBVIOUS
    <2> HIDE DEF T
    <2> QED BY <1>11, <2>1, StrongInduction
  <1>13. j - 2 \in i .. j - 2 /\ j - 2 \in Nat /\ Closes(j - 2) /\ ~Opens(j - 2) /\ j - 2 <= Len(source)
    BY <1>1, <1>4, <1>5
  <1>14. j - 3 \notin opens \cup closes
    <2>1. ASSUME j - 3 \in opens \cup closes PROVE FALSE
      <3>1. (j - 3) + 1 \notin opens \cup closes
        BY <2>1, <1>1
      <3> QED BY <3>1, <1>1
    <2> QED BY <2>1
  <1>15. depth(j - 2) \in Nat /\ end(i, 0) = end(j - 2, depth(j - 2))
    <2>1. j - 2 \in T
      BY <1>12, <1>13
    <2>2. (j - 2) - 1 = j - 3
      OBVIOUS
    <2> QED BY <1>13, <1>14, <2>1, <2>2
  <1>16. depth(j - 2) = 1
    <2>1. (j - 2) + 1 = j - 1
      OBVIOUS
    <2>2. depth(j - 1) = depth(j - 2) - 1
      BY <1>1, <1>13, <2>1, <1>7
    <2> QED BY <2>2, <1>10, <1>15
  <1>17. end(j - 2, depth(j - 2)) = (j - 2) + 2
    BY <1>13, <1>15, <1>16, <1>3
  <1> QED
    <2>1. BlockCommentEnd(source, i) = end(i, 0)
      BY <1>2 DEF end
    <2> QED BY <2>1, <1>15, <1>17

\* The run of backslashes before j, and what one more of them does to it.
Run(source, open, j) == {k \in open + 1 .. j - 1 : \A l \in k .. j - 1 : source[l] = Backslash}

\* One more backslash turns a run of odd length into one of even length, and back.
LEMMA EscapedNext ==
  ASSUME NEW source \in Seq(Token), NEW open \in Nat, NEW j \in Nat, open < j
  PROVE  /\ ~Escaped(source, open, open + 1)
         /\ source[j] # Backslash => ~Escaped(source, open, j + 1)
         /\ source[j] = Backslash => (Escaped(source, open, j + 1) <=> ~Escaped(source, open, j))
  <1> DEFINE R == Run(source, open, j)
             C == Cardinality(R)
  <1>1. /\ Escaped(source, open, j) <=> C % 2 = 1
        /\ Escaped(source, open, j + 1) <=> Cardinality(Run(source, open, j + 1)) % 2 = 1
        /\ Escaped(source, open, open + 1) <=> Cardinality(Run(source, open, open + 1)) % 2 = 1
    BY DEF Escaped, Run
  <1>0. 0 % 2 # 1
    OBVIOUS
  <1>2. Run(source, open, open + 1) = {}
    BY DEF Run
  <1>3. Cardinality({}) = 0
    BY FS_EmptySet
  <1>4. ASSUME source[j] # Backslash PROVE Run(source, open, j + 1) = {}
    BY <1>4 DEF Run
  <1>5. ASSUME source[j] = Backslash PROVE Run(source, open, j + 1) = R \cup {j}
    <2>1. ASSUME NEW k \in open + 1 .. j - 1
          PROVE  (\A l \in k .. (j + 1) - 1 : source[l] = Backslash) <=> (\A l \in k .. j - 1 : source[l] = Backslash)
      <3>1. \A l \in k .. (j + 1) - 1 : l \in k .. j - 1 \/ l = j
        OBVIOUS
      <3>2. \A l \in k .. j - 1 : l \in k .. (j + 1) - 1
        OBVIOUS
      <3> QED BY <1>5, <3>1, <3>2
    <2>2. \A l \in j .. (j + 1) - 1 : source[l] = Backslash
      BY <1>5
    <2>3. open + 1 .. (j + 1) - 1 = (open + 1 .. j - 1) \cup {j}
      OBVIOUS
    <2> QED BY <2>1, <2>2, <2>3 DEF Run
  <1>6. IsFiniteSet(R) /\ j \notin R
    <2>1. R \subseteq open + 1 .. j - 1
      BY DEF Run
    <2>2. IsFiniteSet(open + 1 .. j - 1)
      BY FS_Interval
    <2>3. j \notin open + 1 .. j - 1
      OBVIOUS
    <2> HIDE DEF R
    <2> QED BY <2>1, <2>2, <2>3, FS_Subset
  <1>7. C \in Nat /\ Cardinality(R \cup {j}) = C + 1
    <2> HIDE DEF R
    <2> QED BY <1>6, FS_AddElement, FS_CardinalityType
  <1> HIDE DEF C
  <1>8. (C + 1) % 2 = 1 <=> ~(C % 2 = 1)
    BY <1>7
  <1> QED
    <2>1. ~Escaped(source, open, open + 1)
      BY <1>0, <1>1, <1>2, <1>3
    <2>2. source[j] # Backslash => ~Escaped(source, open, j + 1)
      BY <1>0, <1>1, <1>4, <1>3
    <2>3. ASSUME source[j] = Backslash
          PROVE  Escaped(source, open, j + 1) <=> ~Escaped(source, open, j)
      <3>1. Cardinality(Run(source, open, j + 1)) = C + 1
        BY <2>3, <1>5, <1>7
      <3> QED BY <3>1, <1>1, <1>8
    <2> QED BY <2>1, <2>2, <2>3

\* What a quote that is not escaped ends: exactly one of the positions closes a literal.
LEMMA QuotedCloses ==
  ASSUME NEW source \in Seq(Token), NEW open \in 1 .. Len(source), NEW j \in open + 1 .. Len(source) + 1,
         IsQuoted(source, open, j)
  PROVE  j - 1 \in Closers(source, open) /\ \A k \in Closers(source, open) : j - 1 <= k
  <1>1. PICK escapes \in SUBSET {k \in open + 1 .. j - 3 : source[k] = Backslash} :
          /\ open < j - 1
          /\ source[j - 1] = source[open]
          /\ \A k \in escapes : k + 1 \notin escapes
          /\ \A k \in open + 1 .. j - 2 : source[k] = Backslash => k \in escapes \/ k - 1 \in escapes
          /\ \A k \in open + 1 .. j - 2 : source[k] = source[open] => k - 1 \in escapes
    BY DEF IsQuoted
  <1>2. \A k \in escapes : k \in Nat /\ open < k /\ k <= j - 3 /\ source[k] = Backslash
    BY <1>1
  <1> DEFINE T == {n \in Nat : n > open /\ n <= j - 1 => (Escaped(source, open, n) <=> n - 1 \in escapes)}
  <1>3. 0 \in T
    OBVIOUS
  <1>4. ASSUME NEW n \in T PROVE n + 1 \in T
    <2> SUFFICES ASSUME n + 1 > open, n + 1 <= j - 1
                 PROVE  Escaped(source, open, n + 1) <=> n \in escapes
      <3>1. n \in Nat /\ (n + 1) - 1 = n
        OBVIOUS
      <3> QED BY <3>1
    <2>0. n \in Nat
      OBVIOUS
    <2>1. CASE n = open
      BY <2>1, <1>2, EscapedNext
    <2>2. CASE n # open
      <3>1. n \in open + 1 .. j - 2 /\ open < n
        BY <2>0, <2>2
      <3>2. Escaped(source, open, n) <=> n - 1 \in escapes
        BY <3>1
      <3>3. source[n] # Backslash => ~Escaped(source, open, n + 1)
        BY <2>0, <3>1, EscapedNext
      <3>4. source[n] = Backslash => (Escaped(source, open, n + 1) <=> ~Escaped(source, open, n))
        BY <2>0, <3>1, EscapedNext
      <3>5. n - 1 \in escapes => n \notin escapes
        <4>1. n - 1 \in escapes => (n - 1) + 1 \notin escapes
          BY <1>1
        <4>2. (n - 1) + 1 = n
          BY <2>0
        <4> QED BY <4>1, <4>2
      <3> QED BY <3>1, <3>2, <3>3, <3>4, <3>5, <1>1, <1>2
    <2> QED BY <2>1, <2>2
  <1>5. T = Nat
    <2>1. T \in SUBSET Nat
      OBVIOUS
    <2> HIDE DEF T
    <2> QED BY <1>3, <1>4, <2>1, Induction
  <1>6. \A n \in Nat : n > open /\ n <= j - 1 => (Escaped(source, open, n) <=> n - 1 \in escapes)
    BY <1>5
  <1> HIDE DEF T
  <1>7. j - 1 \in Closers(source, open)
    <2>1. j - 1 \in open + 1 .. Len(source) /\ j - 1 \in Nat
      BY <1>1
    <2>2. (j - 1) - 1 \notin escapes
      BY <1>2
    <2>3. ~Escaped(source, open, j - 1)
      BY <2>1, <2>2, <1>6
    <2> QED BY <2>1, <2>3, <1>1 DEF Closers
  <1>8. ASSUME NEW k \in Closers(source, open), k < j - 1 PROVE FALSE
    <2>1. k \in open + 1 .. Len(source) /\ source[k] = source[open] /\ ~Escaped(source, open, k)
      BY DEF Closers
    <2>2. k - 1 \in escapes
      BY <2>1, <1>8, <1>1
    <2>3. k \in Nat /\ k > open /\ k <= j - 1
      BY <2>1, <1>8
    <2> QED BY <2>1, <2>2, <2>3, <1>6
  <1>9. \A k \in Closers(source, open) : k \in Nat
    BY DEF Closers
  <1> QED
    <2>1. ASSUME NEW k \in Closers(source, open) PROVE j - 1 <= k
      BY <1>8, <1>9
    <2> QED BY <1>7, <2>1

\* A literal in quotes ends where the scanner ends it.
LEMMA QuotedEnds ==
  ASSUME NEW source \in Seq(Token), NEW open \in 1 .. Len(source), NEW j \in open + 1 .. Len(source) + 1,
         IsQuoted(source, open, j)
  PROVE  QuotedEnd(source, open) = j
  <1>1. j - 1 \in Closers(source, open) /\ \A k \in Closers(source, open) : j - 1 <= k
    BY QuotedCloses
  <1>2. Closers(source, open) \in SUBSET Nat
    BY DEF Closers
  <1>3. Min(Closers(source, open)) = j - 1
    BY <1>1, <1>2, MinIs
  <1> QED
    BY <1>1, <1>3 DEF QuotedEnd

\* Where the line of a position ends.
LEMMA LineEnds ==
  ASSUME NEW source \in Seq(Token), NEW i \in 1 .. Len(source) + 1
  PROVE  /\ LineCommentEnd(source, i) \in i .. Len(source) + 1
         /\ \A k \in i .. LineCommentEnd(source, i) - 1 : source[k] # Newline
         /\ LineCommentEnd(source, i) = Len(source) + 1 \/ source[LineCommentEnd(source, i)] = Newline
  <1> DEFINE P == {k \in i .. Len(source) : source[k] = Newline}
  <1>1. P \in SUBSET Nat /\ LineCommentEnd(source, i) = FirstOf(source, P)
    BY DEF LineCommentEnd
  <1>2. \A k \in i .. Len(source) : source[k] = Newline => k \in P
    OBVIOUS
  <1>3. \A k \in P : k \in i .. Len(source) /\ source[k] = Newline
    OBVIOUS
  <1> HIDE DEF P
  <1>4. /\ FirstOf(source, P) \in Nat
        /\ FirstOf(source, P) <= Len(source) + 1
        /\ FirstOf(source, P) \in P \/ FirstOf(source, P) = Len(source) + 1
        /\ \A k \in P : FirstOf(source, P) <= k
    BY <1>1, FirstFound
  <1> QED
    BY <1>1, <1>2, <1>3, <1>4

\* A character literal ends where the scanner ends it, on its line.
LEMMA CharEnds ==
  ASSUME NEW source \in Seq(Token), NEW open \in 1 .. Len(source), NEW j \in open + 1 .. Len(source) + 1,
         IsQuoted(source, open, j), OnOneLine(source, open, j)
  PROVE  CharEnd(source, open) = j
  <1> DEFINE here == {k \in Closers(source, open) : k < LineCommentEnd(source, open)}
  <1>1. j - 1 \in Closers(source, open) /\ \A k \in Closers(source, open) : j - 1 <= k
    BY QuotedCloses
  <1>2. j - 1 < LineCommentEnd(source, open)
    <2>1. /\ LineCommentEnd(source, open) \in open .. Len(source) + 1
          /\ LineCommentEnd(source, open) = Len(source) + 1 \/ source[LineCommentEnd(source, open)] = Newline
      BY LineEnds
    <2> QED BY <2>1 DEF OnOneLine
  <1>3. here \in SUBSET Nat
    <2>1. Closers(source, open) \in SUBSET Nat
      BY DEF Closers
    <2> QED BY <2>1
  <1>4. j - 1 \in here /\ \A k \in here : j - 1 <= k
    BY <1>1, <1>2
  <1>5. CharEnd(source, open) = IF here = {} THEN 0 ELSE Min(here) + 1
    BY DEF CharEnd
  <1> HIDE DEF here
  <1>6. Min(here) = j - 1
    BY <1>3, <1>4, MinIs
  <1> QED
    BY <1>4, <1>5, <1>6

\* A lifetime is not taken for a character literal.
LEMMA LifetimeHasNoEnd ==
  ASSUME NEW source \in Seq(Token), NEW open \in 1 .. Len(source),
         source[open] = SingleQuote, LastOnLine(source, open)
  PROVE  CharEnd(source, open) = 0
  <1>1. ASSUME NEW k \in Closers(source, open), k < LineCommentEnd(source, open) PROVE FALSE
    <2>1. k \in open + 1 .. Len(source) /\ source[k] = SingleQuote
      BY DEF Closers
    <2>2. PICK m \in open .. k - 1 : source[m] = Newline
      BY <2>1 DEF LastOnLine, OnOneLine
    <2>3. /\ LineCommentEnd(source, open) \in open .. Len(source) + 1
          /\ \A l \in open .. LineCommentEnd(source, open) - 1 : source[l] # Newline
      BY LineEnds
    <2> QED BY <2>1, <2>2, <2>3, <1>1
  <1> QED
    BY <1>1 DEF CharEnd

\* Hashes counts the hashes from i on, up to what is no hash.
LEMMA HashesFrom ==
  ASSUME NEW source \in Seq(Token), NEW i \in 1 .. Len(source) + 1
  PROVE  /\ Hashes(source, i) \in Nat
         /\ i + Hashes(source, i) <= Len(source) + 1
         /\ \A k \in i .. i + Hashes(source, i) - 1 : source[k] = "#"
         /\ i + Hashes(source, i) = Len(source) + 1 \/ source[i + Hashes(source, i)] # "#"
  <1> DEFINE P == {k \in i .. Len(source) : source[k] # "#"}
             F == FirstOf(source, P)
  <1>1. P \in SUBSET Nat /\ Hashes(source, i) = F - i
    BY DEF Hashes
  <1>2. \A k \in i .. Len(source) : source[k] # "#" => k \in P
    OBVIOUS
  <1>3. \A k \in P : k \in i .. Len(source) /\ source[k] # "#"
    OBVIOUS
  <1> HIDE DEF P
  <1>4. F \in Nat /\ F <= Len(source) + 1 /\ (F \in P \/ F = Len(source) + 1) /\ \A k \in P : F <= k
    BY <1>1, FirstFound
  <1> HIDE DEF F
  <1>5. F >= i
    BY <1>3, <1>4
  <1>6. i + (F - i) = F
    BY <1>4
  <1>7. \A k \in i .. F - 1 : source[k] = "#"
    BY <1>2, <1>4
  <1> QED
    BY <1>1, <1>3, <1>4, <1>5, <1>6, <1>7

\* What a raw string opens with.
LEMMA RawPrefixOpens ==
  ASSUME NEW source \in Seq(Token), NEW i \in 1 .. Len(source), RawPrefix(source, i) # 0
  PROVE  /\ RawPrefix(source, i) \in {i, i + 1}
         /\ RawPrefix(source, i) \in 1 .. Len(source)
         /\ Hashes(source, RawPrefix(source, i) + 1) \in 0 .. Len(source)
         /\ RawOpens(source, i, RawPrefix(source, i), Hashes(source, RawPrefix(source, i) + 1))
         /\ source[i] \in {"r", "b", "c"}
         /\ source[i] # "r" => At(source, i + 1) = "r"
  <1> DEFINE r == RawPrefix(source, i)
             n == Hashes(source, r + 1)
  <1>1. /\ \/ r = i /\ source[i] = "r"
           \/ r = i + 1 /\ source[i] \in {"b", "c"} /\ At(source, i + 1) = "r"
        /\ At(source, r + 1 + n) = DoubleQuote
    BY DEF RawPrefix, At
  <1> HIDE DEF r
  <1>2. r \in 1 .. Len(source) /\ source[r] = "r"
    BY <1>1 DEF At
  <1>3. /\ n \in Nat
        /\ (r + 1) + n <= Len(source) + 1
        /\ \A k \in r + 1 .. (r + 1) + n - 1 : source[k] = "#"
    <2>1. r + 1 \in 1 .. Len(source) + 1
      BY <1>2
    <2> QED BY <2>1, HashesFrom
  <1> HIDE DEF n
  <1>4. r + 1 + n \in DOMAIN source /\ source[r + 1 + n] = DoubleQuote
    BY <1>1 DEF At, DoubleQuote
  <1>5. r + 1 + n = r + n + 1 /\ r + n + 1 <= Len(source)
    BY <1>2, <1>3, <1>4
  <1>6. ASSUME NEW k \in 1 .. n PROVE source[r + k] = "#"
    <2>1. r + k \in r + 1 .. (r + 1) + n - 1
      BY <1>2, <1>3
    <2> QED BY <2>1, <1>3
  <1>7. RawOpens(source, i, r, n)
    BY <1>1, <1>2, <1>4, <1>5, <1>6 DEF RawOpens
  <1>8. n \in 0 .. Len(source)
    BY <1>2, <1>3
  <1> QED
    BY <1>1, <1>2, <1>7, <1>8 DEF r, n

\* Where a raw string opens, the scanner sees its r and counts its hashes.
LEMMA RawOpensPrefix ==
  ASSUME NEW source \in Seq(Token), NEW i \in 1 .. Len(source), NEW r \in {i, i + 1}, NEW n \in Nat,
         RawOpens(source, i, r, n)
  PROVE  RawPrefix(source, i) = r /\ Hashes(source, r + 1) = n
  <1>1. /\ r = i \/ (r = i + 1 /\ source[i] \in {"b", "c"})
        /\ r + n + 1 <= Len(source)
        /\ source[r] = "r"
        /\ \A k \in 1 .. n : source[r + k] = "#"
        /\ source[r + n + 1] = DoubleQuote
    BY DEF RawOpens
  <1>2. r \in 1 .. Len(source) + 1 /\ r + 1 \in 1 .. Len(source) + 1
    BY <1>1
  <1> DEFINE h == Hashes(source, r + 1)
  <1>3. /\ h \in Nat
        /\ (r + 1) + h <= Len(source) + 1
        /\ \A k \in r + 1 .. (r + 1) + h - 1 : source[k] = "#"
        /\ (r + 1) + h = Len(source) + 1 \/ source[(r + 1) + h] # "#"
    BY <1>2, HashesFrom
  <1> HIDE DEF h
  <1>4. ~(h > n)
    <2>1. ASSUME h > n PROVE FALSE
      <3>1. r + n + 1 \in r + 1 .. (r + 1) + h - 1
        BY <2>1, <1>2, <1>3
      <3> QED BY <3>1, <1>1, <1>3 DEF DoubleQuote
    <2> QED BY <2>1
  <1>5. ~(h < n)
    <2>1. ASSUME h < n PROVE FALSE
      <3>1. h + 1 \in 1 .. n /\ r + (h + 1) = (r + 1) + h
        BY <2>1, <1>2, <1>3
      <3>2. source[(r + 1) + h] = "#"
        BY <3>1, <1>1
      <3>3. (r + 1) + h # Len(source) + 1
        BY <2>1, <1>1, <1>2, <1>3
      <3> QED BY <3>2, <3>3, <1>3
    <2> QED BY <2>1
  <1>6. h = n
    BY <1>3, <1>4, <1>5
  <1>7. At(source, r + 1 + n) = DoubleQuote
    <2>1. r + 1 + n = r + n + 1 /\ r + n + 1 \in DOMAIN source
      BY <1>1, <1>2
    <2> QED BY <2>1, <1>1 DEF At
  <1>8. At(source, r) = "r"
    BY <1>1, <1>2 DEF At
  <1>9. r = i + 1 => At(source, i) # "r" /\ At(source, i) \in {"b", "c"}
    BY <1>1 DEF At
  <1>10. r # 0
    BY <1>2
  <1>11. Hashes(source, r + 1) = n
    BY <1>6 DEF h
  <1>12. CASE r = i
    BY <1>7, <1>8, <1>10, <1>11, <1>12 DEF RawPrefix
  <1>13. CASE r = i + 1
    BY <1>7, <1>8, <1>9, <1>10, <1>11, <1>13 DEF RawPrefix
  <1> QED
    BY <1>12, <1>13, <1>11

\* A raw string ends where the scanner ends it: at the first quote with as many hashes after it.
LEMMA RawEnds ==
  ASSUME NEW source \in Seq(Token), NEW i \in 1 .. Len(source), NEW j \in i + 1 .. Len(source) + 1,
         IsRawString(source, i, j)
  PROVE  RawPrefix(source, i) # 0 /\ RawEnd(source, RawPrefix(source, i)) = j
  <1>1. PICK r \in {i, i + 1}, n \in 0 .. j - i :
          /\ RawOpens(source, i, r, n)
          /\ r + n + 1 < j - 1 - n
          /\ source[j - 1 - n] = DoubleQuote
          /\ \A k \in 1 .. n : source[j - 1 - n + k] = "#"
          /\ \A q \in r + n + 2 .. (j - 1 - n) - 1 :
               source[q] = DoubleQuote => \E k \in 1 .. n : source[q + k] # "#"
    BY DEF IsRawString
  <1>2. RawPrefix(source, i) = r /\ Hashes(source, r + 1) = n
    BY <1>1, RawOpensPrefix
  <1> DEFINE closers == {q \in r + n + 2 .. Len(source) :
                           source[q] = DoubleQuote /\ \A k \in 1 .. n : At(source, q + k) = "#"}
             close == j - 1 - n
  <1>3. RawEnd(source, r) = IF closers = {} THEN Len(source) + 1 ELSE Min(closers) + n + 1
    BY <1>2 DEF RawEnd
  <1>4. close \in Nat /\ close \in r + n + 2 .. Len(source)
    BY <1>1
  <1>5. close \in closers
    <2>1. ASSUME NEW k \in 1 .. n PROVE At(source, close + k) = "#"
      <3>1. close + k \in DOMAIN source
        BY <1>4
      <3> QED BY <3>1, <1>1 DEF At
    <2> QED BY <2>1, <1>1, <1>4
  <1>6. ASSUME NEW q \in closers PROVE close <= q
    <2>1. q \in r + n + 2 .. Len(source) /\ source[q] = DoubleQuote /\ \A k \in 1 .. n : At(source, q + k) = "#"
      OBVIOUS
    <2>2. ASSUME q < close PROVE FALSE
      <3>1. q \in r + n + 2 .. (j - 1 - n) - 1
        BY <2>1, <2>2
      <3>2. PICK k \in 1 .. n : source[q + k] # "#"
        BY <3>1, <2>1, <1>1
      <3>3. q + k \in DOMAIN source
        BY <2>1, <2>2, <1>4
      <3>4. At(source, q + k) = source[q + k]
        BY <3>3 DEF At
      <3> QED BY <2>1, <3>2, <3>4
    <2> QED BY <2>1, <2>2, <1>4
  <1>7. closers \in SUBSET Nat
    <2>1. r + n + 2 .. Len(source) \subseteq Nat
      BY <1>4
    <2> QED BY <2>1
  <1> HIDE DEF closers, close
  <1>8. Min(closers) = close
    BY <1>5, <1>6, <1>7, MinIs
  <1> QED
    BY <1>2, <1>3, <1>5, <1>8 DEF close

\* A comment or literal ends after it starts, and at the end of the source at the latest.
LEMMA BlockEndBounds ==
  ASSUME NEW source \in Seq(Token), NEW i \in 1 .. Len(source)
  PROVE  BlockCommentEnd(source, i) \in i .. Len(source) + 1
  <1>1. PICK f : BlockEq(source, f) /\ BlockCommentEnd(source, i) = f[<<i, 0>>]
    BY BlockFn
  <1> DEFINE L == Len(source)
             end(k, d) == f[<<k, d>>]
             T == {m \in Nat : \A k \in 1 .. L + 1, d \in Nat : L + 1 - k = m => end(k, d) \in k .. L + 1}
  <1>2. ASSUME NEW k \in Nat, NEW d \in Nat
        PROVE  end(k, d) = IF k > L THEN L + 1
            ELSE IF Starts(source, k, "/", "*") THEN end(k + 2, d + 1)
            ELSE IF Starts(source, k, "*", "/") THEN IF d <= 1 THEN k + 2 ELSE end(k + 2, d - 1)
            ELSE end(k + 1, d)
    BY <1>1 DEF BlockEq
  <1>3. L \in Nat
    OBVIOUS
  <1>4. ASSUME NEW k \in Nat
        PROVE  Starts(source, k, "/", "*") \/ Starts(source, k, "*", "/") => k + 1 <= L
    BY StartsAt
  <1> HIDE DEF end, L
  <1>5. ASSUME NEW m \in Nat, \A l \in Nat : l < m => l \in T PROVE m \in T
    <2> SUFFICES ASSUME NEW k \in 1 .. L + 1, NEW d \in Nat, L + 1 - k = m
                 PROVE  end(k, d) \in k .. L + 1
      OBVIOUS
    <2>1. ASSUME NEW k2 \in 1 .. L + 1, NEW d2 \in Nat, k2 > k PROVE end(k2, d2) \in k2 .. L + 1
      <3>1. L + 1 - k2 \in Nat /\ L + 1 - k2 < m
        BY <1>3, <2>1
      <3>2. L + 1 - k2 \in T
        BY <3>1, <1>5
      <3> QED BY <3>2
    <2> HIDE DEF T
    <2>2. k \in Nat
      OBVIOUS
    <2>3. end(k, d) = IF k > L THEN L + 1
            ELSE IF Starts(source, k, "/", "*") THEN end(k + 2, d + 1)
            ELSE IF Starts(source, k, "*", "/") THEN IF d <= 1 THEN k + 2 ELSE end(k + 2, d - 1)
            ELSE end(k + 1, d)
      BY <1>2, <2>2
    <2>4. CASE k > L
      BY <2>3, <2>4, <1>3
    <2>5. CASE k <= L /\ Starts(source, k, "/", "*")
      <3>1. k + 2 \in 1 .. L + 1 /\ d + 1 \in Nat /\ k + 2 > k
        BY <1>3, <1>4, <2>2, <2>5
      <3>2. end(k + 2, d + 1) \in k + 2 .. L + 1
        BY <2>1, <3>1
      <3> QED BY <2>3, <2>5, <3>1, <3>2, <1>3
    <2>6. CASE k <= L /\ ~Starts(source, k, "/", "*") /\ Starts(source, k, "*", "/")
      <3>1. k + 2 \in 1 .. L + 1 /\ k + 2 > k
        BY <1>3, <1>4, <2>2, <2>6
      <3>2. CASE d <= 1
        BY <2>3, <2>6, <3>1, <3>2, <1>3
      <3>3. CASE ~(d <= 1)
        <4>1. d - 1 \in Nat
          BY <3>3
        <4>2. end(k + 2, d - 1) \in k + 2 .. L + 1
          BY <2>1, <3>1, <4>1
        <4> QED BY <2>3, <2>6, <3>1, <3>3, <4>2, <1>3
      <3> QED BY <3>2, <3>3
    <2>7. CASE k <= L /\ ~Starts(source, k, "/", "*") /\ ~Starts(source, k, "*", "/")
      <3>1. k + 1 \in 1 .. L + 1 /\ k + 1 > k
        BY <1>3, <2>2, <2>7
      <3>2. end(k + 1, d) \in k + 1 .. L + 1
        BY <2>1, <3>1
      <3> QED BY <2>3, <2>7, <3>1, <3>2, <1>3
    <2> QED BY <2>2, <2>4, <2>5, <2>6, <2>7, <1>3
  <1>6. T = Nat
    <2>1. T \in SUBSET Nat
      OBVIOUS
    <2> HIDE DEF T
    <2> QED BY <1>5, <2>1, StrongInduction
  <1>7. L + 1 - i \in T /\ i \in 1 .. L + 1 /\ 0 \in Nat
    <2>1. L + 1 - i \in Nat /\ i \in 1 .. L + 1
      BY DEF L
    <2> QED BY <1>6, <2>1
  <1>8. end(i, 0) \in i .. L + 1
    BY <1>7
  <1> QED
    BY <1>1, <1>8 DEF end, L

\* Literals end after their opening quote, within the source.
LEMMA QuotedEndBounds ==
  ASSUME NEW source \in Seq(Token), NEW open \in 1 .. Len(source)
  PROVE  /\ QuotedEnd(source, open) \in open + 1 .. Len(source) + 1
         /\ CharEnd(source, open) # 0 => CharEnd(source, open) \in open + 1 .. Len(source) + 1
  <1> DEFINE here == {k \in Closers(source, open) : k < LineCommentEnd(source, open)}
  <1>1. \A k \in Closers(source, open) : k \in open + 1 .. Len(source)
    BY DEF Closers
  <1>2. ASSUME NEW S \in SUBSET Closers(source, open), S # {} PROVE Min(S) \in open + 1 .. Len(source)
    <2>1. S \in SUBSET Nat
      <3>1. \A k \in S : k \in Nat
        BY <1>1
      <3> QED BY <3>1
    <2>2. Min(S) \in S
      BY <1>2, <2>1, MinOf
    <2> QED BY <2>2, <1>1
  <1>3. QuotedEnd(source, open) = IF Closers(source, open) = {} THEN Len(source) + 1 ELSE Min(Closers(source, open)) + 1
    BY DEF QuotedEnd
  <1>4. CharEnd(source, open) = IF here = {} THEN 0 ELSE Min(here) + 1
    BY DEF CharEnd
  <1>5. here \in SUBSET Closers(source, open)
    OBVIOUS
  <1> HIDE DEF here
  <1>6. here # {} => Min(here) \in open + 1 .. Len(source)
    BY <1>2, <1>5
  <1>7. Closers(source, open) # {} => Min(Closers(source, open)) \in open + 1 .. Len(source)
    BY <1>2
  <1> QED
    BY <1>3, <1>4, <1>6, <1>7

\* Raw strings end after their prefix, within the source.
LEMMA RawEndBounds ==
  ASSUME NEW source \in Seq(Token), NEW i \in 1 .. Len(source), RawPrefix(source, i) # 0
  PROVE  RawEnd(source, RawPrefix(source, i)) \in i + 1 .. Len(source) + 1
  <1> DEFINE r == RawPrefix(source, i)
             n == Hashes(source, r + 1)
             closers == {q \in r + n + 2 .. Len(source) :
                           source[q] = DoubleQuote /\ \A k \in 1 .. n : At(source, q + k) = "#"}
  <1>1. r \in {i, i + 1} /\ r \in 1 .. Len(source) /\ n \in 0 .. Len(source)
    BY RawPrefixOpens
  <1>2. RawEnd(source, r) = IF closers = {} THEN Len(source) + 1 ELSE Min(closers) + n + 1
    BY DEF RawEnd
  <1> HIDE DEF r, n
  <1>3. ASSUME NEW q \in closers PROVE q \in Nat /\ r + n + 2 <= q /\ q + n <= Len(source)
    <2>1. q \in r + n + 2 .. Len(source) /\ \A k \in 1 .. n : At(source, q + k) = "#"
      OBVIOUS
    <2>2. ASSUME n # 0 PROVE q + n \in DOMAIN source
      <3>1. n \in 1 .. n
        BY <1>1, <2>2
      <3> QED BY <2>1, <3>1 DEF At
    <2> QED BY <2>1, <2>2, <1>1
  <1>4. closers \in SUBSET Nat
    BY <1>3
  <1> HIDE DEF closers
  <1>5. closers # {} => Min(closers) \in closers
    BY <1>4, MinOf
  <1>6. closers # {} => Min(closers) \in Nat /\ r + n + 2 <= Min(closers) /\ Min(closers) + n <= Len(source)
    BY <1>3, <1>5
  <1>7. RawEnd(source, r) \in i + 1 .. Len(source) + 1
    BY <1>1, <1>2, <1>6
  <1> QED
    BY <1>7 DEF r

-----------------------------------------------------------------------------
(* What is hidden, and what is shown. *)

\* The cases of HiddenTo exclude each other.
LEMMA HiddenToCases ==
  ASSUME NEW source \in Seq(Token), NEW i \in 1 .. Len(source)
  PROVE  LET char(open) == IF CharEnd(source, open) = 0 THEN i ELSE CharEnd(source, open) IN
         /\ Starts(source, i, "/", "/") => HiddenTo(source, i) = LineCommentEnd(source, i)
         /\ Starts(source, i, "/", "*") => HiddenTo(source, i) = BlockCommentEnd(source, i)
         /\ RawPrefix(source, i) # 0 => HiddenTo(source, i) = RawEnd(source, RawPrefix(source, i))
         /\ Starts(source, i, "b", DoubleQuote) \/ Starts(source, i, "c", DoubleQuote)
              => HiddenTo(source, i) = QuotedEnd(source, i + 1)
         /\ source[i] \in {DoubleQuote, Backtick} => HiddenTo(source, i) = QuotedEnd(source, i)
         /\ Starts(source, i, "b", SingleQuote) => HiddenTo(source, i) = char(i + 1)
         /\ source[i] = SingleQuote => HiddenTo(source, i) = char(i)
         /\ \/ Starts(source, i, "/", "/") \/ Starts(source, i, "/", "*")
            \/ RawPrefix(source, i) # 0
            \/ Starts(source, i, "b", DoubleQuote) \/ Starts(source, i, "c", DoubleQuote)
            \/ source[i] \in {DoubleQuote, Backtick, SingleQuote}
            \/ Starts(source, i, "b", SingleQuote)
            \/ HiddenTo(source, i) = i
  <1> DEFINE char(open) == IF CharEnd(source, open) = 0 THEN i ELSE CharEnd(source, open)
             a == source[i]
             next == At(source, i + 1)
             raw == RawPrefix(source, i)
  <1>1. \A x, y : Starts(source, i, x, y) <=> a = x /\ next = y
    BY DEF Starts, At
  <1>2. raw # 0 => a = "r" \/ (a \in {"b", "c"} /\ next = "r")
    BY RawPrefixOpens
  <1>3. HiddenTo(source, i) =
          CASE a = "/" /\ next = "/" -> LineCommentEnd(source, i)
            [] a = "/" /\ next = "*" -> BlockCommentEnd(source, i)
            [] raw # 0 -> RawEnd(source, raw)
            [] (a = "b" /\ next = DoubleQuote) \/ (a = "c" /\ next = DoubleQuote) -> QuotedEnd(source, i + 1)
            [] a \in {DoubleQuote, Backtick} -> QuotedEnd(source, i)
            [] a = "b" /\ next = SingleQuote -> char(i + 1)
            [] a = SingleQuote -> char(i)
            [] OTHER -> i
    BY <1>1 DEF HiddenTo
  <1>4. next \in Token \cup {"end"}
    BY DEF At, Token
  <1> HIDE DEF char, a, next, raw
  <1>5. a = "/" /\ next = "/" => HiddenTo(source, i) = LineCommentEnd(source, i)
    BY <1>2, <1>3 DEF DoubleQuote, SingleQuote, Backtick
  <1>6. a = "/" /\ next = "*" => HiddenTo(source, i) = BlockCommentEnd(source, i)
    BY <1>2, <1>3 DEF DoubleQuote, SingleQuote, Backtick
  <1>7. raw # 0 => HiddenTo(source, i) = RawEnd(source, raw)
    BY <1>2, <1>3 DEF DoubleQuote, SingleQuote, Backtick
  <1>8. a \in {"b", "c"} /\ next = DoubleQuote => HiddenTo(source, i) = QuotedEnd(source, i + 1)
    BY <1>2, <1>3 DEF DoubleQuote, SingleQuote, Backtick
  <1>9. a \in {DoubleQuote, Backtick} => HiddenTo(source, i) = QuotedEnd(source, i)
    BY <1>2, <1>3 DEF DoubleQuote, SingleQuote, Backtick
  <1>10. a = "b" /\ next = SingleQuote => HiddenTo(source, i) = char(i + 1)
    BY <1>2, <1>3 DEF DoubleQuote, SingleQuote, Backtick
  <1>11. a = SingleQuote => HiddenTo(source, i) = char(i)
    BY <1>2, <1>3 DEF DoubleQuote, SingleQuote, Backtick
  <1>12. \/ a = "/" /\ next = "/"
         \/ a = "/" /\ next = "*"
         \/ raw # 0
         \/ a \in {"b", "c"} /\ next = DoubleQuote
         \/ a \in {DoubleQuote, Backtick, SingleQuote}
         \/ a = "b" /\ next = SingleQuote
         \/ HiddenTo(source, i) = i
    BY <1>3
  <1> QED
    BY <1>1, <1>5, <1>6, <1>7, <1>8, <1>9, <1>10, <1>11, <1>12 DEF a, next, raw, char

\* Whatever the language hides from i to j, the scanner does.
LEMMA HiddenToIs ==
  ASSUME NEW source \in Seq(Token), NEW i \in 1 .. Len(source), NEW j \in i + 1 .. Len(source) + 1,
         ReadsHidden(source, i, j)
  PROVE  HiddenTo(source, i) = j
  <1>1. CASE IsLineComment(source, i, j)
    <2>1. Starts(source, i, "/", "/")
      BY <1>1 DEF IsLineComment
    <2>2. LineCommentEnd(source, i) = j
      BY <1>1, LineCommentEnds
    <2> QED BY <2>1, <2>2, HiddenToCases
  <1>2. CASE NestedComment(source, i, j)
    <2>1. Starts(source, i, "/", "*")
      BY <1>2 DEF NestedComment
    <2>2. BlockCommentEnd(source, i) = j
      BY <1>2, BlockCommentEnds
    <2> QED BY <2>1, <2>2, HiddenToCases
  <1>3. CASE IsRawString(source, i, j)
    <2>1. RawPrefix(source, i) # 0 /\ RawEnd(source, RawPrefix(source, i)) = j
      BY <1>3, RawEnds
    <2> QED BY <2>1, HiddenToCases
  <1>4. CASE source[i] \in {DoubleQuote, Backtick} /\ IsQuoted(source, i, j)
    <2>1. QuotedEnd(source, i) = j
      BY <1>4, QuotedEnds
    <2> QED BY <1>4, <2>1, HiddenToCases
  <1>5. ASSUME NEW prefix \in {"b", "c"}, Starts(source, i, prefix, DoubleQuote), IsQuoted(source, i + 1, j)
        PROVE  HiddenTo(source, i) = j
    <2>1. i + 1 \in 1 .. Len(source)
      <3>1. DoubleQuote # "end" /\ prefix # "end"
        BY DEF DoubleQuote
      <3> QED BY <1>5, <3>1, StartsAt
    <2>2. j \in (i + 1) + 1 .. Len(source) + 1
      BY <1>5 DEF IsQuoted
    <2>3. QuotedEnd(source, i + 1) = j
      BY <1>5, <2>1, <2>2, QuotedEnds
    <2>4. Starts(source, i, "b", DoubleQuote) \/ Starts(source, i, "c", DoubleQuote)
      BY <1>5
    <2> QED BY <2>3, <2>4, HiddenToCases
  <1>6. CASE source[i] = SingleQuote /\ IsQuoted(source, i, j) /\ OnOneLine(source, i, j)
    <2>1. CharEnd(source, i) = j /\ j # 0
      BY <1>6, CharEnds
    <2> QED BY <1>6, <2>1, HiddenToCases
  <1>7. CASE Starts(source, i, "b", SingleQuote) /\ IsQuoted(source, i + 1, j) /\ OnOneLine(source, i, j)
    <2>1. i + 1 \in 1 .. Len(source)
      <3>1. SingleQuote # "end"
        BY DEF SingleQuote
      <3> QED BY <1>7, <3>1, StartsAt
    <2>2. j \in (i + 1) + 1 .. Len(source) + 1 /\ OnOneLine(source, i + 1, j)
      BY <1>7 DEF IsQuoted, OnOneLine
    <2>3. CharEnd(source, i + 1) = j /\ j # 0
      BY <1>7, <2>1, <2>2, CharEnds
    <2> QED BY <1>7, <2>3, HiddenToCases
  <1> QED
    BY <1>1, <1>2, <1>3, <1>4, <1>5, <1>6, <1>7 DEF ReadsHidden

\* The scanner hides nothing where the language has code.
LEMMA CodeIsShown ==
  ASSUME NEW source \in Seq(Token), NEW i \in 1 .. Len(source), ReadsCode(source, i)
  PROVE  HiddenTo(source, i) = i
  <1>1. RawPrefix(source, i) = 0
    <2>1. ASSUME RawPrefix(source, i) # 0 PROVE FALSE
      <3>1. /\ RawPrefix(source, i) \in {i, i + 1}
            /\ Hashes(source, RawPrefix(source, i) + 1) \in 0 .. Len(source)
            /\ RawOpens(source, i, RawPrefix(source, i), Hashes(source, RawPrefix(source, i) + 1))
        BY <2>1, RawPrefixOpens
      <3> QED BY <3>1 DEF ReadsCode
    <2> QED BY <2>1
  <1>2. source[i] \notin {DoubleQuote, Backtick}
    BY DEF ReadsCode
  <1>3. ~Starts(source, i, "/", "/") /\ ~Starts(source, i, "/", "*")
    BY DEF ReadsCode
  <1>4. ~Starts(source, i, "b", DoubleQuote) /\ ~Starts(source, i, "c", DoubleQuote)
    BY DEF ReadsCode
  <1>5. CASE source[i] = SingleQuote
    <2>1. CharEnd(source, i) = 0
      BY <1>5, LifetimeHasNoEnd DEF ReadsCode
    <2> QED BY <1>5, <2>1, HiddenToCases
  <1>6. CASE Starts(source, i, "b", SingleQuote)
    <2>1. i + 1 \in 1 .. Len(source) /\ source[i + 1] = SingleQuote
      <3>1. SingleQuote # "end"
        BY DEF SingleQuote
      <3> QED BY <1>6, <3>1, StartsAt
    <2>2. CharEnd(source, i + 1) = 0
      BY <1>6, <2>1, LifetimeHasNoEnd DEF ReadsCode
    <2> QED BY <1>6, <2>2, HiddenToCases
  <1>7. CASE source[i] # SingleQuote /\ ~Starts(source, i, "b", SingleQuote)
    <2>1. \/ Starts(source, i, "/", "/") \/ Starts(source, i, "/", "*")
          \/ RawPrefix(source, i) # 0
          \/ Starts(source, i, "b", DoubleQuote) \/ Starts(source, i, "c", DoubleQuote)
          \/ source[i] \in {DoubleQuote, Backtick, SingleQuote}
          \/ Starts(source, i, "b", SingleQuote)
          \/ HiddenTo(source, i) = i
      BY HiddenToCases
    <2> QED BY <2>1, <1>1, <1>2, <1>3, <1>4, <1>7
  <1> QED
    BY <1>5, <1>6, <1>7

\* What is hidden goes on from where it starts and stays within the source.
LEMMA HiddenToBounds ==
  ASSUME NEW source \in Seq(Token), NEW i \in 1 .. Len(source)
  PROVE  HiddenTo(source, i) \in i .. Len(source) + 1
  <1>1. LineCommentEnd(source, i) \in i .. Len(source) + 1
    BY LineEnds
  <1>2. BlockCommentEnd(source, i) \in i .. Len(source) + 1
    BY BlockEndBounds
  <1>3. RawPrefix(source, i) # 0 => RawEnd(source, RawPrefix(source, i)) \in i + 1 .. Len(source) + 1
    BY RawEndBounds
  <1>4. QuotedEnd(source, i) \in i + 1 .. Len(source) + 1
    BY QuotedEndBounds
  <1>5. CharEnd(source, i) # 0 => CharEnd(source, i) \in i + 1 .. Len(source) + 1
    BY QuotedEndBounds
  <1>6. ASSUME i + 1 \in 1 .. Len(source)
        PROVE  /\ QuotedEnd(source, i + 1) \in i .. Len(source) + 1
               /\ CharEnd(source, i + 1) # 0 => CharEnd(source, i + 1) \in i .. Len(source) + 1
    <2>1. QuotedEnd(source, i + 1) \in (i + 1) + 1 .. Len(source) + 1
      BY <1>6, QuotedEndBounds
    <2>2. CharEnd(source, i + 1) # 0 => CharEnd(source, i + 1) \in (i + 1) + 1 .. Len(source) + 1
      BY <1>6, QuotedEndBounds
    <2> QED BY <2>1, <2>2
  <1>7. Starts(source, i, "b", DoubleQuote) \/ Starts(source, i, "c", DoubleQuote) => i + 1 \in 1 .. Len(source)
    <2>1. DoubleQuote # "end"
      BY DEF DoubleQuote
    <2> QED BY <2>1, StartsAt
  <1>8. Starts(source, i, "b", SingleQuote) => i + 1 \in 1 .. Len(source)
    <2>1. SingleQuote # "end"
      BY DEF SingleQuote
    <2> QED BY <2>1, StartsAt
  <1>9. CASE Starts(source, i, "/", "/")
    BY <1>1, <1>9, HiddenToCases
  <1>10. CASE Starts(source, i, "/", "*")
    BY <1>2, <1>10, HiddenToCases
  <1>11. CASE RawPrefix(source, i) # 0
    <2>1. HiddenTo(source, i) = RawEnd(source, RawPrefix(source, i))
      BY <1>11, HiddenToCases
    <2> QED BY <2>1, <1>3, <1>11
  <1>12. CASE Starts(source, i, "b", DoubleQuote) \/ Starts(source, i, "c", DoubleQuote)
    BY <1>6, <1>7, <1>12, HiddenToCases
  <1>13. CASE source[i] \in {DoubleQuote, Backtick}
    <2>1. HiddenTo(source, i) = QuotedEnd(source, i)
      BY <1>13, HiddenToCases
    <2> QED BY <2>1, <1>4
  <1>14. CASE source[i] = SingleQuote
    <2>1. HiddenTo(source, i) = IF CharEnd(source, i) = 0 THEN i ELSE CharEnd(source, i)
      BY <1>14, HiddenToCases
    <2> QED BY <2>1, <1>5
  <1>15. CASE Starts(source, i, "b", SingleQuote)
    <2>1. HiddenTo(source, i) = IF CharEnd(source, i + 1) = 0 THEN i ELSE CharEnd(source, i + 1)
      BY <1>15, HiddenToCases
    <2> QED BY <2>1, <1>6, <1>8, <1>15
  <1>16. CASE HiddenTo(source, i) = i
    BY <1>16
  <1>17. \/ Starts(source, i, "/", "/") \/ Starts(source, i, "/", "*")
         \/ RawPrefix(source, i) # 0
         \/ Starts(source, i, "b", DoubleQuote) \/ Starts(source, i, "c", DoubleQuote)
         \/ source[i] \in {DoubleQuote, Backtick, SingleQuote}
         \/ Starts(source, i, "b", SingleQuote)
         \/ HiddenTo(source, i) = i
    BY HiddenToCases
  <1> QED
    BY <1>9, <1>10, <1>11, <1>12, <1>13, <1>14, <1>15, <1>16, <1>17

\* Where the piece that starts at i ends.
PieceEnd(source, i) == IF HiddenTo(source, i) = i THEN i + 1 ELSE HiddenTo(source, i)

\* The equation of the function in Masked.
MaskEq(source, f) ==
  f = [i \in 1 .. Len(source) + 1 |->
        IF i > Len(source) THEN <<>>
        ELSE IF HiddenTo(source, i) = i THEN <<source[i]>> \o f[i + 1]
        ELSE Blanked(SubSeq(source, i, HiddenTo(source, i) - 1)) \o f[HiddenTo(source, i)]]

\* What is shown of the piece that starts at i.
PieceShown(source, i) ==
  IF HiddenTo(source, i) = i THEN <<source[i]>> ELSE Blanked(SubSeq(source, i, HiddenTo(source, i) - 1))

\* A piece is not empty, lies within the source, and is shown in its own length.
LEMMA PieceBounds ==
  ASSUME NEW source \in Seq(Token), NEW i \in 1 .. Len(source)
  PROVE  /\ PieceEnd(source, i) \in i + 1 .. Len(source) + 1
         /\ PieceShown(source, i) \in Seq(Token)
         /\ Len(PieceShown(source, i)) = PieceEnd(source, i) - i
         /\ HiddenTo(source, i) # i =>
              \A m \in i .. PieceEnd(source, i) - 1 : PieceShown(source, i)[m - i + 1] = Blank(source[m])
         /\ HiddenTo(source, i) = i => PieceShown(source, i)[1] = source[i]
  <1>1. HiddenTo(source, i) \in i .. Len(source) + 1
    BY HiddenToBounds
  <1> DEFINE h == HiddenTo(source, i)
             text == SubSeq(source, i, h - 1)
  <1>2. CASE h = i
    <2>1. source[i] \in Token
      OBVIOUS
    <2> QED BY <1>1, <1>2, <2>1 DEF PieceEnd, PieceShown
  <1>3. CASE h # i
    <2>1. h \in i + 1 .. Len(source) + 1
      BY <1>1, <1>3
    <2> HIDE DEF h
    <2>2. /\ text \in Seq(Token) /\ Len(text) = h - i
          /\ \A k \in 1 .. h - i : text[k] = source[i + k - 1]
      BY <2>1
    <2> HIDE DEF text
    <2>3. DOMAIN text = 1 .. h - i
      BY <2>2
    <2>4. ASSUME NEW k \in DOMAIN text PROVE Blank(text[k]) \in Token
      <3>1. "newline" \in Token /\ " " \in Token
        BY DEF Token, Punctuation, Newline, Space
      <3> QED BY <3>1 DEF Blank, Newline, Space
    <2>5. /\ Blanked(text) \in Seq(Token)
          /\ Len(Blanked(text)) = h - i
          /\ \A k \in 1 .. h - i : Blanked(text)[k] = Blank(source[i + k - 1])
      <3> DEFINE b == [k \in 1 .. h - i |-> Blank(text[k])]
      <3>1. Blanked(text) = b
        BY <2>3 DEF Blanked
      <3>2. h - i \in Nat
        BY <2>1
      <3>3. b \in [1 .. h - i -> Token]
        BY <2>3, <2>4
      <3>4. b \in Seq(Token) /\ Len(b) = h - i
        BY <3>2, <3>3
      <3>5. \A k \in 1 .. h - i : b[k] = Blank(source[i + k - 1])
        BY <2>2
      <3> HIDE DEF b
      <3> QED BY <3>1, <3>4, <3>5
    <2>6. ASSUME NEW m \in i .. h - 1 PROVE Blanked(text)[m - i + 1] = Blank(source[m])
      <3>1. m - i + 1 \in 1 .. h - i /\ i + (m - i + 1) - 1 = m
        BY <2>1
      <3> QED BY <3>1, <2>5
    <2>7. PieceEnd(source, i) = h /\ PieceShown(source, i) = Blanked(text)
      BY <1>3 DEF PieceEnd, PieceShown, h, text
    <2>8. HiddenTo(source, i) # i
      BY <1>3 DEF h
    <2> QED BY <2>1, <2>5, <2>6, <2>7, <2>8
  <1> QED BY <1>2, <1>3

\* The function in Masked is defined, and puts pieces one after another.
LEMMA MaskFn ==
  ASSUME NEW source \in Seq(Token)
  PROVE  \E f \in [1 .. Len(source) + 1 -> Seq(Token)] :
           /\ Masked(source) = f[1]
           /\ f[Len(source) + 1] = <<>>
           /\ \A i \in 1 .. Len(source) : f[i] = PieceShown(source, i) \o f[PieceEnd(source, i)]
  <1> DEFINE n == Len(source)
             I == 1 .. n + 1
             V == Seq(Token)
             size == [i \in I |-> n + 1 - i]
             next == [i \in I |-> IF i = n + 1 THEN i ELSE PieceEnd(source, i)]
             base == [i \in I |-> <<>>]
             step == [q \in I \X V |-> IF q[1] = n + 1 THEN <<>> ELSE PieceShown(source, q[1]) \o q[2]]
  <1>1. n \in Nat
    OBVIOUS
  <1>2. ASSUME NEW i \in I, i # n + 1
        PROVE  PieceEnd(source, i) \in i + 1 .. n + 1 /\ PieceShown(source, i) \in V
    <2>1. i \in 1 .. Len(source)
      BY <1>2
    <2> QED BY <2>1, PieceBounds
  <1> HIDE DEF n
  <1>3. size \in [I -> Nat] /\ base \in [I -> V]
    <2>1. <<>> \in V
      OBVIOUS
    <2> HIDE DEF V
    <2> QED BY <1>1, <2>1
  <1>4. next \in [I -> I]
    <2>1. ASSUME NEW i \in I PROVE (IF i = n + 1 THEN i ELSE PieceEnd(source, i)) \in I
      BY <1>1, <1>2
    <2> HIDE DEF I
    <2> QED BY <2>1
  <1>5. step \in [I \X V -> V]
    <2>1. ASSUME NEW q \in I \X V
          PROVE (IF q[1] = n + 1 THEN <<>> ELSE PieceShown(source, q[1]) \o q[2]) \in V
      <3>1. q[1] \in I /\ q[2] \in V
        OBVIOUS
      <3>2. q[1] # n + 1 => PieceShown(source, q[1]) \o q[2] \in V
        BY <3>1, <1>2
      <3> QED BY <3>2
    <2> HIDE DEF V, I
    <2> QED BY <2>1
  <1>6. ASSUME NEW i \in I, size[i] # 0 PROVE size[next[i]] < size[i]
    <2>1. i # n + 1
      BY <1>1, <1>6
    <2>2. next[i] \in i + 1 .. n + 1 /\ next[i] \in I
      BY <2>1, <1>1, <1>2
    <2> HIDE DEF next
    <2> QED BY <1>1, <2>2
  <1>7. PICK g : Solution(g, I, V, size, next, base, step)
    <2> HIDE DEF I, V, size, next, base, step
    <2>1. Descends(I, V, size, next, base, step)
      BY <1>3, <1>4, <1>5, <1>6 DEF Descends
    <2> QED BY <2>1, Recursion
  <1>8. g \in [I -> V] /\ \A i \in I : g[i] = IF size[i] = 0 THEN base[i] ELSE step[<<i, g[next[i]]>>]
    <2> HIDE DEF I, V, size, next, base, step
    <2> QED BY <1>7 DEF Solution
  <1>9. g[n + 1] = <<>>
    <2>1. n + 1 \in I /\ size[n + 1] = 0 /\ base[n + 1] = <<>>
      BY <1>1
    <2> HIDE DEF I, size, base, step, next
    <2> QED BY <2>1, <1>8
  <1>10. ASSUME NEW i \in I, i # n + 1 PROVE g[i] = PieceShown(source, i) \o g[PieceEnd(source, i)]
    <2>1. size[i] # 0
      BY <1>10, <1>1
    <2>2. next[i] = PieceEnd(source, i) /\ next[i] \in I
      BY <1>10, <1>4
    <2>3. g[next[i]] \in V
      BY <2>2, <1>8
    <2>4. ASSUME NEW v \in V PROVE step[<<i, v>>] = PieceShown(source, i) \o v
      BY <1>10
    <2> HIDE DEF size, base, step, next, V, I
    <2>5. g[i] = step[<<i, g[next[i]]>>]
      BY <2>1, <1>8
    <2> QED BY <2>2, <2>3, <2>4, <2>5
  <1>11. ASSUME NEW i \in I
         PROVE  g[i] = IF i > n THEN <<>>
                       ELSE IF HiddenTo(source, i) = i THEN <<source[i]>> \o g[i + 1]
                       ELSE Blanked(SubSeq(source, i, HiddenTo(source, i) - 1)) \o g[HiddenTo(source, i)]
    <2>1. i \in Nat /\ (i > n <=> i = n + 1)
      BY <1>1
    <2> HIDE DEF I
    <2> QED BY <2>1, <1>9, <1>10 DEF PieceEnd, PieceShown
  <1>12. g = [i \in I |-> g[i]]
    <2> HIDE DEF I, V
    <2> QED BY <1>8
  <1>13. MaskEq(source, g)
    BY <1>11, <1>12 DEF MaskEq, n
  <1> DEFINE M == CHOOSE f : MaskEq(source, f)
  <1>14. MaskEq(source, M)
    BY <1>13
  <1>15. Masked(source) = M[1]
    BY DEF Masked, MaskEq
  \* There is only one such function, so what is known of g is known of it.
  <1>16. M = g
    <2> HIDE DEF M
    <2>1. M = [i \in 1 .. Len(source) + 1 |->
        IF i > Len(source) THEN <<>>
        ELSE IF HiddenTo(source, i) = i THEN <<source[i]>> \o M[i + 1]
        ELSE Blanked(SubSeq(source, i, HiddenTo(source, i) - 1)) \o M[HiddenTo(source, i)]]
      BY <1>14 DEF MaskEq
    <2>2. ASSUME NEW i \in I
          PROVE  /\ i = n + 1 => M[i] = <<>>
                 /\ i # n + 1 => M[i] = PieceShown(source, i) \o M[PieceEnd(source, i)]
      <3>1. i \in Nat /\ (i > n <=> i = n + 1)
        BY <1>1
      <3>2. M[i] = IF i > n THEN <<>>
        ELSE IF HiddenTo(source, i) = i THEN <<source[i]>> \o M[i + 1]
        ELSE Blanked(SubSeq(source, i, HiddenTo(source, i) - 1)) \o M[HiddenTo(source, i)]
        BY <2>1 DEF n
      <3> QED BY <3>1, <3>2 DEF PieceEnd, PieceShown
    <2> DEFINE T == {k \in Nat : \A i \in I : n + 1 - i = k => M[i] = g[i]}
    <2>3. ASSUME NEW k \in Nat, \A m \in Nat : m < k => m \in T PROVE k \in T
      <3> SUFFICES ASSUME NEW i \in I, n + 1 - i = k PROVE M[i] = g[i]
        OBVIOUS
      <3>1. CASE i = n + 1
        BY <3>1, <2>2, <1>9
      <3>2. CASE i # n + 1
        <4>1. PieceEnd(source, i) \in i + 1 .. n + 1 /\ PieceEnd(source, i) \in I
          BY <3>2, <1>1, <1>2
        <4>2. n + 1 - PieceEnd(source, i) \in Nat /\ n + 1 - PieceEnd(source, i) < k
          BY <4>1, <1>1
        <4>3. M[PieceEnd(source, i)] = g[PieceEnd(source, i)]
          BY <4>1, <4>2, <2>3
        <4> HIDE DEF I
        <4> QED BY <3>2, <4>3, <2>2, <1>10
      <3> QED BY <3>1, <3>2
    <2>4. T = Nat
      <3>1. T \in SUBSET Nat
        OBVIOUS
      <3> HIDE DEF T
      <3> QED BY <2>3, <3>1, StrongInduction
    <2>5. ASSUME NEW i \in I PROVE M[i] = g[i]
      <3>1. n + 1 - i \in Nat
        BY <1>1
      <3>2. n + 1 - i \in T
        BY <2>4, <3>1
      <3> QED BY <3>2
    <2>6. M = [i \in I |-> M[i]]
      BY <2>1 DEF n
    <2> HIDE DEF I
    <2> QED BY <2>5, <2>6, <1>12
  <1> HIDE DEF M
  <1>17. \A i \in 1 .. n : i \in I /\ i # n + 1
    BY <1>1
  <1>18. g \in [1 .. Len(source) + 1 -> Seq(Token)]
    BY <1>8 DEF n
  <1> HIDE DEF I, V
  <1> QED
    BY <1>9, <1>10, <1>15, <1>16, <1>17, <1>18 DEF n

\* What the scanner shows of a piece is what the language shows.
LEMMA PieceIsShown ==
  ASSUME NEW source \in Seq(Token), NEW shown \in Seq(Token), NEW at \in Seq(Nat),
         Reads(source, shown, at), NEW k \in 1 .. Len(at) - 1
  PROVE  /\ at[k] \in 1 .. Len(source) /\ at[k + 1] \in at[k] + 1 .. Len(source) + 1
         /\ PieceEnd(source, at[k]) = at[k + 1]
         /\ PieceShown(source, at[k]) \in Seq(Token)
         /\ Len(PieceShown(source, at[k])) = at[k + 1] - at[k]
         /\ \A m \in at[k] .. at[k + 1] - 1 : PieceShown(source, at[k])[m - at[k] + 1] = shown[m]
  <1> DEFINE i == at[k]
             j == at[k + 1]
  <1>1. /\ i \in 1 .. Len(source) /\ j \in i + 1 .. Len(source) + 1
        /\ \/ ReadsHidden(source, i, j) /\ \A m \in i .. j - 1 : shown[m] = Blank(source[m])
           \/ j = i + 1 /\ ReadsCode(source, i) /\ shown[i] = source[i]
    BY DEF Reads
  <1> HIDE DEF i, j
  <1>2. /\ PieceShown(source, i) \in Seq(Token)
        /\ Len(PieceShown(source, i)) = PieceEnd(source, i) - i
        /\ HiddenTo(source, i) # i =>
              \A m \in i .. PieceEnd(source, i) - 1 : PieceShown(source, i)[m - i + 1] = Blank(source[m])
        /\ HiddenTo(source, i) = i => PieceShown(source, i)[1] = source[i]
    BY <1>1, PieceBounds
  <1>3. CASE ReadsHidden(source, i, j) /\ \A m \in i .. j - 1 : shown[m] = Blank(source[m])
    <2>1. HiddenTo(source, i) = j
      BY <1>1, <1>3, HiddenToIs
    <2>2. PieceEnd(source, i) = j /\ HiddenTo(source, i) # i
      BY <1>1, <2>1 DEF PieceEnd
    <2> QED BY <1>1, <1>2, <1>3, <2>2 DEF i, j
  <1>4. CASE j = i + 1 /\ ReadsCode(source, i) /\ shown[i] = source[i]
    <2>1. HiddenTo(source, i) = i
      BY <1>1, <1>4, CodeIsShown
    <2>2. PieceEnd(source, i) = j
      BY <1>4, <2>1 DEF PieceEnd
    <2>3. \A m \in i .. j - 1 : m = i /\ m - i + 1 = 1
      BY <1>1, <1>4
    <2> QED BY <1>1, <1>2, <1>4, <2>1, <2>2, <2>3 DEF i, j
  <1> QED BY <1>1, <1>3, <1>4

\* Masked shows exactly what the language shows: strip_comments_and_literals.
LEMMA MaskIsShown ==
  ASSUME NEW source \in Seq(Token), NEW shown \in Seq(Token), NEW at \in Seq(Nat),
         Reads(source, shown, at)
  PROVE  Masked(source) = shown
  <1>1. PICK f \in [1 .. Len(source) + 1 -> Seq(Token)] :
           /\ Masked(source) = f[1]
           /\ f[Len(source) + 1] = <<>>
           /\ \A i \in 1 .. Len(source) : f[i] = PieceShown(source, i) \o f[PieceEnd(source, i)]
    BY MaskFn
  <1> DEFINE n == Len(source)
             last == Len(at)
  <1>2. n \in Nat /\ last \in Nat /\ last # 0 /\ at[1] = 1 /\ at[last] = n + 1 /\ Len(shown) = n
    BY DEF Reads
  <1> DEFINE Rest(k) == /\ Len(f[at[k]]) = n + 1 - at[k]
                        /\ \A m \in at[k] .. n : f[at[k]][m - at[k] + 1] = shown[m]
             T == {d \in Nat : \A k \in 1 .. last : last - k = d => Rest(k)}
  <1>3. 0 \in T
    <2> SUFFICES ASSUME NEW k \in 1 .. last, last - k = 0 PROVE Rest(k)
      OBVIOUS
    <2>1. at[k] = n + 1
      BY <1>2
    <2>2. f[at[k]] = <<>>
      BY <1>1, <2>1
    <2>3. at[k] .. n = {} /\ n + 1 - at[k] = 0
      BY <1>2, <2>1
    <2> HIDE DEF n
    <2> QED BY <2>2, <2>3
  <1>4. ASSUME NEW d \in T PROVE d + 1 \in T
    <2> SUFFICES ASSUME NEW k \in 1 .. last, last - k = d + 1 PROVE Rest(k)
      OBVIOUS
    <2>1. k \in 1 .. last - 1 /\ k + 1 \in 1 .. last /\ last - (k + 1) = d
      BY <1>2
    <2>2. Rest(k + 1)
      BY <2>1
    <2> DEFINE i == at[k]
               j == at[k + 1]
               p == PieceShown(source, i)
               g == f[j]
    <2>3. /\ i \in 1 .. Len(source) /\ j \in i + 1 .. Len(source) + 1
          /\ PieceEnd(source, i) = j
          /\ p \in Seq(Token) /\ Len(p) = j - i
          /\ \A m \in i .. j - 1 : p[m - i + 1] = shown[m]
      BY <2>1, PieceIsShown, ZenonT(60)
    <2>4. f[i] = p \o g
      BY <1>1, <2>3
    <2>5. g \in Seq(Token) /\ Len(g) = n + 1 - j /\ \A m \in j .. n : g[m - j + 1] = shown[m]
      <3>1. j \in 1 .. Len(source) + 1
        BY <2>3, SMTT(60)
      <3>2. g \in Seq(Token)
        BY <3>1, <1>1
      <3> QED BY <3>2, <2>2
    <2> HIDE DEF p, g, j, i, n, T, last
    <2>6. Len(p \o g) = n + 1 - i
      <3>1. Len(p \o g) = Len(p) + Len(g)
        BY <2>3, <2>5, ConcatProperties
      <3>2. i \in Int /\ j \in Int
        BY <2>3
      <3> QED BY <3>1, <3>2, <1>2, <2>3, <2>5
    <2>7. ASSUME NEW m \in i .. n PROVE (p \o g)[m - i + 1] = shown[m]
      <3>1. m - i + 1 \in 1 .. Len(p) + Len(g)
        BY <1>2, <2>3, <2>5 DEF n
      <3>2. (p \o g)[m - i + 1] = IF m - i + 1 <= Len(p) THEN p[m - i + 1] ELSE g[m - i + 1 - Len(p)]
        BY <2>3, <2>5, <3>1, ConcatProperties, SMTT(60)
      <3>3. CASE m <= j - 1
        <4>1. m \in i .. j - 1 /\ m - i + 1 <= Len(p)
          BY <3>3, <2>3
        <4> QED BY <4>1, <3>2, <2>3
      <3>4. CASE ~(m <= j - 1)
        <4>1. m \in j .. n /\ ~(m - i + 1 <= Len(p)) /\ m - i + 1 - Len(p) = m - j + 1
          BY <3>4, <2>3, <1>2 DEF n
        <4> QED BY <4>1, <3>2, <2>5
      <3> QED BY <3>3, <3>4
    <2> QED BY <2>4, <2>6, <2>7 DEF i
  <1>5. T = Nat
    <2>1. T \in SUBSET Nat
      OBVIOUS
    <2> HIDE DEF T
    <2> QED BY <1>3, <1>4, <2>1, Induction
  <1>6. Rest(1)
    <2>1. last - 1 \in Nat /\ 1 \in 1 .. last
      BY <1>2
    <2>2. last - 1 \in T
      BY <1>5, <2>1
    <2>3. \A k \in 1 .. last : last - k = last - 1 => Rest(k)
      BY <2>2
    <2> HIDE DEF Rest
    <2> QED BY <2>1, <2>3
  <1>7. Len(f[1]) = n /\ \A m \in 1 .. n : f[1][m] = shown[m]
    <2>1. \A m \in 1 .. n : m - 1 + 1 = m
      BY <1>2
    <2>2. n + 1 - 1 = n
      BY <1>2
    <2> HIDE DEF n
    <2>3. Len(f[at[1]]) = n + 1 - at[1]
      BY <1>6
    <2>4. \A m \in at[1] .. n : f[at[1]][m - at[1] + 1] = shown[m]
      BY <1>6
    <2>5. \A m \in 1 .. n : f[1][m - 1 + 1] = shown[m]
      BY <2>4, <1>2
    <2> QED BY <1>2, <2>1, <2>2, <2>3, <2>5
  <1>8. f[1] \in Seq(Token)
    <2>1. 1 \in 1 .. Len(source) + 1
      BY <1>2
    <2> QED BY <1>1, <2>1
  <1>9. f[1] = shown
    BY <1>2, <1>7, <1>8
  <1> QED BY <1>1, <1>9

-----------------------------------------------------------------------------
(* Walks along a text, which pass over what is in a place that was found. *)

\* A walk along a text of length n from one of the places S to the next: after a place that is
\* closed, on after where it is closed; after another, on where it resumes.
WalkFirst(n, S, i) == Min({h \in S : i <= h} \cup {n + 1})
WalkBody(n, S, closed, good, resume, f, i) ==
  LET h == WalkFirst(n, S, i)
  IN IF h > n THEN {}
     ELSE IF closed[h] = 0 THEN f[resume[h]]
     ELSE (IF h \in good THEN {h} ELSE {}) \cup f[closed[h] + 1]

WalkEq(n, S, closed, good, resume, f) == f = [i \in 1 .. n + 1 |-> WalkBody(n, S, closed, good, resume, f, i)]

\* What a walk from i finds: the good places that are closed and in no other.
WalkFinds(S, closed, good, i) ==
  {h \in S : /\ i <= h /\ closed[h] # 0 /\ h \in good
             /\ \A outer \in S : i <= outer /\ outer < h /\ closed[outer] # 0 => closed[outer] < h}

\* Places are nested, and between a place that is not closed and where the walk resumes is no other.
Walkable(n, S, closed, resume) ==
  /\ n \in Nat /\ S \in SUBSET (1 .. n)
  /\ \A h \in S : closed[h] = 0 \/ closed[h] \in h + 1 .. n
  /\ \A h \in S : closed[h] = 0 => resume[h] \in h + 1 .. n + 1 /\ \A k \in S : h < k => resume[h] <= k
  /\ \A h, k \in S : closed[h] # 0 /\ closed[k] # 0 /\ h < k /\ k <= closed[h] => closed[k] <= closed[h]

\* The first place of a walk is the nearest from i on.
LEMMA WalkFirstIs ==
  ASSUME NEW n \in Nat, NEW S \in SUBSET (1 .. n), NEW i \in 1 .. n + 1
  PROVE  /\ WalkFirst(n, S, i) \in i .. n + 1
         /\ WalkFirst(n, S, i) <= n => WalkFirst(n, S, i) \in S
         /\ \A h \in S : i <= h => WalkFirst(n, S, i) <= h
  <1> DEFINE P == {h \in S : i <= h} \cup {n + 1}
  <1>0. n + 1 \in P /\ \A h \in P : h \in Nat
    OBVIOUS
  <1>1. P \in SUBSET Nat /\ P # {}
    <2> HIDE DEF P
    <2> QED BY <1>0
  <1>2. \A h \in P : h \in i .. n + 1
    OBVIOUS
  <1>3. \A h \in P : h <= n => h \in S
    OBVIOUS
  <1>4. \A h \in S : i <= h => h \in P
    OBVIOUS
  <1>5. WalkFirst(n, S, i) = Min(P)
    BY DEF WalkFirst
  <1> HIDE DEF P
  <1>6. Min(P) \in P /\ \A k \in P : Min(P) <= k
    BY <1>1, MinOf
  <1> QED BY <1>2, <1>3, <1>4, <1>5, <1>6

\* What a walk finds is the place it meets, if that is good, and what it finds from there on.
LEMMA WalkFindsNext ==
  ASSUME NEW n, NEW S, NEW closed, NEW good, NEW resume, Walkable(n, S, closed, resume),
         NEW i \in 1 .. n + 1, NEW h, h = WalkFirst(n, S, i)
  PROVE  /\ h > n => WalkFinds(S, closed, good, i) = {}
         /\ h <= n /\ closed[h] = 0 => WalkFinds(S, closed, good, i) = WalkFinds(S, closed, good, resume[h])
         /\ h <= n /\ closed[h] # 0 =>
              WalkFinds(S, closed, good, i) =
                (IF h \in good THEN {h} ELSE {}) \cup WalkFinds(S, closed, good, closed[h] + 1)
  <1>1. /\ n \in Nat /\ S \in SUBSET (1 .. n)
        /\ \A k \in S : closed[k] = 0 \/ closed[k] \in k + 1 .. n
        /\ \A k \in S : closed[k] = 0 => resume[k] \in k + 1 .. n + 1 /\ \A m \in S : k < m => resume[k] <= m
        /\ \A k, m \in S : closed[k] # 0 /\ closed[m] # 0 /\ k < m /\ m <= closed[k] => closed[m] <= closed[k]
    BY DEF Walkable
  <1>2. /\ h \in i .. n + 1
        /\ h <= n => h \in S
        /\ \A k \in S : i <= k => h <= k
    BY <1>1, WalkFirstIs
  <1>3. \A k \in S : k \in Nat /\ 1 <= k /\ k <= n
    BY <1>1
  <1> DEFINE Inner(j, k) == \A outer \in S : j <= outer /\ outer < k /\ closed[outer] # 0 => closed[outer] < k
  <1>4. \A j : WalkFinds(S, closed, good, j) = {k \in S : j <= k /\ closed[k] # 0 /\ k \in good /\ Inner(j, k)}
    BY DEF WalkFinds
  <1>5. ASSUME h > n PROVE WalkFinds(S, closed, good, i) = {}
    <2>1. \A k \in S : ~(i <= k)
      BY <1>2, <1>3, <1>5, <1>1
    <2> HIDE DEF Inner
    <2> QED BY <2>1, <1>4
  <1>6. ASSUME h <= n, closed[h] = 0
        PROVE WalkFinds(S, closed, good, i) = WalkFinds(S, closed, good, resume[h])
    <2>1. h \in S /\ resume[h] \in h + 1 .. n + 1 /\ \A m \in S : h < m => resume[h] <= m
      BY <1>1, <1>2, <1>6
    <2>2. ASSUME NEW k \in S, closed[k] # 0 PROVE i <= k <=> resume[h] <= k
      <3>1. k # h
        BY <1>6, <2>2
      <3> QED BY <2>1, <3>1, <1>2, <1>3
    <2>3. ASSUME NEW k \in S PROVE Inner(i, k) <=> Inner(resume[h], k)
      BY <2>2
    <2> HIDE DEF Inner
    <2>4. {k \in S : i <= k /\ closed[k] # 0 /\ k \in good /\ Inner(i, k)}
            = {k \in S : resume[h] <= k /\ closed[k] # 0 /\ k \in good /\ Inner(resume[h], k)}
      BY <2>2, <2>3
    <2> QED BY <2>4, <1>4
  <1>7. ASSUME h <= n, closed[h] # 0
        PROVE WalkFinds(S, closed, good, i) =
                (IF h \in good THEN {h} ELSE {}) \cup WalkFinds(S, closed, good, closed[h] + 1)
    <2> DEFINE c == closed[h]
    <2>1. h \in S /\ c \in h + 1 .. n /\ h \in Nat
      BY <1>1, <1>2, <1>3, <1>7
    <2>2. \A k \in S : closed[k] # 0 /\ h < k /\ k <= c => closed[k] <= c /\ closed[k] \in Nat
      BY <1>1, <1>7, <2>1
    <2>3. ASSUME NEW k \in S, i <= k, closed[k] # 0, k \in good, Inner(i, k)
          PROVE  (k = h /\ h \in good) \/ (c + 1 <= k /\ Inner(c + 1, k))
      <3>1. h <= k
        BY <1>2, <2>3
      <3>2. CASE k = h
        BY <3>2, <2>3
      <3>3. CASE k # h
        <4>1. h < k /\ i <= h
          BY <3>1, <3>3, <2>1, <1>3, <1>2
        <4>2. c < k
          BY <4>1, <2>1, <2>3, <1>7
        <4>3. c + 1 <= k
          BY <4>2, <2>1, <1>3
        <4>4. ASSUME NEW outer \in S, c + 1 <= outer, outer < k, closed[outer] # 0 PROVE closed[outer] < k
          <5>1. i <= outer
            BY <4>4, <4>1, <2>1, <1>3
          <5> QED BY <5>1, <4>4, <2>3
        <4> QED BY <4>3, <4>4
      <3> QED BY <3>2, <3>3
    <2>4. ASSUME h \in good PROVE i <= h /\ Inner(i, h)
      <3>1. i <= h
        BY <1>2
      <3>2. \A outer \in S : i <= outer => ~(outer < h)
        BY <1>2, <1>3, <2>1
      <3> QED BY <3>1, <3>2
    <2>5. ASSUME NEW k \in S, c + 1 <= k, closed[k] # 0, Inner(c + 1, k) PROVE i <= k /\ Inner(i, k)
      <3>1. i <= k
        BY <2>5, <2>1, <1>2, <1>3
      <3>2. ASSUME NEW outer \in S, i <= outer, outer < k, closed[outer] # 0 PROVE closed[outer] < k
        <4>1. h <= outer /\ outer \in Nat /\ k \in Nat
          BY <1>2, <3>2, <1>3
        <4>2. CASE outer = h
          BY <4>2, <4>1, <2>1, <2>5
        <4>3. CASE h < outer /\ outer <= c
          BY <4>1, <4>3, <3>2, <2>1, <2>2, <2>5
        <4>4. CASE c + 1 <= outer
          BY <4>4, <3>2, <2>5
        <4> QED BY <4>1, <4>2, <4>3, <4>4, <2>1
      <3> QED BY <3>1, <3>2
    <2> HIDE DEF Inner, c
    <2>6. {k \in S : i <= k /\ closed[k] # 0 /\ k \in good /\ Inner(i, k)}
            = (IF h \in good THEN {h} ELSE {})
              \cup {k \in S : c + 1 <= k /\ closed[k] # 0 /\ k \in good /\ Inner(c + 1, k)}
      BY <2>1, <2>3, <2>4, <2>5, <1>7
    <2> QED BY <2>6, <1>4 DEF c
  <1> QED BY <1>5, <1>6, <1>7

\* The recursion of a walk has a solution, and every solution finds just what a walk finds.
LEMMA WalkIs ==
  ASSUME NEW n, NEW S, NEW closed, NEW good, NEW resume, Walkable(n, S, closed, resume)
  PROVE  /\ \E f : WalkEq(n, S, closed, good, resume, f)
         /\ \A f : WalkEq(n, S, closed, good, resume, f) => f[1] = WalkFinds(S, closed, good, 1)
  <1>1. /\ n \in Nat /\ S \in SUBSET (1 .. n)
        /\ \A k \in S : closed[k] = 0 \/ closed[k] \in k + 1 .. n
        /\ \A k \in S : closed[k] = 0 => resume[k] \in k + 1 .. n + 1
    BY DEF Walkable
  <1> DEFINE F(i) == WalkFinds(S, closed, good, i)
             I == 1 .. n + 1
             found == [i \in I |-> F(i)]
             first(i) == WalkFirst(n, S, i)
  <1>2. ASSUME NEW i \in I
        PROVE  /\ first(i) \in i .. n + 1
               /\ first(i) <= n => first(i) \in S
    BY <1>1, WalkFirstIs
  <1>3. ASSUME NEW i \in I
        PROVE  /\ first(i) > n => F(i) = {}
               /\ first(i) <= n /\ closed[first(i)] = 0 => F(i) = F(resume[first(i)])
               /\ first(i) <= n /\ closed[first(i)] # 0 =>
                    F(i) = (IF first(i) \in good THEN {first(i)} ELSE {}) \cup F(closed[first(i)] + 1)
    BY WalkFindsNext
  <1>4. ASSUME NEW i \in I
        PROVE  /\ first(i) <= n /\ closed[first(i)] = 0 => resume[first(i)] \in i + 1 .. n + 1
               /\ first(i) <= n /\ closed[first(i)] # 0 => closed[first(i)] + 1 \in i + 1 .. n + 1
    <2>1. first(i) \in i .. n + 1 /\ (first(i) <= n => first(i) \in S)
      BY <1>2
    <2> HIDE DEF first
    <2>2. ASSUME first(i) <= n, closed[first(i)] = 0 PROVE resume[first(i)] \in i + 1 .. n + 1
      <3>1. resume[first(i)] \in first(i) + 1 .. n + 1
        BY <2>1, <2>2, <1>1
      <3> QED BY <2>1, <3>1, <1>1
    <2>3. ASSUME first(i) <= n, closed[first(i)] # 0 PROVE closed[first(i)] + 1 \in i + 1 .. n + 1
      <3>1. closed[first(i)] \in first(i) + 1 .. n
        BY <2>1, <2>3, <1>1
      <3> QED BY <2>1, <3>1, <1>1
    <2> QED BY <2>2, <2>3
  <1>5. \A i \in I : first(i) \in Nat
    <2>1. \A i \in I : first(i) \in i .. n + 1
      BY <1>2
    <2> HIDE DEF first
    <2> QED BY <2>1, <1>1
  <1> HIDE DEF F, first
  <1>6. WalkEq(n, S, closed, good, resume, found)
    <2>1. ASSUME NEW i \in I PROVE F(i) = WalkBody(n, S, closed, good, resume, found, i)
      <3>1. WalkBody(n, S, closed, good, resume, found, i) =
              IF first(i) > n THEN {}
              ELSE IF closed[first(i)] = 0 THEN found[resume[first(i)]]
              ELSE (IF first(i) \in good THEN {first(i)} ELSE {}) \cup found[closed[first(i)] + 1]
        BY DEF WalkBody, first
      <3>2. CASE first(i) > n
        BY <3>1, <3>2, <1>3
      <3>3. CASE first(i) <= n /\ closed[first(i)] = 0
        <4>1. resume[first(i)] \in I
          BY <3>3, <1>4, <1>1
        <4>2. found[resume[first(i)]] = F(resume[first(i)])
          BY <4>1
        <4>3. ~(first(i) > n)
          BY <3>3, <1>5, <1>1
        <4> HIDE DEF found
        <4> QED BY <3>1, <3>3, <4>2, <4>3, <1>3
      <3>4. CASE first(i) <= n /\ closed[first(i)] # 0
        <4>1. closed[first(i)] + 1 \in I
          BY <3>4, <1>4, <1>1
        <4>2. found[closed[first(i)] + 1] = F(closed[first(i)] + 1)
          BY <4>1
        <4>3. ~(first(i) > n)
          BY <3>4, <1>5, <1>1
        <4> HIDE DEF found
        <4> QED BY <3>1, <3>4, <4>2, <4>3, <1>3
      <3> QED BY <3>2, <3>3, <3>4, <1>5, <1>1
    <2>2. found = [i \in 1 .. n + 1 |-> F(i)]
      OBVIOUS
    <2> HIDE DEF found
    <2> QED BY <2>1, <2>2 DEF WalkEq
  <1>7. ASSUME NEW f, WalkEq(n, S, closed, good, resume, f) PROVE f[1] = F(1)
    <2> DEFINE T == {d \in Nat : \A i \in I : n + 1 - i = d => f[i] = F(i)}
    <2>1. ASSUME NEW i \in I PROVE f[i] = 
              IF first(i) > n THEN {}
              ELSE IF closed[first(i)] = 0 THEN f[resume[first(i)]]
              ELSE (IF first(i) \in good THEN {first(i)} ELSE {}) \cup f[closed[first(i)] + 1]
      BY <1>7 DEF WalkEq, WalkBody, first
    <2>2. ASSUME NEW d \in Nat, \A m \in Nat : m < d => m \in T PROVE d \in T
      <3> SUFFICES ASSUME NEW i \in I, n + 1 - i = d PROVE f[i] = F(i)
        OBVIOUS
      <3>1. ASSUME NEW j \in i + 1 .. n + 1 PROVE f[j] = F(j)
        <4>1. j \in I /\ n + 1 - j \in Nat /\ n + 1 - j < d
          BY <1>1
        <4>2. n + 1 - j \in T
          BY <4>1, <2>2
        <4> QED BY <4>1, <4>2
      <3> HIDE DEF T
      <3>2. CASE first(i) > n
        BY <2>1, <3>2, <1>3
      <3>3. CASE first(i) <= n /\ closed[first(i)] = 0
        <4>1. f[resume[first(i)]] = F(resume[first(i)])
          BY <3>3, <1>4, <3>1
        <4>3. ~(first(i) > n)
          BY <3>3, <1>5, <1>1
        <4> QED BY <2>1, <3>3, <4>1, <4>3, <1>3
      <3>4. CASE first(i) <= n /\ closed[first(i)] # 0
        <4>1. f[closed[first(i)] + 1] = F(closed[first(i)] + 1)
          BY <3>4, <1>4, <3>1
        <4>3. ~(first(i) > n)
          BY <3>4, <1>5, <1>1
        <4> QED BY <2>1, <3>4, <4>1, <4>3, <1>3
      <3> QED BY <3>2, <3>3, <3>4, <1>5, <1>1
    <2>3. T = Nat
      <3>1. T \in SUBSET Nat
        OBVIOUS
      <3> HIDE DEF T
      <3> QED BY <2>2, <3>1, StrongInduction
    <2>4. n \in T /\ 1 \in I /\ n + 1 - 1 = n
      BY <1>1, <2>3
    <2> QED BY <2>4
  <1> QED BY <1>6, <1>7 DEF F

-----------------------------------------------------------------------------
(* Brackets. *)

\* How many of a token stand from a place on.
Count(text, open, k, token) == Cardinality({m \in open .. k : text[m] = token})

\* From one position to the next, the token there is counted.
LEMMA CountNext ==
  ASSUME NEW text \in Seq(Token), NEW open \in 1 .. Len(text), NEW k \in open - 1 .. Len(text) - 1, NEW token
  PROVE  /\ Count(text, open, open - 1, token) = 0
         /\ Count(text, open, k, token) \in Nat
         /\ Count(text, open, k + 1, token) = Count(text, open, k, token) + (IF text[k + 1] = token THEN 1 ELSE 0)
  <1> DEFINE B == {m \in open .. k : text[m] = token}
             C == Cardinality(B)
  <1>1. IsFiniteSet(B)
    <2>1. B \subseteq open .. k
      OBVIOUS
    <2>2. IsFiniteSet(open .. k)
      BY FS_Interval
    <2> HIDE DEF B
    <2> QED BY <2>1, <2>2, FS_Subset
  <1>2. k + 1 \notin B
    OBVIOUS
  <1>3. {m \in open .. k + 1 : text[m] = token} = IF text[k + 1] = token THEN B \cup {k + 1} ELSE B
    <2>1. open .. k + 1 = (open .. k) \cup {k + 1}
      OBVIOUS
    <2> QED BY <2>1
  <1>4. {m \in open .. open - 1 : text[m] = token} = {}
    OBVIOUS
  <1>5. Cardinality({}) = 0
    BY FS_EmptySet
  <1>6. Count(text, open, k + 1, token) = Cardinality(IF text[k + 1] = token THEN B \cup {k + 1} ELSE B)
    BY <1>3 DEF Count
  <1>7. Count(text, open, k, token) = C
    BY DEF Count
  <1>8. C \in Nat /\ Cardinality(B \cup {k + 1}) = C + 1
    <2> HIDE DEF B
    <2> QED BY <1>1, <1>2, FS_AddElement, FS_CardinalityType
  <1>9. Count(text, open, open - 1, token) = 0
    BY <1>4, <1>5 DEF Count
  <1> HIDE DEF B, C
  <1>10. Count(text, open, k + 1, token) = C + (IF text[k + 1] = token THEN 1 ELSE 0)
    BY <1>6, <1>8 DEF C
  <1> QED BY <1>7, <1>8, <1>9, <1>10

\* A bracket opens a level, its closer closes one, and nothing else does.
LEMMA LevelNext ==
  ASSUME NEW text \in Seq(Token), NEW open \in 1 .. Len(text), text[open] \in {"[", "("},
         NEW k \in open .. Len(text)
  PROVE  /\ Level(text, open, open) = 1
         /\ Level(text, open, k) \in Int
         /\ k < Len(text) =>
              Level(text, open, k + 1) = Level(text, open, k) + (IF text[k + 1] = text[open] THEN 1 ELSE 0)
                                           - (IF text[k + 1] = Closer(text[open]) THEN 1 ELSE 0)
  <1> DEFINE a == text[open]
             b == Closer(text[open])
  <1>1. a # b
    BY DEF Closer
  <1>2. \A m : Level(text, open, m) = Count(text, open, m, a) - Count(text, open, m, b)
    BY DEF Level, Count
  <1>3. /\ Count(text, open, open - 1, a) = 0 /\ Count(text, open, open - 1, b) = 0
        /\ Count(text, open, (open - 1) + 1, a) = Count(text, open, open - 1, a) + (IF text[(open - 1) + 1] = a THEN 1 ELSE 0)
        /\ Count(text, open, (open - 1) + 1, b) = Count(text, open, open - 1, b) + (IF text[(open - 1) + 1] = b THEN 1 ELSE 0)
    <2>1. open - 1 \in open - 1 .. Len(text) - 1
      OBVIOUS
    <2> HIDE DEF a, b
    <2> QED BY <2>1, CountNext
  <1>4. (open - 1) + 1 = open
    OBVIOUS
  <1>5. ASSUME k < Len(text)
        PROVE  /\ Count(text, open, k, a) \in Nat /\ Count(text, open, k, b) \in Nat
               /\ Count(text, open, k + 1, a) = Count(text, open, k, a) + (IF text[k + 1] = a THEN 1 ELSE 0)
               /\ Count(text, open, k + 1, b) = Count(text, open, k, b) + (IF text[k + 1] = b THEN 1 ELSE 0)
    <2>1. k \in open - 1 .. Len(text) - 1
      BY <1>5
    <2> HIDE DEF a, b
    <2> QED BY <2>1, CountNext
  <1>6. Count(text, open, k, a) \in Nat /\ Count(text, open, k, b) \in Nat
    <2>1. k - 1 \in open - 1 .. Len(text) - 1 /\ (k - 1) + 1 = k
      OBVIOUS
    <2> HIDE DEF a, b
    <2>2. /\ Count(text, open, k - 1, a) \in Nat
          /\ Count(text, open, (k - 1) + 1, a) = Count(text, open, k - 1, a) + (IF text[(k - 1) + 1] = a THEN 1 ELSE 0)
      BY <2>1, CountNext
    <2>3. /\ Count(text, open, k - 1, b) \in Nat
          /\ Count(text, open, (k - 1) + 1, b) = Count(text, open, k - 1, b) + (IF text[(k - 1) + 1] = b THEN 1 ELSE 0)
      BY <2>1, CountNext
    <2> QED BY <2>1, <2>2, <2>3
  <1>7. Level(text, open, open) = 1
    <2>1. text[open] = a
      OBVIOUS
    <2> HIDE DEF a, b
    <2> QED BY <2>1, <1>1, <1>2, <1>3, <1>4
  <1>8. Level(text, open, k) \in Int
    BY <1>2, <1>6
  <1>9. ASSUME k < Len(text)
        PROVE Level(text, open, k + 1) = Level(text, open, k) + (IF text[k + 1] = a THEN 1 ELSE 0)
                                           - (IF text[k + 1] = b THEN 1 ELSE 0)
    <2> HIDE DEF a, b
    <2> QED BY <1>2, <1>5, <1>9
  <1> QED BY <1>7, <1>8, <1>9

\* Closing finds the bracket that matches, if there is one.
LEMMA ClosingMatches ==
  ASSUME NEW text \in Seq(Token), NEW open \in 1 .. Len(text), text[open] \in {"[", "("}
  PROVE  /\ Closing(text, open) # 0 => Matches(text, open, Closing(text, open))
         /\ \A close : Matches(text, open, close) => Closing(text, open) = close
  <1> DEFINE L(k) == Level(text, open, k)
             n == Len(text)
             balanced == {j \in open .. n : text[j] = Closer(text[open]) /\ L(j) = 0}
             c == Closing(text, open)
  <1>0. n \in Nat /\ open \in Nat
    OBVIOUS
  <1>1. c = IF balanced = {} THEN 0 ELSE Min(balanced)
    <2> DEFINE close == IF text[open] = "[" THEN "]" ELSE ")"
               count(j, token) == Cardinality({k \in open .. j : text[k] = token})
    <2>1. Closer(text[open]) = close
      BY DEF Closer
    <2>2. ASSUME NEW j \in open .. n
          PROVE  L(j) = 0 <=> count(j, text[open]) = count(j, close)
      <3>0. \A token : count(j, token) = Count(text, open, j, token)
        BY DEF Count
      <3>1. ASSUME NEW token PROVE count(j, token) \in Nat
        <4>1. j - 1 \in open - 1 .. Len(text) - 1 /\ (j - 1) + 1 = j
          OBVIOUS
        <4>2. /\ Count(text, open, j - 1, token) \in Nat
              /\ Count(text, open, (j - 1) + 1, token) = Count(text, open, j - 1, token) + (IF text[(j - 1) + 1] = token THEN 1 ELSE 0)
          BY <4>1, CountNext
        <4> HIDE DEF count
        <4> QED BY <3>0, <4>1, <4>2
      <3>2. L(j) = count(j, text[open]) - count(j, close)
        BY <2>1 DEF Level
      <3> HIDE DEF L, count, close
      <3> QED BY <3>1, <3>2
    <2> DEFINE S == {j \in open .. Len(text) : text[j] = close /\ count(j, text[open]) = count(j, close)}
    <2>3. balanced = S
      BY <2>1, <2>2
    <2>4. Closing(text, open) = IF S = {} THEN 0 ELSE Min(S)
      BY DEF Closing
    <2> HIDE DEF S, balanced
    <2> QED BY <2>3, <2>4
  <1>2. balanced \in SUBSET Nat
    <2>1. open .. n \subseteq Nat
      BY <1>0
    <2> QED BY <2>1
  <1>3. ASSUME NEW k \in open .. n
        PROVE  /\ L(open) = 1 /\ L(k) \in Int
               /\ k < n => L(k + 1) = L(k) + (IF text[k + 1] = text[open] THEN 1 ELSE 0)
                                         - (IF text[k + 1] = Closer(text[open]) THEN 1 ELSE 0)
    BY LevelNext
  <1> HIDE DEF L
  <1>4. \A j : j \in balanced <=> j \in open .. n /\ text[j] = Closer(text[open]) /\ L(j) = 0
    OBVIOUS
  <1> HIDE DEF balanced, c
  <1>5. balanced # {} => Min(balanced) \in balanced /\ \A k \in balanced : Min(balanced) <= k
    BY <1>2, MinOf
  <1>6. ASSUME NEW m \in balanced, \A k \in balanced : m <= k
        PROVE  Matches(text, open, m)
    <2>1. m \in open .. n /\ L(m) = 0 /\ m \in Nat
      BY <1>2, <1>4
    <2>2. m # open
      BY <2>1, <1>3
    <2> DEFINE T == {k \in Nat : open <= k /\ k < m => L(k) > 0}
    <2>3. ASSUME NEW k \in T PROVE k + 1 \in T
      <3> SUFFICES ASSUME open <= k + 1, k + 1 < m PROVE L(k + 1) > 0
        OBVIOUS
      <3>1. CASE k + 1 = open
        BY <3>1, <2>1, <1>3
      <3>2. CASE k + 1 # open
        <4>1. k \in open .. n /\ k < m /\ k < n /\ k + 1 \in open .. n
          BY <3>2, <2>1, <1>0
        <4>2. L(k) > 0 /\ L(k) \in Int
          BY <4>1, <1>3
        <4>3. L(k + 1) = L(k) + (IF text[k + 1] = text[open] THEN 1 ELSE 0)
                              - (IF text[k + 1] = Closer(text[open]) THEN 1 ELSE 0)
          BY <4>1, <1>3
        <4>4. L(k + 1) # 0
          <5>1. ASSUME L(k + 1) = 0 PROVE FALSE
            <6>1. text[k + 1] = Closer(text[open])
              BY <4>2, <4>3, <5>1
            <6>2. k + 1 \in balanced
              BY <5>1, <6>1, <4>1, <1>4
            <6>3. m <= k + 1
              BY <6>2, <1>6
            <6> QED BY <6>3, <2>1
          <5> QED BY <5>1
        <4> QED BY <4>2, <4>3, <4>4
      <3> QED BY <3>1, <3>2
    <2>4. T = Nat
      <3>1. 0 \in T
        BY <1>0
      <3>2. T \in SUBSET Nat
        OBVIOUS
      <3> HIDE DEF T
      <3> QED BY <3>1, <3>2, <2>3, Induction
    <2>5. ASSUME NEW k \in open .. m - 1 PROVE L(k) > 0
      <3>1. k \in T /\ open <= k /\ k < m
        BY <2>4, <2>1, <1>0
      <3> QED BY <3>1
    <2>6. m \in open + 1 .. Len(text)
      BY <2>1, <2>2, <1>0
    <2> QED BY <2>1, <2>5, <2>6 DEF Matches, L
  <1>7. ASSUME NEW m, Matches(text, open, m)
        PROVE  m \in balanced /\ \A k \in balanced : m <= k
    <2>1. /\ m \in open + 1 .. n /\ L(m) = 0
          /\ \A k \in open .. m - 1 : L(k) > 0
      BY <1>7 DEF Matches, L
    <2>2. m - 1 \in open .. n /\ m - 1 < n /\ (m - 1) + 1 = m /\ m - 1 \in open .. m - 1
      BY <2>1, <1>0
    <2>3. L((m - 1) + 1) = L(m - 1) + (IF text[(m - 1) + 1] = text[open] THEN 1 ELSE 0)
                              - (IF text[(m - 1) + 1] = Closer(text[open]) THEN 1 ELSE 0)
      BY <2>2, <1>3
    <2>4. L(m - 1) > 0 /\ L(m - 1) \in Int
      BY <2>1, <2>2, <1>3
    <2>5. text[m] = Closer(text[open])
      BY <2>1, <2>2, <2>3, <2>4
    <2>6. m \in balanced
      BY <2>1, <2>5, <1>4, <1>0
    <2>7. ASSUME NEW k \in balanced PROVE m <= k
      <3>1. k \in open .. n /\ L(k) = 0
        BY <1>4
      <3>2. ~(k \in open .. m - 1)
        BY <2>1, <3>1
      <3> QED BY <3>1, <3>2, <2>1, <1>0
    <2> QED BY <2>6, <2>7
  <1>8. ASSUME c # 0 PROVE Matches(text, open, c)
    BY <1>1, <1>5, <1>6, <1>8
  <1>9. ASSUME NEW m, Matches(text, open, m) PROVE c = m
    <2>1. m \in balanced /\ \A k \in balanced : m <= k
      BY <1>7, <1>9
    <2>2. Min(balanced) = m
      BY <2>1, <1>2, MinIs
    <2> QED BY <2>1, <2>2, <1>1
  <1> QED BY <1>8, <1>9 DEF c

\* A bracket in brackets of its kind is closed before them.
LEMMA BracketsNest ==
  ASSUME NEW text \in Seq(Token), NEW o \in 1 .. Len(text), NEW p \in 1 .. Len(text),
         text[o] \in {"[", "("}, text[p] = text[o], NEW c, NEW d, Matches(text, o, c), Matches(text, p, d),
         o < p, p <= c
  PROVE  d <= c
  <1> DEFINE n == Len(text)
             L(k) == Level(text, o, k)
             M(k) == Level(text, p, k)
  <1>0. n \in Nat /\ o \in Nat /\ p \in Nat /\ o <= n /\ p <= n /\ o + 1 <= p
    OBVIOUS
  <1>1. /\ c \in o + 1 .. n /\ L(c) = 0 /\ \A k \in o .. c - 1 : L(k) > 0
        /\ d \in p + 1 .. n /\ \A k \in p .. d - 1 : M(k) > 0
    BY DEF Matches
  <1>2. ASSUME NEW k \in o .. n
        PROVE  /\ L(k) \in Int
               /\ k < n => L(k + 1) = L(k) + (IF text[k + 1] = text[o] THEN 1 ELSE 0)
                                         - (IF text[k + 1] = Closer(text[o]) THEN 1 ELSE 0)
    BY LevelNext
  <1>3. ASSUME NEW k \in p .. n
        PROVE  /\ M(p) = 1 /\ M(k) \in Int
               /\ k < n => M(k + 1) = M(k) + (IF text[k + 1] = text[p] THEN 1 ELSE 0)
                                         - (IF text[k + 1] = Closer(text[p]) THEN 1 ELSE 0)
    BY LevelNext
  <1> HIDE DEF L, M, n
  <1> DEFINE T == {k \in Nat : p <= k /\ k <= n => L(k) = M(k) + L(p - 1)}
  <1>4. p - 1 \in o .. n /\ p - 1 < n /\ (p - 1) + 1 = p /\ L(p - 1) \in Int
    <2>1. p - 1 \in o .. n /\ p - 1 < n /\ (p - 1) + 1 = p
      BY <1>0
    <2> QED BY <2>1, <1>2
  <1>5. ASSUME NEW k \in T PROVE k + 1 \in T
    <2> SUFFICES ASSUME p <= k + 1, k + 1 <= n PROVE L(k + 1) = M(k + 1) + L(p - 1)
      OBVIOUS
    <2>1. CASE k + 1 = p
      <3>1. text[(p - 1) + 1] = text[o] /\ text[(p - 1) + 1] # Closer(text[o])
        BY <1>4 DEF Closer
      <3>2. L((p - 1) + 1) = L(p - 1) + 1 - 0
        BY <3>1, <1>4, <1>2
      <3>3. M(p) = 1
        BY <1>0, <1>3
      <3> QED BY <2>1, <3>2, <3>3, <1>4
    <2>2. CASE k + 1 # p
      <3>1. k \in p .. n /\ k < n /\ k \in o .. n
        BY <2>2, <1>0
      <3>2. L(k) = M(k) + L(p - 1)
        BY <3>1
      <3>3. L(k + 1) = L(k) + (IF text[k + 1] = text[o] THEN 1 ELSE 0)
                                         - (IF text[k + 1] = Closer(text[o]) THEN 1 ELSE 0)
        BY <3>1, <1>2
      <3>4. M(k + 1) = M(k) + (IF text[k + 1] = text[p] THEN 1 ELSE 0)
                                         - (IF text[k + 1] = Closer(text[p]) THEN 1 ELSE 0)
        BY <3>1, <1>3
      <3>5. M(k) \in Int
        BY <3>1, <1>3
      <3> HIDE DEF T
      <3> QED BY <3>2, <3>3, <3>4, <3>5, <1>4
    <2> QED BY <2>1, <2>2
  <1>6. T = Nat
    <2>1. 0 \in T
      BY <1>0
    <2>2. T \in SUBSET Nat
      OBVIOUS
    <2> HIDE DEF T
    <2> QED BY <2>1, <2>2, <1>5, Induction
  <1>7. ASSUME c < d PROVE FALSE
    <2>1. c \in p .. d - 1 /\ c \in T /\ p <= c /\ c <= n
      BY <1>0, <1>1, <1>6, <1>7
    <2>2. M(c) > 0 /\ L(c) = M(c) + L(p - 1) /\ L(c) = 0
      BY <2>1, <1>1
    <2>3. p - 1 \in o .. c - 1
      BY <1>0, <1>1
    <2>4. L(p - 1) > 0 /\ M(c) \in Int
      <3>1. c \in p .. n
        BY <2>1, <1>0, <1>1
      <3> QED BY <2>3, <3>1, <1>1, <1>3
    <2> QED BY <2>2, <2>4, <1>4
  <1> QED BY <1>7, <1>1, <1>0

-----------------------------------------------------------------------------
(* Attributes. *)

\* AfterSpace finds the first token that is no space.
LEMMA AfterSpaceIs ==
  ASSUME NEW text \in Seq(Token), NEW i \in 1 .. Len(text) + 1
  PROVE  /\ AfterSpace(text, i) \in i .. Len(text) + 1
         /\ \A k \in i .. AfterSpace(text, i) - 1 : text[k] \in {Space, Newline}
         /\ \A k \in i .. Len(text) : text[k] \notin {Space, Newline} => AfterSpace(text, i) <= k
         /\ AfterSpace(text, i) <= Len(text) => text[AfterSpace(text, i)] \notin {Space, Newline}
  <1> DEFINE P == {j \in i .. Len(text) : text[j] \notin {Space, Newline}}
             F == FirstOf(text, P)
  <1>1. AfterSpace(text, i) = F
    BY DEF AfterSpace
  <1>2. P \in SUBSET Nat
    <2>1. i .. Len(text) \subseteq Nat
      OBVIOUS
    <2> QED BY <2>1
  <1>3. \A k \in i .. Len(text) : text[k] \notin {Space, Newline} => k \in P
    OBVIOUS
  <1>4. \A k \in P : k \in i .. Len(text) /\ text[k] \notin {Space, Newline}
    OBVIOUS
  <1> HIDE DEF P
  <1>5. F \in Nat /\ F <= Len(text) + 1 /\ (F \in P \/ F = Len(text) + 1) /\ \A k \in P : F <= k
    BY <1>2, FirstFound
  <1> HIDE DEF F
  <1>6. F \in i .. Len(text) + 1
    BY <1>4, <1>5
  <1>7. \A k \in i .. F - 1 : k \in i .. Len(text) /\ ~(F <= k)
    BY <1>6
  <1>8. \A k \in i .. F - 1 : text[k] \in {Space, Newline}
    BY <1>3, <1>5, <1>7
  <1>9. F <= Len(text) => F \in P
    BY <1>5
  <1> QED BY <1>1, <1>3, <1>4, <1>5, <1>6, <1>8, <1>9

\* Ignores reads the payload of cfg_attr as the grammar has it.
LEMMA IgnoresIs ==
  ASSUME NEW attr \in Seq(Token)
  PROVE  Ignores(attr) <=> MentionsIgnore(attr)
  <1> DEFINE P == {j \in DOMAIN attr : attr[j] = "("}
             open == FirstOf(attr, P)
             Outer(p, j) == attr[j] = "," /\ Depth(attr, p, j) = 0
             commas == {j \in open + 1 .. Len(attr) : Outer(open, j)}
  <1>0. DOMAIN attr = 1 .. Len(attr) /\ Len(attr) \in Nat
    OBVIOUS
  <1>1. PayloadContains(attr, "ignore") <=>
          commas # {} /\ Contains(SubSeq(attr, Min(commas) + 1, Len(attr)), "ignore")
    BY DEF PayloadContains
  <1> HIDE DEF Outer
  <1>2. P \in SUBSET Nat /\ \A k : k \in P <=> k \in 1 .. Len(attr) /\ attr[k] = "("
    OBVIOUS
  <1> HIDE DEF P
  <1>3. open \in Nat /\ open <= Len(attr) + 1 /\ (open \in P \/ open = Len(attr) + 1) /\ \A k \in P : open <= k
    BY <1>2, FirstFound
  <1> HIDE DEF open
  <1>4. commas \in SUBSET Nat
    <2>1. open + 1 .. Len(attr) \subseteq Nat
      BY <1>3
    <2> QED BY <2>1
  <1>5. \A k : k \in commas <=> k \in open + 1 .. Len(attr) /\ Outer(open, k)
    OBVIOUS
  <1> HIDE DEF commas
  <1>6. commas # {} => Min(commas) \in commas /\ \A k \in commas : Min(commas) <= k
    BY <1>4, MinOf
  <1>7. ASSUME NEW m \in commas
        PROVE  Contains(SubSeq(attr, m + 1, Len(attr)), "ignore") <=> \E word \in DOMAIN attr : m < word /\ attr[word] = "ignore"
    <2> DEFINE rest == SubSeq(attr, m + 1, Len(attr))
    <2>1. m \in 1 .. Len(attr) /\ m \in Nat
      <3>1. m \in open + 1 .. Len(attr)
        BY <1>5
      <3> QED BY <3>1, <1>3
    <2>2. Len(rest) = Len(attr) - m /\ \A k \in 1 .. Len(attr) - m : rest[k] = attr[m + k]
      BY <2>1
    <2> HIDE DEF rest
    <2>3. ASSUME NEW k \in 1 .. Len(rest), rest[k] = "ignore"
          PROVE \E word \in DOMAIN attr : m < word /\ attr[word] = "ignore"
      <3>1. m + k \in DOMAIN attr /\ m < m + k /\ attr[m + k] = "ignore"
        BY <2>1, <2>2, <2>3
      <3> QED BY <3>1
    <2>4. ASSUME NEW word \in DOMAIN attr, m < word, attr[word] = "ignore"
          PROVE \E k \in 1 .. Len(rest) : rest[k] = "ignore"
      <3>1. word - m \in 1 .. Len(attr) - m /\ m + (word - m) = word
        BY <2>1, <2>4
      <3> QED BY <3>1, <2>2, <2>4
    <2>5. Contains(rest, "ignore") <=> \E k \in 1 .. Len(rest) : rest[k] = "ignore"
      BY DEF Contains
    <2> QED BY <2>3, <2>4, <2>5 DEF rest
  <1> DEFINE Ref == \E o, comma, word \in DOMAIN attr :
                      /\ attr[o] = "(" /\ \A k \in 1 .. o - 1 : attr[k] # "("
                      /\ o < comma /\ Outer(o, comma)
                      /\ comma < word /\ attr[word] = "ignore"
  <1>8. ASSUME PayloadContains(attr, "ignore") PROVE Ref
    <2> DEFINE m == Min(commas)
    <2>1. m \in commas
      BY <1>1, <1>6, <1>8
    <2>2. PICK word \in DOMAIN attr : m < word /\ attr[word] = "ignore"
      BY <1>1, <1>7, <1>8, <2>1
    <2>3. m \in open + 1 .. Len(attr) /\ Outer(open, m)
      BY <2>1, <1>5
    <2> HIDE DEF m
    <2>4. open \in DOMAIN attr /\ attr[open] = "(" /\ m \in DOMAIN attr /\ open < m
      <3>1. open < m /\ m \in 1 .. Len(attr) /\ open # Len(attr) + 1
        BY <2>3, <1>3
      <3>2. open \in P
        BY <3>1, <1>3
      <3>3. open \in DOMAIN attr /\ m \in DOMAIN attr
        BY <3>1, <3>2, <1>2
      <3> QED BY <3>1, <3>2, <3>3, <1>2
    <2>5. ASSUME NEW k \in 1 .. open - 1 PROVE attr[k] # "("
      <3>1. k \in 1 .. Len(attr) /\ ~(open <= k)
        BY <1>3
      <3> QED BY <3>1, <1>2, <1>3
    <2> QED BY <2>2, <2>3, <2>4, <2>5
  <1>9. ASSUME Ref PROVE PayloadContains(attr, "ignore")
    <2>1. PICK o \in DOMAIN attr, comma \in DOMAIN attr, word \in DOMAIN attr :
                      /\ attr[o] = "(" /\ \A k \in 1 .. o - 1 : attr[k] # "("
                      /\ o < comma /\ Outer(o, comma)
                      /\ comma < word /\ attr[word] = "ignore"
      BY <1>9
    <2>0. /\ o \in 1 .. Len(attr) /\ o \in Nat
          /\ comma \in 1 .. Len(attr) /\ comma \in Nat
          /\ word \in 1 .. Len(attr) /\ word \in Nat
      OBVIOUS
    <2> HIDE DEF Ref
    <2>2. o = open
      <3>1. o \in P /\ open <= o
        <4>1. o \in P
          BY <2>0, <2>1, <1>2
        <4> QED BY <4>1, <1>3
      <3>2. open \in P
        BY <3>1, <1>3, <1>2
      <3>3. ~(open \in 1 .. o - 1)
        BY <3>2, <2>1, <1>2
      <3> QED BY <3>1, <3>2, <3>3, <1>2
    <2>3. comma \in commas
      <3>1. comma \in open + 1 .. Len(attr)
        BY <2>0, <2>1, <2>2, <1>3
      <3> QED BY <3>1, <2>1, <2>2, <1>5
    <2>4. Min(commas) \in commas /\ Min(commas) <= comma
      BY <2>3, <1>6
    <2>5. Min(commas) < word
      <3>1. Min(commas) \in Nat
        BY <2>4, <1>4
      <3> QED BY <3>1, <2>0, <2>1, <2>4
    <2>6. Contains(SubSeq(attr, Min(commas) + 1, Len(attr)), "ignore")
      BY <2>1, <2>4, <2>5, <1>7
    <2> QED BY <2>3, <2>6, <1>1
  <1>10. PayloadContains(attr, "ignore") <=> Ref
    BY <1>8, <1>9
  <1> QED BY <1>10 DEF Ignores, MentionsIgnore, Outer

\* Between the # of an attribute and its bracket stand only spaces and !, so no other attribute.
LEMMA BracketIs ==
  ASSUME NEW text \in Seq(Token), NEW h \in 1 .. Len(text)
  PROVE  /\ Bracket(text, h) \in h + 1 .. Len(text) + 1
         /\ \A k \in h + 1 .. Bracket(text, h) - 1 : text[k] # "#"
         /\ \A k \in h + 1 .. Len(text) : text[k] \notin {"!", Space, Newline} => Bracket(text, h) <= k
  <1> DEFINE i == IF At(text, h + 1) = "!" THEN h + 2 ELSE h + 1
  <1>1. i \in h + 1 .. Len(text) + 1
    BY DEF At
  <1>2. \A k \in h + 1 .. i - 1 : text[k] = "!"
    <2>1. ASSUME NEW k \in h + 1 .. i - 1 PROVE text[k] = "!"
      <3>1. k = h + 1 /\ At(text, h + 1) = "!"
        BY <2>1
      <3> QED BY <3>1 DEF At
    <2> QED BY <2>1
  <1>3. Bracket(text, h) = AfterSpace(text, i)
    BY DEF Bracket
  <1> HIDE DEF i
  <1>4. /\ AfterSpace(text, i) \in i .. Len(text) + 1
        /\ \A k \in i .. AfterSpace(text, i) - 1 : text[k] \in {Space, Newline}
        /\ \A k \in i .. Len(text) : text[k] \notin {Space, Newline} => AfterSpace(text, i) <= k
    <2>1. i \in 1 .. Len(text) + 1
      BY <1>1
    <2> QED BY <2>1, AfterSpaceIs
  <1> DEFINE b == AfterSpace(text, i)
  <1> HIDE DEF b
  <1>5. b \in i .. Len(text) + 1
    BY <1>4 DEF b
  <1>6. ASSUME NEW k \in h + 1 .. b - 1 PROVE text[k] # "#"
    <2>1. CASE k \in h + 1 .. i - 1
      BY <2>1, <1>2
    <2>2. CASE k \in i .. b - 1
      BY <2>2, <1>4 DEF b, Space, Newline
    <2> QED BY <2>1, <2>2, <1>1, <1>5
  <1>7. ASSUME NEW k \in h + 1 .. Len(text), text[k] \notin {"!", Space, Newline} PROVE b <= k
    <2>1. ~(k \in h + 1 .. i - 1)
      BY <1>2, <1>7
    <2>2. k \in i .. Len(text)
      BY <2>1, <1>1
    <2> QED BY <2>2, <1>4, <1>7 DEF b
  <1>8. b \in h + 1 .. Len(text) + 1
    BY <1>1, <1>5
  <1> QED BY <1>3, <1>6, <1>7, <1>8 DEF b

\* The equation of the function in RustFindings.
RustEq(source, f) ==
  f = [i \in 1 .. Len(source) + 1 |->
        LET hash == FirstOf(source, {j \in i .. Len(source) : source[j] = "#"})
            open == AfterSpace(source, IF At(source, hash + 1) = "!" THEN hash + 2 ELSE hash + 1)
        IN IF hash > Len(source) THEN {}
           ELSE IF At(source, open) # "[" THEN f[open]
           ELSE IF Closing(source, open) = 0 THEN f[open + 1]
           ELSE (IF Ignores(SubSeq(source, open + 1, Closing(source, open) - 1)) THEN {hash} ELSE {})
                \cup f[Closing(source, open) + 1]]

\* scan_rust_no_quarantine finds just the attributes that ignore a test and are in no other.
LEMMA RustFindingsAre ==
  ASSUME NEW text \in Seq(Token)
  PROVE  RustFindings(text) = RustReads(text)
  <1> DEFINE n == Len(text)
             D == 1 .. n
             S == {h \in D : text[h] = "#"}
             o(h) == Bracket(text, h)
             closed == [h \in D |-> IF At(text, o(h)) = "[" THEN Closing(text, o(h)) ELSE 0]
             good == {h \in D : Ignores(SubSeq(text, o(h) + 1, closed[h] - 1))}
             resume == [h \in D |-> IF At(text, o(h)) = "[" THEN o(h) + 1 ELSE o(h)]
  <1>1. n \in Nat /\ D \in SUBSET Nat /\ S \in SUBSET D
    OBVIOUS
  <1>2. ASSUME NEW h \in D
        PROVE  /\ o(h) \in h + 1 .. n + 1
               /\ \A k \in h + 1 .. o(h) - 1 : text[k] # "#"
               /\ \A k \in h + 1 .. n : text[k] \notin {"!", Space, Newline} => o(h) <= k
    BY BracketIs
  <1>3. ASSUME NEW h \in D, At(text, o(h)) = "["
        PROVE  o(h) \in D /\ text[o(h)] = "["
    BY <1>3 DEF At
  <1>4. ASSUME NEW h \in D
        PROVE  /\ closed[h] # 0 => At(text, o(h)) = "[" /\ Matches(text, o(h), closed[h])
               /\ \A close : At(text, o(h)) = "[" /\ Matches(text, o(h), close) => closed[h] = close
    <2>1. At(text, o(h)) # "[" => closed[h] = 0
      OBVIOUS
    <2>2. ASSUME At(text, o(h)) = "["
          PROVE  /\ closed[h] # 0 => Matches(text, o(h), closed[h])
                 /\ \A close : Matches(text, o(h), close) => closed[h] = close
      <3>1. o(h) \in 1 .. Len(text) /\ text[o(h)] \in {"[", "("}
        BY <1>3, <2>2
      <3>2. closed[h] = Closing(text, o(h))
        BY <2>2
      <3>3. /\ Closing(text, o(h)) # 0 => Matches(text, o(h), Closing(text, o(h)))
            /\ \A close : Matches(text, o(h), close) => Closing(text, o(h)) = close
        BY <3>1, ClosingMatches
      <3> HIDE DEF closed, o
      <3> QED BY <3>2, <3>3
    <2> QED BY <2>1, <2>2
  <1>5. ASSUME NEW h \in D, closed[h] # 0
        PROVE  /\ o(h) \in D /\ text[o(h)] = "[" /\ Matches(text, o(h), closed[h])
               /\ closed[h] \in o(h) + 1 .. n /\ closed[h] \in h + 1 .. n /\ text[closed[h]] = "]"
    <2>1. o(h) \in D /\ text[o(h)] = "[" /\ Matches(text, o(h), closed[h])
      BY <1>3, <1>4, <1>5
    <2>2. closed[h] \in o(h) + 1 .. n
      BY <2>1 DEF Matches
    <2>3. text[closed[h]] = "]"
      <3> DEFINE c == closed[h]
                 p == o(h)
      <3> HIDE DEF c, p
      <3>1. Matches(text, p, c) /\ p \in 1 .. Len(text) /\ text[p] = "[" /\ c \in p + 1 .. n
        BY <2>1, <2>2 DEF c, p
      <3>2. Level(text, p, c) = 0 /\ Level(text, p, c - 1) > 0
        <4>1. c - 1 \in p .. c - 1
          BY <3>1, <1>1
        <4> QED BY <3>1, <4>1 DEF Matches
      <3>3. c - 1 \in p .. Len(text) /\ c - 1 < Len(text) /\ (c - 1) + 1 = c
        BY <3>1
      <3>4. /\ Level(text, p, c - 1) \in Int
            /\ Level(text, p, (c - 1) + 1) = Level(text, p, c - 1) + (IF text[(c - 1) + 1] = text[p] THEN 1 ELSE 0)
                                           - (IF text[(c - 1) + 1] = Closer(text[p]) THEN 1 ELSE 0)
        BY <3>1, <3>3, LevelNext
      <3>5. text[c] = Closer(text[p])
        BY <3>2, <3>3, <3>4
      <3> QED BY <3>1, <3>5 DEF Closer, c
    <2>4. o(h) \in h + 1 .. n + 1
      BY <1>2
    <2> HIDE DEF closed, o
    <2> QED BY <2>1, <2>2, <2>3, <2>4, <1>1
  <1> HIDE DEF closed, o
  <1>6. Walkable(n, S, closed, resume)
    <2>1. ASSUME NEW h \in S PROVE closed[h] = 0 \/ closed[h] \in h + 1 .. n
      BY <1>5
    <2>2. ASSUME NEW h \in S, closed[h] = 0
          PROVE  resume[h] \in h + 1 .. n + 1 /\ \A k \in S : h < k => resume[h] <= k
      <3>1. o(h) \in h + 1 .. n + 1 /\ \A k \in h + 1 .. o(h) - 1 : text[k] # "#"
        BY <1>2
      <3>2. ASSUME NEW k \in S, h < k PROVE o(h) <= k /\ (At(text, o(h)) = "[" => o(h) < k)
        <4>1. k \in D /\ text[k] = "#" /\ h \in Nat
          OBVIOUS
        <4>2. ~(k \in h + 1 .. o(h) - 1)
          BY <3>1, <4>1
        <4>3. o(h) <= k
          BY <3>1, <3>2, <4>1, <4>2
        <4>4. At(text, o(h)) = "[" => o(h) # k
          BY <4>1, <1>3
        <4> QED BY <4>3, <4>4, <3>1, <4>1
      <3>3. resume[h] = IF At(text, o(h)) = "[" THEN o(h) + 1 ELSE o(h)
        OBVIOUS
      <3>4. At(text, o(h)) = "[" => o(h) \in D
        BY <1>3
      <3> HIDE DEF resume
      <3>5. resume[h] \in h + 1 .. n + 1
        BY <3>1, <3>3, <3>4, <1>1
      <3>6. ASSUME NEW k \in S, h < k PROVE resume[h] <= k
        BY <3>1, <3>2, <3>3, <3>6, <1>1
      <3> QED BY <3>5, <3>6
    <2>3. ASSUME NEW h \in S, NEW k \in S, closed[h] # 0, closed[k] # 0, h < k, k <= closed[h]
          PROVE  closed[k] <= closed[h]
      <3>1. h \in D /\ k \in D /\ text[k] = "#" /\ h \in Nat /\ k \in Nat
        BY <1>1
      <3>2. /\ o(h) \in D /\ text[o(h)] = "[" /\ Matches(text, o(h), closed[h])
            /\ closed[h] \in h + 1 .. n /\ text[closed[h]] = "]"
        BY <2>3, <1>5
      <3>3. o(k) \in D /\ text[o(k)] = "[" /\ Matches(text, o(k), closed[k])
        BY <2>3, <1>5
      <3>4. o(h) < k
        <4>1. o(h) \in h + 1 .. n + 1 /\ \A m \in h + 1 .. o(h) - 1 : text[m] # "#"
          BY <1>2
        <4>2. ~(k \in h + 1 .. o(h) - 1) /\ k # o(h)
          BY <3>1, <3>2, <4>1
        <4> QED BY <3>1, <4>1, <4>2, <2>3
      <3>5. o(k) <= closed[h]
        <4>1. closed[h] # k
          BY <3>1, <3>2
        <4>2. closed[h] \in k + 1 .. n
          BY <4>1, <3>1, <3>2, <2>3
        <4>3. "]" \notin {"!", Space, Newline}
          BY DEF Space, Newline
        <4>4. \A m \in k + 1 .. n : text[m] \notin {"!", Space, Newline} => o(k) <= m
          BY <3>1, <1>2
        <4> QED BY <4>2, <4>3, <4>4, <3>2
      <3>6. o(h) < o(k)
        <4>1. o(k) \in k + 1 .. n + 1
          BY <3>1, <1>2
        <4> QED BY <4>1, <3>1, <3>2, <3>4
      <3> QED BY <3>2, <3>3, <3>5, <3>6, BracketsNest
    <2> HIDE DEF S, resume, n, D
    <2>4. S \in SUBSET (1 .. n)
      BY <1>1 DEF D
    <2> QED BY <1>1, <2>1, <2>2, <2>3, <2>4 DEF Walkable
  <1>7. /\ \E f : WalkEq(n, S, closed, good, resume, f)
        /\ \A f : WalkEq(n, S, closed, good, resume, f) => f[1] = WalkFinds(S, closed, good, 1)
    <2> HIDE DEF n, S, good, resume
    <2> QED BY <1>6, WalkIs, ZenonT(60)
  <1>8. ASSUME NEW i \in 1 .. n + 1
        PROVE  WalkFirst(n, S, i) = FirstOf(text, {j \in i .. Len(text) : text[j] = "#"})
    <2>1. {h \in S : i <= h} = {j \in i .. Len(text) : text[j] = "#"}
      OBVIOUS
    <2> QED BY <2>1 DEF WalkFirst, FirstOf
  <1>9. ASSUME NEW f PROVE RustEq(text, f) <=> WalkEq(n, S, closed, good, resume, f)
    <2> DEFINE Body(i) ==
              LET hash == FirstOf(text, {j \in i .. Len(text) : text[j] = "#"})
                  open == AfterSpace(text, IF At(text, hash + 1) = "!" THEN hash + 2 ELSE hash + 1)
              IN IF hash > Len(text) THEN {}
                 ELSE IF At(text, open) # "[" THEN f[open]
                 ELSE IF Closing(text, open) = 0 THEN f[open + 1]
                 ELSE (IF Ignores(SubSeq(text, open + 1, Closing(text, open) - 1)) THEN {hash} ELSE {})
                      \cup f[Closing(text, open) + 1]
    <2>1. ASSUME NEW i \in 1 .. n + 1 PROVE Body(i) = WalkBody(n, S, closed, good, resume, f, i)
      <3> DEFINE h == WalkFirst(n, S, i)
      <3>1. h \in i .. n + 1 /\ (h <= n => h \in S)
        <4> HIDE DEF S, n
        <4>1. S \in SUBSET (1 .. n)
          BY <1>1 DEF D
        <4> QED BY <4>1, <1>1, WalkFirstIs
      <3>2. Body(i) = IF h > n THEN {}
                 ELSE IF At(text, o(h)) # "[" THEN f[o(h)]
                 ELSE IF Closing(text, o(h)) = 0 THEN f[o(h) + 1]
                 ELSE (IF Ignores(SubSeq(text, o(h) + 1, Closing(text, o(h)) - 1)) THEN {h} ELSE {})
                      \cup f[Closing(text, o(h)) + 1]
        <4>1. h = FirstOf(text, {j \in i .. Len(text) : text[j] = "#"})
          BY <1>8
        <4> HIDE DEF h
        <4> QED BY <4>1 DEF o, Bracket
      <3>3. WalkBody(n, S, closed, good, resume, f, i) =
              IF h > n THEN {}
              ELSE IF closed[h] = 0 THEN f[resume[h]]
              ELSE (IF h \in good THEN {h} ELSE {}) \cup f[closed[h] + 1]
        BY DEF WalkBody
      <3> HIDE DEF h, Body
      <3>4. CASE h > n
        BY <3>2, <3>3, <3>4
      <3>5. CASE ~(h > n)
        <4>1. h \in D
          BY <3>1, <3>5, <1>1
        <4>2. closed[h] = IF At(text, o(h)) = "[" THEN Closing(text, o(h)) ELSE 0
          BY <4>1 DEF closed
        <4>3. resume[h] = IF At(text, o(h)) = "[" THEN o(h) + 1 ELSE o(h)
          BY <4>1
        <4>4. h \in good <=> Ignores(SubSeq(text, o(h) + 1, closed[h] - 1))
          BY <4>1
        <4> HIDE DEF resume, good
        <4>5. CASE At(text, o(h)) # "["
          BY <3>2, <3>3, <3>5, <4>2, <4>3, <4>5
        <4>6. CASE At(text, o(h)) = "[" /\ Closing(text, o(h)) = 0
          BY <3>2, <3>3, <3>5, <4>2, <4>3, <4>6
        <4>7. CASE At(text, o(h)) = "[" /\ Closing(text, o(h)) # 0
          BY <3>2, <3>3, <3>5, <4>2, <4>4, <4>7
        <4> QED BY <4>5, <4>6, <4>7
      <3> QED BY <3>4, <3>5
    <2>2. RustEq(text, f) <=> f = [i \in 1 .. n + 1 |-> Body(i)]
      BY DEF RustEq
    <2> HIDE DEF Body, n, S, good, resume
    <2>3. [i \in 1 .. n + 1 |-> Body(i)] = [i \in 1 .. n + 1 |-> WalkBody(n, S, closed, good, resume, f, i)]
      BY <2>1
    <2> QED BY <2>2, <2>3 DEF WalkEq
  <1>10. RustFindings(text) = WalkFinds(S, closed, good, 1)
    <2> DEFINE M == CHOOSE f : RustEq(text, f)
    <2>1. \E f : RustEq(text, f)
      BY <1>7, <1>9
    <2>2. RustEq(text, M)
      BY <2>1
    <2>3. RustFindings(text) = M[1]
      BY DEF RustFindings, RustEq
    <2> HIDE DEF M, n, S, good, resume
    <2> QED BY <2>2, <2>3, <1>7, <1>9
  <1>11. ASSUME NEW h \in D
         PROVE  (\E close \in D : Attribute(text, h, close) /\ MentionsIgnore(SubSeq(text, o(h) + 1, close - 1)))
                  <=> h \in S /\ closed[h] # 0 /\ h \in good
    <2>1. ASSUME NEW close \in D, Attribute(text, h, close) PROVE h \in S /\ closed[h] = close /\ close # 0
      BY <2>1, <1>4 DEF Attribute, o
    <2>2. ASSUME h \in S, closed[h] # 0 PROVE closed[h] \in D /\ Attribute(text, h, closed[h])
      <3>1. /\ o(h) \in D /\ text[o(h)] = "[" /\ Matches(text, o(h), closed[h])
            /\ closed[h] \in h + 1 .. n
        BY <2>2, <1>5
      <3>2. At(text, o(h)) = "["
        BY <3>1 DEF At
      <3> QED BY <3>1, <3>2, <2>2 DEF Attribute, o
    <2>3. h \in S /\ closed[h] # 0 => (h \in good <=> MentionsIgnore(SubSeq(text, o(h) + 1, closed[h] - 1)))
      <3>1. ASSUME closed[h] # 0 PROVE SubSeq(text, o(h) + 1, closed[h] - 1) \in Seq(Token)
        <4>1. o(h) \in D /\ closed[h] \in o(h) + 1 .. n
          BY <3>1, <1>5
        <4> QED BY <4>1
      <3>2. closed[h] # 0 => (Ignores(SubSeq(text, o(h) + 1, closed[h] - 1))
                               <=> MentionsIgnore(SubSeq(text, o(h) + 1, closed[h] - 1)))
        BY <3>1, IgnoresIs
      <3> QED BY <3>2
    <2> HIDE DEF S, good, D
    <2> QED BY <2>1, <2>2, <2>3
  <1>12. ASSUME NEW h \in D
         PROVE  (\A outer \in 1 .. h - 1, close \in h .. Len(text) : ~Attribute(text, outer, close))
                  <=> (\A outer \in S : 1 <= outer /\ outer < h /\ closed[outer] # 0 => closed[outer] < h)
    <2>1. ASSUME NEW outer \in 1 .. h - 1, NEW close \in h .. Len(text), Attribute(text, outer, close)
          PROVE  outer \in S /\ closed[outer] # 0 /\ ~(closed[outer] < h) /\ 1 <= outer /\ outer < h
      <3>1. outer \in D
        OBVIOUS
      <3>2. closed[outer] = close
        BY <3>1, <2>1, <1>4 DEF Attribute, o
      <3>3. text[outer] = "#"
        BY <2>1 DEF Attribute
      <3> QED BY <3>1, <3>2, <3>3
    <2>2. ASSUME NEW outer \in S, outer < h, closed[outer] # 0, ~(closed[outer] < h)
          PROVE  outer \in 1 .. h - 1 /\ closed[outer] \in h .. Len(text) /\ Attribute(text, outer, closed[outer])
      <3>1. /\ o(outer) \in D /\ text[o(outer)] = "[" /\ Matches(text, o(outer), closed[outer])
            /\ closed[outer] \in outer + 1 .. n
        BY <2>2, <1>5
      <3>2. At(text, o(outer)) = "["
        BY <3>1 DEF At
      <3> QED BY <3>1, <3>2, <2>2 DEF Attribute, o
    <2> QED BY <2>1, <2>2
  <1>13. RustReads(text) =
           {h \in D : /\ \E close \in D : Attribute(text, h, close) /\ MentionsIgnore(SubSeq(text, o(h) + 1, close - 1))
                      /\ \A outer \in 1 .. h - 1, close \in h .. Len(text) : ~Attribute(text, outer, close)}
    <2>1. DOMAIN text = D
      OBVIOUS
    <2> HIDE DEF D
    <2> QED BY <2>1 DEF RustReads, o
  <1>14. WalkFinds(S, closed, good, 1) =
           {h \in D : /\ h \in S /\ closed[h] # 0 /\ h \in good
                      /\ \A outer \in S : 1 <= outer /\ outer < h /\ closed[outer] # 0 => closed[outer] < h}
    <2>1. \A h \in S : h \in D /\ 1 <= h
      OBVIOUS
    <2> HIDE DEF S, D, good
    <2> QED BY <2>1 DEF WalkFinds
  <1> HIDE DEF D, S, good, n
  <1> QED BY <1>10, <1>11, <1>12, <1>13, <1>14

\* The equation of the function in DotnetFindings.
DotnetEq(source, f) ==
  f = [i \in 1 .. Len(source) + 1 |->
        LET open == FirstOf(source, {j \in i .. Len(source) : source[j] = "["})
        IN IF open > Len(source) THEN {}
           ELSE IF Closing(source, open) = 0 THEN f[open + 1]
           ELSE (IF Skips(SubSeq(source, open + 1, Closing(source, open) - 1)) THEN {open} ELSE {})
                \cup f[Closing(source, open) + 1]]

\* scan_dotnet_no_quarantine finds just the lists of attributes that skip a test and are in no other.
LEMMA DotnetFindingsAre ==
  ASSUME NEW text \in Seq(Token)
  PROVE  DotnetFindings(text) = DotnetReads(text)
  <1> DEFINE n == Len(text)
             D == 1 .. n
             S == {h \in D : text[h] = "["}
             closed == [h \in D |-> Closing(text, h)]
             good == {h \in D : Skips(SubSeq(text, h + 1, closed[h] - 1))}
             resume == [h \in D |-> h + 1]
  <1>1. n \in Nat /\ D \in SUBSET Nat /\ S \in SUBSET D
    OBVIOUS
  <1>2. ASSUME NEW h \in S
        PROVE  /\ closed[h] # 0 => Matches(text, h, closed[h]) /\ closed[h] \in h + 1 .. n
               /\ \A close : Matches(text, h, close) => closed[h] = close
    <2>1. h \in 1 .. Len(text) /\ text[h] \in {"[", "("} /\ closed[h] = Closing(text, h)
      OBVIOUS
    <2>2. /\ Closing(text, h) # 0 => Matches(text, h, Closing(text, h))
          /\ \A close : Matches(text, h, close) => Closing(text, h) = close
      BY <2>1, ClosingMatches
    <2>3. \A close : Matches(text, h, close) => close \in h + 1 .. n
      BY DEF Matches
    <2> HIDE DEF closed, n
    <2> QED BY <2>1, <2>2, <2>3
  <1> HIDE DEF closed
  <1>3. Walkable(n, S, closed, resume)
    <2>1. ASSUME NEW h \in S PROVE closed[h] = 0 \/ closed[h] \in h + 1 .. n
      BY <1>2
    <2>2. ASSUME NEW h \in S, closed[h] = 0
          PROVE  resume[h] \in h + 1 .. n + 1 /\ \A k \in S : h < k => resume[h] <= k
      OBVIOUS
    <2>3. ASSUME NEW h \in S, NEW k \in S, closed[h] # 0, closed[k] # 0, h < k, k <= closed[h]
          PROVE  closed[k] <= closed[h]
      <3>1. h \in 1 .. Len(text) /\ k \in 1 .. Len(text) /\ text[h] \in {"[", "("} /\ text[k] = text[h]
        OBVIOUS
      <3>2. Matches(text, h, closed[h]) /\ Matches(text, k, closed[k])
        BY <2>3, <1>2
      <3> QED BY <2>3, <3>1, <3>2, BracketsNest
    <2>4. S \in SUBSET (1 .. n)
      OBVIOUS
    <2> HIDE DEF S, resume, n, D
    <2> QED BY <1>1, <2>1, <2>2, <2>3, <2>4 DEF Walkable
  <1>4. /\ \E f : WalkEq(n, S, closed, good, resume, f)
        /\ \A f : WalkEq(n, S, closed, good, resume, f) => f[1] = WalkFinds(S, closed, good, 1)
    <2> HIDE DEF n, S, good, resume
    <2> QED BY <1>3, WalkIs
  <1>5. ASSUME NEW i \in 1 .. n + 1
        PROVE  WalkFirst(n, S, i) = FirstOf(text, {j \in i .. Len(text) : text[j] = "["})
    <2>1. {h \in S : i <= h} = {j \in i .. Len(text) : text[j] = "["}
      OBVIOUS
    <2> QED BY <2>1 DEF WalkFirst, FirstOf
  <1>6. ASSUME NEW f PROVE DotnetEq(text, f) <=> WalkEq(n, S, closed, good, resume, f)
    <2> DEFINE Body(i) ==
              LET open == FirstOf(text, {j \in i .. Len(text) : text[j] = "["})
              IN IF open > Len(text) THEN {}
                 ELSE IF Closing(text, open) = 0 THEN f[open + 1]
                 ELSE (IF Skips(SubSeq(text, open + 1, Closing(text, open) - 1)) THEN {open} ELSE {})
                      \cup f[Closing(text, open) + 1]
    <2>1. ASSUME NEW i \in 1 .. n + 1 PROVE Body(i) = WalkBody(n, S, closed, good, resume, f, i)
      <3> DEFINE h == WalkFirst(n, S, i)
      <3>1. h \in i .. n + 1 /\ (h <= n => h \in S)
        <4> HIDE DEF S, n
        <4>1. S \in SUBSET (1 .. n)
          BY <1>1 DEF D
        <4> QED BY <4>1, <1>1, WalkFirstIs
      <3>2. Body(i) = IF h > n THEN {}
                 ELSE IF Closing(text, h) = 0 THEN f[h + 1]
                 ELSE (IF Skips(SubSeq(text, h + 1, Closing(text, h) - 1)) THEN {h} ELSE {})
                      \cup f[Closing(text, h) + 1]
        <4>1. h = FirstOf(text, {j \in i .. Len(text) : text[j] = "["})
          BY <1>5
        <4> HIDE DEF h
        <4> QED BY <4>1
      <3>3. WalkBody(n, S, closed, good, resume, f, i) =
              IF h > n THEN {}
              ELSE IF closed[h] = 0 THEN f[resume[h]]
              ELSE (IF h \in good THEN {h} ELSE {}) \cup f[closed[h] + 1]
        BY DEF WalkBody
      <3> HIDE DEF h, Body
      <3>4. CASE h > n
        BY <3>2, <3>3, <3>4
      <3>5. CASE ~(h > n)
        <4>1. h \in D
          BY <3>1, <3>5, <1>1
        <4>2. closed[h] = Closing(text, h) /\ resume[h] = h + 1
          BY <4>1 DEF closed
        <4>3. h \in good <=> Skips(SubSeq(text, h + 1, closed[h] - 1))
          BY <4>1
        <4> HIDE DEF resume, good
        <4>4. CASE Closing(text, h) = 0
          BY <3>2, <3>3, <3>5, <4>2, <4>4
        <4>5. CASE Closing(text, h) # 0
          BY <3>2, <3>3, <3>5, <4>2, <4>3, <4>5
        <4> QED BY <4>4, <4>5
      <3> QED BY <3>4, <3>5
    <2>2. DotnetEq(text, f) <=> f = [i \in 1 .. n + 1 |-> Body(i)]
      BY DEF DotnetEq
    <2> HIDE DEF Body, n, S, good, resume
    <2>3. [i \in 1 .. n + 1 |-> Body(i)] = [i \in 1 .. n + 1 |-> WalkBody(n, S, closed, good, resume, f, i)]
      BY <2>1
    <2> QED BY <2>2, <2>3 DEF WalkEq
  <1>7. DotnetFindings(text) = WalkFinds(S, closed, good, 1)
    <2> DEFINE M == CHOOSE f : DotnetEq(text, f)
    <2>1. \E f : DotnetEq(text, f)
      BY <1>4, <1>6
    <2>2. DotnetEq(text, M)
      BY <2>1
    <2>3. DotnetFindings(text) = M[1]
      BY DEF DotnetFindings, DotnetEq
    <2> HIDE DEF M, n, S, good, resume
    <2> QED BY <2>2, <2>3, <1>4, <1>6
  <1>8. ASSUME NEW h \in D
        PROVE  (\E close \in D : List(text, h, close) /\ Skips(SubSeq(text, h + 1, close - 1)))
                 <=> h \in S /\ closed[h] # 0 /\ h \in good
    <2>1. ASSUME NEW close \in D, List(text, h, close) PROVE h \in S /\ closed[h] = close /\ close # 0
      BY <2>1, <1>2 DEF List
    <2>2. ASSUME h \in S, closed[h] # 0 PROVE closed[h] \in D /\ List(text, h, closed[h])
      BY <2>2, <1>2 DEF List
    <2>3. h \in good <=> Skips(SubSeq(text, h + 1, closed[h] - 1))
      OBVIOUS
    <2> HIDE DEF S, good, D
    <2> QED BY <2>1, <2>2, <2>3
  <1>9. ASSUME NEW h \in D
        PROVE  (\A outer \in 1 .. h - 1, close \in h .. Len(text) : ~List(text, outer, close))
                 <=> (\A outer \in S : 1 <= outer /\ outer < h /\ closed[outer] # 0 => closed[outer] < h)
    <2>1. ASSUME NEW outer \in 1 .. h - 1, NEW close \in h .. Len(text), List(text, outer, close)
          PROVE  outer \in S /\ closed[outer] # 0 /\ ~(closed[outer] < h) /\ 1 <= outer /\ outer < h
      <3>1. outer \in S
        BY <2>1 DEF List
      <3>2. closed[outer] = close
        BY <3>1, <2>1, <1>2 DEF List
      <3> QED BY <3>1, <3>2
    <2>2. ASSUME NEW outer \in S, outer < h, closed[outer] # 0, ~(closed[outer] < h)
          PROVE  outer \in 1 .. h - 1 /\ closed[outer] \in h .. Len(text) /\ List(text, outer, closed[outer])
      <3>1. Matches(text, outer, closed[outer]) /\ closed[outer] \in outer + 1 .. n
        BY <2>2, <1>2
      <3> QED BY <3>1, <2>2 DEF List
    <2> QED BY <2>1, <2>2
  <1>10. DotnetReads(text) =
           {h \in D : /\ \E close \in D : List(text, h, close) /\ Skips(SubSeq(text, h + 1, close - 1))
                      /\ \A outer \in 1 .. h - 1, close \in h .. Len(text) : ~List(text, outer, close)}
    <2>1. DOMAIN text = D
      OBVIOUS
    <2> HIDE DEF D
    <2> QED BY <2>1 DEF DotnetReads
  <1>11. WalkFinds(S, closed, good, 1) =
           {h \in D : /\ h \in S /\ closed[h] # 0 /\ h \in good
                      /\ \A outer \in S : 1 <= outer /\ outer < h /\ closed[outer] # 0 => closed[outer] < h}
    <2>1. \A h \in S : h \in D /\ 1 <= h
      OBVIOUS
    <2> HIDE DEF S, D, good
    <2> QED BY <2>1 DEF WalkFinds
  <1> HIDE DEF D, S, good, n
  <1> QED BY <1>7, <1>8, <1>9, <1>10, <1>11

-----------------------------------------------------------------------------
(* Chains. *)

\* How many parentheses are open is counted part by part.
LEMMA ParensIs ==
  ASSUME NEW text \in Seq(Token), NEW i \in 1 .. Len(text) + 1, NEW m \in i - 1 .. Len(text)
  PROVE  /\ Parens(text, i, m) \in Int
         /\ (\A k \in i .. m : text[k] \notin {"(", ")"}) => Parens(text, i, m) = 0
         /\ \A k \in m .. Len(text) : Parens(text, i, k) = Parens(text, i, m) + Parens(text, m + 1, k)
  <1> DEFINE A(a, b, t) == {k \in a .. b : text[k] = t}
  <1>1. \A a, b : Parens(text, a, b) = Cardinality(A(a, b, "(")) - Cardinality(A(a, b, ")"))
    BY DEF Parens
  <1>2. ASSUME NEW a \in Int, NEW b \in Int, NEW t PROVE IsFiniteSet(A(a, b, t)) /\ Cardinality(A(a, b, t)) \in Nat
    <2>1. A(a, b, t) \subseteq a .. b
      OBVIOUS
    <2>2. IsFiniteSet(a .. b)
      BY FS_Interval
    <2> HIDE DEF A
    <2> QED BY <2>1, <2>2, FS_Subset, FS_CardinalityType
  <1>3. ASSUME NEW k \in m .. Len(text), NEW t
        PROVE Cardinality(A(i, k, t)) = Cardinality(A(i, m, t)) + Cardinality(A(m + 1, k, t))
    <2>1. A(i, k, t) = A(i, m, t) \cup A(m + 1, k, t)
      <3>1. i .. k = (i .. m) \cup (m + 1 .. k)
        OBVIOUS
      <3> QED BY <3>1
    <2>2. A(i, m, t) \cap A(m + 1, k, t) = {}
      OBVIOUS
    <2>3. i \in Int /\ m \in Int /\ k \in Int /\ m + 1 \in Int
      OBVIOUS
    <2>4. IsFiniteSet(A(i, m, t)) /\ IsFiniteSet(A(m + 1, k, t))
      BY <1>2, <2>3
    <2>5. /\ Cardinality(A(i, m, t)) \in Nat /\ Cardinality(A(m + 1, k, t)) \in Nat
      BY <1>2, <2>3
    <2> HIDE DEF A
    <2>6. Cardinality(A(i, m, t) \cup A(m + 1, k, t))
            = Cardinality(A(i, m, t)) + Cardinality(A(m + 1, k, t)) - Cardinality(A(i, m, t) \cap A(m + 1, k, t))
      BY <2>4, FS_Union
    <2>7. Cardinality({}) = 0
      BY FS_EmptySet
    <2>8. Cardinality(A(i, k, t)) = Cardinality(A(i, m, t) \cup A(m + 1, k, t))
      BY <2>1
    <2>9. Cardinality(A(i, m, t) \cap A(m + 1, k, t)) = 0
      BY <2>2, <2>7
    <2> QED BY <2>5, <2>6, <2>8, <2>9
  <1>4. (\A k \in i .. m : text[k] \notin {"(", ")"}) => A(i, m, "(") = {} /\ A(i, m, ")") = {}
    OBVIOUS
  <1>5. Cardinality({}) = 0
    BY FS_EmptySet
  <1>6. i \in Int /\ m \in Int /\ m + 1 \in Int /\ \A k \in m .. Len(text) : k \in Int
    OBVIOUS
  <1> HIDE DEF A
  <1>7. Parens(text, i, m) \in Int
    <2>1. Cardinality(A(i, m, "(")) \in Nat
      BY <1>2, <1>6
    <2>2. Cardinality(A(i, m, ")")) \in Nat
      BY <1>2, <1>6
    <2> QED BY <2>1, <2>2, <1>1
  <1>8. (\A k \in i .. m : text[k] \notin {"(", ")"}) => Parens(text, i, m) = 0
    <2>1. ASSUME A(i, m, "(") = {}, A(i, m, ")") = {} PROVE Parens(text, i, m) = 0
      <3>1. Cardinality(A(i, m, "(")) = 0 /\ Cardinality(A(i, m, ")")) = 0
        BY <2>1, <1>5
      <3> QED BY <3>1, <1>1
    <2> QED BY <2>1, <1>4
  <1>9. ASSUME NEW k \in m .. Len(text) PROVE Parens(text, i, k) = Parens(text, i, m) + Parens(text, m + 1, k)
    <2>1. Cardinality(A(i, k, "(")) = Cardinality(A(i, m, "(")) + Cardinality(A(m + 1, k, "("))
      BY <1>3
    <2>2. Cardinality(A(i, k, ")")) = Cardinality(A(i, m, ")")) + Cardinality(A(m + 1, k, ")"))
      BY <1>3
    <2>3. Cardinality(A(i, m, "(")) \in Nat /\ Cardinality(A(m + 1, k, "(")) \in Nat
      BY <1>2, <1>6
    <2>4. Cardinality(A(i, m, ")")) \in Nat /\ Cardinality(A(m + 1, k, ")")) \in Nat
      BY <1>2, <1>6
    <2> QED BY <2>1, <2>2, <2>3, <2>4, <1>1
  <1> QED BY <1>7, <1>8, <1>9

\* Brackets that are even again are matched.
LEMMA LevelCrosses ==
  ASSUME NEW text \in Seq(Token), NEW open \in 1 .. Len(text), text[open] \in {"[", "("},
         NEW m \in open .. Len(text), Level(text, open, m) <= 0
  PROVE  \E close \in open + 1 .. m : Matches(text, open, close)
  <1> DEFINE L(k) == Level(text, open, k)
             n == Len(text)
             low == {k \in open .. m : L(k) <= 0}
  <1>0. n \in Nat /\ open \in Nat /\ m \in Nat /\ m <= n
    OBVIOUS
  <1>1. ASSUME NEW k \in open .. n
        PROVE  /\ L(open) = 1 /\ L(k) \in Int
               /\ k < n => L(k + 1) = L(k) + (IF text[k + 1] = text[open] THEN 1 ELSE 0)
                                         - (IF text[k + 1] = Closer(text[open]) THEN 1 ELSE 0)
    BY LevelNext
  <1>2. L(m) <= 0
    OBVIOUS
  <1> HIDE DEF L, n
  <1>3. m \in low
    BY <1>0, <1>2
  <1>4. \A k : k \in low <=> k \in open .. m /\ L(k) <= 0
    OBVIOUS
  <1>5. low \in SUBSET Nat
    <2>1. \A k \in low : k \in Nat
      BY <1>0
    <2> HIDE DEF low
    <2> QED BY <2>1
  <1> HIDE DEF low
  <1>6. PICK c \in low : \A k \in low : c <= k
    BY <1>3, <1>5, LeastNumber
  <1>7. c \in open .. m /\ L(c) <= 0 /\ c \in Nat
    BY <1>4, <1>5, <1>6
  <1>8. c # open
    <2>1. L(open) = 1
      BY <1>0, <1>1
    <2> QED BY <2>1, <1>7
  <1>9. c - 1 \in open .. n /\ c - 1 < n /\ (c - 1) + 1 = c /\ c \in open .. n
    BY <1>0, <1>7, <1>8
  <1>10. ASSUME NEW k \in open .. c - 1 PROVE L(k) > 0
    <2>1. k \in open .. m /\ ~(c <= k) /\ k \in open .. n
      BY <1>0, <1>7
    <2>2. k \notin low
      BY <2>1, <1>6
    <2>3. L(k) \in Int
      BY <2>1, <1>1
    <2> QED BY <2>1, <2>2, <2>3, <1>4
  <1>11. L(c) = 0
    <2>1. L((c - 1) + 1) = L(c - 1) + (IF text[(c - 1) + 1] = text[open] THEN 1 ELSE 0)
                                         - (IF text[(c - 1) + 1] = Closer(text[open]) THEN 1 ELSE 0)
      BY <1>1, <1>9
    <2>2. L(c - 1) > 0 /\ L(c - 1) \in Int /\ L(c) \in Int
      <3>1. c - 1 \in open .. c - 1
        BY <1>0, <1>9
      <3> QED BY <3>1, <1>1, <1>9, <1>10
    <2> QED BY <2>1, <2>2, <1>7, <1>9
  <1>12. c \in open + 1 .. m /\ c \in open + 1 .. Len(text)
    <2>1. n = Len(text)
      BY DEF n
    <2> QED BY <2>1, <1>0, <1>7, <1>8
  <1>13. Matches(text, open, c)
    BY <1>10, <1>11, <1>12 DEF Matches, L
  <1> QED BY <1>12, <1>13

\* The names of a chain that follow position c, after a part of it that is a chain up to there.
LEMMA ChainGoesOn ==
  ASSUME NEW text \in Seq(Token), NEW j \in 1 .. Len(text), NEW c \in j .. Len(text),
         Parens(text, j, c) = 0, text[c] \notin {Space, Newline, "."},
         \A k \in j .. c :
           /\ Parens(text, j, k) >= 0
           /\ Parens(text, j, k - 1) = 0 /\ text[k] \notin {Space, Newline, "("} =>
                \E dot \in j .. k : Link(text, dot) /\ k \in {dot, AfterSpace(text, dot + 1)},
         NEW name \in c + 1 .. Len(text)
  PROVE  Chain(text, j, name) <=> Chain(text, c + 1, name)
  <1> DEFINE n == Len(text)
             Linked(i, k) == \E dot \in i .. k : Link(text, dot) /\ k \in {dot, AfterSpace(text, dot + 1)}
             Free(k) == text[k] \notin {Space, Newline, "("}
             P(k) == Parens(text, j, k)
             Q(k) == Parens(text, c + 1, k)
  <1>0. n \in Nat /\ j \in Nat /\ c \in Nat /\ name \in Nat
    OBVIOUS
  <1>1. ASSUME NEW k \in c .. n PROVE P(k) = Q(k)
    <2>1. j \in 1 .. Len(text) + 1 /\ c \in j - 1 .. Len(text)
      OBVIOUS
    <2>2. P(k) = P(c) + Q(k)
      BY <2>1, ParensIs
    <2>3. Q(k) \in Int
      <3>1. c + 1 \in 1 .. Len(text) + 1 /\ k \in (c + 1) - 1 .. Len(text)
        OBVIOUS
      <3> QED BY <3>1, ParensIs
    <2>4. P(c) = 0
      OBVIOUS
    <2> HIDE DEF P, Q
    <2> QED BY <2>2, <2>3, <2>4
  <1>2. ASSUME NEW k \in c + 1 .. n PROVE Linked(j, k) <=> Linked(c + 1, k)
    <2>1. ASSUME NEW dot \in j .. k, Link(text, dot), k \in {dot, AfterSpace(text, dot + 1)} PROVE dot \in c + 1 .. k
      <3>1. ASSUME dot <= c PROVE FALSE
        <4>1. dot # c
          BY <2>1 DEF Link
        <4>2. dot + 1 \in 1 .. Len(text) + 1 /\ c \in dot + 1 .. Len(text)
          BY <3>1, <4>1
        <4>3. AfterSpace(text, dot + 1) <= c
          BY <4>2, AfterSpaceIs
        <4>4. k # dot /\ k > c /\ k \in Int
          BY <3>1
        <4>5. k = AfterSpace(text, dot + 1)
          BY <2>1, <4>4
        <4>6. k <= c
          BY <4>3, <4>5
        <4> QED BY <4>4, <4>6
      <3> QED BY <3>1, <2>1
    <2>2. ASSUME NEW dot \in c + 1 .. k PROVE dot \in j .. k
      OBVIOUS
    <2> QED BY <2>1, <2>2
  <1>3. \A k \in j .. c : P(k) >= 0 /\ (P(k - 1) = 0 /\ Free(k) => Linked(j, k))
    OBVIOUS
  <1>4. Chain(text, j, name) <=>
          /\ name \in j .. n /\ text[name] \notin Punctuation /\ P(name) = 0
          /\ \A k \in j .. name : P(k) >= 0 /\ (P(k - 1) = 0 /\ Free(k) => Linked(j, k))
    BY DEF Chain, OnlyLinks
  <1>5. Chain(text, c + 1, name) <=>
          /\ name \in c + 1 .. n /\ text[name] \notin Punctuation /\ Q(name) = 0
          /\ \A k \in c + 1 .. name : Q(k) >= 0 /\ (Q(k - 1) = 0 /\ Free(k) => Linked(c + 1, k))
    BY DEF Chain, OnlyLinks
  <1>6. j <= c /\ c + 1 <= name /\ name <= n
    OBVIOUS
  <1> HIDE DEF P, Q, Free, Linked, n
  <1>7. \A k \in c + 1 .. name : k \in c .. n /\ k - 1 \in c .. n /\ k \in c + 1 .. n /\ k \in j .. name
    BY <1>0, <1>6
  <1>8. \A k \in j .. name : k \in j .. c \/ k \in c + 1 .. name
    BY <1>0, <1>6
  <1>9. name \in c .. n /\ name \in j .. n /\ name \in c + 1 .. n
    BY <1>0, <1>6
  <1>10. (\A k \in j .. name : P(k) >= 0 /\ (P(k - 1) = 0 /\ Free(k) => Linked(j, k)))
           <=> (\A k \in c + 1 .. name : P(k) >= 0 /\ (P(k - 1) = 0 /\ Free(k) => Linked(j, k)))
    BY <1>3, <1>7, <1>8
  <1>11. ASSUME NEW k \in c + 1 .. name
         PROVE  (P(k) >= 0 /\ (P(k - 1) = 0 /\ Free(k) => Linked(j, k)))
                  <=> (Q(k) >= 0 /\ (Q(k - 1) = 0 /\ Free(k) => Linked(c + 1, k)))
    BY <1>1, <1>2, <1>7
  <1>12. P(name) = Q(name)
    BY <1>1, <1>9
  <1> QED BY <1>4, <1>5, <1>9, <1>10, <1>11, <1>12

\* The links that skip or focus, of the chain that goes on at j.
FocusFrom(text, j) ==
  {name \in DOMAIN text : text[name] \in {"skip", "skipIf", "only"} /\ Chain(text, j, name)}

\* Spaces open and close nothing.
LEMMA ParensAfterSpace ==
  ASSUME NEW text \in Seq(Token), NEW j \in 1 .. Len(text) + 1
  PROVE  /\ \A k \in j - 1 .. AfterSpace(text, j) - 1 : Parens(text, j, k) = 0
         /\ \A k \in AfterSpace(text, j) - 1 .. Len(text) :
              Parens(text, j, k) = Parens(text, AfterSpace(text, j), k)
  <1> DEFINE next == AfterSpace(text, j)
             n == Len(text)
  <1>1. /\ next \in j .. n + 1
        /\ \A k \in j .. next - 1 : text[k] \in {Space, Newline}
    BY AfterSpaceIs
  <1>2. n \in Nat /\ j \in 1 .. n + 1
    OBVIOUS
  <1>3. \A k \in j .. next - 1 : text[k] \notin {"(", ")"}
    BY <1>1 DEF Space, Newline
  <1> HIDE DEF next
  <1>4. ASSUME NEW k \in j - 1 .. next - 1 PROVE Parens(text, j, k) = 0
    <2>1. k \in j - 1 .. Len(text)
      BY <1>1, <1>2 DEF n
    <2>2. \A m \in j .. k : m \in j .. next - 1
      BY <1>1, <1>2
    <2>3. \A m \in j .. k : text[m] \notin {"(", ")"}
      BY <2>2, <1>3
    <2> QED BY <2>1, <2>3, ParensIs
  <1>5. ASSUME NEW k \in next - 1 .. n PROVE Parens(text, j, k) = Parens(text, next, k)
    <2>1. next - 1 \in j - 1 .. Len(text) /\ next - 1 \in j - 1 .. next - 1 /\ (next - 1) + 1 = next
      BY <1>1, <1>2 DEF n
    <2>2. Parens(text, j, k) = Parens(text, j, next - 1) + Parens(text, (next - 1) + 1, k)
      BY <2>1, ParensIs
    <2>3. Parens(text, j, next - 1) = 0
      BY <2>1, <1>4
    <2>4. Parens(text, next, k) \in Int
      <3>1. next \in 1 .. Len(text) + 1 /\ k \in next - 1 .. Len(text)
        BY <1>1, <1>2 DEF n
      <3> QED BY <3>1, ParensIs
    <2> QED BY <2>1, <2>2, <2>3, <2>4
  <1> QED BY <1>4, <1>5 DEF next

\* A name after a dot.
LEMMA ChainAtLink ==
  ASSUME NEW text \in Seq(Token), NEW j \in 1 .. Len(text) + 1,
         NEW next, next = AfterSpace(text, j), At(text, next) = ".",
         NEW name, name = AfterSpace(text, next + 1), At(text, name) \notin Punctuation \cup {"end"}
  PROVE  /\ name \in j .. Len(text)
         /\ FocusFrom(text, j) = (IF text[name] \in {"skip", "skipIf", "only"} THEN {name} ELSE {})
                                   \cup FocusFrom(text, name + 1)
  <1> DEFINE n == Len(text)
  <1>1. /\ next \in j .. n + 1
        /\ \A k \in j .. next - 1 : text[k] \in {Space, Newline}
    BY AfterSpaceIs
  <1>2. n \in Nat /\ j \in 1 .. n + 1
    OBVIOUS
  <1>3. next \in 1 .. n /\ text[next] = "." /\ next \in Nat
    <2>1. next \in DOMAIN text
      BY DEF At
    <2> QED BY <2>1 DEF At
  <1>4. /\ name \in next + 1 .. n + 1
        /\ \A k \in next + 1 .. name - 1 : text[k] \in {Space, Newline}
    <2>1. next + 1 \in 1 .. Len(text) + 1
      BY <1>3
    <2> QED BY <2>1, AfterSpaceIs
  <1>5. name \in 1 .. n /\ text[name] \notin Punctuation \cup {"end"}
    <2>1. name \in DOMAIN text
      BY DEF At
    <2> QED BY <2>1 DEF At
  <1>6. Link(text, next)
    BY <1>3 DEF Link
  <1>7. ASSUME NEW k \in j .. name PROVE \/ text[k] \in {Space, Newline}
                                         \/ k \in {next, name}
    BY <1>1, <1>3, <1>4
  <1>8. ASSUME NEW k \in j .. name PROVE text[k] \notin {"(", ")"}
    <2>1. text[next] \notin {"(", ")"}
      BY <1>3
    <2>2. text[name] \notin {"(", ")"}
      BY <1>5 DEF Punctuation
    <2>3. CASE text[k] \in {Space, Newline}
      BY <2>3 DEF Space, Newline
    <2> QED BY <2>1, <2>2, <2>3, <1>7
  <1> HIDE DEF n
  <1>9. ASSUME NEW k \in j - 1 .. name PROVE Parens(text, j, k) = 0
    <2>1. k \in j - 1 .. Len(text)
      BY <1>1, <1>2, <1>5 DEF n
    <2>2. \A m \in j .. k : m \in j .. name
      BY <1>1, <1>2, <1>5
    <2>3. \A m \in j .. k : text[m] \notin {"(", ")"}
      BY <2>2, <1>8
    <2> QED BY <2>1, <2>3, ParensIs
  <1>10. ASSUME NEW k \in j .. name, text[k] \notin {Space, Newline, "("}
         PROVE  \E dot \in j .. k : Link(text, dot) /\ k \in {dot, AfterSpace(text, dot + 1)}
    <2>1. k \in {next, name}
      BY <1>7, <1>10
    <2>2. next \in j .. k
      BY <2>1, <1>1, <1>2, <1>3, <1>4, <1>5
    <2> QED BY <2>1, <2>2, <1>6
  <1>11. text[name] \notin {Space, Newline, "."}
    BY <1>5 DEF Punctuation
  <1>12. j \in 1 .. Len(text) /\ name \in j .. Len(text) /\ n = Len(text)
    BY <1>1, <1>2, <1>3, <1>4, <1>5 DEF n
  <1>13. Parens(text, j, name) = 0
    <2>1. name \in j - 1 .. name
      BY <1>12
    <2> QED BY <2>1, <1>9
  <1>14. \A k \in j .. name :
           /\ Parens(text, j, k) >= 0
           /\ Parens(text, j, k - 1) = 0 /\ text[k] \notin {Space, Newline, "("} =>
                \E dot \in j .. k : Link(text, dot) /\ k \in {dot, AfterSpace(text, dot + 1)}
    <2>1. ASSUME NEW k \in j .. name PROVE Parens(text, j, k) >= 0
      <3>1. k \in j - 1 .. name
        BY <1>12
      <3> QED BY <3>1, <1>9
    <2> QED BY <2>1, <1>10
  <1>15. ASSUME NEW m \in name + 1 .. Len(text) PROVE Chain(text, j, m) <=> Chain(text, name + 1, m)
    BY <1>11, <1>12, <1>13, <1>14, ChainGoesOn
  <1>16. Chain(text, j, name)
    BY <1>5, <1>12, <1>13, <1>14 DEF Chain, OnlyLinks
  <1>17. ASSUME NEW m \in DOMAIN text, Chain(text, j, m), ~(m > name) PROVE m = name
    <2>1. m \in j .. name /\ text[m] \notin Punctuation
      BY <1>12, <1>17 DEF Chain, OnlyLinks
    <2>2. text[m] \notin {Space, Newline} /\ text[m] # "."
      BY <2>1 DEF Punctuation
    <2> QED BY <2>1, <2>2, <1>3, <1>7
  <1>18. ASSUME NEW m \in DOMAIN text, Chain(text, name + 1, m) PROVE m \in name + 1 .. Len(text)
    BY <1>18 DEF Chain, OnlyLinks
  <1>19. ASSUME NEW m \in DOMAIN text
         PROVE  Chain(text, j, m) <=> m = name \/ Chain(text, name + 1, m)
    <2>1. CASE m > name
      <3>1. m \in name + 1 .. Len(text)
        BY <2>1, <1>12
      <3>2. m # name
        BY <3>1, <1>12
      <3> QED BY <3>1, <3>2, <1>15
    <2>2. CASE ~(m > name)
      <3>1. ~Chain(text, name + 1, m)
        BY <2>2, <1>12, <1>18
      <3> QED BY <3>1, <2>2, <1>16, <1>17
    <2> QED BY <2>1, <2>2
  <1>20. name \in DOMAIN text
    BY <1>12
  <1> QED BY <1>12, <1>19, <1>20 DEF FocusFrom

\* A call.
LEMMA ChainAtCall ==
  ASSUME NEW text \in Seq(Token), NEW j \in 1 .. Len(text) + 1,
         NEW next, next = AfterSpace(text, j), At(text, next) = "(", Closing(text, next) # 0
  PROVE  /\ Closing(text, next) \in j .. Len(text)
         /\ FocusFrom(text, j) = FocusFrom(text, Closing(text, next) + 1)
  <1> DEFINE n == Len(text)
             c == Closing(text, next)
  <1>1. /\ next \in j .. n + 1
        /\ \A k \in j .. next - 1 : text[k] \in {Space, Newline}
    BY AfterSpaceIs
  <1>2. n \in Nat /\ j \in 1 .. n + 1
    OBVIOUS
  <1>3. next \in 1 .. n /\ text[next] = "(" /\ next \in Nat
    <2>1. next \in DOMAIN text
      BY DEF At
    <2> QED BY <2>1 DEF At
  <1>4. Matches(text, next, c)
    BY <1>3, ClosingMatches
  <1>5. ASSUME NEW k \in next - 1 .. n PROVE Level(text, next, k) = Parens(text, j, k)
    <2>1. Level(text, next, k) = Parens(text, next, k)
      BY <1>3 DEF Level, Parens, Closer
    <2> QED BY <2>1, ParensAfterSpace
  <1> HIDE DEF n, c
  <1>6. c \in next + 1 .. n
    BY <1>4 DEF Matches, n
  <1>7. ASSUME NEW k \in next .. c - 1 PROVE Parens(text, j, k) > 0
    <2>1. k \in next - 1 .. n
      BY <1>3, <1>6, <1>2
    <2>2. Level(text, next, k) > 0
      BY <1>4 DEF Matches
    <2> QED BY <2>1, <2>2, <1>5
  <1>8. Parens(text, j, c) = 0
    <2>1. c \in next - 1 .. n
      BY <1>3, <1>6, <1>2
    <2>2. Level(text, next, c) = 0
      BY <1>4 DEF Matches
    <2> QED BY <2>1, <2>2, <1>5
  <1>9. ASSUME NEW k \in j - 1 .. next - 1 PROVE Parens(text, j, k) = 0
    BY ParensAfterSpace
  <1>10. text[c] = ")"
    <2>1. c - 1 \in next .. Len(text) /\ (c - 1) + 1 = c /\ c - 1 < Len(text) /\ next \in 1 .. Len(text)
      BY <1>3, <1>6, <1>2 DEF n
    <2>2. Level(text, next, c - 1) \in Int
          /\ Level(text, next, c) = Level(text, next, c - 1) + (IF text[c] = text[next] THEN 1 ELSE 0)
                                           - (IF text[c] = Closer(text[next]) THEN 1 ELSE 0)
      <3>1. text[next] \in {"[", "("}
        BY <1>3
      <3>2. /\ Level(text, next, c - 1) \in Int
            /\ c - 1 < Len(text) =>
                 Level(text, next, (c - 1) + 1) = Level(text, next, c - 1) + (IF text[(c - 1) + 1] = text[next] THEN 1 ELSE 0)
                                              - (IF text[(c - 1) + 1] = Closer(text[next]) THEN 1 ELSE 0)
        BY <2>1, <3>1, LevelNext
      <3> QED BY <2>1, <3>2
    <2>3. Level(text, next, c) = 0
      BY <1>4 DEF Matches
    <2>4. Level(text, next, c - 1) > 0
      <3>1. c - 1 \in next .. c - 1
        BY <1>6, <1>3
      <3> QED BY <3>1, <1>4 DEF Matches
    <2>5. text[c] = Closer(text[next])
      BY <2>2, <2>3, <2>4
    <2> QED BY <2>5, <1>3 DEF Closer
  <1>11. j \in 1 .. Len(text) /\ c \in j .. Len(text) /\ n = Len(text)
    BY <1>1, <1>2, <1>3, <1>6 DEF n
  <1>12. ASSUME NEW k \in j .. c PROVE Parens(text, j, k) >= 0
    <2>1. CASE k <= next - 1
      <3>1. k \in j - 1 .. next - 1
        BY <2>1, <1>2, <1>3
      <3> QED BY <3>1, <1>9
    <2>2. CASE k > next - 1 /\ k # c
      <3>1. k \in next .. c - 1
        BY <2>2, <1>2, <1>3, <1>6
      <3>2. k \in j - 1 .. Len(text) /\ j \in 1 .. Len(text) + 1
        BY <1>11
      <3>3. Parens(text, j, k) \in Int
        BY <3>2, ParensIs
      <3> QED BY <3>1, <3>3, <1>7
    <2>3. CASE k = c
      BY <2>3, <1>8
    <2> QED BY <2>1, <2>2, <2>3, <1>2, <1>3
  <1>13. ASSUME NEW k \in j .. c, Parens(text, j, k - 1) = 0 PROVE text[k] \in {Space, Newline, "("}
    <2>1. CASE k <= next - 1
      <3>1. k \in j .. next - 1
        BY <2>1, <1>2, <1>3
      <3> QED BY <3>1, <1>1
    <2>2. CASE k > next
      <3>1. k - 1 \in next .. c - 1
        BY <2>2, <1>2, <1>3, <1>6
      <3>2. Parens(text, j, k - 1) > 0
        BY <3>1, <1>7
      <3> QED BY <3>2, <1>13
    <2>3. CASE k = next
      BY <2>3, <1>3
    <2> QED BY <2>1, <2>2, <2>3, <1>2, <1>3
  <1>14. text[c] \notin {Space, Newline, "."} /\ text[c] \in Punctuation
    BY <1>10 DEF Space, Newline, Punctuation
  <1>15. ASSUME NEW m \in c + 1 .. Len(text) PROVE Chain(text, j, m) <=> Chain(text, c + 1, m)
    BY <1>8, <1>11, <1>12, <1>13, <1>14, ChainGoesOn
  <1>16. ASSUME NEW m \in DOMAIN text, Chain(text, j, m) PROVE m > c
    <2>1. m \in j .. Len(text) /\ text[m] \notin Punctuation /\ Parens(text, j, m) = 0
      BY <1>16 DEF Chain, OnlyLinks
    <2>2. m # c
      BY <2>1, <1>14
    <2>3. m # next
      BY <2>1, <1>3 DEF Punctuation
    <2>4. ~(m \in next .. c - 1)
      BY <2>1, <1>7
    <2>5. ~(m \in j .. next - 1)
      BY <2>1, <1>1 DEF Punctuation
    <2> QED BY <2>1, <2>2, <2>4, <2>5, <1>2, <1>3, <1>6
  <1>17. ASSUME NEW m \in DOMAIN text PROVE Chain(text, j, m) <=> Chain(text, c + 1, m)
    <2>1. CASE m > c
      <3>1. m \in c + 1 .. Len(text)
        BY <2>1, <1>11
      <3> QED BY <3>1, <1>15
    <2>2. CASE ~(m > c)
      <3>1. ~Chain(text, c + 1, m)
        BY <2>2, <1>11 DEF Chain, OnlyLinks
      <3> QED BY <3>1, <2>2, <1>16
    <2> QED BY <2>1, <2>2
  <1>18. FocusFrom(text, j) = FocusFrom(text, c + 1)
    BY <1>17 DEF FocusFrom
  <1> QED BY <1>11, <1>18 DEF c

\* Neither a link nor a call: the chain has ended.
LEMMA ChainEnds ==
  ASSUME NEW text \in Seq(Token), NEW j \in 1 .. Len(text) + 1, NEW name, Chain(text, j, name)
  PROVE  LET next == AfterSpace(text, j)
         IN \/ At(text, next) = "." /\ At(text, AfterSpace(text, next + 1)) \notin Punctuation \cup {"end"}
            \/ At(text, next) = "(" /\ Closing(text, next) # 0
  <1> DEFINE n == Len(text)
             next == AfterSpace(text, j)
  <1>1. /\ next \in j .. n + 1
        /\ \A k \in j .. next - 1 : text[k] \in {Space, Newline}
        /\ \A k \in j .. n : text[k] \notin {Space, Newline} => next <= k
        /\ next <= n => text[next] \notin {Space, Newline}
    BY AfterSpaceIs
  <1>2. n \in Nat /\ j \in 1 .. n + 1
    OBVIOUS
  <1>3. name \in j .. n /\ text[name] \notin Punctuation /\ Parens(text, j, name) = 0
    BY DEF Chain, OnlyLinks
  <1>4. next <= name
    <2>1. text[name] \notin {Space, Newline}
      BY <1>3 DEF Punctuation
    <2> QED BY <2>1, <1>1, <1>3
  <1>5. next \in 1 .. n /\ next \in j .. name /\ next \in Nat /\ At(text, next) = text[next]
    <2>1. next \in 1 .. n /\ next \in j .. name /\ next \in Nat
      BY <1>1, <1>2, <1>3, <1>4
    <2>2. DOMAIN text = 1 .. n
      OBVIOUS
    <2> HIDE DEF next, n
    <2> QED BY <2>1, <2>2 DEF At
  <1>6. text[next] \notin {Space, Newline}
    BY <1>1, <1>5
  <1>7. CASE text[next] = "("
    <2>1. Closing(text, next) # 0
      <3> SUFFICES ASSUME Closing(text, next) = 0
                   PROVE  FALSE
        OBVIOUS
      <3>1. next \in 1 .. Len(text) /\ text[next] \in {"[", "("} /\ name \in next .. Len(text)
        BY <1>2, <1>3, <1>5, <1>7
      <3>2. Level(text, next, name) = Parens(text, next, name)
        BY <1>7 DEF Level, Parens, Closer
      <3>3. name \in next - 1 .. Len(text)
        BY <3>1
      <3>4. Parens(text, j, name) = Parens(text, next, name)
        BY <3>3, ParensAfterSpace
      <3> HIDE DEF next
      <3>5. Level(text, next, name) <= 0
        BY <3>2, <3>4, <1>3
      <3>6. PICK close \in next + 1 .. name : Matches(text, next, close)
        BY <3>1, <3>5, LevelCrosses
      <3>7. Closing(text, next) = close
        BY <3>1, <3>6, ClosingMatches
      <3>8. close # 0
        BY <3>6, <1>5
      <3> QED BY <3>7, <3>8
    <2> QED BY <2>1, <1>5, <1>7
  <1>8. CASE text[next] # "("
    <2>1. Parens(text, j, next - 1) = 0
      <3>1. next - 1 \in j - 1 .. next - 1
        BY <1>1, <1>2
      <3> QED BY <3>1, ParensAfterSpace
    <2> HIDE DEF next
    <2>2. PICK dot \in j .. next : Link(text, dot)
      BY <2>1, <1>5, <1>6, <1>8 DEF Chain, OnlyLinks
    <2>3. dot = next
      <3>1. ~(dot \in j .. next - 1)
        <4>1. text[dot] \notin {Space, Newline}
          BY <2>2 DEF Link, Space, Newline
        <4> QED BY <4>1, <1>1
      <3> QED BY <3>1, <1>2, <1>5
    <2>4. At(text, next) = "." /\ At(text, AfterSpace(text, next + 1)) \notin Punctuation \cup {"end"}
      BY <2>2, <2>3, <1>5 DEF Link
    <2> QED BY <2>4 DEF next
  <1> QED BY <1>7, <1>8

\* The equation of the function in ChainFindings.
ChainEq(source, f) ==
  f = [j \in 1 .. Len(source) + 1 |->
        LET next == AfterSpace(source, j)
            name == AfterSpace(source, next + 1)
        IN CASE At(source, next) = "." /\ At(source, name) \notin Punctuation \cup {"end"} ->
                  (IF source[name] \in {"skip", "skipIf", "only"} THEN {name} ELSE {}) \cup f[name + 1]
             [] At(source, next) = "(" /\ Closing(source, next) # 0 -> f[Closing(source, next) + 1]
             [] OTHER -> {}]

\* Following a chain from a runner finds just its links that skip or focus.
LEMMA ChainFindingsAre ==
  ASSUME NEW text \in Seq(Token), NEW i \in 1 .. Len(text) + 1
  PROVE  ChainFindings(text, i) = FocusFrom(text, i)
  <1> DEFINE n == Len(text)
             next(j) == AfterSpace(text, j)
             name(j) == AfterSpace(text, next(j) + 1)
             isLink(j) == At(text, next(j)) = "." /\ At(text, name(j)) \notin Punctuation \cup {"end"}
             isCall(j) == At(text, next(j)) = "(" /\ Closing(text, next(j)) # 0
             found(j) == IF text[name(j)] \in {"skip", "skipIf", "only"} THEN {name(j)} ELSE {}
             call(j) == Closing(text, next(j))
             Body(f, j) == CASE isLink(j) -> found(j) \cup f[name(j) + 1]
                             [] isCall(j) -> f[call(j) + 1]
                             [] OTHER -> {}
             F == [j \in 1 .. n + 1 |-> FocusFrom(text, j)]
  <1>1. n \in Nat
    OBVIOUS
  <1>2. ASSUME NEW f PROVE ChainEq(text, f) <=> f = [j \in 1 .. n + 1 |-> Body(f, j)]
    BY DEF ChainEq
  <1>3. \A j : ~(isLink(j) /\ isCall(j))
    OBVIOUS
  <1>4. ASSUME NEW j \in 1 .. n + 1, isLink(j)
        PROVE  name(j) \in j .. n /\ FocusFrom(text, j) = found(j) \cup FocusFrom(text, name(j) + 1)
    BY <1>4, ChainAtLink
  <1>5. ASSUME NEW j \in 1 .. n + 1, isCall(j)
        PROVE  call(j) \in j .. n /\ FocusFrom(text, j) = FocusFrom(text, call(j) + 1)
    BY <1>5, ChainAtCall
  <1>6. ASSUME NEW j \in 1 .. n + 1, ~isLink(j), ~isCall(j) PROVE FocusFrom(text, j) = {}
    BY <1>6, ChainEnds DEF FocusFrom
  <1>7. ASSUME NEW f, NEW j
        PROVE  /\ isLink(j) => Body(f, j) = found(j) \cup f[name(j) + 1]
               /\ isCall(j) => Body(f, j) = f[call(j) + 1]
               /\ ~isLink(j) /\ ~isCall(j) => Body(f, j) = {}
    <2> HIDE DEF isLink, isCall, found, call, name
    <2> QED BY <1>3
  <1> HIDE DEF Body, isLink, isCall, found, call, name, next, n
  <1>8. ASSUME NEW j \in 1 .. n + 1 PROVE FocusFrom(text, j) = Body(F, j)
    <2>1. CASE isLink(j)
      <3>1. name(j) + 1 \in 1 .. n + 1
        BY <1>1, <1>4, <2>1
      <3>2. F[name(j) + 1] = FocusFrom(text, name(j) + 1)
        BY <3>1
      <3> HIDE DEF F
      <3> QED BY <2>1, <3>2, <1>4, <1>7
    <2>2. CASE isCall(j)
      <3>1. call(j) + 1 \in 1 .. n + 1
        BY <1>1, <1>5, <2>2
      <3>2. F[call(j) + 1] = FocusFrom(text, call(j) + 1)
        BY <3>1
      <3> HIDE DEF F
      <3> QED BY <2>2, <3>2, <1>5, <1>7
    <2>3. CASE ~isLink(j) /\ ~isCall(j)
      BY <2>3, <1>6, <1>7
    <2> QED BY <2>1, <2>2, <2>3
  <1>9. ChainEq(text, F)
    <2>1. F = [j \in 1 .. n + 1 |-> Body(F, j)]
      <3>1. [j \in 1 .. n + 1 |-> FocusFrom(text, j)] = [j \in 1 .. n + 1 |-> Body(F, j)]
        <4> HIDE DEF F
        <4> QED BY <1>8
      <3> QED BY <3>1
    <2> HIDE DEF F
    <2> QED BY <2>1, <1>2
  <1> HIDE DEF F
  <1>10. ASSUME NEW f, ChainEq(text, f), NEW j \in 1 .. n + 1 PROVE f[j] = FocusFrom(text, j)
    <2> DEFINE T == {m \in Nat : m <= n => f[n + 1 - m] = FocusFrom(text, n + 1 - m)}
    <2>1. \A k \in 1 .. n + 1 : f[k] = Body(f, k)
      <3>1. f = [k \in 1 .. n + 1 |-> Body(f, k)]
        BY <1>2, <1>10
      <3> QED BY <3>1
    <2>2. ASSUME NEW m \in Nat, \A l \in Nat : l < m => l \in T PROVE m \in T
      <3> SUFFICES ASSUME m <= n
                   PROVE  f[n + 1 - m] = FocusFrom(text, n + 1 - m)
        OBVIOUS
      <3> DEFINE k == n + 1 - m
      <3>1. k \in 1 .. n + 1
        BY <1>1
      <3>2. ASSUME NEW l \in k + 1 .. n + 1 PROVE f[l] = FocusFrom(text, l)
        <4>1. n + 1 - l \in Nat /\ n + 1 - l < m /\ n + 1 - l <= n /\ n + 1 - (n + 1 - l) = l
          BY <1>1
        <4>2. n + 1 - l \in T
          BY <4>1, <2>2
        <4> QED BY <4>1, <4>2
      <3> HIDE DEF k, T
      <3>3. f[k] = Body(f, k)
        BY <3>1, <2>1
      <3>4. CASE isLink(k)
        <4>1. name(k) + 1 \in k + 1 .. n + 1
          BY <1>1, <3>1, <3>4, <1>4
        <4>2. f[name(k) + 1] = FocusFrom(text, name(k) + 1)
          BY <4>1, <3>2
        <4> QED BY <3>1, <3>3, <3>4, <4>2, <1>4, <1>7, ZenonT(60) DEF k
      <3>5. CASE isCall(k)
        <4>1. call(k) + 1 \in k + 1 .. n + 1
          BY <1>1, <3>1, <3>5, <1>5
        <4>2. f[call(k) + 1] = FocusFrom(text, call(k) + 1)
          BY <4>1, <3>2
        <4> QED BY <3>1, <3>3, <3>5, <4>2, <1>5, <1>7 DEF k
      <3>6. CASE ~isLink(k) /\ ~isCall(k)
        BY <3>1, <3>3, <3>6, <1>6, <1>7 DEF k
      <3> QED BY <3>4, <3>5, <3>6
    <2>3. T \in SUBSET Nat
      OBVIOUS
    <2>4. T = Nat
      <3> HIDE DEF T
      <3> QED BY <2>2, <2>3, StrongInduction
    <2>5. n + 1 - j \in Nat /\ n + 1 - j <= n /\ n + 1 - (n + 1 - j) = j
      BY <1>1
    <2>6. n + 1 - j \in T
      BY <2>4, <2>5
    <2> QED BY <2>5, <2>6
  <1>11. ChainFindings(text, i) = FocusFrom(text, i)
    <2> DEFINE M == CHOOSE f : ChainEq(text, f)
    <2>1. ChainEq(text, M)
      BY <1>9
    <2>2. ChainFindings(text, i) = M[i]
      BY DEF ChainFindings, ChainEq
    <2>3. i \in 1 .. n + 1
      BY DEF n
    <2> HIDE DEF M
    <2> QED BY <2>1, <2>2, <2>3, <1>10
  <1> QED BY <1>11

\* scan_typescript_no_quarantine finds just the links that skip or focus in the chain of a runner.
LEMMA TypeScriptFindingsAre ==
  ASSUME NEW text \in Seq(Token)
  PROVE  TypeScriptFindings(text) = TypeScriptSkips(text)
  <1> DEFINE Runs == {j \in DOMAIN text : text[j] \in {"describe", "it", "test", "suite"}}
  <1>1. ASSUME NEW j \in Runs PROVE ChainFindings(text, j + 1) = FocusFrom(text, j + 1)
    <2>1. j + 1 \in 1 .. Len(text) + 1
      OBVIOUS
    <2> QED BY <2>1, ChainFindingsAre
  <1>2. TypeScriptFindings(text) = UNION {ChainFindings(text, j + 1) : j \in Runs}
    BY DEF TypeScriptFindings
  <1>3. \A m : m \in TypeScriptSkips(text) <=> \E j \in Runs : m \in FocusFrom(text, j + 1)
    BY DEF TypeScriptSkips, FocusFrom, Runners
  <1> HIDE DEF Runs
  <1> QED BY <1>1, <1>2, <1>3

-----------------------------------------------------------------------------
(* Lines. *)

\* The line of a position goes up by one after each newline.
LEMMA LineOfNext ==
  ASSUME NEW text \in Seq(Token), NEW i \in 1 .. Len(text) + 1
  PROVE  /\ LineOf(text, 1) = 1
         /\ LineOf(text, i) \in Nat
         /\ i <= Len(text) => LineOf(text, i + 1) = LineOf(text, i) + (IF text[i] = Newline THEN 1 ELSE 0)
  <1>1. \A k : LineOf(text, k) = 1 + Count(text, 1, k - 1, Newline)
    BY DEF LineOf, Count
  <1>2. Count(text, 1, 0, Newline) = 0
    <2>1. {m \in 1 .. 0 : text[m] = Newline} = {}
      OBVIOUS
    <2>2. Cardinality({}) = 0
      BY FS_EmptySet
    <2> QED BY <2>1, <2>2 DEF Count
  <1>3. CASE i = 1
    <2>1. LineOf(text, 1) = 1
      BY <1>1, <1>2
    <2>2. ASSUME 1 <= Len(text)
          PROVE  Count(text, 1, 1, Newline) = Count(text, 1, 0, Newline) + (IF text[1] = Newline THEN 1 ELSE 0)
      <3>1. 1 \in 1 .. Len(text) /\ 0 \in 1 - 1 .. Len(text) - 1
        BY <2>2
      <3>2. Count(text, 1, 0 + 1, Newline) = Count(text, 1, 0, Newline) + (IF text[0 + 1] = Newline THEN 1 ELSE 0)
        BY <3>1, CountNext
      <3> QED BY <3>2
    <2>3. ASSUME 1 <= Len(text) PROVE LineOf(text, 2) = 1 + (IF text[1] = Newline THEN 1 ELSE 0)
      <3>1. LineOf(text, 2) = 1 + Count(text, 1, 2 - 1, Newline) /\ 2 - 1 = 1
        BY <1>1
      <3> QED BY <3>1, <2>2, <2>3, <1>2
    <2> QED BY <2>1, <2>3, <1>3
  <1>4. CASE i # 1
    <2>1. 1 \in 1 .. Len(text) /\ i - 2 \in 1 - 1 .. Len(text) - 1 /\ (i - 2) + 1 = i - 1
      BY <1>4
    <2>2. /\ Count(text, 1, i - 2, Newline) \in Nat
          /\ Count(text, 1, i - 1, Newline) = Count(text, 1, i - 2, Newline) + (IF text[i - 1] = Newline THEN 1 ELSE 0)
      BY <2>1, CountNext
    <2>3. Count(text, 1, i - 1, Newline) \in Nat
      BY <2>2
    <2>4. ASSUME i <= Len(text)
          PROVE Count(text, 1, i, Newline) = Count(text, 1, i - 1, Newline) + (IF text[i] = Newline THEN 1 ELSE 0)
      <3>1. i - 1 \in 1 - 1 .. Len(text) - 1 /\ (i - 1) + 1 = i
        BY <2>4
      <3>2. Count(text, 1, (i - 1) + 1, Newline) = Count(text, 1, i - 1, Newline) + (IF text[(i - 1) + 1] = Newline THEN 1 ELSE 0)
        BY <3>1, <2>1, CountNext
      <3> QED BY <3>1, <3>2
    <2>5. LineOf(text, i) = 1 + Count(text, 1, i - 1, Newline) /\ (i + 1) - 1 = i
      BY <1>1
    <2>6. LineOf(text, i + 1) = 1 + Count(text, 1, i, Newline)
      BY <1>1, <2>5
    <2>7. LineOf(text, 1) = 1
      <3>1. LineOf(text, 1) = 1 + Count(text, 1, 1 - 1, Newline) /\ 1 - 1 = 0
        BY <1>1
      <3> QED BY <3>1, <1>2
    <2> QED BY <2>3, <2>4, <2>5, <2>6, <2>7
  <1> QED BY <1>3, <1>4

\* Two positions are on one line if no line ends between them.
LEMMA LineOfGrows ==
  ASSUME NEW text \in Seq(Token), NEW i \in 1 .. Len(text) + 1, NEW k \in i .. Len(text) + 1
  PROVE  /\ LineOf(text, i) <= LineOf(text, k)
         /\ LineOf(text, i) = LineOf(text, k) <=> OnOneLine(text, i, k)
  <1> DEFINE n == Len(text)
             L(m) == LineOf(text, m)
             P(m) == L(i) <= L(m) /\ (L(i) = L(m) <=> OnOneLine(text, i, m))
             T == {d \in Nat : i + d <= n + 1 => P(i + d)}
  <1>0. n \in Nat /\ i \in Nat /\ i >= 1
    OBVIOUS
  <1>1. ASSUME NEW m \in 1 .. n + 1
        PROVE  L(m) \in Nat /\ (m <= n => L(m + 1) = L(m) + (IF text[m] = Newline THEN 1 ELSE 0))
    BY LineOfNext
  <1>2. P(i)
    BY <1>0, <1>1 DEF OnOneLine
  <1> HIDE DEF L, n
  <1>3. ASSUME NEW m \in i .. n, P(m) PROVE P(m + 1)
    <2>1. m \in 1 .. n + 1 /\ m <= n /\ i \in 1 .. n + 1
      BY <1>0
    <2>2. OnOneLine(text, i, m + 1) <=> OnOneLine(text, i, m) /\ text[m] # Newline
      <3>1. \A q : q \in i .. (m + 1) - 1 <=> q \in i .. m - 1 \/ q = m
        BY <1>0
      <3> QED BY <3>1 DEF OnOneLine
    <2>3. L(m) \in Nat /\ L(m + 1) = L(m) + (IF text[m] = Newline THEN 1 ELSE 0) /\ L(i) \in Nat
      BY <2>1, <1>1
    <2> QED BY <2>2, <2>3, <1>3
  <1>4. 0 \in T
    <2>1. i + 0 = i
      BY <1>0
    <2> HIDE DEF P
    <2> QED BY <2>1, <1>2
  <1>5. ASSUME NEW d \in T PROVE d + 1 \in T
    <2>1. d \in Nat /\ (i + d <= n + 1 => P(i + d))
      BY <1>5
    <2> HIDE DEF P
    <2>2. ASSUME i + (d + 1) <= n + 1 PROVE P(i + (d + 1))
      <3>1. i + d \in i .. n /\ i + d <= n + 1 /\ i + (d + 1) = (i + d) + 1
        BY <2>1, <2>2, <1>0
      <3>2. P((i + d) + 1)
        BY <3>1, <2>1, <1>3
      <3> QED BY <3>1, <3>2
    <2> QED BY <2>1, <2>2
  <1>6. T = Nat
    <2>1. T \in SUBSET Nat
      OBVIOUS
    <2> HIDE DEF T
    <2> QED BY <2>1, <1>4, <1>5, Induction
  <1>7. k - i \in Nat /\ i + (k - i) = k /\ k <= n + 1
    BY <1>0 DEF n
  <1>8. k - i \in T
    BY <1>6, <1>7
  <1>9. P(k)
    <2> HIDE DEF P
    <2> QED BY <1>7, <1>8
  <1> QED BY <1>9 DEF L

\* Each line is the text from its start to its end.
LEMMA LinesAre ==
  ASSUME NEW text \in Seq(Token), NEW n \in 1 .. LineOf(text, Len(text) + 1)
  PROVE  \E s \in 1 .. Len(text) + 1 :
           /\ LineOf(text, s) = n
           /\ s = 1 \/ text[s - 1] = Newline
           /\ LinesIn(text)[n] = SubSeq(text, s, LineCommentEnd(text, s) - 1)
  <1> DEFINE N == Len(text)
             L(m) == LineOf(text, m)
             starts == {1} \cup {j + 1 : j \in {k \in DOMAIN text : text[k] = Newline}}
             late == {m \in 1 .. N + 1 : L(m) >= n}
             s == CHOOSE j \in starts : LineOf(text, j) = n
  <1>0. N \in Nat /\ n \in 1 .. L(N + 1)
    OBVIOUS
  <1>1. ASSUME NEW m \in 1 .. N + 1
        PROVE  L(1) = 1 /\ L(m) \in Nat /\ (m <= N => L(m + 1) = L(m) + (IF text[m] = Newline THEN 1 ELSE 0))
    BY LineOfNext
  <1>2. \A m : m \in starts <=> m = 1 \/ (m \in 2 .. N + 1 /\ text[m - 1] = Newline)
    <2>1. ASSUME NEW j \in {k \in DOMAIN text : text[k] = Newline}
          PROVE  j + 1 \in 2 .. N + 1 /\ text[(j + 1) - 1] = Newline
      OBVIOUS
    <2>2. ASSUME NEW m \in 2 .. N + 1, text[m - 1] = Newline
          PROVE  m - 1 \in {k \in DOMAIN text : text[k] = Newline} /\ (m - 1) + 1 = m
      BY <2>2
    <2> QED BY <2>1, <2>2
  <1> HIDE DEF L, N
  <1>3. \E j \in starts : L(j) = n
    <2>1. N + 1 \in late
      <3>1. N + 1 \in 1 .. N + 1
        BY <1>0
      <3>2. L(N + 1) \in Nat
        BY <3>1, <1>1
      <3> QED BY <3>1, <3>2, <1>0
    <2>2. late \in SUBSET Nat
      <3>1. 1 .. N + 1 \subseteq Nat
        OBVIOUS
      <3> QED BY <3>1
    <2>3. \A m : m \in late <=> m \in 1 .. N + 1 /\ L(m) >= n
      OBVIOUS
    <2> HIDE DEF late
    <2>4. PICK j \in late : \A m \in late : j <= m
      BY <2>1, <2>2, LeastNumber
    <2>5. j \in 1 .. N + 1 /\ L(j) >= n /\ j \in Nat
      BY <2>2, <2>3
    <2>6. CASE j = 1
      <3>1. L(1) = 1 /\ n >= 1
        BY <1>0, <1>1, <2>5
      <3>2. n \in Nat
        <4>1. L(N + 1) \in Nat
          <5>1. N + 1 \in 1 .. N + 1
            BY <1>0
          <5> QED BY <5>1, <1>1
        <4> QED BY <4>1, <1>0
      <3>3. L(j) = n
        BY <3>1, <3>2, <2>5, <2>6
      <3> QED BY <3>3, <2>6, <1>2
    <2>7. CASE j # 1
      <3>1. j - 1 \in 1 .. N + 1 /\ j - 1 <= N /\ (j - 1) + 1 = j /\ ~(j <= j - 1) /\ j \in 2 .. N + 1
        BY <2>5, <2>7, <1>0
      <3>2. j - 1 \notin late
        BY <3>1, <2>4
      <3>3. n \in Nat
        <4>1. L(N + 1) \in Nat
          <5>1. N + 1 \in 1 .. N + 1
            BY <1>0
          <5> QED BY <5>1, <1>1
        <4> QED BY <4>1, <1>0
      <3>4. L(j - 1) \in Nat /\ L(j) = L(j - 1) + (IF text[j - 1] = Newline THEN 1 ELSE 0)
        BY <3>1, <1>1
      <3>5. L(j - 1) < n
        BY <3>1, <3>2, <3>3, <3>4, <2>3
      <3>6. text[j - 1] = Newline /\ L(j) = n
        BY <3>3, <3>4, <3>5, <2>5
      <3> HIDE DEF starts
      <3> QED BY <3>1, <3>6, <1>2
    <2> QED BY <2>6, <2>7
  <1>4. s \in starts /\ L(s) = n
    BY <1>3 DEF L
  <1>5. LinesIn(text)[n] = SubSeq(text, s, LineCommentEnd(text, s) - 1)
    BY DEF LinesIn
  <1> HIDE DEF s, starts
  <1>6. s \in 1 .. N + 1 /\ (s = 1 \/ text[s - 1] = Newline)
    BY <1>0, <1>2, <1>4
  <1> QED BY <1>4, <1>5, <1>6 DEF L, N

\* A line goes from its start to its newline, and its positions are those with its number.
LEMMA LineIs ==
  ASSUME NEW text \in Seq(Token), NEW s \in 1 .. Len(text) + 1, s = 1 \/ text[s - 1] = Newline
  PROVE  LET e == LineCommentEnd(text, s)
             line == SubSeq(text, s, e - 1)
         IN /\ e \in s .. Len(text) + 1
            /\ line \in Seq(Token) /\ Len(line) = e - s
            /\ \A k \in 1 .. e - s : line[k] = text[s + k - 1]
            /\ \A i \in s .. e - 1 : text[i] # Newline
            /\ \A i \in DOMAIN text : LineOf(text, i) = LineOf(text, s) <=> i \in s .. e
  <1> DEFINE e == LineCommentEnd(text, s)
             line == SubSeq(text, s, e - 1)
  <1> DEFINE n == Len(text)
  <1>1. /\ e \in s .. n + 1
        /\ \A i \in s .. e - 1 : text[i] # Newline
        /\ e = n + 1 \/ text[e] = Newline
    BY LineEnds
  <1> HIDE DEF e
  <1>2. n \in Nat /\ s \in 1 .. n + 1
    OBVIOUS
  <1>3. line \in Seq(Token) /\ Len(line) = e - s /\ \A k \in 1 .. e - s : line[k] = text[s + k - 1]
    <2>1. s \in 1 .. Len(text) + 1 /\ e - 1 \in s - 1 .. Len(text)
      BY <1>1, <1>2
    <2> HIDE DEF e
    <2>2. /\ Len(line) = (e - 1) - s + 1 /\ line \in Seq(Token)
          /\ \A k \in 1 .. (e - 1) - s + 1 : line[k] = text[s + k - 1]
      BY <2>1, SubSeqProperties
    <2>3. (e - 1) - s + 1 = e - s
      BY <1>1, <1>2
    <2> QED BY <2>2, <2>3
  <1>4. ASSUME NEW i \in DOMAIN text PROVE LineOf(text, i) = LineOf(text, s) <=> i \in s .. e
    <2>1. i \in 1 .. n
      OBVIOUS
    <2>2. CASE i < s
      <3>1. s \in i .. Len(text) + 1 /\ i \in 1 .. Len(text) + 1 /\ s - 1 \in i .. s - 1 /\ s # 1
        BY <2>1, <2>2
      <3>2. ~OnOneLine(text, i, s)
        BY <3>1 DEF OnOneLine
      <3>3. LineOf(text, i) # LineOf(text, s)
        BY <3>1, <3>2, LineOfGrows
      <3>4. i \notin s .. e
        BY <2>1, <2>2, <1>2
      <3> QED BY <3>3, <3>4
    <2>3. CASE i >= s
      <3>1. i \in s .. Len(text) + 1
        BY <2>1, <2>3
      <3>2. LineOf(text, s) = LineOf(text, i) <=> OnOneLine(text, s, i)
        BY <3>1, LineOfGrows
      <3>3. CASE i <= e
        <4>1. \A k \in s .. i - 1 : k \in s .. e - 1
          BY <1>1, <1>2, <3>3, <2>1
        <4>2. OnOneLine(text, s, i)
          BY <4>1, <1>1 DEF OnOneLine
        <4>3. i \in s .. e
          BY <1>1, <1>2, <2>1, <2>3, <3>3
        <4> QED BY <3>2, <4>2, <4>3
      <3>4. CASE i > e
        <4>1. e # n + 1 /\ e \in s .. i - 1
          BY <1>1, <1>2, <2>1, <3>4
        <4>2. ~OnOneLine(text, s, i)
          BY <4>1, <1>1 DEF OnOneLine
        <4>3. i \notin s .. e
          BY <1>1, <1>2, <2>1, <3>4
        <4> QED BY <3>2, <4>2, <4>3
      <3> QED BY <3>3, <3>4, <2>1, <1>1, <1>2
    <2> QED BY <2>2, <2>3, <2>1, <1>2
  <1> QED BY <1>1, <1>3, <1>4 DEF e

\* The part of a line before its comment.
LEMMA WorkflowActiveIs ==
  ASSUME NEW line \in Seq(Token), NEW token
  PROVE  token \in ToSet(WorkflowActive(line)) <=>
           \E k \in 1 .. Len(line) :
             /\ line[k] = token
             /\ \A h \in 1 .. k : line[h] = "#" => At(line, h - 1) \notin {Space, "end"}
  <1> DEFINE P == {j \in DOMAIN line : line[j] = "#" /\ At(line, j - 1) \in {Space, "end"}}
             f == FirstOf(line, P)
             active == WorkflowActive(line)
             n == Len(line)
  <1>0. n \in Nat /\ DOMAIN line = 1 .. n
    OBVIOUS
  <1>1. P \in SUBSET Nat
    <2>1. \A j \in P : j \in Nat
      BY <1>0
    <2> HIDE DEF P
    <2> QED BY <2>1
  <1>2. \A j : j \in P <=> j \in 1 .. n /\ line[j] = "#" /\ At(line, j - 1) \in {Space, "end"}
    OBVIOUS
  <1>3. active = SubSeq(line, 1, f - 1)
    BY DEF WorkflowActive
  <1> HIDE DEF P
  <1>4. f \in Nat /\ f <= n + 1 /\ (f \in P \/ f = n + 1) /\ \A k \in P : f <= k
    BY <1>1, FirstFound
  <1>5. f \in 1 .. n + 1
    BY <1>2, <1>4, <1>0
  <1>6. Len(active) = f - 1 /\ active \in Seq(Token) /\ \A k \in 1 .. f - 1 : active[k] = line[k]
    <2>1. 1 \in 1 .. Len(line) + 1 /\ f - 1 \in 1 - 1 .. Len(line)
      BY <1>5, <1>0 DEF n
    <2> HIDE DEF f, active
    <2>2. Len(SubSeq(line, 1, f - 1)) = (f - 1) - 1 + 1 /\ SubSeq(line, 1, f - 1) \in Seq(Token)
          /\ \A k \in 1 .. (f - 1) - 1 + 1 : SubSeq(line, 1, f - 1)[k] = line[1 + k - 1]
      BY <2>1, SubSeqProperties
    <2> QED BY <2>1, <2>2, <1>3, <1>5
  <1> HIDE DEF f, active
  <1>7. token \in ToSet(active) <=> \E k \in 1 .. f - 1 : line[k] = token
    <2>1. DOMAIN active = 1 .. f - 1
      BY <1>5, <1>6
    <2>2. token \in ToSet(active) <=> \E k \in DOMAIN active : active[k] = token
      BY DEF ToSet
    <2> QED BY <2>1, <2>2, <1>6
  <1>8. ASSUME NEW k \in 1 .. n PROVE k < f <=> \A h \in 1 .. k : h \notin P
    <2>1. ASSUME k < f, NEW h \in 1 .. k PROVE h \notin P
      BY <1>4, <1>5, <2>1
    <2>2. ASSUME \A h \in 1 .. k : h \notin P, ~(k < f) PROVE FALSE
      BY <1>0, <1>4, <1>5, <2>2
    <2> QED BY <2>1, <2>2
  <1>9. ASSUME NEW k \in 1 .. n
        PROVE (\A h \in 1 .. k : h \notin P) <=> \A h \in 1 .. k : line[h] = "#" => At(line, h - 1) \notin {Space, "end"}
    <2>1. \A h \in 1 .. k : h \in 1 .. n
      BY <1>0
    <2> QED BY <2>1, <1>2
  <1>10. \A k : k \in 1 .. f - 1 <=> k \in 1 .. n /\ k < f
    BY <1>0, <1>5
  <1> QED BY <1>7, <1>8, <1>9, <1>10 DEF n, active

\* A comment before a position of a line starts there in the line as it does in the source.
LEMMA CommentOnLine ==
  ASSUME NEW text \in Seq(Token), NEW s \in 1 .. Len(text) + 1, s = 1 \/ text[s - 1] = Newline,
         NEW e, e = LineCommentEnd(text, s), NEW line, line = SubSeq(text, s, e - 1),
         NEW i \in s .. e - 1, text[i] # "#"
  PROVE  (\A h \in 1 .. i - s + 1 : line[h] = "#" => At(line, h - 1) \notin {Space, "end"})
           <=> (\A g \in 1 .. i - 1 : text[g] = "#" /\ OnOneLine(text, g, i) =>
                                        At(text, g - 1) \notin {Space, Newline, "end"})
  <1> DEFINE n == Len(text)
  <1>1. /\ e \in s .. n + 1
        /\ line \in Seq(Token) /\ Len(line) = e - s
        /\ \A k \in 1 .. e - s : line[k] = text[s + k - 1]
        /\ \A k \in s .. e - 1 : text[k] # Newline
    BY LineIs
  <1>2. n \in Nat /\ s \in 1 .. n + 1 /\ DOMAIN line = 1 .. e - s /\ DOMAIN text = 1 .. n
    BY <1>1, SMTT(60)
  <1>3. \A k \in 1 .. n : text[k] # "end"
    <2>1. ASSUME NEW k \in 1 .. n PROVE text[k] \in Token
      OBVIOUS
    <2>2. "end" \notin Token
      BY DEF Token
    <2> QED BY <2>1, <2>2
  <1> HIDE DEF n
  <1>4. ASSUME NEW g \in s .. i
        PROVE  /\ line[g - s + 1] = text[g]
               /\ At(line, (g - s + 1) - 1) \in {Space, "end"} <=> At(text, g - 1) \in {Space, Newline, "end"}
               /\ OnOneLine(text, g, i)
    <2>1. g - s + 1 \in 1 .. e - s /\ s + (g - s + 1) - 1 = g /\ (g - s + 1) - 1 = g - s
      BY <1>1, <1>2
    <2>2. line[g - s + 1] = text[g]
      BY <1>1, <2>1
    <2>3. OnOneLine(text, g, i)
      <3>1. \A k \in g .. i - 1 : k \in s .. e - 1
        BY <1>1, <1>2
      <3> QED BY <3>1, <1>1 DEF OnOneLine
    <2>4. CASE g = s
      <3>1. g - s = 0 /\ 0 \notin DOMAIN line
        BY <2>4, <1>2
      <3>2. At(line, g - s) = "end"
        BY <3>1 DEF At
      <3>3. At(text, g - 1) \in {Newline, "end"}
        <4>1. CASE s = 1
          <5>1. 0 \notin DOMAIN text /\ g - 1 = 0
            BY <1>2, <2>4, <4>1
          <5> QED BY <5>1 DEF At
        <4>2. CASE s # 1
          <5>1. g - 1 \in DOMAIN text /\ text[g - 1] = Newline
            BY <1>2, <2>4, <4>2
          <5> QED BY <5>1 DEF At
        <4> QED BY <4>1, <4>2
      <3> QED BY <2>1, <2>2, <2>3, <3>2, <3>3
    <2>5. CASE g # s
      <3>1. g - s \in 1 .. e - s /\ s + (g - s) - 1 = g - 1 /\ g - 1 \in 1 .. n /\ g - 1 \in s .. e - 1
        <4>1. e \in Int /\ s \in Int /\ g \in Int /\ i \in Int /\ n \in Int
          BY <1>1, <1>2
        <4>2. 1 <= s /\ s < g /\ g <= i /\ i < e /\ e <= n + 1
          BY <1>1, <1>2, <2>5
        <4> QED BY <4>1, <4>2, SMTT(30)
      <3>2. At(line, g - s) = text[g - 1] /\ At(text, g - 1) = text[g - 1]
        <4>1. g - s \in DOMAIN line /\ g - 1 \in DOMAIN text /\ line[g - s] = text[s + (g - s) - 1]
          BY <1>1, <1>2, <3>1
        <4> QED BY <3>1, <4>1 DEF At
      <3>3. text[g - 1] # Newline /\ text[g - 1] # "end"
        BY <1>1, <1>3, <3>1
      <3> QED BY <2>1, <2>2, <2>3, <3>2, <3>3
    <2> QED BY <2>4, <2>5
  <1>5. ASSUME NEW g \in 1 .. i - 1, OnOneLine(text, g, i) PROVE g \in s .. i
    <2>1. ASSUME g < s PROVE FALSE
      <3>1. s - 1 \in g .. i - 1 /\ s # 1
        BY <2>1, <1>1, <1>2
      <3> QED BY <3>1, <1>5 DEF OnOneLine
    <2> QED BY <2>1, <1>1, <1>2
  <1>6. ASSUME NEW h \in 1 .. i - s + 1
        PROVE  h + s - 1 \in s .. i /\ (h + s - 1) - s + 1 = h /\ (h + s - 1 \in 1 .. i - 1 \/ h + s - 1 = i)
    BY <1>1, <1>2
  <1>7. \A g \in s .. i : g - s + 1 \in 1 .. i - s + 1
    BY <1>1, <1>2
  <1>8. ASSUME \A h \in 1 .. i - s + 1 : line[h] = "#" => At(line, h - 1) \notin {Space, "end"},
               NEW g \in 1 .. i - 1, text[g] = "#", OnOneLine(text, g, i)
        PROVE  At(text, g - 1) \notin {Space, Newline, "end"}
    <2>1. g \in s .. i
      BY <1>5, <1>8
    <2>2. line[g - s + 1] = "#" /\ g - s + 1 \in 1 .. i - s + 1
      BY <2>1, <1>4, <1>7, <1>8
    <2> QED BY <2>1, <2>2, <1>4, <1>8
  <1>9. ASSUME \A g \in 1 .. i - 1 : text[g] = "#" /\ OnOneLine(text, g, i) =>
                                       At(text, g - 1) \notin {Space, Newline, "end"},
               NEW h \in 1 .. i - s + 1, line[h] = "#"
        PROVE  At(line, h - 1) \notin {Space, "end"}
    <2> DEFINE g == h + s - 1
    <2>1. g \in s .. i /\ g - s + 1 = h /\ (g \in 1 .. i - 1 \/ g = i)
      BY <1>6
    <2> HIDE DEF g
    <2>2. text[g] = "#" /\ OnOneLine(text, g, i)
          /\ (At(line, h - 1) \in {Space, "end"} <=> At(text, g - 1) \in {Space, Newline, "end"})
      BY <2>1, <1>4, <1>9
    <2>3. g \in 1 .. i - 1
      BY <2>1, <2>2
    <2> QED BY <2>2, <2>3, <1>9
  <1> QED BY <1>8, <1>9

\* scan_workflow_no_quarantine finds just the lines that name a hidden lane before their comment.
LEMMA WorkflowFindingsAre ==
  ASSUME NEW text \in Seq(Token)
  PROVE  WorkflowFindings(text) = LinesOf(text, WorkflowSkips(text))
  <1> DEFINE N == LineOf(text, Len(text) + 1)
             lines == LinesIn(text)
             Banned == {"--ignored", "--include-ignored", "run-ignored", "quarantine"}
             Shown(i) == \A hash \in 1 .. i - 1 :
                           text[hash] = "#" /\ OnOneLine(text, hash, i) =>
                             At(text, hash - 1) \notin {Space, Newline, "end"}
  <1>1. WorkflowFindings(text) = {n \in DOMAIN lines : ToSet(WorkflowActive(lines[n])) \cap Banned # {}}
    BY DEF WorkflowFindings
  <1>2. WorkflowSkips(text) = {i \in DOMAIN text : text[i] \in Banned /\ Shown(i)}
    BY DEF WorkflowSkips
  <1>3. Newline \notin Banned /\ "#" \notin Banned
    BY DEF Newline
  <1>4. DOMAIN lines = 1 .. N
    BY DEF LinesIn
  <1> HIDE DEF Banned, lines, N
  <1>5. ASSUME NEW n \in 1 .. N
        PROVE  ToSet(WorkflowActive(lines[n])) \cap Banned # {} <=>
                 \E i \in DOMAIN text : text[i] \in Banned /\ Shown(i) /\ LineOf(text, i) = n
    <2>1. PICK s \in 1 .. Len(text) + 1 :
            /\ LineOf(text, s) = n
            /\ s = 1 \/ text[s - 1] = Newline
            /\ lines[n] = SubSeq(text, s, LineCommentEnd(text, s) - 1)
      BY LinesAre DEF N, lines
    <2> DEFINE e == LineCommentEnd(text, s)
               line == lines[n]
    <2>2. /\ e \in s .. Len(text) + 1
          /\ line \in Seq(Token) /\ Len(line) = e - s
          /\ \A k \in 1 .. e - s : line[k] = text[s + k - 1]
          /\ \A i \in s .. e - 1 : text[i] # Newline
          /\ \A i \in DOMAIN text : LineOf(text, i) = LineOf(text, s) <=> i \in s .. e
          /\ e = Len(text) + 1 \/ text[e] = Newline
      <3>1. e = Len(text) + 1 \/ text[e] = Newline
        BY LineEnds
      <3>2. /\ e \in s .. Len(text) + 1
            /\ line \in Seq(Token) /\ Len(line) = e - s
            /\ \A k \in 1 .. e - s : line[k] = text[s + k - 1]
            /\ \A i \in s .. e - 1 : text[i] # Newline
            /\ \A i \in DOMAIN text : LineOf(text, i) = LineOf(text, s) <=> i \in s .. e
        <4>1. e = LineCommentEnd(text, s) /\ line = SubSeq(text, s, e - 1)
          BY <2>1
        <4>2. LET f == LineCommentEnd(text, s)
                  l == SubSeq(text, s, f - 1)
              IN /\ f \in s .. Len(text) + 1
                 /\ l \in Seq(Token) /\ Len(l) = f - s
                 /\ \A k \in 1 .. f - s : l[k] = text[s + k - 1]
                 /\ \A i \in s .. f - 1 : text[i] # Newline
                 /\ \A i \in DOMAIN text : LineOf(text, i) = LineOf(text, s) <=> i \in s .. f
          BY <2>1, LineIs
        <4> HIDE DEF e, line
        <4> QED BY <4>1, <4>2
      <3> QED BY <3>1, <3>2
    <2>3. Len(text) \in Nat /\ DOMAIN text = 1 .. Len(text)
      OBVIOUS
    <2>4. ASSUME NEW i \in s .. e - 1, text[i] \in Banned
          PROVE  (\A h \in 1 .. i - s + 1 : line[h] = "#" => At(line, h - 1) \notin {Space, "end"}) <=> Shown(i)
      <3>1. text[i] # "#"
        BY <2>4, <1>3
      <3> QED BY <2>1, <3>1, CommentOnLine
    <2>5. ASSUME NEW token
          PROVE  token \in ToSet(WorkflowActive(line)) <=>
                   \E k \in 1 .. e - s :
                      line[k] = token /\ \A h \in 1 .. k : line[h] = "#" => At(line, h - 1) \notin {Space, "end"}
      BY <2>2, WorkflowActiveIs
    <2> HIDE DEF line, e, Shown
    <2>6. ASSUME NEW k \in 1 .. e - s PROVE s + k - 1 \in s .. e - 1 /\ (s + k - 1) - s + 1 = k /\ s + k - 1 \in DOMAIN text
      BY <2>2, <2>3
    <2>7. ASSUME NEW i \in s .. e - 1
          PROVE  i - s + 1 \in 1 .. e - s /\ s + (i - s + 1) - 1 = i /\ i \in DOMAIN text /\ i \in s .. e
      BY <2>2, <2>3
    <2>8. ASSUME NEW token \in Banned, token \in ToSet(WorkflowActive(line))
          PROVE  \E i \in DOMAIN text : text[i] \in Banned /\ Shown(i) /\ LineOf(text, i) = n
      <3>1. PICK k \in 1 .. e - s :
               line[k] = token /\ \A h \in 1 .. k : line[h] = "#" => At(line, h - 1) \notin {Space, "end"}
        BY <2>5, <2>8
      <3> DEFINE i == s + k - 1
      <3>2. i \in s .. e - 1 /\ i - s + 1 = k /\ i \in DOMAIN text
        BY <2>6
      <3>3. text[i] = token
        BY <3>1, <2>2
      <3> HIDE DEF i
      <3>4. Shown(i)
        BY <2>4, <3>1, <3>2, <3>3
      <3>5. LineOf(text, i) = n
        BY <2>1, <2>2, <2>7, <3>2
      <3> QED BY <3>2, <3>3, <3>4, <3>5
    <2>9. ASSUME NEW i \in DOMAIN text, text[i] \in Banned, Shown(i), LineOf(text, i) = n
          PROVE  text[i] \in ToSet(WorkflowActive(line))
      <3>1. i \in s .. e
        BY <2>1, <2>2, <2>9
      <3>2. i # e
        BY <2>2, <2>3, <2>9, <1>3
      <3>3. i \in s .. e - 1
        BY <3>1, <3>2, <2>2
      <3> DEFINE k == i - s + 1
      <3>4. k \in 1 .. e - s /\ s + k - 1 = i
        BY <3>3, <2>7
      <3>5. \A h \in 1 .. k : line[h] = "#" => At(line, h - 1) \notin {Space, "end"}
        BY <2>4, <2>9, <3>3
      <3> HIDE DEF k
      <3>6. line[k] = text[i]
        BY <3>4, <2>2
      <3> QED BY <2>5, <3>4, <3>5, <3>6
    <2> QED BY <2>8, <2>9 DEF line
  <1>6. ASSUME NEW i \in DOMAIN text PROVE LineOf(text, i) \in 1 .. N
    <2>1. i \in 1 .. Len(text) + 1 /\ Len(text) + 1 \in i .. Len(text) + 1 /\ 1 \in 1 .. Len(text) + 1
          /\ i \in 1 .. Len(text) + 1
      OBVIOUS
    <2>2. LineOf(text, i) <= N /\ LineOf(text, 1) <= LineOf(text, i)
      BY <2>1, LineOfGrows DEF N
    <2>3. LineOf(text, 1) = 1 /\ LineOf(text, i) \in Nat /\ N \in Nat
      BY <2>1, LineOfNext DEF N
    <2> QED BY <2>2, <2>3
  <1>7. LinesOf(text, WorkflowSkips(text)) =
          {LineOf(text, i) : i \in {j \in DOMAIN text : text[j] \in Banned /\ Shown(j)}}
    BY <1>2 DEF LinesOf
  <1> HIDE DEF Shown
  <1> QED BY <1>1, <1>4, <1>5, <1>6, <1>7

\* The equation of the function in GateAt.
GateEq(lines, gate) ==
  gate = [k \in 0 .. Len(lines) |->
           IF k = 0 THEN NoGate
           ELSE IF IsBlank(lines[k]) THEN gate[k - 1]
           ELSE IF gate[k - 1] # NoGate /\ ~Left(lines[k], gate[k - 1]) THEN gate[k - 1]
           ELSE IF OpensGate(lines[k]) THEN Indent(lines[k]) ELSE NoGate]

\* The function in GateAt is defined: each line looks at the one before.
LEMMA GateFn ==
  ASSUME NEW lines \in Seq(Seq(Token))
  PROVE  \E gate : GateEq(lines, gate)
  <1> DEFINE n == Len(lines)
             I == 0 .. n
             V == Nat \cup {NoGate}
             size == [k \in I |-> k]
             next == [k \in I |-> IF k = 0 THEN 0 ELSE k - 1]
             base == [k \in I |-> NoGate]
             after(k, g) == IF k = 0 THEN NoGate
                            ELSE IF IsBlank(lines[k]) THEN g
                            ELSE IF g # NoGate /\ ~Left(lines[k], g) THEN g
                            ELSE IF OpensGate(lines[k]) THEN Indent(lines[k]) ELSE NoGate
             step == [p \in I \X V |-> after(p[1], p[2])]
  <1>1. n \in Nat
    OBVIOUS
  <1>2. ASSUME NEW k \in I, NEW g \in V PROVE after(k, g) \in V
    <2>1. k # 0 => Indent(lines[k]) \in Nat
      <3>1. ASSUME k # 0 PROVE lines[k] \in Seq(Token)
        BY <3>1
      <3>2. ASSUME NEW line \in Seq(Token) PROVE Indent(line) \in Nat
        <4>1. 1 \in 1 .. Len(line) + 1
          OBVIOUS
        <4>2. AfterSpace(line, 1) \in 1 .. Len(line) + 1
          BY <4>1, AfterSpaceIs
        <4> QED BY <4>2 DEF Indent
      <3> QED BY <3>1, <3>2
    <2> QED BY <2>1
  <1>3. step \in [I \X V -> V]
    <2>1. \A p \in I \X V : after(p[1], p[2]) \in V
      <3> HIDE DEF after, V, I
      <3> QED BY <1>2
    <2> HIDE DEF after, V, I
    <2> QED BY <2>1
  <1>4. Descends(I, V, size, next, base, step)
    <2>1. size \in [I -> Nat] /\ next \in [I -> I] /\ base \in [I -> V]
      BY <1>1
    <2>2. \A k \in I : size[k] # 0 => size[next[k]] < size[k]
      BY <1>1
    <2> HIDE DEF size, next, base, step, I, V
    <2> QED BY <2>1, <2>2, <1>3 DEF Descends
  <1>5. PICK f : Solution(f, I, V, size, next, base, step)
    <2> HIDE DEF size, next, base, step, I, V
    <2> QED BY <1>4, Recursion
  <1>6. f \in [I -> V] /\ f = [k \in I |-> IF size[k] = 0 THEN base[k] ELSE step[<<k, f[next[k]]>>]]
    <2> HIDE DEF size, next, base, step, I, V
    <2> QED BY <1>5 DEF Solution
  <1>7. ASSUME NEW k \in I PROVE (IF size[k] = 0 THEN base[k] ELSE step[<<k, f[next[k]]>>]) = after(k, f[k - 1])
    <2>1. CASE k = 0
      BY <2>1
    <2>2. CASE k # 0
      <3>1. k - 1 \in I /\ next[k] = k - 1 /\ size[k] = k
        BY <1>1, <2>2
      <3>2. f[k - 1] \in V
        BY <1>6, <3>1
      <3>3. step[<<k, f[k - 1]>>] = after(k, f[k - 1])
        <4> HIDE DEF after, V, I
        <4> QED BY <3>2
      <3> HIDE DEF after, step, size, next, base
      <3> QED BY <3>1, <3>3, <2>2
    <2> QED BY <2>1, <2>2
  <1>8. f = [k \in I |-> after(k, f[k - 1])]
    <2> HIDE DEF after, step, size, next, base, I, V
    <2> QED BY <1>6, <1>7
  <1> QED BY <1>8 DEF GateEq

\* The scanner is in a gate where Python is.
LEMMA GateIs ==
  ASSUME NEW lines \in Seq(Seq(Token)), NEW line \in 1 .. Len(lines)
  PROVE  GateAt(lines, line) # NoGate <=> InGate(lines, line)
  <1> DEFINE n == Len(lines)
             gate == CHOOSE f : GateEq(lines, f)
             blank(k) == IsBlank(lines[k])
             opens(k) == OpensGate(lines[k])
             indent(k) == Indent(lines[k])
             Deeper(k, m) == \A l \in k + 1 .. m : blank(l) \/ indent(l) > indent(k)
             From(m) == gate[m] # NoGate =>
                          \E k \in 1 .. m : opens(k) /\ indent(k) = gate[m] /\ Deeper(k, m)
             Upto(m) == \A k \in 1 .. m : opens(k) /\ Deeper(k, m) => gate[m] # NoGate /\ gate[m] <= indent(k)
             T == {m \in Nat : m <= n => From(m) /\ Upto(m) /\ gate[m] \in Nat \cup {NoGate}}
  <1>0. n \in Nat
    OBVIOUS
  <1>1. GateEq(lines, gate)
    BY GateFn
  <1>2. GateAt(lines, line) = gate[line]
    BY DEF GateAt, GateEq
  <1>3. ASSUME NEW k \in 1 .. n PROVE indent(k) \in Nat
    <2>1. lines[k] \in Seq(Token)
      OBVIOUS
    <2>2. 1 \in 1 .. Len(lines[k]) + 1
      BY <2>1
    <2>3. AfterSpace(lines[k], 1) \in 1 .. Len(lines[k]) + 1
      BY <2>1, <2>2, AfterSpaceIs
    <2> QED BY <2>1, <2>3 DEF Indent
  <1>4. ASSUME NEW k \in 1 .. n
        PROVE  /\ k - 1 \in 0 .. n
               /\ gate[k] = IF blank(k) THEN gate[k - 1]
                            ELSE IF gate[k - 1] # NoGate /\ ~(indent(k) <= gate[k - 1]) THEN gate[k - 1]
                            ELSE IF opens(k) THEN indent(k) ELSE NoGate
    <2> HIDE DEF gate
    <2>1. k \in 0 .. Len(lines) /\ k # 0 /\ k - 1 \in 0 .. n
      BY <1>0
    <2>2. gate[k] = IF k = 0 THEN NoGate
           ELSE IF IsBlank(lines[k]) THEN gate[k - 1]
           ELSE IF gate[k - 1] # NoGate /\ ~Left(lines[k], gate[k - 1]) THEN gate[k - 1]
           ELSE IF OpensGate(lines[k]) THEN Indent(lines[k]) ELSE NoGate
      BY <2>1, <1>1 DEF GateEq
    <2> QED BY <2>1, <2>2 DEF Left
  <1>5. gate[0] = NoGate
    <2>1. 0 \in 0 .. Len(lines)
      BY <1>0
    <2> HIDE DEF gate
    <2> QED BY <2>1, <1>1 DEF GateEq
  <1>6. ASSUME NEW k \in 1 .. n, opens(k) PROVE ~blank(k)
    <2>1. lines[k] \in Seq(Token)
      OBVIOUS
    <2>2. At(lines[k], AfterSpace(lines[k], 1)) = "if"
      BY <1>6 DEF OpensGate, Starts
    <2>3. AfterSpace(lines[k], 1) \in DOMAIN lines[k]
      BY <2>2 DEF At
    <2>4. AfterSpace(lines[k], 1) <= Len(lines[k])
      BY <2>1, <2>3
    <2>5. AfterSpace(lines[k], 1) \in Nat /\ Len(lines[k]) \in Nat
      BY <2>1, <2>3
    <2> QED BY <2>4, <2>5 DEF IsBlank
  <1> HIDE DEF gate, blank, opens, indent, n
  <1>7. ASSUME NEW m \in Nat, m + 1 <= n, NEW k \in 1 .. m
        PROVE  Deeper(k, m + 1) <=> Deeper(k, m) /\ (blank(m + 1) \/ indent(m + 1) > indent(k))
    <2>1. \A l : l \in k + 1 .. m + 1 <=> l \in k + 1 .. m \/ l = m + 1
      BY <1>7
    <2> QED BY <2>1
  <1>8. ASSUME NEW m \in Nat PROVE Deeper(m, m)
    OBVIOUS
  <1> HIDE DEF Deeper
  <1>9. 0 \in T
    BY <1>5
  <1>10. ASSUME NEW m \in T PROVE m + 1 \in T
    <2> DEFINE k0 == m + 1
    <2>0. m \in Nat
      BY <1>10
    <2> SUFFICES ASSUME k0 <= n
                 PROVE  From(k0) /\ Upto(k0) /\ gate[k0] \in Nat \cup {NoGate}
      BY <2>0
    <2>1. From(m) /\ Upto(m) /\ gate[m] \in Nat \cup {NoGate}
      BY <1>10, <1>0, <2>0
    <2>2. k0 \in 1 .. n /\ k0 - 1 = m /\ indent(k0) \in Nat /\ NoGate = -1
      BY <1>0, <1>3, <2>0 DEF NoGate
    <2>3. gate[k0] = IF blank(k0) THEN gate[m]
                     ELSE IF gate[m] # NoGate /\ ~(indent(k0) <= gate[m]) THEN gate[m]
                     ELSE IF opens(k0) THEN indent(k0) ELSE NoGate
      BY <1>4, <2>2
    <2>4. ASSUME NEW k \in 1 .. m
          PROVE  /\ k \in 1 .. k0 /\ k \in 1 .. n
                 /\ Deeper(k, k0) <=> Deeper(k, m) /\ (blank(k0) \/ indent(k0) > indent(k))
      <3>1. m \in Nat /\ m + 1 <= n /\ k \in 1 .. m
        BY <2>0
      <3>2. k \in 1 .. k0 /\ k \in 1 .. n
        BY <1>0, <3>1
      <3>3. Deeper(k, m + 1) <=> Deeper(k, m) /\ (blank(m + 1) \/ indent(m + 1) > indent(k))
        BY <1>7, <3>1
      <3> QED BY <3>2, <3>3
    <2>5. \A k \in 1 .. k0 : k \in 1 .. m \/ k = k0
      BY <2>0
    <2>6. Deeper(k0, k0)
      BY <1>8, <2>0
    <2>6a. \A k \in 1 .. m : indent(k) \in Nat
      BY <1>3, <2>4
    <2>6b. k0 \in 1 .. k0 /\ (opens(k0) => ~blank(k0))
      BY <1>6, <2>0, <2>2
    <2> HIDE DEF k0
    <2>7. CASE blank(k0)
      <3>1. gate[k0] = gate[m]
        BY <2>3, <2>7
      <3>2. From(k0)
        BY <2>1, <2>4, <2>7, <3>1
      <3>3. Upto(k0)
        BY <2>1, <2>4, <2>5, <2>6b, <2>7, <3>1
      <3> QED BY <2>1, <3>1, <3>2, <3>3
    <2>8. CASE ~blank(k0) /\ gate[m] # NoGate /\ ~(indent(k0) <= gate[m])
      <3>1. gate[k0] = gate[m] /\ gate[m] \in Nat
        BY <2>1, <2>3, <2>8
      <3>2. From(k0)
        <4>1. PICK k \in 1 .. m : opens(k) /\ indent(k) = gate[m] /\ Deeper(k, m)
          BY <2>1, <2>8
        <4>2. indent(k0) > indent(k)
          BY <2>2, <2>8, <3>1, <4>1
        <4>3. Deeper(k, k0)
          BY <2>4, <4>1, <4>2
        <4> QED BY <2>4, <3>1, <4>1, <4>3
      <3>3. Upto(k0)
        <4>1. ASSUME NEW k \in 1 .. m, opens(k), Deeper(k, k0) PROVE gate[k0] <= indent(k)
          BY <2>1, <2>4, <3>1, <4>1
        <4>2. gate[k0] <= indent(k0)
          BY <2>2, <2>8, <3>1
        <4> QED BY <2>5, <2>8, <3>1, <4>1, <4>2
      <3> QED BY <2>1, <3>1, <3>2, <3>3
    <2>9. CASE ~blank(k0) /\ ~(gate[m] # NoGate /\ ~(indent(k0) <= gate[m]))
      <3>1. gate[k0] = IF opens(k0) THEN indent(k0) ELSE NoGate
        BY <2>3, <2>9
      <3>2. ASSUME NEW k \in 1 .. m, opens(k), Deeper(k, k0) PROVE FALSE
        <4>1. Deeper(k, m) /\ indent(k0) > indent(k) /\ indent(k) \in Nat
          BY <2>4, <2>6a, <2>9, <3>2
        <4>2. gate[m] # NoGate /\ gate[m] <= indent(k) /\ gate[m] \in Nat
          BY <2>1, <3>2, <4>1
        <4> QED BY <2>2, <2>9, <4>1, <4>2
      <3>3. From(k0)
        BY <2>6, <2>6b, <3>1
      <3>4. Upto(k0)
        BY <2>2, <2>5, <3>1, <3>2
      <3> QED BY <2>2, <3>1, <3>3, <3>4
    <2> QED BY <2>7, <2>8, <2>9
  <1>11. T = Nat
    <2>1. T \in SUBSET Nat
      OBVIOUS
    <2> HIDE DEF T
    <2> QED BY <2>1, <1>9, <1>10, Induction
  <1>12. line \in Nat /\ line <= n /\ line \in T
    BY <1>0, <1>11 DEF n
  <1>13. From(line) /\ Upto(line)
    BY <1>12
  <1>14. InGate(lines, line) <=> \E k \in 1 .. line : opens(k) /\ Deeper(k, line)
    BY DEF InGate, opens, Deeper, blank, indent
  <1> HIDE DEF T
  <1> QED BY <1>2, <1>13, <1>14

\* A source's lines are sources.
LEMMA LinesInAre ==
  ASSUME NEW text \in Seq(Token)
  PROVE  LinesIn(text) \in Seq(Seq(Token))
  <1> DEFINE N == LineOf(text, Len(text) + 1)
  <1>1. N \in Nat
    <2>1. Len(text) + 1 \in 1 .. Len(text) + 1
      OBVIOUS
    <2> QED BY <2>1, LineOfNext
  <1>2. ASSUME NEW n \in 1 .. N PROVE LinesIn(text)[n] \in Seq(Token)
    <2>1. PICK s \in 1 .. Len(text) + 1 :
            /\ s = 1 \/ text[s - 1] = Newline
            /\ LinesIn(text)[n] = SubSeq(text, s, LineCommentEnd(text, s) - 1)
      BY LinesAre
    <2> DEFINE line == SubSeq(text, s, LineCommentEnd(text, s) - 1)
    <2>2. line \in Seq(Token)
      BY <2>1, LineIs
    <2> QED BY <2>1, <2>2
  <1>3. LinesIn(text) = [n \in 1 .. N |-> LinesIn(text)[n]]
    <2> DEFINE starts == {1} \cup {j + 1 : j \in {k \in DOMAIN text : text[k] = Newline}}
               start(n) == CHOOSE j \in starts : LineOf(text, j) = n
               lineAt(n) == SubSeq(text, start(n), LineCommentEnd(text, start(n)) - 1)
    <2>1. LinesIn(text) = [n \in 1 .. N |-> lineAt(n)]
      BY DEF LinesIn
    <2> HIDE DEF lineAt, N
    <2> QED BY <2>1
  <1> HIDE DEF N
  <1> QED BY <1>1, <1>2, <1>3

\* scan_python_no_quarantine judges a line by the gate it is in, for Python's notion of a block.
LEMMA PythonFindingsAre ==
  ASSUME NEW text \in Seq(Token)
  PROVE  PythonFindings(text) = PythonSkips(text)
  <1> DEFINE lines == LinesIn(text)
  <1>1. ASSUME NEW n \in DOMAIN lines PROVE GateAt(lines, n) = NoGate <=> ~InGate(lines, n)
    <2>1. lines \in Seq(Seq(Token))
      BY LinesInAre
    <2> HIDE DEF lines
    <2>2. n \in 1 .. Len(lines)
      BY <2>1
    <2> QED BY <2>1, <2>2, GateIs
  <1> HIDE DEF lines
  <1> DEFINE Named(n) == ToSet(Active(lines[n])) \cap {"pytest.mark.skip", "unittest.skip", "quarantine"} # {}
             Marked(n) == /\ ToSet(Active(lines[n])) \cap {"pytest.mark.skipif", "unittest.skipIf", "unittest.skipUnless"} # {}
                          /\ ~IsGate(FirstArgument(CallText(lines, n)))
             Called(n) == Mentions(Active(lines[n]), <<"pytest.skip", "(">>)
             Allowed(n) == Contains(CallText(lines, n), "allow_module_level=True")
  <1>2. PythonFindings(text) =
          {n \in DOMAIN lines : /\ ~IsBlank(lines[n])
                                /\ Named(n) \/ Marked(n) \/ (Called(n) /\ (GateAt(lines, n) = NoGate \/ ~Allowed(n)))}
    BY DEF PythonFindings, PythonBad, lines
  <1>3. PythonSkips(text) =
          {n \in DOMAIN lines : /\ ~IsBlank(lines[n])
                                /\ Named(n) \/ Marked(n) \/ (Called(n) /\ (InGate(lines, n) => ~Allowed(n)))}
    BY DEF PythonSkips, lines
  <1> HIDE DEF Named, Marked, Called, Allowed
  <1> QED BY <1>1, <1>2, <1>3

-----------------------------------------------------------------------------
(* The gate. *)

\* The five kinds.
LEMMA KindsAre ==
  /\ ToSet(Kinds) = {"rust", "python", "typescript", "dotnet", "workflow"}
  /\ Kinds \in Seq(ToSet(Kinds))
  <1>1. Kinds \in Seq({"rust", "python", "typescript", "dotnet", "workflow"}) /\ Len(Kinds) = 5
    BY DEF Kinds
  <1>2. Kinds[1] = "rust" /\ Kinds[2] = "python" /\ Kinds[3] = "typescript" /\ Kinds[4] = "dotnet"
        /\ Kinds[5] = "workflow"
    BY DEF Kinds
  <1>3. DOMAIN Kinds = {1, 2, 3, 4, 5}
    BY <1>1
  <1>4. ToSet(Kinds) = {Kinds[i] : i \in DOMAIN Kinds}
    BY DEF ToSet
  <1>5. ToSet(Kinds) = {"rust", "python", "typescript", "dotnet", "workflow"}
    BY <1>2, <1>3, <1>4
  <1> QED BY <1>1, <1>5

-----------------------------------------------------------------------------
(* Within their limits, the scanners read a source as its language does. *)

\* A comment that contains no opener nests nothing: mask_block_comment ends it where TypeScript and C# do.
LEMMA FlatIsNested ==
  ASSUME NEW source \in Seq(Token), NEW i \in 1 .. Len(source), NEW j \in i + 1 .. Len(source) + 1,
         FlatComment(source, i, j), \A k \in i + 1 .. j - 2 : ~Starts(source, k, "/", "*")
  PROVE  NestedComment(source, i, j)
  <1> DEFINE opens == {i}
             closes == {j - 2}
             depth(k) == Cardinality({o \in opens : o < k}) - Cardinality({c \in closes : c < k})
  <1>1. /\ i \in Nat /\ j \in Nat /\ i + 4 <= j
        /\ Starts(source, i, "/", "*") /\ Starts(source, j - 2, "*", "/")
        /\ \A k \in i + 2 .. j - 3 : ~Starts(source, k, "*", "/")
    BY DEF FlatComment
  <1>2. opens \in SUBSET {k \in i .. j - 2 : Starts(source, k, "/", "*")}
    BY <1>1
  <1>3. closes \in SUBSET {k \in i .. j - 2 : Starts(source, k, "*", "/")}
    BY <1>1
  <1>4. \A k \in opens \cup closes : k + 1 \notin opens \cup closes
    BY <1>1
  <1>5. ASSUME NEW k \in i .. j - 2, Starts(source, k, "/", "*") \/ Starts(source, k, "*", "/")
        PROVE  k \in opens \cup closes \/ k - 1 \in opens \cup closes
    <2>1. k = i \/ k = i + 1 \/ k \in i + 2 .. j - 3 \/ k = j - 2
      BY <1>1
    <2>2. k \in i + 2 .. j - 3 => FALSE
      BY <1>1, <1>5
    <2> QED BY <1>1, <2>1, <2>2
  <1>6. ASSUME NEW k \in Nat, i < k
        PROVE  depth(k) = IF j - 2 < k THEN 0 ELSE 1
    <2>1. {o \in opens : o < k} = {i}
      BY <1>6
    <2>2. {c \in closes : c < k} = IF j - 2 < k THEN {j - 2} ELSE {}
      OBVIOUS
    <2>3. Cardinality({i}) = 1 /\ Cardinality({j - 2}) = 1 /\ Cardinality({}) = 0
      BY FS_Singleton, FS_EmptySet
    <2> HIDE DEF opens, closes
    <2>4. CASE j - 2 < k
      <3>1. depth(k) = Cardinality({i}) - Cardinality({j - 2})
        BY <2>1, <2>2, <2>4
      <3> HIDE DEF depth
      <3> QED BY <2>3, <2>4, <3>1
    <2>5. CASE ~(j - 2 < k)
      <3>1. depth(k) = Cardinality({i}) - Cardinality({})
        BY <2>1, <2>2, <2>5
      <3> HIDE DEF depth
      <3> QED BY <2>3, <2>5, <3>1
    <2> QED BY <2>4, <2>5
  <1>7. (\A k \in i + 1 .. j - 2 : depth(k) > 0) /\ depth(j - 1) = 0
    <2> HIDE DEF depth
    <2> QED BY <1>1, <1>6
  <1>8. i \in opens /\ j - 2 \in closes
    OBVIOUS
  <1> HIDE DEF opens, closes
  <1> QED BY <1>2, <1>3, <1>4, <1>5, <1>7, <1>8 DEF NestedComment

\* What a language hides, the lexer hides: strip_comments_and_literals.
LEMMA HiddenIsRead ==
  ASSUME NEW language, NEW source \in Seq(Token),
         NEW i \in 1 .. Len(source), NEW j \in i + 1 .. Len(source) + 1,
         IsHidden(language, source, i, j), PieceWithin(language, source, i, j)
  PROVE  ReadsHidden(source, i, j)
  <1>1. CASE language = "rust"
    <2>1. RustHides(source, i, j)
      BY <1>1 DEF IsHidden
    <2>2. IsChar(source, i, j) => source[i] = SingleQuote /\ IsQuoted(source, i, j) /\ OnOneLine(source, i, j)
      BY DEF IsChar, QuotedOnLine
    <2>3. ASSUME Starts(source, i, "b", SingleQuote), IsChar(source, i + 1, j)
          PROVE  IsQuoted(source, i + 1, j) /\ OnOneLine(source, i, j)
      <3>1. IsQuoted(source, i + 1, j) /\ OnOneLine(source, i + 1, j)
        BY <2>3 DEF IsChar, QuotedOnLine
      <3>2. source[i] # Newline
        BY <2>3 DEF Starts, At, Newline
      <3> QED BY <3>1, <3>2 DEF OnOneLine
    <2> QED BY <2>1, <2>2, <2>3 DEF RustHides, ReadsHidden
  <1>2. ASSUME language # "rust", PlainPiece(source, i, j), FlatComment(source, i, j)
        PROVE  NestedComment(source, i, j)
    <2>1. \A k \in i + 1 .. j - 2 : ~Starts(source, k, "/", "*")
      BY <1>2 DEF PlainPiece, FlatComment
    <2> QED BY <1>2, <2>1, FlatIsNested
  <1>3. CASE language = "typescript"
    <2>1. TypeScriptHides(source, i, j) /\ PlainPiece(source, i, j)
      BY <1>3 DEF IsHidden, PieceWithin, TypeScriptPieceWithin
    <2> QED BY <1>2, <1>3, <2>1 DEF TypeScriptHides, ReadsHidden, QuotedOnLine
  <1>4. CASE language = "dotnet"
    <2>1. DotnetHides(source, i, j) /\ PlainPiece(source, i, j)
      BY <1>4 DEF IsHidden, PieceWithin, DotnetPieceWithin
    <2> QED BY <1>2, <1>4, <2>1 DEF DotnetHides, ReadsHidden, QuotedOnLine, IsChar
  <1> QED BY <1>1, <1>3, <1>4 DEF IsHidden

\* What is code in a language, the lexer leaves: no other literal opens, and a lifetime has no end.
LEMMA CodeIsRead ==
  ASSUME NEW language \in MaskedKinds, NEW source \in Seq(Token), NEW i \in 1 .. Len(source),
         IsCode(language, source, i), PieceWithin(language, source, i, i + 1)
  PROVE  ReadsCode(source, i)
  <1>1. ~PrefixedOpens(source, i)
    BY DEF MaskedKinds, IsCode, PieceWithin, TypeScriptPieceWithin, DotnetPieceWithin, PlainPiece
  <1>2. source[i] = SingleQuote => LastOnLine(source, i)
    BY DEF IsCode, PieceWithin, RustPieceWithin
  <1>3. source[i] \notin {DoubleQuote, Backtick} /\ \A next \in {"/", "*"} : ~Starts(source, i, "/", next)
    BY DEF IsCode
  <1> QED BY <1>1, <1>2, <1>3 DEF PrefixedOpens, ReadsCode

\* The pieces of a source are those that the lexer reads.
LEMMA PiecesAreRead ==
  ASSUME NEW language \in MaskedKinds, NEW source \in Seq(Token), NEW shown, NEW at,
         Lexed(language, source, shown, at), Within(language, source, shown, at)
  PROVE  Reads(source, shown, at)
  <1>1. ASSUME NEW k \in 1 .. Len(at) - 1
        PROVE  /\ at[k] \in 1 .. Len(source)
               /\ at[k + 1] \in at[k] + 1 .. Len(source) + 1
               /\ \/ /\ ReadsHidden(source, at[k], at[k + 1])
                     /\ \A m \in at[k] .. at[k + 1] - 1 : shown[m] = Blank(source[m])
                  \/ /\ ReadsCode(source, at[k])
                     /\ at[k + 1] = at[k] + 1
                     /\ shown[at[k]] = source[at[k]]
    <2>1. PieceWithin(language, source, at[k], at[k + 1])
      BY DEF Within
    <2>2. /\ at[k] \in 1 .. Len(source)
          /\ at[k + 1] \in at[k] + 1 .. Len(source) + 1
          /\ \/ /\ IsHidden(language, source, at[k], at[k + 1])
                /\ \A m \in at[k] .. at[k + 1] - 1 : shown[m] = Blank(source[m])
             \/ /\ IsCode(language, source, at[k])
                /\ at[k + 1] = at[k] + 1
                /\ shown[at[k]] = source[at[k]]
      BY DEF Lexed
    <2>3. IsHidden(language, source, at[k], at[k + 1]) => ReadsHidden(source, at[k], at[k + 1])
      BY <2>1, <2>2, HiddenIsRead
    <2>4. IsCode(language, source, at[k]) /\ at[k + 1] = at[k] + 1 => ReadsCode(source, at[k])
      BY <2>1, <2>2, CodeIsRead
    <2> QED BY <2>2, <2>3, <2>4
  <1>2. /\ at # <<>> /\ at[1] = 1 /\ at[Len(at)] = Len(source) + 1
        /\ Len(shown) = Len(source)
    BY DEF Lexed
  <1> QED BY <1>1, <1>2 DEF Reads

\* An attribute adds ignore where the scanner finds the word: cfg_attr_payload_contains_ident.
LEMMA IgnoreIsMentioned ==
  ASSUME NEW attr \in Seq(Token), AttributeWithin(attr)
  PROVE  IgnoresTest(attr) <=> MentionsIgnore(attr)
  <1> DEFINE Adds == \E comma \in AddingCommas(attr) : At(attr, AfterSpace(attr, comma + 1)) = "ignore"
             Mentioned == \E open, comma, word \in DOMAIN attr :
                            /\ attr[open] = "(" /\ \A k \in 1 .. open - 1 : attr[k] # "("
                            /\ open < comma /\ attr[comma] = "," /\ Depth(attr, open, comma) = 0
                            /\ comma < word /\ attr[word] = "ignore"
  <1>0. DOMAIN attr = 1 .. Len(attr) /\ Len(attr) \in Nat
    OBVIOUS
  <1> HIDE DEF Adds, Mentioned
  <1>1. ASSUME Adds PROVE Mentioned
    <2>1. PICK comma \in AddingCommas(attr) : At(attr, AfterSpace(attr, comma + 1)) = "ignore"
      BY <1>1 DEF Adds
    <2>2. comma \in DOMAIN attr /\ attr[comma] = ","
      BY <2>1 DEF AddingCommas
    <2>3. PICK open \in 1 .. comma - 1 :
             attr[open] = "(" /\ (\A k \in 1 .. open - 1 : attr[k] # "(") /\ Depth(attr, open, comma) = 0
      BY <2>1 DEF AddingCommas
    <2> DEFINE word == AfterSpace(attr, comma + 1)
    <2>4. comma \in DOMAIN attr
      BY <2>2
    <2>5. word \in comma + 1 .. Len(attr) + 1
      <3>1. comma + 1 \in 1 .. Len(attr) + 1
        BY <1>0, <2>4
      <3> QED BY <3>1, AfterSpaceIs
    <2>6. word \in DOMAIN attr /\ attr[word] = "ignore"
      BY <2>1 DEF At
    <2> HIDE DEF word
    <2>7. open \in DOMAIN attr /\ open < comma /\ comma < word
      BY <1>0, <2>3, <2>4, <2>5
    <2> QED BY <2>2, <2>3, <2>6, <2>7 DEF Mentioned
  <1>2. ASSUME Mentioned PROVE Adds
    <2>1. PICK open \in DOMAIN attr, comma \in DOMAIN attr, word \in DOMAIN attr :
             /\ attr[open] = "(" /\ \A k \in 1 .. open - 1 : attr[k] # "("
             /\ open < comma /\ attr[comma] = "," /\ Depth(attr, open, comma) = 0
             /\ comma < word /\ attr[word] = "ignore"
      BY <1>2 DEF Mentioned
    <2>2. open < comma
      BY <2>1
    <2>3. open \in 1 .. comma - 1
      BY <1>0, <2>2
    <2>4. comma \in AddingCommas(attr)
      BY <2>1, <2>3 DEF AddingCommas
    <2>5. PICK c \in AddingCommas(attr) : word = AfterSpace(attr, c + 1)
      BY <2>1, <2>4 DEF AttributeWithin
    <2>6. At(attr, AfterSpace(attr, c + 1)) = "ignore"
      BY <2>1, <2>5 DEF At
    <2> QED BY <2>6 DEF Adds
  <1>3. Adds <=> Mentioned
    BY <1>1, <1>2
  <1>4. IgnoresTest(attr) <=> StartsWith(attr, "ignore") \/ (StartsWith(attr, "cfg_attr") /\ Adds)
    BY DEF IgnoresTest, Adds
  <1>5. MentionsIgnore(attr) <=> StartsWith(attr, "ignore") \/ (StartsWith(attr, "cfg_attr") /\ Mentioned)
    BY DEF MentionsIgnore, Mentioned
  <1> QED BY <1>3, <1>4, <1>5

\* The attributes that skip are those that scan_rust_no_quarantine looks for.
LEMMA RustIsRead ==
  ASSUME NEW text \in Seq(Token), RustTextWithin(text)
  PROVE  RustSkips(text) = RustReads(text)
  <1>1. ASSUME NEW hash \in DOMAIN text, NEW close \in DOMAIN text, Attribute(text, hash, close)
        PROVE  IgnoresTest(SubSeq(text, Bracket(text, hash) + 1, close - 1))
                 <=> MentionsIgnore(SubSeq(text, Bracket(text, hash) + 1, close - 1))
    <2> DEFINE attr == SubSeq(text, Bracket(text, hash) + 1, close - 1)
    <2>1. text[hash] = "#"
      BY <1>1 DEF Attribute
    <2>2. AttributeWithin(attr)
      BY <1>1, <2>1 DEF RustTextWithin
    <2>3. attr \in Seq(Token)
      <3>1. Bracket(text, hash) \in Nat /\ 1 <= Bracket(text, hash) + 1
        <4>1. hash \in 1 .. Len(text)
          OBVIOUS
        <4> QED BY <4>1, BracketIs
      <3>2. close - 1 <= Len(text) /\ close - 1 \in Int
        OBVIOUS
      <3>3. \A k \in Bracket(text, hash) + 1 .. close - 1 : text[k] \in Token
        BY <3>1, <3>2
      <3> QED BY <3>1, <3>2, <3>3
    <2> HIDE DEF attr
    <2>4. IgnoresTest(attr) <=> MentionsIgnore(attr)
      BY <2>2, <2>3, IgnoreIsMentioned
    <2> QED BY <2>4 DEF attr
  <1> QED BY <1>1 DEF RustSkips, RustReads

\* A list of attributes skips where the scanner looks for it: at its first name.
LEMMA ListIsRead ==
  ASSUME NEW list \in Seq(Token), ListWithin(list)
  PROVE  SkipsTest(list) <=> Skips(list)
  <1> DEFINE first == AfterSpace(list, 1)
  <1>1. /\ \A head \in Heads(list), name \in DOMAIN list :
             IsNameOf(list, head, name) /\ list[name] \in SkipNames \cup TestNames =>
               name = first /\ list[name] \in {"Ignore", "Explicit", "Fact", "Theory"}
        /\ At(list, first) \in {"Ignore", "Explicit", "Fact", "Theory"} => IsNameOf(list, first, first)
        /\ At(list, first) \in {"Fact", "Theory"} =>
             \A word \in DOMAIN list : list[word] = "Skip" => IsArgument(list, first, word)
    BY DEF ListWithin
  <1>2. first \in Heads(list)
    <2>1. first = AfterSpace(list, 0 + 1)
      OBVIOUS
    <2> QED BY <2>1 DEF Heads
  <1>3. \A word : StartsWith(list, word) <=> At(list, first) = word
    BY DEF StartsWith
  <1>4. Contains(list, "Skip") <=> \E word \in DOMAIN list : list[word] = "Skip"
    BY DEF Contains
  <1>5. \A word \in {"Ignore", "Explicit", "Fact", "Theory"} :
          At(list, first) = word => first \in DOMAIN list /\ list[first] = word
    BY DEF At
  <1> HIDE DEF first
  <1>6. ASSUME Skips(list) PROVE SkipsTest(list)
    <2>1. CASE At(list, first) \in {"Ignore", "Explicit"}
      <3>1. IsNameOf(list, first, first) /\ first \in DOMAIN list /\ list[first] \in SkipNames
        BY <2>1, <1>1, <1>5 DEF SkipNames
      <3> QED BY <3>1, <1>2 DEF SkipsTest
    <2>2. CASE At(list, first) \in {"Fact", "Theory"} /\ Contains(list, "Skip")
      <3>1. IsNameOf(list, first, first) /\ first \in DOMAIN list /\ list[first] \in TestNames
        BY <2>2, <1>1, <1>5 DEF TestNames
      <3>2. PICK word \in DOMAIN list : list[word] = "Skip" /\ IsArgument(list, first, word)
        BY <2>2, <1>1, <1>4
      <3> QED BY <3>1, <3>2, <1>2 DEF SkipsTest
    <2> QED BY <2>1, <2>2, <1>3, <1>6 DEF Skips
  <1>7. ASSUME SkipsTest(list) PROVE Skips(list)
    <2>1. PICK head \in Heads(list), name \in DOMAIN list :
             /\ IsNameOf(list, head, name)
             /\ \/ list[name] \in SkipNames
                \/ /\ list[name] \in TestNames
                   /\ \E word \in DOMAIN list : list[word] = "Skip" /\ IsArgument(list, name, word)
      BY <1>7 DEF SkipsTest
    <2>2. name = first /\ list[name] \in {"Ignore", "Explicit", "Fact", "Theory"}
      BY <2>1, <1>1
    <2>3. At(list, first) = list[name]
      BY <2>2 DEF At
    <2>4. CASE list[name] \in SkipNames
      BY <2>2, <2>3, <2>4, <1>3 DEF Skips, SkipNames
    <2>5. CASE list[name] \in TestNames /\ \E word \in DOMAIN list : list[word] = "Skip"
      BY <2>2, <2>3, <2>5, <1>3, <1>4 DEF Skips, TestNames
    <2> QED BY <2>1, <2>4, <2>5
  <1> QED BY <1>6, <1>7

\* The lists that skip are those that scan_dotnet_no_quarantine looks for.
LEMMA DotnetIsRead ==
  ASSUME NEW text \in Seq(Token), DotnetTextWithin(text)
  PROVE  DotnetSkips(text) = DotnetReads(text)
  <1>1. ASSUME NEW open \in DOMAIN text, NEW close \in DOMAIN text, List(text, open, close)
        PROVE  SkipsTest(SubSeq(text, open + 1, close - 1)) <=> Skips(SubSeq(text, open + 1, close - 1))
    <2> DEFINE list == SubSeq(text, open + 1, close - 1)
    <2>1. ListWithin(list)
      BY <1>1 DEF DotnetTextWithin
    <2>2. list \in Seq(Token)
      <3>1. \A k \in open + 1 .. close - 1 : text[k] \in Token
        OBVIOUS
      <3> QED BY <3>1
    <2> HIDE DEF list
    <2>3. SkipsTest(list) <=> Skips(list)
      BY <2>1, <2>2, ListIsRead
    <2> QED BY <2>3 DEF list
  <1> QED BY <1>1 DEF DotnetSkips, DotnetReads

\* Of a source within the limits of the scanners (Within), the scan hides the comments and literals
\* of its language, and finds the lines that skip a test: strip_comments_and_literals and the
\* scanner of each kind.
THEOREM ScanExact ==
  ASSUME NEW kind \in ToSet(Kinds), NEW source, Described(kind, source)
  PROVE  /\ kind \in MaskedKinds => Masked(source.text) = source.shown
         /\ FindingsIn(kind, source.text) = SkipLines(kind, source)
  <1>1. ToSet(Kinds) = {"rust", "python", "typescript", "dotnet", "workflow"}
    BY KindsAre
  <1>2. source.text \in Seq(Token) /\ Within(kind, source.text, source.shown, source.at)
    BY DEF Described
  <1>3. ASSUME kind \in MaskedKinds PROVE Masked(source.text) = source.shown /\ source.shown \in Seq(Token)
    <2>1. source.shown \in Seq(Token) /\ source.at \in Seq(Nat) /\ Lexed(kind, source.text, source.shown, source.at)
      BY <1>3 DEF Described
    <2>2. Reads(source.text, source.shown, source.at)
      BY <1>2, <1>3, <2>1, PiecesAreRead
    <2> QED BY <1>2, <2>1, <2>2, MaskIsShown
  <1>4. FindingsIn(kind, source.text) = SkipLines(kind, source)
    <2>1. CASE kind = "rust"
      <3>1. RustFindings(source.shown) = RustReads(source.shown)
        BY <2>1, <1>3, RustFindingsAre DEF MaskedKinds
      <3>2. RustSkips(source.shown) = RustReads(source.shown)
        BY <2>1, <1>2, <1>3, RustIsRead DEF MaskedKinds, Within
      <3> QED BY <2>1, <3>1, <3>2, <1>3 DEF FindingsIn, SkipLines, MaskedKinds
    <2>2. CASE kind = "python"
      <3>1. PythonFindings(source.text) = PythonSkips(source.text)
        BY <1>2, PythonFindingsAre
      <3> QED BY <2>2, <3>1 DEF FindingsIn, SkipLines
    <2>3. CASE kind = "typescript"
      <3>1. TypeScriptFindings(source.shown) = TypeScriptSkips(source.shown)
        BY <2>3, <1>3, TypeScriptFindingsAre DEF MaskedKinds
      <3> QED BY <2>3, <3>1, <1>3 DEF FindingsIn, SkipLines, MaskedKinds
    <2>4. CASE kind = "dotnet"
      <3>1. DotnetFindings(source.shown) = DotnetReads(source.shown)
        BY <2>4, <1>3, DotnetFindingsAre DEF MaskedKinds
      <3>2. DotnetSkips(source.shown) = DotnetReads(source.shown)
        BY <2>4, <1>2, <1>3, DotnetIsRead DEF MaskedKinds, Within
      <3> QED BY <2>4, <3>1, <3>2, <1>3 DEF FindingsIn, SkipLines, MaskedKinds
    <2>5. CASE kind = "workflow"
      <3>1. WorkflowFindings(source.text) = LinesOf(source.text, WorkflowSkips(source.text))
        BY <1>2, WorkflowFindingsAre
      <3> QED BY <2>5, <3>1 DEF FindingsIn, SkipLines
    <2> QED BY <1>1, <2>1, <2>2, <2>3, <2>4, <2>5
  <1> QED BY <1>3, <1>4

\* The walk of each kind reaches what is on a test surface.
LEMMA SurfaceIsReached ==
  ASSUME NEW p \in Places, OnSurface(p)
  PROVE  Reached(p)
  <1>1. p.kind \in {"rust", "python", "typescript", "dotnet", "workflow"} /\ p.dirs \in Seq(STRING)
    BY KindsAre, TestSurfaceAssumption
  <1>2. ASSUME NEW names PROVE Avoids(p.dirs, names) <=> \A i \in DOMAIN p.dirs : p.dirs[i] \notin names
    BY DEF Avoids, ToSet
  <1>3. \A i \in DOMAIN p.dirs : p.dirs[i] \notin Exempt(p.kind)
    BY DEF OnSurface
  <1>4. CASE p.kind = "rust"
    <2>1. \E i \in DOMAIN p.dirs : p.dirs[i] \in {"src", "tests", "examples", "benches"}
      BY <1>4 DEF OnSurface
    <2>2. Avoids(p.dirs, {"target", ".hidden"}) /\ ~Avoids(p.dirs, {"src", "tests", "examples", "benches"})
      BY <2>1, <1>2, <1>3, <1>4 DEF Exempt
    <2> QED BY <2>2, <1>4 DEF Reached, RustReached
  <1>5. CASE p.kind = "python"
    <2>1. PICK i \in DOMAIN p.dirs : p.dirs[i] = "tests"
      BY <1>5 DEF OnSurface
    <2>2. Avoids(p.dirs, {"__pycache__"})
      BY <1>2, <1>3, <1>5 DEF Exempt
    <2>3. Contains(p.dirs, "tests")
      BY <2>1, <1>1 DEF Contains
    <2> QED BY <2>2, <2>3, <1>5 DEF Reached, PythonReached
  <1>6. CASE p.kind \in {"typescript", "dotnet"}
    <2>1. Avoids(p.dirs, {"node_modules", "bin", "obj"})
      BY <1>2, <1>3, <1>6 DEF Exempt
    <2> QED BY <2>1, <1>6 DEF Reached
  <1>7. CASE p.kind = "workflow"
    BY <1>7 DEF Reached
  <1> QED BY <1>1, <1>4, <1>5, <1>6, <1>7

\* The findings are those of the texts read, which come from files of the walk.
Consistent ==
  /\ disk = [p \in Places |-> disk[p]]
  /\ \A p \in Places : disk[p] # Absent => Described(p.kind, disk[p])
  /\ toCollect \in Seq(ToSet(Kinds))
  /\ files \subseteq Places
  /\ DOMAIN read \subseteq files
  /\ \A p \in DOMAIN read : Described(p.kind, read[p])
  /\ findings = UNION {{<<p, line>> : line \in FindingsIn(p.kind, read[p].text)} : p \in DOMAIN read}

\* What the walk reaches and nobody has touched was found, or its kind is still to be walked.
Collected ==
  \A p \in Places \ edited :
    Reached(p) /\ disk[p] # Absent => p \in files \/ p.kind \in ToSet(toCollect)

\* Why the program has ended.
Concluded ==
  /\ outcome = "success" => toCollect = <<>> /\ files = DOMAIN read /\ findings = {}
  /\ outcome = "failure" /\ toCollect = <<>> /\ files = DOMAIN read => printed # {}

GateInv == Consistent /\ Collected /\ Concluded

\* Of the files that were read, the lines with a forbidden skip are among the findings.
LEMMA FindingsAre ==
  ASSUME GateInv
  PROVE  /\ \A p \in DOMAIN read :
              /\ p \in Places /\ p.kind \in ToSet(Kinds) /\ Described(p.kind, read[p])
              /\ FindingsIn(p.kind, read[p].text) = SkipLines(p.kind, read[p])
         /\ \A p, line : <<p, line>> \in findings <=>
              p \in DOMAIN read /\ line \in FindingsIn(p.kind, read[p].text)
         /\ \A f \in findings : \E p \in DOMAIN read : \E line \in FindingsIn(p.kind, read[p].text) : f = <<p, line>>
  <1>1. ASSUME NEW p \in DOMAIN read
        PROVE  /\ p \in Places /\ p.kind \in ToSet(Kinds) /\ Described(p.kind, read[p])
               /\ FindingsIn(p.kind, read[p].text) = SkipLines(p.kind, read[p])
    <2>1. p \in Places /\ Described(p.kind, read[p])
      BY DEF GateInv, Consistent
    <2>2. p.kind \in ToSet(Kinds)
      BY <2>1, TestSurfaceAssumption
    <2> QED BY <2>1, <2>2, ScanExact
  <1>2. findings = UNION {{<<p, line>> : line \in FindingsIn(p.kind, read[p].text)} : p \in DOMAIN read}
    BY DEF GateInv, Consistent
  <1>3. \A p, line : <<p, line>> \in findings <=> p \in DOMAIN read /\ line \in FindingsIn(p.kind, read[p].text)
    BY <1>2
  <1>4. \A f \in findings : \E p \in DOMAIN read : \E line \in FindingsIn(p.kind, read[p].text) : f = <<p, line>>
    BY <1>2
  <1> QED BY <1>1, <1>3, <1>4

\* A file's kind is walked now, or it is among the kinds that are left.
LEMMA KindsLeft ==
  ASSUME NEW S, NEW kinds \in Seq(S), kinds # <<>>
  PROVE  Tail(kinds) \in Seq(S) /\ \A kind \in ToSet(kinds) : kind = Head(kinds) \/ kind \in ToSet(Tail(kinds))
  <1>1. /\ Head(kinds) = kinds[1] /\ Tail(kinds) \in Seq(S) /\ Len(Tail(kinds)) = Len(kinds) - 1
        /\ \A i \in 1 .. Len(Tail(kinds)) : Tail(kinds)[i] = kinds[i + 1]
    BY HeadTailProperties
  <1>2. ASSUME NEW i \in DOMAIN kinds, i # 1 PROVE kinds[i] \in ToSet(Tail(kinds))
    <2>1. i - 1 \in 1 .. Len(Tail(kinds)) /\ (i - 1) + 1 = i
      BY <1>1, <1>2
    <2>2. i - 1 \in DOMAIN Tail(kinds) /\ Tail(kinds)[i - 1] = kinds[i]
      BY <1>1, <2>1
    <2> QED BY <2>2 DEF ToSet
  <1> QED BY <1>1, <1>2 DEF ToSet

\* A file that can be scanned now is one of those collected, after the walk, and was not read.
LEMMA ScannedNext ==
  ASSUME NEW p \in NextFiles
  PROVE  toCollect = <<>> /\ p \in files /\ p \notin DOMAIN read
  BY DEF NextFiles

\* Before the walk, nothing is read and nothing is missed.
LEMMA GateInit == Init => GateInv
  <1> SUFFICES ASSUME Init
               PROVE  GateInv
    OBVIOUS
  <1> USE DEF Init
  <1>1. PICK setting \in Settings : disk = setting.disk
    OBVIOUS
  <1>2. DOMAIN read = {}
    OBVIOUS
  <1>3. disk = [p \in Places |-> disk[p]] /\ \A p \in Places : disk[p] # Absent => Described(p.kind, disk[p])
    BY <1>1, TestSurfaceAssumption
  <1>4. Consistent
    BY <1>2, <1>3, KindsAre DEF Consistent
  <1>5. Collected
    BY TestSurfaceAssumption DEF Collected
  <1> QED BY <1>4, <1>5 DEF GateInv, Concluded

\* No step of the program, no failure and no edit meanwhile breaks the invariant.
LEMMA GateStep == GateInv /\ [Next]_vars => GateInv'
  <1> SUFFICES ASSUME GateInv, [Next]_vars
               PROVE  GateInv'
    OBVIOUS
  <1>0. Consistent /\ Collected /\ Concluded
    BY DEF GateInv
  <1>1. CASE Collect
    <2>0. /\ outcome = "none" /\ toCollect # <<>> /\ toCollect' = Tail(toCollect)
          /\ files' = files \cup {p \in Places : p.kind = Head(toCollect) /\ disk[p] # Absent /\ Reached(p)}
          /\ disk' = disk /\ edited' = edited /\ read' = read /\ findings' = findings /\ outcome' = outcome
      BY <1>1 DEF Collect, Running
    <2>1. Consistent'
      <3>1. toCollect' \in Seq(ToSet(Kinds))
        BY <1>0, <2>0, KindsLeft DEF Consistent
      <3>2. files' \subseteq Places /\ DOMAIN read' \subseteq files'
        BY <1>0, <2>0 DEF Consistent
      <3> QED BY <1>0, <2>0, <3>1, <3>2 DEF Consistent
    <2>2. Collected'
      <3>1. \A kind \in ToSet(toCollect) : kind = Head(toCollect) \/ kind \in ToSet(toCollect')
        BY <1>0, <2>0, KindsLeft DEF Consistent
      <3>2. ASSUME NEW p \in Places \ edited, Reached(p), disk[p] # Absent
            PROVE  p \in files' \/ p.kind \in ToSet(toCollect')
        BY <1>0, <2>0, <3>1, <3>2 DEF Collected
      <3> QED BY <2>0, <3>2 DEF Collected, Reached
    <2>3. Concluded'
      BY <2>0 DEF Concluded
    <2> QED BY <2>1, <2>2, <2>3 DEF GateInv
  <1>2. CASE CollectFails
    <2>0. /\ toCollect # <<>> /\ outcome' = "failure"
          /\ UNCHANGED <<disk, edited, toCollect, files, read, findings>>
      BY <1>2 DEF CollectFails
    <2>1. Consistent'
      BY <1>0, <2>0 DEF Consistent
    <2>2. Collected'
      BY <1>0, <2>0 DEF Collected
    <2>3. Concluded'
      BY <2>0 DEF Concluded
    <2> QED BY <2>1, <2>2, <2>3 DEF GateInv
  <1>3. ASSUME NEW p \in Places, Scan(p) PROVE GateInv'
    <2>0. /\ outcome = "none" /\ p \in NextFiles /\ disk[p] # Absent
          /\ read' = [q \in DOMAIN read \cup {p} |-> IF q = p THEN disk[p] ELSE read[q]]
          /\ findings' = findings \cup {<<p, line>> : line \in FindingsIn(p.kind, disk[p].text)}
          /\ UNCHANGED <<disk, edited, toCollect, files, outcome>>
      BY <1>3 DEF Scan, Running
    <2>1. toCollect = <<>> /\ p \in files /\ p \notin DOMAIN read
      BY <2>0, ScannedNext
    <2>2. /\ DOMAIN read' = DOMAIN read \cup {p} /\ read'[p] = disk[p]
          /\ \A q \in DOMAIN read : read'[q] = read[q]
      BY <2>0, <2>1
    <2>3. Consistent'
      <3>1. DOMAIN read' \subseteq files'
        BY <1>0, <2>0, <2>1, <2>2 DEF Consistent
      <3>2. \A q \in DOMAIN read' : Described(q.kind, read'[q])
        BY <1>0, <2>0, <2>2 DEF Consistent
      <3>3. findings' = UNION {{<<q, line>> : line \in FindingsIn(q.kind, read'[q].text)} : q \in DOMAIN read'}
        <4> DEFINE Lines(q, r) == {<<q, line>> : line \in FindingsIn(q.kind, r[q].text)}
        <4>1. findings = UNION {Lines(q, read) : q \in DOMAIN read}
          BY <1>0 DEF Consistent
        <4>2. \A q \in DOMAIN read : Lines(q, read') = Lines(q, read)
          BY <2>2
        <4>3. findings' = findings \cup Lines(p, read')
          BY <2>0, <2>2
        <4> HIDE DEF Lines
        <4>4. findings' = UNION {Lines(q, read') : q \in DOMAIN read'}
          BY <2>2, <4>1, <4>2, <4>3
        <4> QED BY <4>4 DEF Lines
      <3>4. /\ disk' = [q \in Places |-> disk'[q]]
            /\ \A q \in Places : disk'[q] # Absent => Described(q.kind, disk'[q])
            /\ toCollect' \in Seq(ToSet(Kinds))
            /\ files' \subseteq Places
        BY <1>0, <2>0 DEF Consistent
      <3> QED BY <3>1, <3>2, <3>3, <3>4 DEF Consistent
    <2>4. Collected'
      BY <1>0, <2>0 DEF Collected
    <2>5. Concluded'
      BY <2>0 DEF Concluded
    <2> QED BY <2>3, <2>4, <2>5 DEF GateInv
  <1>4. ASSUME NEW p \in Places, ScanFails(p) PROVE GateInv'
    <2>0. /\ p \in NextFiles /\ outcome' = "failure"
          /\ UNCHANGED <<disk, edited, toCollect, files, read, findings>>
      BY <1>4 DEF ScanFails
    <2>1. p \in files /\ p \notin DOMAIN read
      BY <2>0, ScannedNext
    <2>2. Consistent'
      BY <1>0, <2>0 DEF Consistent
    <2>3. Collected'
      BY <1>0, <2>0 DEF Collected
    <2>4. Concluded'
      BY <2>0, <2>1 DEF Concluded
    <2> QED BY <2>2, <2>3, <2>4 DEF GateInv
  <1>5. ASSUME NEW p \in Places, Edit(p) PROVE GateInv'
    <2>0. /\ outcome = "none" /\ outcome' = outcome /\ edited' = edited \cup {p}
          /\ UNCHANGED <<toCollect, files, read, findings>>
      BY <1>5 DEF Edit, Running
    <2>1. PICK save \in Saves : save.place = p /\ disk' = [disk EXCEPT ![p] = save.source]
      BY <1>5 DEF Edit
    <2>2. save.source # Absent => Described(p.kind, save.source)
      BY <2>1, TestSurfaceAssumption
    <2>3. /\ disk' = [q \in Places |-> disk'[q]] /\ disk'[p] = save.source
          /\ \A q \in Places : q # p => disk'[q] = disk[q]
      <3>1. disk = [q \in Places |-> disk[q]]
        BY <1>0 DEF Consistent
      <3> QED BY <2>1, <3>1
    <2>4. Consistent'
      <3>1. \A q \in Places : disk'[q] # Absent => Described(q.kind, disk'[q])
        BY <1>0, <2>2, <2>3 DEF Consistent
      <3>2. disk' = [q \in Places |-> disk'[q]]
        BY <2>3
      <3> QED BY <1>0, <2>0, <3>1, <3>2 DEF Consistent
    <2>5. Collected'
      BY <1>0, <2>0, <2>3 DEF Collected
    <2>6. Concluded'
      BY <2>0 DEF Concluded
    <2> QED BY <2>4, <2>5, <2>6 DEF GateInv
  <1>6. CASE Report
    <2>0. /\ toCollect = <<>> /\ files = DOMAIN read
          /\ printed' = IF listOnly THEN {f[1] : f \in findings} ELSE findings
          /\ outcome' = IF findings = {} THEN "success" ELSE "failure"
          /\ UNCHANGED <<disk, edited, toCollect, files, read, findings>>
      BY <1>6 DEF Report
    <2>1. Consistent'
      BY <1>0, <2>0 DEF Consistent
    <2>2. Collected'
      BY <1>0, <2>0 DEF Collected
    <2>3. findings # {} => printed' # {}
      BY <2>0
    <2>4. Concluded'
      BY <2>0, <2>3 DEF Concluded
    <2> QED BY <2>1, <2>2, <2>4 DEF GateInv
  <1>7. CASE UNCHANGED vars
    BY <1>0, <1>7 DEF vars, GateInv, Consistent, Collected, Concluded
  <1> QED BY <1>1, <1>2, <1>3, <1>4, <1>5, <1>6, <1>7 DEF Next

\* In every state the gate has read what the walk has found, and reports what it has read: main and
\* scan_file of check_test_surface.rs, over files whose sources are within the limits of the scanners.
THEOREM GateInvariant == Spec => []GateInv
  BY GateInit, GateStep, PTL DEF Spec

\* Of the files that are read, whose sources are within the limits of the scanners (Described),
\* strip_comments_and_literals blanks exactly what their languages call comments and literals.
THEOREM MaskStaysExact == Spec => []MaskExact
  <1>1. ASSUME GateInv PROVE MaskExact
    BY <1>1, FindingsAre, ScanExact DEF MaskExact
  <1> QED BY <1>1, GateInvariant, PTL

\* No line that skips a test is passed over in a file that was read, for sources within the limits
\* of the scanners (Described): the scanners of check_test_surface.rs.
THEOREM NothingPasses == Spec => []NothingEscapes
  <1>1. ASSUME GateInv PROVE NothingEscapes
    <2>1. ASSUME NEW p \in DOMAIN read, NEW line \in read[p].bad PROVE <<p, line>> \in findings
      <3>1. Described(p.kind, read[p]) /\ FindingsIn(p.kind, read[p].text) = SkipLines(p.kind, read[p])
        BY <1>1, FindingsAre
      <3>2. line \in SkipLines(p.kind, read[p])
        BY <3>1 DEF Described
      <3> QED BY <1>1, <3>1, <3>2, FindingsAre
    <2> QED BY <2>1 DEF NothingEscapes
  <1> QED BY <1>1, GateInvariant, PTL

\* No other line is reported, but for those of which the gate may say so, for sources within the
\* limits of the scanners (Described): the scanners of check_test_surface.rs.
THEOREM NothingElseReported == Spec => []NoFalseAlarm
  <1>1. ASSUME GateInv PROVE NoFalseAlarm
    <2>1. ASSUME NEW f \in findings PROVE f[2] \in read[f[1]].bad \cup read[f[1]].doubtful
      <3>1. PICK p \in DOMAIN read : \E line \in FindingsIn(p.kind, read[p].text) : f = <<p, line>>
        BY <1>1, FindingsAre
      <3>2. PICK line \in FindingsIn(p.kind, read[p].text) : f = <<p, line>>
        BY <3>1
      <3>3. Described(p.kind, read[p]) /\ line \in SkipLines(p.kind, read[p])
        BY <1>1, FindingsAre
      <3>4. line \in read[p].bad \cup read[p].doubtful
        BY <3>3 DEF Described
      <3> QED BY <3>2, <3>4
    <2> QED BY <2>1 DEF NoFalseAlarm
  <1> QED BY <1>1, GateInvariant, PTL

\* Success means that all that was on a test surface from start to end was read and skips nothing,
\* whatever was saved or removed meanwhile; a failure after the last file says where.
THEOREM VerdictStaysSound == Spec => []VerdictSound
  <1>1. ASSUME GateInv PROVE VerdictSound
    <2>0. Consistent /\ Collected /\ Concluded
      BY <1>1 DEF GateInv
    <2>1. ASSUME outcome = "success", NEW p \in Places \ edited, OnSurface(p), disk[p] # Absent
          PROVE  p \in DOMAIN read
      <3>1. toCollect = <<>> /\ files = DOMAIN read
        BY <2>0, <2>1 DEF Concluded
      <3>2. Reached(p)
        BY <2>1, SurfaceIsReached
      <3>3. ToSet(toCollect) = {}
        BY <3>1 DEF ToSet
      <3> QED BY <2>0, <2>1, <3>1, <3>2, <3>3 DEF Collected
    <2>2. ASSUME outcome = "success", NEW p \in DOMAIN read PROVE read[p].bad = {}
      <3>1. findings = {}
        BY <2>0, <2>2 DEF Concluded
      <3>2. SkipLines(p.kind, read[p]) = {} /\ Described(p.kind, read[p])
        <4>1. \A line : line \notin FindingsIn(p.kind, read[p].text)
          BY <1>1, <3>1, FindingsAre
        <4>2. Described(p.kind, read[p]) /\ FindingsIn(p.kind, read[p].text) = SkipLines(p.kind, read[p])
          BY <1>1, FindingsAre
        <4> QED BY <4>1, <4>2
      <3> QED BY <3>2 DEF Described
    <2>3. outcome = "failure" /\ toCollect = <<>> /\ files = DOMAIN read => printed # {}
      BY <2>0 DEF Concluded
    <2> QED BY <2>1, <2>2, <2>3 DEF VerdictSound
  <1> QED BY <1>1, GateInvariant, PTL
=============================================================================
