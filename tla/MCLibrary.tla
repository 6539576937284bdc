----------------------------- MODULE MCLibrary -----------------------------
(***************************************************************************)
(* Layouts with a few values per field, so that every field overflows:     *)
(* two milliseconds, nodes and sequences in a HeerId; precisions of two    *)
(* and four ticks per millisecond.                                         *)
(***************************************************************************)
EXTENDS Library

MillisValue == [precision \in 0..1 |-> IF precision = 0 THEN 2 ELSE 4]

\* Coarse RanjIds of the first three milliseconds and fine ones of the first two, on two
\* nodes, and some on a node that a HeerId cannot hold.
RanjIdsValue ==
  {RanjRaw(p) : p \in [ts : {0, 1, 2, 4}, precision : {0}, node : {0, 1}, seq : {0, 3}]
                 \cup [ts : {0, 3, 4, 5}, precision : {1}, node : {1}, seq : {0}]
                 \cup [ts : {1, 4}, precision : {0}, node : {2}, seq : {0}]}

HeerIdsValue == {HeerRaw(p) : p \in HeerParts}

\* Two milliseconds apart on one node, and one on another node between them.
GivenValue == {HeerRaw([ts |-> 0, node |-> 0, seq |-> 1]), HeerRaw([ts |-> 0, node |-> 1, seq |-> 0]),
               HeerRaw([ts |-> 1, node |-> 0, seq |-> 0])}

\* Fields at both ends of their ranges and beyond.
GivenHeerValue == [ts : {0, 1, 2}, node : {0, 1, 2}, seq : {0, 1, 2}]
GivenRanjValue == [ts : {0, 7, 15, 16}, precision : {0, 1}, node : {0, 3, 4}, seq : {0, 3}]

\* UUIDs of both versions and variants.
UuidsValue ==
  {Uuid(high, version, 0, variant, 1, low, 2, seq) :
     high \in {0, 3}, version \in 0..1, variant \in 0..1, low \in 0..1, seq \in {0, 3}}

\* Every number from below an i64 to above a word, and UUIDs as text, as 16 bytes and cut short.
ArrivalsValue ==
  [form : {"digits", "number", "integer"}, value : -9..18] \cup [form : {"word"}, value : -8..7]
    \cup [form : {"hex", "uuid", "bytes"}, value : UuidsValue]

WordsValue == {-1, 3}
StructsValue == {Uuid(1, version, 0, variant, 0, 0, 0, 0) : version \in 0..1, variant \in 0..1}
StringsValue == [form : {"digits", "hex", "bytes"}, value : {3, RanjRaw([ts |-> 0, precision |-> 0, node |-> 0, seq |-> 0])}]
                  \cup {[form |-> "digits", value |-> -1], [form |-> "digits", value |-> 8], [form |-> "hex", value |-> 0]}
=============================================================================
