------------------------------ MODULE IdLayout ------------------------------
(***************************************************************************)
(* The bit layouts of HeerId and RanjId and their descending forms.        *)
(* A raw value is an integer; its fields are its digits, each with the     *)
(* number of values its bits can hold, the most significant first:         *)
(*                                                                         *)
(*   HeerId   timestamp, node, sequence                                    *)
(*   RanjId   timestamp (high), version, timestamp (middle), variant,      *)
(*            precision, timestamp (low), node, sequence                   *)
(*                                                                         *)
(* The precision lies between the parts of the timestamp: raw values of    *)
(* different precisions are not in the order of time.                      *)
(***************************************************************************)
EXTENDS Integers

CONSTANTS
  HeerTicks, HeerNodes, HeerSeqs,          \* 2^41, 2^9, 2^13
  HighTicks, MidTicks, LowTicks,           \* 2^48, 2^12, 2^29: the parts of a RanjId timestamp
  RanjNodes, RanjSeqs,                     \* 2^15, 2^16
  Versions, Version, Variants, Variant,    \* 2^4, 8, 2^2, 2: the fields of a UUID
  Precisions,                              \* 4: microseconds are 0, femtoseconds 3
  Millis                                   \* ticks per millisecond of each precision

ASSUME LayoutAssumption ==
  /\ HeerTicks \in Nat \ {0} /\ HeerNodes \in Nat \ {0} /\ HeerSeqs \in Nat \ {0}
  /\ HighTicks \in Nat \ {0} /\ MidTicks \in Nat \ {0} /\ LowTicks \in Nat \ {0}
  /\ RanjNodes \in Nat \ {0} /\ RanjSeqs \in Nat \ {0}
  /\ Versions \in Nat \ {0} /\ Version \in 0 .. Versions - 1
  /\ Variants \in Nat \ {0} /\ Variant \in 0 .. Variants - 1
  /\ Precisions \in Nat \ {0}
  /\ Millis \in [0 .. Precisions - 1 -> Nat \ {0}]

RanjTicks == HighTicks * MidTicks * LowTicks

HeerParts == [ts : 0 .. HeerTicks - 1, node : 0 .. HeerNodes - 1, seq : 0 .. HeerSeqs - 1]
RanjParts == [ts : 0 .. RanjTicks - 1, precision : 0 .. Precisions - 1,
              node : 0 .. RanjNodes - 1, seq : 0 .. RanjSeqs - 1]

\* Appending a field of size values to the fields above it.
Put(above, size, field) == above * size + field

-----------------------------------------------------------------------------
\* HeerId::new, of fields that are in range, and into_parts.
HeerRaw(p) == Put(Put(p.ts, HeerNodes, p.node), HeerSeqs, p.seq)

HeerFields(raw) ==
  [ts   |-> (raw \div HeerSeqs) \div HeerNodes,
   node |-> (raw \div HeerSeqs) % HeerNodes,
   seq  |-> raw % HeerSeqs]

\* XOR with HEER_FLIP_MASK complements the timestamp and the sequence and leaves the node.
HeerFlip(raw) ==
  LET p == HeerFields(raw) IN
  HeerRaw([ts |-> HeerTicks - 1 - p.ts, node |-> p.node, seq |-> HeerSeqs - 1 - p.seq])

-----------------------------------------------------------------------------
\* A RanjId from the three parts of its timestamp and its other fields.
Uuid(high, version, mid, variant, precision, low, node, seq) ==
  Put(Put(Put(Put(Put(Put(Put(high, Versions, version), MidTicks, mid), Variants, variant),
                  Precisions, precision), LowTicks, low), RanjNodes, node), RanjSeqs, seq)

\* RanjId::new, of fields that are in range.
RanjRaw(p) ==
  Uuid((p.ts \div LowTicks) \div MidTicks, Version, (p.ts \div LowTicks) % MidTicks,
       Variant, p.precision, p.ts % LowTicks, p.node, p.seq)

\* The fields of a raw value: each is a digit of what is left above the fields below it.
AboveSeq(raw) == raw \div RanjSeqs
AboveNode(raw) == AboveSeq(raw) \div RanjNodes
AboveLow(raw) == AboveNode(raw) \div LowTicks
AbovePrecision(raw) == AboveLow(raw) \div Precisions
AboveVariant(raw) == AbovePrecision(raw) \div Variants
AboveMid(raw) == AboveVariant(raw) \div MidTicks

SeqField(raw) == raw % RanjSeqs
NodeField(raw) == AboveSeq(raw) % RanjNodes
LowField(raw) == AboveNode(raw) % LowTicks
PrecisionField(raw) == AboveLow(raw) % Precisions
VariantField(raw) == AbovePrecision(raw) % Variants
MidField(raw) == AboveVariant(raw) % MidTicks
VersionField(raw) == AboveMid(raw) % Versions
HighField(raw) == AboveMid(raw) \div Versions

\* RanjId::into_parts.
RanjFields(raw) ==
  [ts        |-> Put(Put(HighField(raw), MidTicks, MidField(raw)), LowTicks, LowField(raw)),
   precision |-> PrecisionField(raw),
   node      |-> NodeField(raw),
   seq       |-> SeqField(raw)]

\* 128 bits.
IsUuid(raw) == raw \in Nat /\ HighField(raw) < HighTicks

\* RanjId::from_uuid accepts these raw values.
IsRanjId(raw) == VersionField(raw) = Version /\ VariantField(raw) = Variant

\* XOR with RANJ_FLIP_MASK complements the three parts of the timestamp and the sequence;
\* version, variant, precision and node stay.
RanjFlip(raw) ==
  Uuid(HighTicks - 1 - HighField(raw), VersionField(raw), MidTicks - 1 - MidField(raw),
       VariantField(raw), PrecisionField(raw), LowTicks - 1 - LowField(raw),
       NodeField(raw), RanjSeqs - 1 - SeqField(raw))

-----------------------------------------------------------------------------
\* HeerId to RanjId: the timestamp is scaled up, node and sequence stay.
ToRanj(heer, precision) ==
  LET p == HeerFields(heer) IN
  RanjRaw([ts |-> p.ts * Millis[precision], precision |-> precision, node |-> p.node, seq |-> p.seq])
=============================================================================
