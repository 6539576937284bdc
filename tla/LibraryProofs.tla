---------------------------- MODULE LibraryProofs ----------------------------
(***************************************************************************)
(* What the Rust library promises, for fields of any widths, any           *)
(* identifiers, threads and calls: the layouts, the conversions and the    *)
(* precision they are made at, identifiers on their way through the        *)
(* boundaries, the C functions, the conversion of a batch, and the parts   *)
(* together.                                                               *)
(***************************************************************************)
EXTENDS Library, FiniteSetTheorems, FunctionTheorems, TLAPS

-----------------------------------------------------------------------------
(* The layouts: every field is kept and raw values are ordered as promised, in the ascending *)
(* and in the descending form.                                                               *)

\* A field appended to a raw value can be taken off again.
LEMMA PutFields ==
  ASSUME NEW a \in Nat, NEW n \in Nat \ {0}, NEW x \in 0 .. n - 1
  PROVE  /\ Put(a, n, x) \in Nat
         /\ Put(a, n, x) \div n = a
         /\ Put(a, n, x) % n = x
  BY SMTT(30) DEF Put

\* The last field is the least significant.
LEMMA PutOrder ==
  ASSUME NEW a \in Nat, NEW b \in Nat, NEW n \in Nat \ {0}, NEW x \in 0 .. n - 1, NEW y \in 0 .. n - 1
  PROVE  Put(a, n, x) < Put(b, n, y) <=> a < b \/ (a = b /\ x < y)
  BY SMTT(30) DEF Put

\* Every number is what is above its last field with that field appended.
LEMMA SplitField ==
  ASSUME NEW a \in Nat, NEW n \in Nat \ {0}
  PROVE  /\ a \div n \in Nat
         /\ a % n \in 0 .. n - 1
         /\ Put(a \div n, n, a % n) = a
  BY SMTT(30) DEF Put

\* The complement of a field is a field, and complementing reverses its order.
LEMMA Complement ==
  ASSUME NEW n \in Nat \ {0}, NEW x \in 0 .. n - 1, NEW y \in 0 .. n - 1
  PROVE  /\ n - 1 - x \in 0 .. n - 1
         /\ n - 1 - (n - 1 - x) = x
         /\ n - 1 - x < n - 1 - y <=> y < x
         /\ n - 1 - x = n - 1 - y <=> x = y
  OBVIOUS

-----------------------------------------------------------------------------
(* HeerId. *)

\* The fields of a HeerId survive packing and unpacking (HeerId::new, into_parts).
THEOREM HeerFieldsOfRaw ==
  \A p \in HeerParts : HeerRaw(p) \in Nat /\ HeerFields(HeerRaw(p)) = p
  <1> SUFFICES ASSUME NEW p \in HeerParts
               PROVE  HeerRaw(p) \in Nat /\ HeerFields(HeerRaw(p)) = p
    OBVIOUS
  <1> DEFINE above == Put(p.ts, HeerNodes, p.node)
             packed == Put(above, HeerSeqs, p.seq)
  <1>1. /\ p.ts \in Nat
        /\ p.node \in 0 .. HeerNodes - 1 /\ HeerNodes \in Nat \ {0}
        /\ p.seq \in 0 .. HeerSeqs - 1 /\ HeerSeqs \in Nat \ {0}
    BY LayoutAssumption DEF HeerParts
  <1>2. above \in Nat /\ above \div HeerNodes = p.ts /\ above % HeerNodes = p.node
    BY <1>1, PutFields
  <1> HIDE DEF above
  <1>3. packed \in Nat /\ packed \div HeerSeqs = above /\ packed % HeerSeqs = p.seq
    BY <1>1, <1>2, PutFields
  <1>4. HeerRaw(p) = packed
    BY DEF HeerRaw, above
  <1> HIDE DEF packed
  <1>5. HeerFields(packed) = [ts |-> p.ts, node |-> p.node, seq |-> p.seq]
    BY <1>2, <1>3 DEF HeerFields
  <1>6. p = [ts |-> p.ts, node |-> p.node, seq |-> p.seq]
    BY DEF HeerParts
  <1> QED
    BY <1>3, <1>4, <1>5, <1>6

\* Raw HeerIds are ordered by time, then node, then sequence.
THEOREM HeerOrder ==
  \A p, q \in HeerParts :
    HeerRaw(p) < HeerRaw(q) <=>
      \/ p.ts < q.ts
      \/ p.ts = q.ts /\ (p.node < q.node \/ (p.node = q.node /\ p.seq < q.seq))
  <1> SUFFICES ASSUME NEW p \in HeerParts, NEW q \in HeerParts
               PROVE  HeerRaw(p) < HeerRaw(q) <=>
                        \/ p.ts < q.ts
                        \/ p.ts = q.ts /\ (p.node < q.node \/ (p.node = q.node /\ p.seq < q.seq))
    OBVIOUS
  <1> DEFINE a == Put(p.ts, HeerNodes, p.node)
             b == Put(q.ts, HeerNodes, q.node)
  <1>1. /\ p.ts \in Nat /\ p.node \in 0 .. HeerNodes - 1 /\ p.seq \in 0 .. HeerSeqs - 1
        /\ q.ts \in Nat /\ q.node \in 0 .. HeerNodes - 1 /\ q.seq \in 0 .. HeerSeqs - 1
        /\ HeerNodes \in Nat \ {0} /\ HeerSeqs \in Nat \ {0}
    BY LayoutAssumption DEF HeerParts
  <1>2. /\ a \in Nat /\ a \div HeerNodes = p.ts /\ a % HeerNodes = p.node
        /\ b \in Nat /\ b \div HeerNodes = q.ts /\ b % HeerNodes = q.node
    BY <1>1, PutFields
  <1>3. a < b <=> p.ts < q.ts \/ (p.ts = q.ts /\ p.node < q.node)
    BY <1>1, PutOrder
  <1>4. a = b <=> p.ts = q.ts /\ p.node = q.node
    <2>1. a = b => p.ts = q.ts /\ p.node = q.node
      <3> HIDE DEF a, b
      <3> QED BY <1>2
    <2> QED BY <2>1
  <1> HIDE DEF a, b
  <1>5. Put(a, HeerSeqs, p.seq) < Put(b, HeerSeqs, q.seq) <=> a < b \/ (a = b /\ p.seq < q.seq)
    BY <1>1, <1>2, PutOrder, ZenonT(60)
  <1>6. HeerRaw(p) < HeerRaw(q) <=> a < b \/ (a = b /\ p.seq < q.seq)
    BY <1>5 DEF HeerRaw, a, b
  <1> QED
    BY <1>1, <1>3, <1>4, <1>6

\* The logical fields a descending HeerId stands for.
Mirrored(p) ==
  [ts |-> HeerTicks - 1 - p.ts, node |-> p.node, seq |-> HeerSeqs - 1 - p.seq]

LEMMA MirroredType ==
  ASSUME NEW p \in HeerParts
  PROVE  /\ Mirrored(p) \in HeerParts
         /\ Mirrored(p).ts = HeerTicks - 1 - p.ts
         /\ Mirrored(p).node = p.node
         /\ Mirrored(p).seq = HeerSeqs - 1 - p.seq
         /\ Mirrored(Mirrored(p)) = p
         /\ HeerFlip(HeerRaw(p)) = HeerRaw(Mirrored(p))
  <1>1. /\ HeerTicks \in Nat \ {0} /\ HeerSeqs \in Nat \ {0} /\ HeerNodes \in Nat \ {0}
        /\ p.ts \in 0 .. HeerTicks - 1 /\ p.seq \in 0 .. HeerSeqs - 1 /\ p.node \in 0 .. HeerNodes - 1
        /\ p = [ts |-> p.ts, node |-> p.node, seq |-> p.seq]
    BY LayoutAssumption DEF HeerParts
  <1>2. Mirrored(p) = [ts |-> HeerTicks - 1 - p.ts, node |-> p.node, seq |-> HeerSeqs - 1 - p.seq]
    BY DEF Mirrored
  <1>3. /\ HeerTicks - 1 - p.ts \in 0 .. HeerTicks - 1 /\ HeerTicks - 1 - (HeerTicks - 1 - p.ts) = p.ts
        /\ HeerSeqs - 1 - p.seq \in 0 .. HeerSeqs - 1 /\ HeerSeqs - 1 - (HeerSeqs - 1 - p.seq) = p.seq
    BY <1>1
  <1>4. Mirrored(p) \in HeerParts
    BY <1>1, <1>2, <1>3 DEF HeerParts
  <1>5. Mirrored(Mirrored(p)) = p
    <2>1. Mirrored(Mirrored(p)) =
            [ts   |-> HeerTicks - 1 - (HeerTicks - 1 - p.ts), node |-> p.node,
             seq |-> HeerSeqs - 1 - (HeerSeqs - 1 - p.seq)]
      BY <1>2 DEF Mirrored
    <2> QED BY <1>1, <1>3, <2>1
  <1>6. HeerFlip(HeerRaw(p)) = HeerRaw(Mirrored(p))
    BY HeerFieldsOfRaw DEF HeerFlip, Mirrored
  <1> QED
    BY <1>2, <1>4, <1>5, <1>6

\* Flipping twice gives the identifier back, and on one node the descending form sorts in
\* exactly the opposite order (heerid_to_desc, HeerIdDesc, reverse_order::heer).
THEOREM HeerFlipReverses ==
  \A p, q \in HeerParts :
    /\ HeerFlip(HeerFlip(HeerRaw(p))) = HeerRaw(p)
    /\ p.node = q.node =>
         (HeerFlip(HeerRaw(p)) < HeerFlip(HeerRaw(q)) <=> HeerRaw(q) < HeerRaw(p))
  <1> SUFFICES ASSUME NEW p \in HeerParts, NEW q \in HeerParts
               PROVE  /\ HeerFlip(HeerFlip(HeerRaw(p))) = HeerRaw(p)
                      /\ p.node = q.node =>
                           (HeerFlip(HeerRaw(p)) < HeerFlip(HeerRaw(q)) <=> HeerRaw(q) < HeerRaw(p))
    OBVIOUS
  <1> DEFINE m == Mirrored(p)
             n == Mirrored(q)
  <1>1. /\ m \in HeerParts /\ n \in HeerParts /\ Mirrored(m) = p
        /\ m.ts = HeerTicks - 1 - p.ts /\ m.node = p.node /\ m.seq = HeerSeqs - 1 - p.seq
        /\ n.ts = HeerTicks - 1 - q.ts /\ n.node = q.node /\ n.seq = HeerSeqs - 1 - q.seq
        /\ HeerFlip(HeerRaw(p)) = HeerRaw(m) /\ HeerFlip(HeerRaw(q)) = HeerRaw(n)
    BY MirroredType
  <1> HIDE DEF m, n
  <1>2. HeerFlip(HeerRaw(m)) = HeerRaw(p)
    BY <1>1, MirroredType
  <1>3. /\ p.ts \in Int /\ q.ts \in Int /\ p.seq \in Int /\ q.seq \in Int /\ p.node \in Int
        /\ q.node \in Int /\ HeerTicks \in Int /\ HeerSeqs \in Int
    BY LayoutAssumption DEF HeerParts
  <1>4. ASSUME p.node = q.node PROVE HeerRaw(m) < HeerRaw(n) <=> HeerRaw(q) < HeerRaw(p)
    <2>1. HeerRaw(m) < HeerRaw(n) <=> m.ts < n.ts \/ (m.ts = n.ts /\ m.seq < n.seq)
      BY <1>1, <1>3, <1>4, HeerOrder
    <2>2. HeerRaw(q) < HeerRaw(p) <=> q.ts < p.ts \/ (q.ts = p.ts /\ q.seq < p.seq)
      BY <1>3, <1>4, HeerOrder
    <2> QED BY <1>1, <1>3, <2>1, <2>2
  <1> QED
    BY <1>1, <1>2, <1>4

-----------------------------------------------------------------------------
(* RanjId. *)

\* The fields a raw RanjId is put together from.
Stored(h, v, m, t, c, l, n, q) ==
  /\ h \in Nat /\ v \in 0 .. Versions - 1 /\ m \in 0 .. MidTicks - 1 /\ t \in 0 .. Variants - 1
  /\ c \in 0 .. Precisions - 1 /\ l \in 0 .. LowTicks - 1 /\ n \in 0 .. RanjNodes - 1
  /\ q \in 0 .. RanjSeqs - 1

\* Each of them is found again in the raw value.
LEMMA UuidFields ==
  ASSUME NEW h, NEW v, NEW m, NEW t, NEW c, NEW l, NEW n, NEW q, Stored(h, v, m, t, c, l, n, q)
  PROVE  LET packed == Uuid(h, v, m, t, c, l, n, q) IN
         /\ packed \in Nat
         /\ HighField(packed) = h /\ VersionField(packed) = v /\ MidField(packed) = m
         /\ VariantField(packed) = t /\ PrecisionField(packed) = c /\ LowField(packed) = l
         /\ NodeField(packed) = n /\ SeqField(packed) = q
  <1> DEFINE r1 == Put(h, Versions, v)
             r2 == Put(r1, MidTicks, m)
             r3 == Put(r2, Variants, t)
             r4 == Put(r3, Precisions, c)
             r5 == Put(r4, LowTicks, l)
             r6 == Put(r5, RanjNodes, n)
             r7 == Put(r6, RanjSeqs, q)
  <1>0. r7 = Uuid(h, v, m, t, c, l, n, q)
    BY DEF Uuid
  <1>1. r1 \in Nat /\ r1 \div Versions = h /\ r1 % Versions = v
    BY PutFields, LayoutAssumption DEF Stored
  <1> HIDE DEF r1
  <1>2. r2 \in Nat /\ r2 \div MidTicks = r1 /\ r2 % MidTicks = m
    BY <1>1, PutFields, LayoutAssumption, ZenonT(60) DEF Stored
  <1> HIDE DEF r2
  <1>3. r3 \in Nat /\ r3 \div Variants = r2 /\ r3 % Variants = t
    BY <1>2, PutFields, LayoutAssumption, ZenonT(60) DEF Stored
  <1> HIDE DEF r3
  <1>4. r4 \in Nat /\ r4 \div Precisions = r3 /\ r4 % Precisions = c
    BY <1>3, PutFields, LayoutAssumption, ZenonT(60) DEF Stored
  <1> HIDE DEF r4
  <1>5. r5 \in Nat /\ r5 \div LowTicks = r4 /\ r5 % LowTicks = l
    BY <1>4, PutFields, LayoutAssumption, ZenonT(60) DEF Stored
  <1> HIDE DEF r5
  <1>6. r6 \in Nat /\ r6 \div RanjNodes = r5 /\ r6 % RanjNodes = n
    BY <1>5, PutFields, LayoutAssumption, ZenonT(60) DEF Stored
  <1> HIDE DEF r6
  <1>7. r7 \in Nat /\ r7 \div RanjSeqs = r6 /\ r7 % RanjSeqs = q
    BY <1>6, PutFields, LayoutAssumption, ZenonT(60) DEF Stored
  <1> HIDE DEF r7
  <1>8. /\ AboveSeq(r7) = r6 /\ AboveNode(r7) = r5 /\ AboveLow(r7) = r4 /\ AbovePrecision(r7) = r3
        /\ AboveVariant(r7) = r2 /\ AboveMid(r7) = r1
    BY <1>2, <1>3, <1>4, <1>5, <1>6, <1>7
       DEF AboveSeq, AboveNode, AboveLow, AbovePrecision, AboveVariant, AboveMid
  <1> QED
    BY <1>0, <1>1, <1>2, <1>3, <1>4, <1>5, <1>6, <1>7, <1>8
       DEF HighField, VersionField, MidField, VariantField, PrecisionField, LowField, NodeField, SeqField

\* Values with a field appended compare as the pairs of the value and the field do.
LEMMA PutCompare ==
  ASSUME NEW a \in Nat, NEW b \in Nat, NEW n \in Nat \ {0}, NEW x \in 0 .. n - 1, NEW y \in 0 .. n - 1
  PROVE  /\ Put(a, n, x) \in Nat
         /\ Put(b, n, y) \in Nat
         /\ Put(a, n, x) < Put(b, n, y) <=> a < b \/ (a = b /\ x < y)
         /\ Put(a, n, x) = Put(b, n, y) <=> a = b /\ x = y
  <1>1. Put(a, n, x) \in Nat /\ Put(b, n, y) \in Nat
    BY PutFields
  <1>2. Put(a, n, x) = Put(b, n, y) => a = b /\ x = y
    <2> DEFINE p == Put(a, n, x)
               q == Put(b, n, y)
    <2>1. p \div n = a /\ p % n = x /\ q \div n = b /\ q % n = y
      BY PutFields
    <2> HIDE DEF p, q
    <2>2. p = q => a = b /\ x = y
      BY <2>1
    <2> QED BY <2>2 DEF p, q
  <1> QED
    BY <1>1, <1>2, PutOrder

\* An equal last field does not matter.
LEMMA PutSame ==
  ASSUME NEW a \in Nat, NEW b \in Nat, NEW n \in Nat \ {0}, NEW x \in 0 .. n - 1
  PROVE  /\ Put(a, n, x) \in Nat
         /\ Put(b, n, x) \in Nat
         /\ Put(a, n, x) < Put(b, n, x) <=> a < b
         /\ Put(a, n, x) = Put(b, n, x) <=> a = b
  <1>1. ~(x < x)
    OBVIOUS
  <1> QED
    BY <1>1, PutCompare, SMTT(30)

\* The timestamp its three parts stand for.
Time(h, m, l) == Put(Put(h, MidTicks, m), LowTicks, l)

\* Between RanjIds of one precision and node, raw values are ordered by time, then sequence:
\* version, variant and precision lie inside the timestamp and do not disturb its order.
LEMMA UuidOrder ==
  ASSUME NEW h, NEW m, NEW l, NEW q, NEW g, NEW k, NEW i, NEW r, NEW v, NEW t, NEW c, NEW n,
         Stored(h, v, m, t, c, l, n, q), Stored(g, v, k, t, c, i, n, r)
  PROVE  Uuid(h, v, m, t, c, l, n, q) < Uuid(g, v, k, t, c, i, n, r) <=>
           Time(h, m, l) < Time(g, k, i) \/ (Time(h, m, l) = Time(g, k, i) /\ q < r)
  <1> DEFINE a1 == Put(h, Versions, v)
             b1 == Put(g, Versions, v)
             a2 == Put(a1, MidTicks, m)
             b2 == Put(b1, MidTicks, k)
             a3 == Put(a2, Variants, t)
             b3 == Put(b2, Variants, t)
             a4 == Put(a3, Precisions, c)
             b4 == Put(b3, Precisions, c)
             a5 == Put(a4, LowTicks, l)
             b5 == Put(b4, LowTicks, i)
             a6 == Put(a5, RanjNodes, n)
             b6 == Put(b5, RanjNodes, n)
             a7 == Put(a6, RanjSeqs, q)
             b7 == Put(b6, RanjSeqs, r)
             x == Put(h, MidTicks, m)
             y == Put(g, MidTicks, k)
  <1>0. a7 = Uuid(h, v, m, t, c, l, n, q) /\ b7 = Uuid(g, v, k, t, c, i, n, r)
    BY DEF Uuid
  <1>h. h \in Nat /\ g \in Nat
    BY DEF Stored
  <1>v. v \in 0 .. Versions - 1 /\ Versions \in Nat \ {0}
    BY LayoutAssumption DEF Stored
  <1>m. m \in 0 .. MidTicks - 1 /\ k \in 0 .. MidTicks - 1 /\ MidTicks \in Nat \ {0}
    BY LayoutAssumption DEF Stored
  <1>t. t \in 0 .. Variants - 1 /\ Variants \in Nat \ {0}
    BY LayoutAssumption DEF Stored
  <1>p. c \in 0 .. Precisions - 1 /\ Precisions \in Nat \ {0}
    BY LayoutAssumption DEF Stored
  <1>l. l \in 0 .. LowTicks - 1 /\ i \in 0 .. LowTicks - 1 /\ LowTicks \in Nat \ {0}
    BY LayoutAssumption DEF Stored
  <1>n. n \in 0 .. RanjNodes - 1 /\ RanjNodes \in Nat \ {0}
    BY LayoutAssumption DEF Stored
  <1>q. q \in 0 .. RanjSeqs - 1 /\ r \in 0 .. RanjSeqs - 1 /\ RanjSeqs \in Nat \ {0}
    BY LayoutAssumption DEF Stored
  <1>b. /\ x \in Nat /\ y \in Nat
        /\ x < y <=> h < g \/ (h = g /\ m < k)
        /\ x = y <=> h = g /\ m = k
    BY <1>h, <1>m, PutCompare
  <1>1. a1 \in Nat /\ b1 \in Nat /\ (a1 < b1 <=> h < g) /\ (a1 = b1 <=> h = g)
    BY <1>h, <1>v, PutSame
  <1> HIDE DEF a1, b1, x, y
  <1>c. /\ Time(h, m, l) < Time(g, k, i) <=> x < y \/ (x = y /\ l < i)
        /\ Time(h, m, l) = Time(g, k, i) <=> x = y /\ l = i
    <2>0. x \in Nat /\ y \in Nat
      BY <1>b
    <2>1. /\ Put(x, LowTicks, l) < Put(y, LowTicks, i) <=> x < y \/ (x = y /\ l < i)
          /\ Put(x, LowTicks, l) = Put(y, LowTicks, i) <=> x = y /\ l = i
      BY <1>l, <2>0, PutCompare
    <2> QED BY <2>1 DEF Time, x, y
  <1>2. /\ a2 \in Nat /\ b2 \in Nat
        /\ a2 < b2 <=> a1 < b1 \/ (a1 = b1 /\ m < k)
        /\ a2 = b2 <=> a1 = b1 /\ m = k
    BY <1>m, <1>1, PutCompare
  <1> HIDE DEF a2, b2
  <1>3. a3 \in Nat /\ b3 \in Nat /\ (a3 < b3 <=> a2 < b2) /\ (a3 = b3 <=> a2 = b2)
    BY <1>t, <1>2, PutSame, SMTT(60)
  <1> HIDE DEF a3, b3
  <1>4. a4 \in Nat /\ b4 \in Nat /\ (a4 < b4 <=> a3 < b3) /\ (a4 = b4 <=> a3 = b3)
    BY <1>p, <1>3, PutSame
  <1> HIDE DEF a4, b4
  <1>5. /\ a5 \in Nat /\ b5 \in Nat
        /\ a5 < b5 <=> a4 < b4 \/ (a4 = b4 /\ l < i)
        /\ a5 = b5 <=> a4 = b4 /\ l = i
    BY <1>l, <1>4, PutCompare
  <1> HIDE DEF a5, b5
  <1>6. a6 \in Nat /\ b6 \in Nat /\ (a6 < b6 <=> a5 < b5) /\ (a6 = b6 <=> a5 = b5)
    BY <1>n, <1>5, PutSame, SMTT(60)
  <1> HIDE DEF a6, b6
  <1>7. a7 < b7 <=> a6 < b6 \/ (a6 = b6 /\ q < r)
    BY <1>q, <1>6, PutCompare
  <1> HIDE DEF a7, b7
  <1>8. a2 < b2 <=> x < y
    BY <1>b, <1>1, <1>2
  <1>9. a2 = b2 <=> x = y
    BY <1>b, <1>1, <1>2
  <1>10. /\ a5 < b5 <=> x < y \/ (x = y /\ l < i)
         /\ a5 = b5 <=> x = y /\ l = i
    BY <1>3, <1>4, <1>5, <1>8, <1>9
  <1> QED
    BY <1>0, <1>c, <1>6, <1>7, <1>10

\* The parts of a timestamp, as RanjRaw stores them, stand for it.
LEMMA TimeParts ==
  ASSUME NEW p \in RanjParts
  PROVE  LET high == (p.ts \div LowTicks) \div MidTicks
             mid == (p.ts \div LowTicks) % MidTicks
             low == p.ts % LowTicks
         IN /\ Stored(high, Version, mid, Variant, p.precision, low, p.node, p.seq)
            /\ Time(high, mid, low) = p.ts
  <1> DEFINE above == p.ts \div LowTicks
             low == p.ts % LowTicks
             high == above \div MidTicks
             mid == above % MidTicks
  <1>1. /\ p.ts \in 0 .. RanjTicks - 1 /\ p.precision \in 0 .. Precisions - 1
        /\ p.node \in 0 .. RanjNodes - 1 /\ p.seq \in 0 .. RanjSeqs - 1
    BY DEF RanjParts
  <1>2. p.ts \in Nat
    BY <1>1
  <1>3. LowTicks \in Nat \ {0} /\ MidTicks \in Nat \ {0}
    BY LayoutAssumption
  <1>4. above \in Nat /\ low \in 0 .. LowTicks - 1 /\ Put(above, LowTicks, low) = p.ts
    BY <1>2, <1>3, SplitField
  <1> HIDE DEF above, low
  <1>5. high \in Nat /\ mid \in 0 .. MidTicks - 1 /\ Put(high, MidTicks, mid) = above
    BY <1>3, <1>4, SplitField
  <1> HIDE DEF high, mid
  <1>6. Stored(high, Version, mid, Variant, p.precision, low, p.node, p.seq)
    BY <1>1, <1>4, <1>5, LayoutAssumption DEF Stored
  <1>7. Time(high, mid, low) = p.ts
    BY <1>4, <1>5 DEF Time
  <1> QED
    BY <1>6, <1>7 DEF above, low, high, mid

\* Version and variant are where from_uuid looks for them, and every field of a RanjId survives
\* packing and unpacking, the timestamp though it is stored in three parts (RanjId::new,
\* from_uuid, into_parts).
THEOREM RanjFieldsOfRaw ==
  \A p \in RanjParts : IsRanjId(RanjRaw(p)) /\ RanjFields(RanjRaw(p)) = p
  <1> SUFFICES ASSUME NEW p \in RanjParts
               PROVE  IsRanjId(RanjRaw(p)) /\ RanjFields(RanjRaw(p)) = p
    OBVIOUS
  <1> DEFINE high == (p.ts \div LowTicks) \div MidTicks
             mid == (p.ts \div LowTicks) % MidTicks
             low == p.ts % LowTicks
             packed == Uuid(high, Version, mid, Variant, p.precision, low, p.node, p.seq)
  <1>1. Stored(high, Version, mid, Variant, p.precision, low, p.node, p.seq) /\ Time(high, mid, low) = p.ts
    BY TimeParts
  <1>2. packed = RanjRaw(p)
    BY DEF RanjRaw
  <1> HIDE DEF high, mid, low
  <1>3. /\ HighField(packed) = high /\ VersionField(packed) = Version /\ MidField(packed) = mid
        /\ VariantField(packed) = Variant /\ PrecisionField(packed) = p.precision /\ LowField(packed) = low
        /\ NodeField(packed) = p.node /\ SeqField(packed) = p.seq
    BY <1>1, UuidFields
  <1> HIDE DEF packed
  <1>4. IsRanjId(packed)
    BY <1>3 DEF IsRanjId
  <1>5. RanjFields(packed) = [ts |-> p.ts, precision |-> p.precision, node |-> p.node, seq |-> p.seq]
    BY <1>1, <1>3 DEF RanjFields, Time
  <1>6. p = [ts |-> p.ts, precision |-> p.precision, node |-> p.node, seq |-> p.seq]
    BY DEF RanjParts
  <1> QED
    BY <1>2, <1>4, <1>5, <1>6

\* Raw RanjIds of one node and one precision are ordered by time, then sequence, although
\* version, variant and precision lie between the parts of the timestamp.
THEOREM RanjOrder ==
  \A p, q \in RanjParts :
    p.node = q.node /\ p.precision = q.precision =>
      (RanjRaw(p) < RanjRaw(q) <=> p.ts < q.ts \/ (p.ts = q.ts /\ p.seq < q.seq))
  <1> SUFFICES ASSUME NEW p \in RanjParts, NEW q \in RanjParts,
                      p.node = q.node, p.precision = q.precision
               PROVE  RanjRaw(p) < RanjRaw(q) <=> p.ts < q.ts \/ (p.ts = q.ts /\ p.seq < q.seq)
    OBVIOUS
  <1> DEFINE high(s) == (s.ts \div LowTicks) \div MidTicks
             mid(s) == (s.ts \div LowTicks) % MidTicks
             low(s) == s.ts % LowTicks
  <1>1. /\ Stored(high(p), Version, mid(p), Variant, p.precision, low(p), p.node, p.seq)
        /\ Time(high(p), mid(p), low(p)) = p.ts
    BY TimeParts
  <1>2. /\ Stored(high(q), Version, mid(q), Variant, p.precision, low(q), p.node, q.seq)
        /\ Time(high(q), mid(q), low(q)) = q.ts
    BY TimeParts
  <1>3. /\ RanjRaw(p) = Uuid(high(p), Version, mid(p), Variant, p.precision, low(p), p.node, p.seq)
        /\ RanjRaw(q) = Uuid(high(q), Version, mid(q), Variant, p.precision, low(q), p.node, q.seq)
    BY DEF RanjRaw
  <1> HIDE DEF high, mid, low
  <1>4. Uuid(high(p), Version, mid(p), Variant, p.precision, low(p), p.node, p.seq)
          < Uuid(high(q), Version, mid(q), Variant, p.precision, low(q), p.node, q.seq)
        <=> Time(high(p), mid(p), low(p)) < Time(high(q), mid(q), low(q))
              \/ (Time(high(p), mid(p), low(p)) = Time(high(q), mid(q), low(q)) /\ p.seq < q.seq)
    BY <1>1, <1>2, UuidOrder
  <1> QED
    BY <1>1, <1>2, <1>3, <1>4

\* The high part of a timestamp fits its field.
LEMMA HighFits ==
  ASSUME NEW h \in Nat, NEW m \in 0 .. MidTicks - 1, NEW l \in 0 .. LowTicks - 1,
         Time(h, m, l) < RanjTicks
  PROVE  h \in 0 .. HighTicks - 1
  <1>1. HighTicks \in Nat \ {0} /\ MidTicks \in Nat \ {0} /\ LowTicks \in Nat \ {0}
    BY LayoutAssumption
  <1>2. 0 \in 0 .. MidTicks - 1 /\ 0 \in 0 .. LowTicks - 1
    BY <1>1
  <1> DEFINE a == Put(h, MidTicks, m)
             b == Put(HighTicks, MidTicks, 0)
  <1>3. a \in Nat /\ b \in Nat
    BY <1>1, <1>2, PutFields
  <1>4. a < b <=> h < HighTicks \/ (h = HighTicks /\ m < 0)
    BY <1>1, <1>2, PutOrder
  <1>5. b = HighTicks * MidTicks
    BY <1>1 DEF Put
  <1> HIDE DEF a, b
  <1>6. Put(a, LowTicks, l) < Put(b, LowTicks, 0) <=> a < b \/ (a = b /\ l < 0)
    BY <1>1, <1>2, <1>3, PutOrder
  <1>7. Put(b, LowTicks, 0) = b * LowTicks
    BY <1>1, <1>3 DEF Put
  <1>8. Time(h, m, l) = Put(a, LowTicks, l)
    BY DEF Time, a
  <1>9. a < b
    BY <1>5, <1>6, <1>7, <1>8 DEF RanjTicks
  <1> QED
    BY <1>1, <1>4, <1>9

\* Complementing the three parts of two timestamps reverses their order.
LEMMA TimeMirrored ==
  ASSUME NEW h \in 0 .. HighTicks - 1, NEW m \in 0 .. MidTicks - 1, NEW l \in 0 .. LowTicks - 1,
         NEW g \in 0 .. HighTicks - 1, NEW k \in 0 .. MidTicks - 1, NEW i \in 0 .. LowTicks - 1
  PROVE  /\ Time(HighTicks - 1 - h, MidTicks - 1 - m, LowTicks - 1 - l)
              < Time(HighTicks - 1 - g, MidTicks - 1 - k, LowTicks - 1 - i)
            <=> Time(g, k, i) < Time(h, m, l)
         /\ Time(HighTicks - 1 - h, MidTicks - 1 - m, LowTicks - 1 - l)
              = Time(HighTicks - 1 - g, MidTicks - 1 - k, LowTicks - 1 - i)
            <=> Time(g, k, i) = Time(h, m, l)
  <1> DEFINE hh == HighTicks - 1 - h
             gg == HighTicks - 1 - g
             mm == MidTicks - 1 - m
             kk == MidTicks - 1 - k
             ll == LowTicks - 1 - l
             ii == LowTicks - 1 - i
  <1>0. MidTicks \in Nat \ {0} /\ LowTicks \in Nat \ {0} /\ HighTicks \in Nat \ {0}
    BY LayoutAssumption
  <1>1. h \in Nat /\ g \in Nat
    OBVIOUS
  <1>2. hh \in Nat /\ gg \in Nat /\ (hh < gg <=> g < h) /\ (hh = gg <=> g = h)
    BY <1>0
  <1>3. /\ mm \in 0 .. MidTicks - 1 /\ kk \in 0 .. MidTicks - 1
        /\ (mm < kk <=> k < m) /\ (mm = kk <=> k = m)
    BY <1>0
  <1>4. /\ ll \in 0 .. LowTicks - 1 /\ ii \in 0 .. LowTicks - 1
        /\ (ll < ii <=> i < l) /\ (ll = ii <=> i = l)
    BY <1>0
  <1> HIDE DEF hh, gg, mm, kk, ll, ii
  <1> DEFINE a == Put(h, MidTicks, m)
             b == Put(g, MidTicks, k)
             aa == Put(hh, MidTicks, mm)
             bb == Put(gg, MidTicks, kk)
  <1>5. a \in Nat /\ b \in Nat /\ (b < a <=> g < h \/ (g = h /\ k < m)) /\ (b = a <=> g = h /\ k = m)
    BY <1>0, <1>1, PutCompare
  <1>6. /\ aa \in Nat /\ bb \in Nat
        /\ aa < bb <=> hh < gg \/ (hh = gg /\ mm < kk)
        /\ aa = bb <=> hh = gg /\ mm = kk
    <2>1. hh \in Nat /\ gg \in Nat
      BY <1>2
    <2>2. mm \in 0 .. MidTicks - 1 /\ kk \in 0 .. MidTicks - 1
      BY <1>3
    <2> QED BY <1>0, <2>1, <2>2, PutCompare
  <1>7. /\ a \in Nat /\ b \in Nat /\ aa \in Nat /\ bb \in Nat
        /\ (aa < bb <=> b < a) /\ (aa = bb <=> b = a)
    BY <1>2, <1>3, <1>5, <1>6
  <1> HIDE DEF a, b, aa, bb
  <1>8. /\ Put(b, LowTicks, i) < Put(a, LowTicks, l) <=> b < a \/ (b = a /\ i < l)
        /\ Put(b, LowTicks, i) = Put(a, LowTicks, l) <=> b = a /\ i = l
    BY <1>0, <1>7, PutCompare, SMTT(60)
  <1>9. /\ Put(aa, LowTicks, ll) < Put(bb, LowTicks, ii) <=> aa < bb \/ (aa = bb /\ ll < ii)
        /\ Put(aa, LowTicks, ll) = Put(bb, LowTicks, ii) <=> aa = bb /\ ll = ii
    BY <1>0, <1>4, <1>7, PutCompare
  <1>10. /\ Put(aa, LowTicks, ll) < Put(bb, LowTicks, ii) <=> Put(b, LowTicks, i) < Put(a, LowTicks, l)
         /\ Put(aa, LowTicks, ll) = Put(bb, LowTicks, ii) <=> Put(b, LowTicks, i) = Put(a, LowTicks, l)
    BY <1>4, <1>7, <1>8, <1>9
  <1>11. /\ Time(h, m, l) = Put(a, LowTicks, l) /\ Time(g, k, i) = Put(b, LowTicks, i)
         /\ Time(hh, mm, ll) = Put(aa, LowTicks, ll) /\ Time(gg, kk, ii) = Put(bb, LowTicks, ii)
    BY DEF Time, a, b, aa, bb
  <1>12. /\ Time(hh, mm, ll) < Time(gg, kk, ii) <=> Time(g, k, i) < Time(h, m, l)
         /\ Time(hh, mm, ll) = Time(gg, kk, ii) <=> Time(g, k, i) = Time(h, m, l)
    BY <1>10, <1>11
  <1> QED
    BY <1>12 DEF hh, gg, mm, kk, ll, ii

\* Flipping complements the parts of the timestamp and the sequence, and leaves a RanjId.
LEMMA UuidFlip ==
  ASSUME NEW h \in 0 .. HighTicks - 1, NEW m, NEW c, NEW l, NEW n, NEW q,
         Stored(h, Version, m, Variant, c, l, n, q)
  PROVE  /\ RanjFlip(Uuid(h, Version, m, Variant, c, l, n, q))
              = Uuid(HighTicks - 1 - h, Version, MidTicks - 1 - m, Variant, c, LowTicks - 1 - l, n, RanjSeqs - 1 - q)
         /\ Stored(HighTicks - 1 - h, Version, MidTicks - 1 - m, Variant, c, LowTicks - 1 - l, n, RanjSeqs - 1 - q)
         /\ IsRanjId(Uuid(h, Version, m, Variant, c, l, n, q))
  <1> DEFINE packed == Uuid(h, Version, m, Variant, c, l, n, q)
  <1>1. /\ HighField(packed) = h /\ VersionField(packed) = Version /\ MidField(packed) = m
        /\ VariantField(packed) = Variant /\ PrecisionField(packed) = c /\ LowField(packed) = l
        /\ NodeField(packed) = n /\ SeqField(packed) = q
    BY UuidFields
  <1> HIDE DEF packed
  <1>2. RanjFlip(packed) =
          Uuid(HighTicks - 1 - h, Version, MidTicks - 1 - m, Variant, c, LowTicks - 1 - l, n, RanjSeqs - 1 - q)
    BY <1>1 DEF RanjFlip
  <1>3. HighTicks - 1 - h \in Nat
    BY LayoutAssumption
  <1>4. MidTicks - 1 - m \in 0 .. MidTicks - 1
    BY LayoutAssumption DEF Stored
  <1>5. LowTicks - 1 - l \in 0 .. LowTicks - 1
    BY LayoutAssumption DEF Stored
  <1>6. RanjSeqs - 1 - q \in 0 .. RanjSeqs - 1
    BY LayoutAssumption DEF Stored
  <1>7. Stored(HighTicks - 1 - h, Version, MidTicks - 1 - m, Variant, c, LowTicks - 1 - l, n, RanjSeqs - 1 - q)
    BY <1>3, <1>4, <1>5, <1>6 DEF Stored
  <1>8. IsRanjId(packed)
    BY <1>1 DEF IsRanjId
  <1> QED
    BY <1>2, <1>7, <1>8 DEF packed

\* The flip of a RanjId is a valid RanjId again, flipping twice gives it back, and on one node
\* and precision the descending form sorts in exactly the opposite order (ranjid_to_desc,
\* RanjIdDesc, reverse_order::ranj).
THEOREM RanjFlipReverses ==
  \A p, q \in RanjParts :
    /\ IsRanjId(RanjFlip(RanjRaw(p)))
    /\ RanjFlip(RanjFlip(RanjRaw(p))) = RanjRaw(p)
    /\ p.node = q.node /\ p.precision = q.precision =>
         (RanjFlip(RanjRaw(p)) < RanjFlip(RanjRaw(q)) <=> RanjRaw(q) < RanjRaw(p))
  <1> DEFINE high(s) == (s.ts \div LowTicks) \div MidTicks
             mid(s) == (s.ts \div LowTicks) % MidTicks
             low(s) == s.ts % LowTicks
             flip(s) == Uuid(HighTicks - 1 - high(s), Version, MidTicks - 1 - mid(s), Variant, s.precision,
                             LowTicks - 1 - low(s), s.node, RanjSeqs - 1 - s.seq)
             StoredOf(s) == Stored(high(s), Version, mid(s), Variant, s.precision, low(s), s.node, s.seq)
             FlipStoredOf(s) == Stored(HighTicks - 1 - high(s), Version, MidTicks - 1 - mid(s), Variant,
                                       s.precision, LowTicks - 1 - low(s), s.node, RanjSeqs - 1 - s.seq)
  <1>0. HighTicks \in Nat \ {0} /\ MidTicks \in Nat \ {0} /\ LowTicks \in Nat \ {0} /\ RanjSeqs \in Nat \ {0}
    BY LayoutAssumption
  <1>1. \A s \in RanjParts :
          /\ StoredOf(s)
          /\ Time(high(s), mid(s), low(s)) = s.ts
          /\ RanjRaw(s) = Uuid(high(s), Version, mid(s), Variant, s.precision, low(s), s.node, s.seq)
    BY TimeParts DEF RanjRaw
  <1>2. \A s \in RanjParts : s.ts < RanjTicks /\ s.seq \in 0 .. RanjSeqs - 1
    BY LayoutAssumption DEF RanjParts, RanjTicks
  <1> HIDE DEF high, mid, low
  <1>3. \A s \in RanjParts :
          mid(s) \in 0 .. MidTicks - 1 /\ low(s) \in 0 .. LowTicks - 1 /\ high(s) \in 0 .. HighTicks - 1
    <2> TAKE s \in RanjParts
    <2>1. high(s) \in Nat /\ mid(s) \in 0 .. MidTicks - 1 /\ low(s) \in 0 .. LowTicks - 1
      BY <1>1 DEF Stored
    <2>2. Time(high(s), mid(s), low(s)) < RanjTicks
      BY <1>1, <1>2
    <2> QED
      BY <2>1, <2>2, HighFits
  <1>4. \A s \in RanjParts : RanjFlip(RanjRaw(s)) = flip(s) /\ FlipStoredOf(s)
    BY <1>1, <1>3, UuidFlip
  <1> SUFFICES ASSUME NEW p \in RanjParts, NEW q \in RanjParts
               PROVE  /\ IsRanjId(RanjFlip(RanjRaw(p)))
                      /\ RanjFlip(RanjFlip(RanjRaw(p))) = RanjRaw(p)
                      /\ p.node = q.node /\ p.precision = q.precision =>
                           (RanjFlip(RanjRaw(p)) < RanjFlip(RanjRaw(q)) <=> RanjRaw(q) < RanjRaw(p))
    OBVIOUS
  <1>5. IsRanjId(flip(p)) /\ RanjFlip(flip(p)) = RanjRaw(p)
    <2>1. HighTicks - 1 - high(p) \in 0 .. HighTicks - 1 /\ FlipStoredOf(p)
      BY <1>0, <1>3, <1>4
    <2>2. /\ IsRanjId(flip(p))
          /\ RanjFlip(flip(p)) =
               Uuid(HighTicks - 1 - (HighTicks - 1 - high(p)), Version, MidTicks - 1 - (MidTicks - 1 - mid(p)),
                    Variant, p.precision, LowTicks - 1 - (LowTicks - 1 - low(p)), p.node,
                    RanjSeqs - 1 - (RanjSeqs - 1 - p.seq))
      BY <2>1, UuidFlip
    <2>3. /\ HighTicks - 1 - (HighTicks - 1 - high(p)) = high(p)
          /\ MidTicks - 1 - (MidTicks - 1 - mid(p)) = mid(p)
          /\ LowTicks - 1 - (LowTicks - 1 - low(p)) = low(p)
          /\ RanjSeqs - 1 - (RanjSeqs - 1 - p.seq) = p.seq
      BY <1>0, <1>2, <1>3
    <2> HIDE DEF flip, FlipStoredOf
    <2> QED
      BY <1>1, <2>2, <2>3
  <1>6. ASSUME p.node = q.node, p.precision = q.precision
        PROVE  flip(p) < flip(q) <=> RanjRaw(q) < RanjRaw(p)
    <2>1. flip(p) < flip(q) <=>
            \/ Time(HighTicks - 1 - high(p), MidTicks - 1 - mid(p), LowTicks - 1 - low(p))
                 < Time(HighTicks - 1 - high(q), MidTicks - 1 - mid(q), LowTicks - 1 - low(q))
            \/ /\ Time(HighTicks - 1 - high(p), MidTicks - 1 - mid(p), LowTicks - 1 - low(p))
                    = Time(HighTicks - 1 - high(q), MidTicks - 1 - mid(q), LowTicks - 1 - low(q))
               /\ RanjSeqs - 1 - p.seq < RanjSeqs - 1 - q.seq
      <3>1. FlipStoredOf(p) /\ FlipStoredOf(q)
        BY <1>4
      <3> QED BY <1>6, <3>1, UuidOrder
    <2>2. flip(p) < flip(q) <=>
            \/ Time(high(q), mid(q), low(q)) < Time(high(p), mid(p), low(p))
            \/ /\ Time(high(q), mid(q), low(q)) = Time(high(p), mid(p), low(p))
               /\ RanjSeqs - 1 - p.seq < RanjSeqs - 1 - q.seq
      <3> HIDE DEF flip
      <3> QED BY <1>3, <2>1, TimeMirrored
    <2>3. RanjSeqs - 1 - p.seq < RanjSeqs - 1 - q.seq <=> q.seq < p.seq
      BY <1>0, <1>2
    <2>4. RanjRaw(q) < RanjRaw(p) <=> q.ts < p.ts \/ (q.ts = p.ts /\ q.seq < p.seq)
      BY <1>6, RanjOrder
    <2> HIDE DEF flip
    <2> QED
      BY <1>1, <2>2, <2>3, <2>4
  <1> QED
    <2> HIDE DEF flip, FlipStoredOf
    <2> QED BY <1>4, <1>5, <1>6
-----------------------------------------------------------------------------
(* RanjIds of one precision are ordered by time, then node, then sequence. *)

\* Two raw values of one version, variant and precision, compared by all that is left.
LEMMA UuidOrderOfNodes ==
  ASSUME NEW h, NEW m, NEW l, NEW n, NEW q, NEW g, NEW k, NEW i, NEW o, NEW r, NEW v, NEW t, NEW c,
         Stored(h, v, m, t, c, l, n, q), Stored(g, v, k, t, c, i, o, r)
  PROVE  Uuid(h, v, m, t, c, l, n, q) < Uuid(g, v, k, t, c, i, o, r) <=>
           \/ Time(h, m, l) < Time(g, k, i)
           \/ Time(h, m, l) = Time(g, k, i) /\ (n < o \/ (n = o /\ q < r))
<1> DEFINE above(x, y, z) == Put(Put(Put(Put(Put(x, Versions, v), MidTicks, y), Variants, t),
                                     Precisions, c), LowTicks, z)
           a == above(h, m, l)
           b == above(g, k, i)
<1>1. /\ Versions \in Nat \ {0} /\ MidTicks \in Nat \ {0} /\ Variants \in Nat \ {0}
      /\ Precisions \in Nat \ {0} /\ LowTicks \in Nat \ {0}
      /\ RanjNodes \in Nat \ {0} /\ RanjSeqs \in Nat \ {0}
  BY LayoutAssumption
<1>2. /\ h \in Nat /\ m \in 0 .. MidTicks - 1 /\ l \in 0 .. LowTicks - 1
      /\ g \in Nat /\ k \in 0 .. MidTicks - 1 /\ i \in 0 .. LowTicks - 1
      /\ v \in 0 .. Versions - 1 /\ t \in 0 .. Variants - 1 /\ c \in 0 .. Precisions - 1
      /\ n \in 0 .. RanjNodes - 1 /\ o \in 0 .. RanjNodes - 1
      /\ q \in 0 .. RanjSeqs - 1 /\ r \in 0 .. RanjSeqs - 1
  BY DEF Stored
<1>3. a \in Nat /\ b \in Nat
  <2>1. ASSUME NEW x \in Nat, NEW y \in 0 .. MidTicks - 1, NEW z \in 0 .. LowTicks - 1
        PROVE  above(x, y, z) \in Nat
    <3>1. Put(x, Versions, v) \in Nat
      BY <1>1, <1>2, PutFields
    <3>2. Put(Put(x, Versions, v), MidTicks, y) \in Nat
      BY <1>1, <3>1, PutFields
    <3>3. Put(Put(Put(x, Versions, v), MidTicks, y), Variants, t) \in Nat
      BY <1>1, <1>2, <3>2, PutFields
    <3>4. Put(Put(Put(Put(x, Versions, v), MidTicks, y), Variants, t), Precisions, c) \in Nat
      BY <1>1, <1>2, <3>3, PutFields
    <3> QED BY <1>1, <3>4, PutFields
  <2> QED BY <1>2, <2>1
<1>4. /\ Uuid(h, v, m, t, c, l, n, q) = Put(Put(a, RanjNodes, n), RanjSeqs, q)
      /\ Uuid(g, v, k, t, c, i, o, r) = Put(Put(b, RanjNodes, o), RanjSeqs, r)
      /\ Uuid(h, v, m, t, c, l, 0, 0) = Put(Put(a, RanjNodes, 0), RanjSeqs, 0)
      /\ Uuid(g, v, k, t, c, i, 0, 0) = Put(Put(b, RanjNodes, 0), RanjSeqs, 0)
  BY DEF Uuid
<1> HIDE DEF a, b
<1>5. 0 \in 0 .. RanjNodes - 1 /\ 0 \in 0 .. RanjSeqs - 1
  BY <1>1
\* Without node and sequence UuidOrder compares the times.
<1>6. a < b <=> Time(h, m, l) < Time(g, k, i)
  <2>1. Stored(h, v, m, t, c, l, 0, 0) /\ Stored(g, v, k, t, c, i, 0, 0)
    BY <1>2, <1>5 DEF Stored
  <2>2. Uuid(h, v, m, t, c, l, 0, 0) < Uuid(g, v, k, t, c, i, 0, 0) <=> Time(h, m, l) < Time(g, k, i)
    BY <2>1, UuidOrder
  <2>3. Put(Put(a, RanjNodes, 0), RanjSeqs, 0) < Put(Put(b, RanjNodes, 0), RanjSeqs, 0) <=> a < b
    <3> DEFINE p == Put(a, RanjNodes, 0)
               s == Put(b, RanjNodes, 0)
    <3>1. p \in Nat /\ s \in Nat /\ (p < s <=> a < b)
      BY <1>1, <1>3, <1>5, PutSame
    <3> HIDE DEF p, s
    <3>2. Put(p, RanjSeqs, 0) < Put(s, RanjSeqs, 0) <=> p < s
      BY <1>1, <1>5, <3>1, PutSame
    <3> QED BY <3>1, <3>2 DEF p, s
  <2> QED BY <1>4, <2>2, <2>3
<1>7. b < a <=> Time(g, k, i) < Time(h, m, l)
  <2>1. Stored(h, v, m, t, c, l, 0, 0) /\ Stored(g, v, k, t, c, i, 0, 0)
    BY <1>2, <1>5 DEF Stored
  <2>2. Uuid(g, v, k, t, c, i, 0, 0) < Uuid(h, v, m, t, c, l, 0, 0) <=> Time(g, k, i) < Time(h, m, l)
    BY <2>1, UuidOrder
  <2>3. Put(Put(b, RanjNodes, 0), RanjSeqs, 0) < Put(Put(a, RanjNodes, 0), RanjSeqs, 0) <=> b < a
    <3> DEFINE p == Put(b, RanjNodes, 0)
               s == Put(a, RanjNodes, 0)
    <3>1. p \in Nat /\ s \in Nat /\ (p < s <=> b < a)
      BY <1>1, <1>3, <1>5, PutSame
    <3> HIDE DEF p, s
    <3>2. Put(p, RanjSeqs, 0) < Put(s, RanjSeqs, 0) <=> p < s
      BY <1>1, <1>5, <3>1, PutSame
    <3> QED BY <3>1, <3>2 DEF p, s
  <2> QED BY <1>4, <2>2, <2>3
<1>8. a = b <=> Time(h, m, l) = Time(g, k, i)
  <2>1. Time(h, m, l) \in Nat /\ Time(g, k, i) \in Nat
    <3>1. Put(h, MidTicks, m) \in Nat /\ Put(g, MidTicks, k) \in Nat
      BY <1>1, <1>2, PutFields
    <3> QED BY <1>1, <1>2, <3>1, PutFields DEF Time
  <2> QED BY <1>3, <1>6, <1>7, <2>1
<1>9. Put(Put(a, RanjNodes, n), RanjSeqs, q) < Put(Put(b, RanjNodes, o), RanjSeqs, r)
        <=> a < b \/ (a = b /\ (n < o \/ (n = o /\ q < r)))
  <2>1. /\ Put(a, RanjNodes, n) \in Nat /\ Put(b, RanjNodes, o) \in Nat
        /\ Put(a, RanjNodes, n) < Put(b, RanjNodes, o) <=> a < b \/ (a = b /\ n < o)
        /\ Put(a, RanjNodes, n) = Put(b, RanjNodes, o) <=> a = b /\ n = o
    BY <1>1, <1>2, <1>3, PutCompare, SMTT(60)
  <2>2. Put(Put(a, RanjNodes, n), RanjSeqs, q) < Put(Put(b, RanjNodes, o), RanjSeqs, r)
          <=> \/ Put(a, RanjNodes, n) < Put(b, RanjNodes, o)
              \/ Put(a, RanjNodes, n) = Put(b, RanjNodes, o) /\ q < r
    BY <1>1, <1>2, <2>1, PutCompare
  <2> QED BY <2>1, <2>2
<1> QED BY <1>4, <1>6, <1>8, <1>9

\* Logical fields decide the order, precision excepted.
LEMMA RanjOrderOfNodes ==
  ASSUME NEW p \in RanjParts, NEW q \in RanjParts, p.precision = q.precision
  PROVE  RanjRaw(p) < RanjRaw(q) <=>
           p.ts < q.ts \/ (p.ts = q.ts /\ (p.node < q.node \/ (p.node = q.node /\ p.seq < q.seq)))
<1> DEFINE high(s) == (s.ts \div LowTicks) \div MidTicks
           mid(s) == (s.ts \div LowTicks) % MidTicks
           low(s) == s.ts % LowTicks
<1>1. /\ Stored(high(p), Version, mid(p), Variant, p.precision, low(p), p.node, p.seq)
      /\ Time(high(p), mid(p), low(p)) = p.ts
  BY TimeParts
<1>2. /\ Stored(high(q), Version, mid(q), Variant, p.precision, low(q), q.node, q.seq)
      /\ Time(high(q), mid(q), low(q)) = q.ts
  BY TimeParts
<1>3. /\ RanjRaw(p) = Uuid(high(p), Version, mid(p), Variant, p.precision, low(p), p.node, p.seq)
      /\ RanjRaw(q) = Uuid(high(q), Version, mid(q), Variant, p.precision, low(q), q.node, q.seq)
  BY DEF RanjRaw
<1> HIDE DEF high, mid, low
<1>4. Uuid(high(p), Version, mid(p), Variant, p.precision, low(p), p.node, p.seq)
        < Uuid(high(q), Version, mid(q), Variant, p.precision, low(q), q.node, q.seq)
      <=> \/ Time(high(p), mid(p), low(p)) < Time(high(q), mid(q), low(q))
          \/ /\ Time(high(p), mid(p), low(p)) = Time(high(q), mid(q), low(q))
             /\ p.node < q.node \/ (p.node = q.node /\ p.seq < q.seq)
  BY <1>1, <1>2, UuidOrderOfNodes
<1> QED BY <1>1, <1>2, <1>3, <1>4

\* The flip turns the order of time and of sequences around, and keeps that of nodes.
LEMMA RanjFlipOrderOfNodes ==
  ASSUME NEW p \in RanjParts, NEW q \in RanjParts, p.precision = q.precision
  PROVE  RanjFlip(RanjRaw(p)) < RanjFlip(RanjRaw(q)) <=>
           q.ts < p.ts \/ (q.ts = p.ts /\ (p.node < q.node \/ (p.node = q.node /\ q.seq < p.seq)))
<1> DEFINE high(s) == (s.ts \div LowTicks) \div MidTicks
           mid(s) == (s.ts \div LowTicks) % MidTicks
           low(s) == s.ts % LowTicks
           time(s) == Time(high(s), mid(s), low(s))
           flipTime(s) == Time(HighTicks - 1 - high(s), MidTicks - 1 - mid(s), LowTicks - 1 - low(s))
           flip(s) == Uuid(HighTicks - 1 - high(s), Version, MidTicks - 1 - mid(s), Variant, s.precision,
                           LowTicks - 1 - low(s), s.node, RanjSeqs - 1 - s.seq)
           FlipStored(s) == Stored(HighTicks - 1 - high(s), Version, MidTicks - 1 - mid(s), Variant,
                                   s.precision, LowTicks - 1 - low(s), s.node, RanjSeqs - 1 - s.seq)
<1>1. \A s \in RanjParts :
        /\ time(s) = s.ts /\ s.ts < RanjTicks /\ s.ts \in Nat
        /\ s.node \in Nat /\ s.seq \in 0 .. RanjSeqs - 1
        /\ RanjSeqs \in Nat \ {0}
        /\ mid(s) \in 0 .. MidTicks - 1 /\ low(s) \in 0 .. LowTicks - 1 /\ high(s) \in 0 .. HighTicks - 1
        /\ RanjFlip(RanjRaw(s)) = flip(s) /\ FlipStored(s)
  <2> TAKE s \in RanjParts
  <2>1. /\ Stored(high(s), Version, mid(s), Variant, s.precision, low(s), s.node, s.seq)
        /\ time(s) = s.ts
        /\ RanjRaw(s) = Uuid(high(s), Version, mid(s), Variant, s.precision, low(s), s.node, s.seq)
    BY TimeParts DEF RanjRaw
  <2>2. /\ s.ts < RanjTicks /\ s.ts \in Nat /\ s.node \in Nat /\ s.seq \in 0 .. RanjSeqs - 1
        /\ RanjSeqs \in Nat \ {0}
    BY LayoutAssumption DEF RanjParts, RanjTicks
  <2> HIDE DEF high, mid, low
  <2>3. mid(s) \in 0 .. MidTicks - 1 /\ low(s) \in 0 .. LowTicks - 1 /\ high(s) \in 0 .. HighTicks - 1
    <3>1. high(s) \in Nat /\ mid(s) \in 0 .. MidTicks - 1 /\ low(s) \in 0 .. LowTicks - 1
      BY <2>1 DEF Stored
    <3> QED BY <2>1, <2>2, <3>1, HighFits
  <2>4. RanjFlip(RanjRaw(s)) = flip(s) /\ FlipStored(s)
    BY <2>1, <2>3, UuidFlip
  <2> HIDE DEF time, flip, FlipStored
  <2> QED BY <2>1, <2>2, <2>3, <2>4
<1> HIDE DEF high, mid, low
<1>2. flip(p) < flip(q) <=>
        \/ flipTime(p) < flipTime(q)
        \/ /\ flipTime(p) = flipTime(q)
           /\ p.node < q.node \/ (p.node = q.node /\ RanjSeqs - 1 - p.seq < RanjSeqs - 1 - q.seq)
  <2>1. FlipStored(p) /\ FlipStored(q)
    BY <1>1
  <2> QED BY <2>1, UuidOrderOfNodes
<1>3. /\ flipTime(p) < flipTime(q) <=> time(q) < time(p)
      /\ flipTime(p) = flipTime(q) <=> time(q) = time(p)
  BY <1>1, TimeMirrored
<1>4. RanjSeqs - 1 - p.seq < RanjSeqs - 1 - q.seq <=> q.seq < p.seq
  <2>1. RanjSeqs \in Nat \ {0} /\ p.seq \in 0 .. RanjSeqs - 1 /\ q.seq \in 0 .. RanjSeqs - 1
    BY <1>1
  <2> QED BY <2>1, Complement
<1> HIDE DEF flip, time, flipTime
<1>5. /\ RanjFlip(RanjRaw(p)) = flip(p) /\ RanjFlip(RanjRaw(q)) = flip(q)
      /\ time(p) = p.ts /\ time(q) = q.ts
  BY <1>1
<1> QED BY <1>2, <1>3, <1>4, <1>5

-----------------------------------------------------------------------------
(* Every number of the right size has fields, and is made of them. *)

\* The HeerIds are the numbers that are not negative and have 63 bits.
LEMMA HeerSplit ==
  ASSUME NEW packed \in Nat
  PROVE  packed < HeerTicks * HeerNodes * HeerSeqs <=>
           HeerFields(packed) \in HeerParts /\ HeerRaw(HeerFields(packed)) = packed
<1> DEFINE above == packed \div HeerSeqs
           seq == packed % HeerSeqs
           ts == above \div HeerNodes
           node == above % HeerNodes
<1>1. HeerTicks \in Nat \ {0} /\ HeerNodes \in Nat \ {0} /\ HeerSeqs \in Nat \ {0}
  BY LayoutAssumption
<1>2. above \in Nat /\ seq \in 0 .. HeerSeqs - 1 /\ Put(above, HeerSeqs, seq) = packed
  BY <1>1, SplitField
<1>3. HeerFields(packed) = [ts |-> ts, node |-> node, seq |-> seq]
  BY DEF HeerFields
<1> HIDE DEF above, seq
<1>4. ts \in Nat /\ node \in 0 .. HeerNodes - 1 /\ Put(ts, HeerNodes, node) = above
  BY <1>1, <1>2, SplitField
<1> HIDE DEF ts, node
<1>5. HeerRaw(HeerFields(packed)) = packed
  BY <1>2, <1>3, <1>4 DEF HeerRaw
<1>6. packed < HeerTicks * HeerNodes * HeerSeqs <=> ts < HeerTicks
  <2> DEFINE b == Put(HeerTicks, HeerNodes, 0)
  <2>1. 0 \in 0 .. HeerNodes - 1 /\ 0 \in 0 .. HeerSeqs - 1
    BY <1>1
  <2>2. b \in Nat /\ (Put(ts, HeerNodes, node) < b <=> ts < HeerTicks \/ (ts = HeerTicks /\ node < 0))
    BY <1>1, <1>4, <2>1, PutCompare, ZenonT(60)
  <2>3. b = HeerTicks * HeerNodes
    BY <1>1 DEF Put
  <2> HIDE DEF b
  <2>4. Put(above, HeerSeqs, seq) < Put(b, HeerSeqs, 0) <=> above < b \/ (above = b /\ seq < 0)
    BY <1>1, <1>2, <2>1, <2>2, PutCompare, ZenonT(60)
  <2>5. Put(b, HeerSeqs, 0) = b * HeerSeqs
    BY <1>1, <2>2 DEF Put
  <2>6. above < b <=> ts < HeerTicks
    BY <1>4, <2>2
  <2>7. packed < b * HeerSeqs <=> above < b
    BY <1>2, <2>4, <2>5
  <2> QED BY <2>3, <2>6, <2>7
<1>7. HeerFields(packed) \in HeerParts <=> ts < HeerTicks
  BY <1>1, <1>2, <1>3, <1>4 DEF HeerParts
<1> QED BY <1>5, <1>6, <1>7

\* Any number is made of its fields.
LEMMA UuidSplit ==
  ASSUME NEW u \in Nat
  PROVE  /\ Stored(HighField(u), VersionField(u), MidField(u), VariantField(u), PrecisionField(u),
                   LowField(u), NodeField(u), SeqField(u))
         /\ Uuid(HighField(u), VersionField(u), MidField(u), VariantField(u), PrecisionField(u),
                 LowField(u), NodeField(u), SeqField(u)) = u
<1>0. /\ Versions \in Nat \ {0} /\ MidTicks \in Nat \ {0} /\ Variants \in Nat \ {0}
      /\ Precisions \in Nat \ {0} /\ LowTicks \in Nat \ {0}
      /\ RanjNodes \in Nat \ {0} /\ RanjSeqs \in Nat \ {0}
  BY LayoutAssumption
<1>1. /\ AboveSeq(u) \in Nat /\ SeqField(u) \in 0 .. RanjSeqs - 1
      /\ Put(AboveSeq(u), RanjSeqs, SeqField(u)) = u
  BY <1>0, SplitField DEF AboveSeq, SeqField
<1>2. /\ AboveNode(u) \in Nat /\ NodeField(u) \in 0 .. RanjNodes - 1
      /\ Put(AboveNode(u), RanjNodes, NodeField(u)) = AboveSeq(u)
  BY <1>0, <1>1, SplitField DEF AboveNode, NodeField
<1>3. /\ AboveLow(u) \in Nat /\ LowField(u) \in 0 .. LowTicks - 1
      /\ Put(AboveLow(u), LowTicks, LowField(u)) = AboveNode(u)
  BY <1>0, <1>2, SplitField DEF AboveLow, LowField
<1>4. /\ AbovePrecision(u) \in Nat /\ PrecisionField(u) \in 0 .. Precisions - 1
      /\ Put(AbovePrecision(u), Precisions, PrecisionField(u)) = AboveLow(u)
  BY <1>0, <1>3, SplitField DEF AbovePrecision, PrecisionField
<1>5. /\ AboveVariant(u) \in Nat /\ VariantField(u) \in 0 .. Variants - 1
      /\ Put(AboveVariant(u), Variants, VariantField(u)) = AbovePrecision(u)
  BY <1>0, <1>4, SplitField DEF AboveVariant, VariantField
<1>6. /\ AboveMid(u) \in Nat /\ MidField(u) \in 0 .. MidTicks - 1
      /\ Put(AboveMid(u), MidTicks, MidField(u)) = AboveVariant(u)
  BY <1>0, <1>5, SplitField DEF AboveMid, MidField
<1>7. /\ HighField(u) \in Nat /\ VersionField(u) \in 0 .. Versions - 1
      /\ Put(HighField(u), Versions, VersionField(u)) = AboveMid(u)
  BY <1>0, <1>6, SplitField DEF HighField, VersionField
<1> QED BY <1>1, <1>2, <1>3, <1>4, <1>5, <1>6, <1>7 DEF Stored, Uuid

\* Flipping 16 bytes gives 16 bytes of the same version and variant, and flipping them again the
\* first ones.
LEMMA UuidFlipTwice ==
  ASSUME NEW u, IsUuid(u)
  PROVE  /\ IsUuid(RanjFlip(u))
         /\ IsRanjId(RanjFlip(u)) <=> IsRanjId(u)
         /\ RanjFlip(RanjFlip(u)) = u
<1> DEFINE h == HighField(u)   v == VersionField(u)    m == MidField(u)  t == VariantField(u)
           c == PrecisionField(u)  l == LowField(u)  n == NodeField(u)  q == SeqField(u)
           f == RanjFlip(u)
<1>1. Stored(h, v, m, t, c, l, n, q) /\ Uuid(h, v, m, t, c, l, n, q) = u /\ h < HighTicks
  BY UuidSplit DEF IsUuid
<1>2. f = Uuid(HighTicks - 1 - h, v, MidTicks - 1 - m, t, c, LowTicks - 1 - l, n, RanjSeqs - 1 - q)
  BY DEF RanjFlip
<1> HIDE DEF h, v, m, t, c, l, n, q, f
<1>3. /\ HighTicks \in Nat \ {0} /\ MidTicks \in Nat \ {0} /\ LowTicks \in Nat \ {0} /\ RanjSeqs \in Nat \ {0}
      /\ h \in 0 .. HighTicks - 1 /\ m \in 0 .. MidTicks - 1 /\ l \in 0 .. LowTicks - 1
      /\ q \in 0 .. RanjSeqs - 1
  BY <1>1, LayoutAssumption DEF Stored
<1>4. Stored(HighTicks - 1 - h, v, MidTicks - 1 - m, t, c, LowTicks - 1 - l, n, RanjSeqs - 1 - q)
  BY <1>1, <1>3 DEF Stored
<1>5. /\ f \in Nat
      /\ HighField(f) = HighTicks - 1 - h /\ VersionField(f) = v /\ MidField(f) = MidTicks - 1 - m
      /\ VariantField(f) = t /\ PrecisionField(f) = c /\ LowField(f) = LowTicks - 1 - l
      /\ NodeField(f) = n /\ SeqField(f) = RanjSeqs - 1 - q
  BY <1>2, <1>4, UuidFields
<1>6. /\ HighTicks - 1 - (HighTicks - 1 - h) = h /\ MidTicks - 1 - (MidTicks - 1 - m) = m
      /\ LowTicks - 1 - (LowTicks - 1 - l) = l /\ RanjSeqs - 1 - (RanjSeqs - 1 - q) = q
      /\ HighTicks - 1 - h < HighTicks
  BY <1>3
<1>7. RanjFlip(f) = u
  BY <1>1, <1>5, <1>6 DEF RanjFlip
<1>8. IsUuid(f)
  BY <1>5, <1>6 DEF IsUuid
<1>9. IsRanjId(f) <=> IsRanjId(u)
  BY <1>5 DEF IsRanjId, v, t
<1> QED BY <1>7, <1>8, <1>9 DEF f

\* The RanjIds are the 16 bytes of the right version and variant.
LEMMA RanjSplit ==
  ASSUME NEW u, IsUuid(u), IsRanjId(u)
  PROVE  RanjFields(u) \in RanjParts /\ RanjRaw(RanjFields(u)) = u
<1> DEFINE h == HighField(u)   m == MidField(u)   l == LowField(u)
           ts == Time(h, m, l)
<1>1. /\ Stored(h, Version, m, Variant, PrecisionField(u), l, NodeField(u), SeqField(u))
      /\ Uuid(h, Version, m, Variant, PrecisionField(u), l, NodeField(u), SeqField(u)) = u
      /\ h < HighTicks
  BY UuidSplit DEF IsUuid, IsRanjId
<1>2. RanjFields(u) = [ts |-> ts, precision |-> PrecisionField(u), node |-> NodeField(u), seq |-> SeqField(u)]
  BY DEF RanjFields, Time
<1> HIDE DEF h, m, l
<1>3. /\ HighTicks \in Nat \ {0} /\ MidTicks \in Nat \ {0} /\ LowTicks \in Nat \ {0}
      /\ h \in Nat /\ m \in 0 .. MidTicks - 1 /\ l \in 0 .. LowTicks - 1
  BY <1>1, LayoutAssumption DEF Stored
<1>4. /\ Put(h, MidTicks, m) \in Nat /\ Put(h, MidTicks, m) \div MidTicks = h
      /\ Put(h, MidTicks, m) % MidTicks = m
  BY <1>3, PutFields
<1>5. ts \in Nat /\ ts \div LowTicks = Put(h, MidTicks, m) /\ ts % LowTicks = l
  BY <1>3, <1>4, PutFields DEF Time
<1>6. ts < RanjTicks
  <2> DEFINE b == Put(HighTicks, MidTicks, 0)
  <2>1. 0 \in 0 .. MidTicks - 1 /\ 0 \in 0 .. LowTicks - 1
    BY <1>3
  <2>2. b \in Nat /\ Put(h, MidTicks, m) < b
    BY <1>1, <1>3, <2>1, PutCompare
  <2>3. b = HighTicks * MidTicks
    BY <1>3 DEF Put
  <2> HIDE DEF b
  <2>4. Put(Put(h, MidTicks, m), LowTicks, l) < Put(b, LowTicks, 0)
    BY <1>3, <1>4, <2>1, <2>2, PutCompare
  <2>5. Put(b, LowTicks, 0) = b * LowTicks
    BY <1>3, <2>2 DEF Put
  <2> QED BY <2>3, <2>4, <2>5 DEF RanjTicks, Time
<1>7. RanjTicks \in Int
  BY LayoutAssumption DEF RanjTicks
<1> HIDE DEF ts
<1>8. RanjFields(u) \in RanjParts
  BY <1>1, <1>2, <1>5, <1>6, <1>7 DEF RanjParts, Stored
<1>9. RanjRaw(RanjFields(u)) = u
  BY <1>1, <1>2, <1>4, <1>5 DEF RanjRaw
<1> QED BY <1>8, <1>9

\* Fields that are in range are packed into 16 bytes.
LEMMA RanjRawIsUuid ==
  ASSUME NEW p \in RanjParts
  PROVE  IsUuid(RanjRaw(p))
<1> DEFINE high == (p.ts \div LowTicks) \div MidTicks
           mid == (p.ts \div LowTicks) % MidTicks
           low == p.ts % LowTicks
           packed == Uuid(high, Version, mid, Variant, p.precision, low, p.node, p.seq)
<1>1. /\ Stored(high, Version, mid, Variant, p.precision, low, p.node, p.seq)
      /\ Time(high, mid, low) = p.ts
  BY TimeParts
<1>2. packed = RanjRaw(p)
  BY DEF RanjRaw
<1> HIDE DEF high, mid, low
<1>3. packed \in Nat /\ HighField(packed) = high
  BY <1>1, UuidFields
<1>4. high \in 0 .. HighTicks - 1
  <2>1. p.ts < RanjTicks
    BY LayoutAssumption DEF RanjParts, RanjTicks
  <2> QED BY <1>1, <2>1, HighFits DEF Stored
<1> QED BY <1>2, <1>3, <1>4, LayoutAssumption DEF IsUuid

-----------------------------------------------------------------------------
(* The conversion of one identifier. *)

\* The fields of the RanjId a HeerId with the fields p is converted to.
Scaled(p, precision) ==
  [ts |-> p.ts * Millis[precision], precision |-> precision, node |-> p.node, seq |-> p.seq]

\* Scaling keeps the order of timestamps and loses none of them.
LEMMA Scaling ==
  ASSUME NEW a \in Nat, NEW b \in Nat, NEW m \in Nat \ {0}
  PROVE  /\ a * m \in Nat
         /\ a < b <=> a * m < b * m
         /\ a = b <=> a * m = b * m
         /\ (a * m) \div m = a
<1>1. 0 \in 0 .. m - 1
  OBVIOUS
<1>2. /\ Put(a, m, 0) \in Nat /\ Put(b, m, 0) \in Nat
      /\ Put(a, m, 0) < Put(b, m, 0) <=> a < b
      /\ Put(a, m, 0) = Put(b, m, 0) <=> a = b
  BY <1>1, PutSame
<1>3. Put(a, m, 0) \div m = a
  BY <1>1, PutFields
<1>4. /\ a * m \in Int /\ b * m \in Int
      /\ Put(a, m, 0) = a * m + 0 /\ Put(b, m, 0) = b * m + 0
  BY DEF Put
<1>5. Put(a, m, 0) = a * m /\ Put(b, m, 0) = b * m
  BY <1>4
<1> QED BY <1>2, <1>3, <1>5

\* Every HeerId fits in a RanjId.
LEMMA ScaledType ==
  ASSUME NEW p \in HeerParts, NEW precision \in 0 .. Precisions - 1
  PROVE  Scaled(p, precision) \in RanjParts
<1> DEFINE m == Millis[precision]
<1>1. /\ HeerTicks \in Nat \ {0} /\ p.ts \in Nat /\ p.ts <= HeerTicks - 1
      /\ p.node \in 0 .. HeerNodes - 1 /\ p.seq \in 0 .. HeerSeqs - 1
  BY LayoutAssumption DEF HeerParts
<1>2. m \in Nat \ {0} /\ HeerTicks * m <= RanjTicks
  BY LayoutAssumption, PrecisionAssumption
<1>3. RanjTicks \in Nat
  <2>1. HighTicks \in Nat /\ MidTicks \in Nat /\ LowTicks \in Nat
    BY LayoutAssumption
  <2>2. HighTicks * MidTicks \in Nat
    BY <2>1
  <2> QED BY <2>1, <2>2 DEF RanjTicks
<1> HIDE DEF m
<1>4. p.ts * m \in 0 .. RanjTicks - 1
  <2>1. p.ts * m \in Nat /\ p.ts * m < HeerTicks * m
    <3>1. p.ts < HeerTicks
      BY <1>1
    <3> QED BY <1>1, <1>2, <3>1, Scaling
  <2>2. HeerTicks * m \in Nat
    BY <1>1, <1>2, Scaling
  <2> QED BY <1>2, <1>3, <2>1, <2>2
<1>5. p.node \in 0 .. RanjNodes - 1 /\ p.seq \in 0 .. RanjSeqs - 1
  <2>1. /\ HeerNodes \in Nat \ {0} /\ RanjNodes \in Nat \ {0} /\ HeerNodes <= RanjNodes
        /\ HeerSeqs \in Nat \ {0} /\ RanjSeqs \in Nat \ {0} /\ HeerSeqs <= RanjSeqs
    BY LayoutAssumption, PrecisionAssumption
  <2> QED BY <1>1, <2>1
<1> QED BY <1>4, <1>5 DEF Scaled, RanjParts, m

\* From<HeerId> and From<HeerIdDesc> give the RanjId of the scaled fields, flipped for the
\* descending type, whose ascending fields are the mirrored ones.
LEMMA ConversionFields ==
  ASSUME NEW p \in HeerParts, NEW precision \in 0 .. Precisions - 1
  PROVE  /\ Upward(HeerRaw(p), precision) = RanjRaw(Scaled(p, precision))
         /\ UpwardDesc(HeerRaw(p), precision) = RanjFlip(RanjRaw(Scaled(Mirrored(p), precision)))
<1>1. \A q \in HeerParts : ToRanj(HeerRaw(q), precision) = RanjRaw(Scaled(q, precision))
  BY HeerFieldsOfRaw DEF ToRanj, Scaled
<1>2. Mirrored(p) \in HeerParts /\ HeerFlip(HeerRaw(p)) = HeerRaw(Mirrored(p))
  BY MirroredType
<1> QED BY <1>1, <1>2 DEF Upward, UpwardDesc

\* Going back gives the timestamp and the node, and the sequence 0.
LEMMA DownwardFields ==
  ASSUME NEW p \in HeerParts, NEW precision \in 0 .. Precisions - 1
  PROVE  /\ [ts |-> p.ts, node |-> p.node, seq |-> 0] \in HeerParts
         /\ Downward(RanjRaw(Scaled(p, precision))) = HeerRaw([ts |-> p.ts, node |-> p.node, seq |-> 0])
<1> DEFINE s == Scaled(p, precision)
<1>1. s \in RanjParts
  BY ScaledType
<1>2. RanjFields(RanjRaw(s)) = s
  BY <1>1, RanjFieldsOfRaw
<1>3. p.ts \in Nat /\ Millis[precision] \in Nat \ {0} /\ HeerSeqs \in Nat \ {0}
  BY LayoutAssumption DEF HeerParts
<1>4. s.ts \div Millis[s.precision] = p.ts
  BY <1>3, Scaling DEF Scaled
<1>5. s.node = p.node
  BY DEF Scaled
<1>6. [ts |-> p.ts, node |-> p.node, seq |-> 0] \in HeerParts
  BY <1>3 DEF HeerParts
<1> HIDE DEF s
<1>7. Downward(RanjRaw(s)) = HeerRaw([ts |-> p.ts, node |-> p.node, seq |-> 0])
  BY <1>2, <1>4, <1>5 DEF Downward
<1> QED BY <1>6, <1>7 DEF s

\* Conversions of one precision keep the order, in both directions.
LEMMA ConversionOrder ==
  ASSUME NEW p \in HeerParts, NEW q \in HeerParts, NEW precision \in 0 .. Precisions - 1,
         HeerRaw(p) < HeerRaw(q)
  PROVE  /\ Upward(HeerRaw(p), precision) < Upward(HeerRaw(q), precision)
         /\ UpwardDesc(HeerRaw(p), precision) < UpwardDesc(HeerRaw(q), precision)
<1>1. p.ts < q.ts \/ (p.ts = q.ts /\ (p.node < q.node \/ (p.node = q.node /\ p.seq < q.seq)))
  BY HeerOrder
<1>2. Upward(HeerRaw(p), precision) < Upward(HeerRaw(q), precision)
  <2> DEFINE a == Scaled(p, precision)
             b == Scaled(q, precision)
  <2>1. a \in RanjParts /\ b \in RanjParts
    BY ScaledType
  <2>2. /\ a.precision = b.precision
        /\ a.ts = p.ts * Millis[precision] /\ b.ts = q.ts * Millis[precision]
        /\ a.node = p.node /\ b.node = q.node /\ a.seq = p.seq /\ b.seq = q.seq
    BY DEF Scaled
  <2>3. /\ p.ts < q.ts <=> p.ts * Millis[precision] < q.ts * Millis[precision]
        /\ p.ts = q.ts <=> p.ts * Millis[precision] = q.ts * Millis[precision]
    <3>1. p.ts \in Nat /\ q.ts \in Nat /\ Millis[precision] \in Nat \ {0}
      BY LayoutAssumption DEF HeerParts
    <3> QED BY <3>1, Scaling
  <2> HIDE DEF a, b
  <2>4. RanjRaw(a) < RanjRaw(b)
    <3>1. a.ts < b.ts \/ (a.ts = b.ts /\ (a.node < b.node \/ (a.node = b.node /\ a.seq < b.seq)))
      BY <1>1, <2>2, <2>3, Zenon
    <3> QED BY <2>1, <2>2, <3>1, RanjOrderOfNodes
  <2> QED BY <2>4, ConversionFields DEF a, b
<1>3. UpwardDesc(HeerRaw(p), precision) < UpwardDesc(HeerRaw(q), precision)
  <2> DEFINE u == Mirrored(p)
             w == Mirrored(q)
             a == Scaled(u, precision)
             b == Scaled(w, precision)
  <2>1. u \in HeerParts /\ w \in HeerParts
    BY MirroredType
  <2>2. w.ts < u.ts \/ (w.ts = u.ts /\ (u.node < w.node \/ (u.node = w.node /\ w.seq < u.seq)))
    <3>1. /\ u.ts = HeerTicks - 1 - p.ts /\ u.node = p.node /\ u.seq = HeerSeqs - 1 - p.seq
          /\ w.ts = HeerTicks - 1 - q.ts /\ w.node = q.node /\ w.seq = HeerSeqs - 1 - q.seq
      BY MirroredType
    <3>2. /\ HeerTicks \in Nat \ {0} /\ HeerSeqs \in Nat \ {0}
          /\ p.ts \in 0 .. HeerTicks - 1 /\ q.ts \in 0 .. HeerTicks - 1
          /\ p.seq \in 0 .. HeerSeqs - 1 /\ q.seq \in 0 .. HeerSeqs - 1
      BY LayoutAssumption DEF HeerParts
    <3>3. /\ w.ts < u.ts <=> p.ts < q.ts
          /\ w.ts = u.ts <=> p.ts = q.ts
          /\ w.seq < u.seq <=> p.seq < q.seq
      BY <3>1, <3>2, Complement
    <3>4. u.node = p.node /\ w.node = q.node
      BY <3>1
    <3> HIDE DEF u, w
    <3> QED BY <1>1, <3>3, <3>4, Zenon
  <2>3. a \in RanjParts /\ b \in RanjParts
    BY <2>1, ScaledType
  <2>4. /\ a.precision = b.precision
        /\ a.ts = u.ts * Millis[precision] /\ b.ts = w.ts * Millis[precision]
        /\ a.node = u.node /\ b.node = w.node /\ a.seq = u.seq /\ b.seq = w.seq
    BY DEF Scaled
  <2>5. /\ w.ts < u.ts <=> w.ts * Millis[precision] < u.ts * Millis[precision]
        /\ w.ts = u.ts <=> w.ts * Millis[precision] = u.ts * Millis[precision]
    <3>1. w.ts \in Nat /\ u.ts \in Nat /\ Millis[precision] \in Nat \ {0}
      BY <2>1, LayoutAssumption, SMTT(30) DEF HeerParts
    <3> HIDE DEF u, w
    <3> QED BY <3>1, Scaling
  <2> HIDE DEF a, b, u, w
  <2>6. RanjFlip(RanjRaw(a)) < RanjFlip(RanjRaw(b))
    <3>1. b.ts < a.ts \/ (b.ts = a.ts /\ (a.node < b.node \/ (a.node = b.node /\ b.seq < a.seq)))
      BY <2>2, <2>4, <2>5, Zenon
    <3> QED BY <2>3, <2>4, <3>1, RanjFlipOrderOfNodes
  <2> QED BY <2>6, ConversionFields DEF a, b, u, w
<1> QED BY <1>2, <1>3

\* A conversion goes back to the millisecond and the node.
LEMMA ConversionBack ==
  ASSUME NEW p \in HeerParts, NEW precision \in 0 .. Precisions - 1
  PROVE  /\ SameTime(HeerRaw(p), Downward(Upward(HeerRaw(p), precision)))
         /\ SameTime(HeerFlip(HeerRaw(p)), HeerFlip(DownwardDesc(UpwardDesc(HeerRaw(p), precision))))
<1> DEFINE bare(q) == [ts |-> q.ts, node |-> q.node, seq |-> 0]
<1>1. \A q \in HeerParts :
        /\ bare(q) \in HeerParts
        /\ Downward(RanjRaw(Scaled(q, precision))) = HeerRaw(bare(q))
        /\ SameTime(HeerRaw(q), HeerRaw(bare(q)))
  <2> TAKE q \in HeerParts
  <2>1. bare(q) \in HeerParts /\ Downward(RanjRaw(Scaled(q, precision))) = HeerRaw(bare(q))
    BY DownwardFields
  <2>2. HeerFields(HeerRaw(q)) = q /\ HeerFields(HeerRaw(bare(q))) = bare(q)
    BY <2>1, HeerFieldsOfRaw
  <2>3. bare(q).ts = q.ts /\ bare(q).node = q.node
    OBVIOUS
  <2> HIDE DEF bare
  <2> QED BY <2>1, <2>2, <2>3 DEF SameTime
<1> HIDE DEF bare
<1>2. SameTime(HeerRaw(p), Downward(Upward(HeerRaw(p), precision)))
  BY <1>1, ConversionFields
<1>3. SameTime(HeerFlip(HeerRaw(p)), HeerFlip(DownwardDesc(UpwardDesc(HeerRaw(p), precision))))
  <2> DEFINE u == Mirrored(p)
             s == Scaled(u, precision)
  <2>1. u \in HeerParts /\ HeerFlip(HeerRaw(p)) = HeerRaw(u)
    BY MirroredType
  <2>2. s \in RanjParts
    BY <2>1, ScaledType
  <2> HIDE DEF u, s
  <2>3. RanjFlip(UpwardDesc(HeerRaw(p), precision)) = RanjRaw(s)
    BY <2>2, ConversionFields, RanjFlipReverses DEF u, s
  <2>4. DownwardDesc(UpwardDesc(HeerRaw(p), precision)) = HeerFlip(HeerRaw(bare(u)))
    BY <1>1, <2>1, <2>3 DEF DownwardDesc, s
  <2>5. HeerFlip(DownwardDesc(UpwardDesc(HeerRaw(p), precision))) = HeerRaw(bare(u))
    BY <1>1, <2>1, <2>4, HeerFlipReverses
  <2> QED BY <1>1, <2>1, <2>5
<1> QED BY <1>2, <1>3

-----------------------------------------------------------------------------
(* The generation precision: the cell that keeps it. *)

\* Until the cell is filled nothing has been converted, and what has been converted since used
\* the precision it was filled with.  A thread in the initialiser is about to convert.
CellInv ==
  /\ cell \in 0 .. Empty
  /\ asked \in [Threads -> Requests \cup {Nowhere}]
  /\ \A t \in initializing : t \in Threads /\ asked[t] # Nowhere
  /\ initializing # {} => cell = Empty
  /\ cell = Empty => converted = {}
  /\ \A a \in converted : \E r \in Requests : a = Conversion(r, cell)

\* What is being asked for is a request.
LEMMA AskedIsRequest ==
  ASSUME CellInv, NEW t \in Threads, asked[t] # Nowhere
  PROVE  asked[t] \in Requests
  BY DEF CellInv

\* generation_precision has a precision to give only when RANJID_PRECISION names one or is unset.
LEMMA AskedIsPrecision ==
  ASSUME NEW precision \in Asked(env)
  PROVE  precision \in 0 .. Precisions - 1
  BY PrecisionAssumption DEF Asked

\* A step of a thread keeps the invariant.
LEMMA ThreadKeepsCellInv ==
  ASSUME CellInv, NEW t \in Threads,
         (\E request \in Requests : Ask(t, request)) \/ UseCell(t) \/ Enter(t) \/ Fill(t) \/ Panic(t)
  PROVE  CellInv'
<1>1. CASE \E request \in Requests : Ask(t, request)
  BY <1>1 DEF CellInv, Ask
<1>2. CASE UseCell(t)
  <2>1. /\ cell # Empty /\ cell' = cell /\ initializing' = initializing /\ initializing = {}
        /\ asked' = [asked EXCEPT ![t] = Nowhere]
        /\ converted' = converted \cup {Conversion(asked[t], cell)}
    BY <1>2 DEF UseCell, Make, Known, CellInv
  <2>2. asked[t] \in Requests
    BY <1>2, AskedIsRequest DEF UseCell
  <2>3. \A a \in converted' : \E r \in Requests : a = Conversion(r, cell')
    <3> HIDE DEF Requests
    <3> QED BY <2>1, <2>2 DEF CellInv
  <2>4. asked' \in [Threads -> Requests \cup {Nowhere}]
    BY <2>1 DEF CellInv
  <2> QED BY <2>1, <2>3, <2>4 DEF CellInv
<1>3. CASE Enter(t)
  BY <1>3 DEF CellInv, Enter
<1>4. CASE Fill(t)
  <2>1. PICK precision \in Asked(env) : cell' = precision /\ Make(t, precision)
    BY <1>4 DEF Fill
  <2>2. cell' \in 0 .. Precisions - 1
    BY <2>1, AskedIsPrecision
  <2>3. asked[t] \in Requests /\ converted = {}
    <3>1. t \in initializing
      BY <1>4 DEF Fill
    <3>2. asked[t] # Nowhere /\ cell = Empty
      BY <3>1 DEF CellInv
    <3> QED BY <3>2, AskedIsRequest DEF CellInv
  <2>4. \A a \in converted' : \E r \in Requests : a = Conversion(r, cell')
    BY <2>1, <2>3 DEF Make
  <2>5. asked' \in [Threads -> Requests \cup {Nowhere}]
    BY <2>1 DEF CellInv, Make
  <2>6. cell' \in 0 .. Empty /\ cell' # Empty
    BY <2>2, LayoutAssumption DEF Empty
  <2>7. initializing' = {}
    BY <1>4 DEF Fill
  <2>8. Empty' = Empty
    BY DEF Empty
  <2> QED BY <2>4, <2>5, <2>6, <2>7, <2>8 DEF CellInv
<1>5. CASE Panic(t)
  <2>1. asked' \in [Threads -> Requests \cup {Nowhere}]
    BY <1>5 DEF CellInv, Panic
  <2> QED BY <1>5, <2>1 DEF CellInv, Panic
<1> QED BY <1>1, <1>2, <1>3, <1>4, <1>5

\* Every step keeps it; a change of the environment touches nothing it speaks of.
LEMMA CellInvStep == CellInv /\ [PrecisionNext]_precisionVars => CellInv'
<1> SUFFICES ASSUME CellInv, [PrecisionNext]_precisionVars PROVE CellInv'
  OBVIOUS
<1>1. CASE UNCHANGED precisionVars
  BY <1>1 DEF CellInv, precisionVars
<1>2. ASSUME NEW e \in 0 .. Invalid, SetEnv(e) PROVE CellInv'
  BY <1>2 DEF CellInv, SetEnv
<1>3. ASSUME NEW t \in Threads,
             (\E request \in Requests : Ask(t, request)) \/ UseCell(t) \/ Enter(t) \/ Fill(t) \/ Panic(t)
      PROVE  CellInv'
  BY <1>3, ThreadKeepsCellInv
<1> QED BY <1>1, <1>2, <1>3 DEF PrecisionNext

\* One precision for all conversions is what keeps their order.
LEMMA CellInvOrders == CellInv => ConvertedInOrder
<1> SUFFICES ASSUME CellInv PROVE ConvertedInOrder
  OBVIOUS
<1>1. CASE converted = {}
  BY <1>1 DEF ConvertedInOrder
<1>2. CASE converted # {}
  <2>1. cell \in 0 .. Precisions - 1
    BY <1>2, LayoutAssumption DEF CellInv, Empty
  <2>2. ASSUME NEW a \in converted
        PROVE  /\ a.form \in {"asc", "desc"}
               /\ \E p \in HeerParts : a.heer = HeerRaw(p)
               /\ a.form = "asc" => a.ranj = Upward(a.heer, cell)
               /\ a.form = "desc" => a.ranj = UpwardDesc(a.heer, cell)
    <3> PICK r \in Requests : a = Conversion(r, cell)
      BY DEF CellInv
    <3>1. r.form \in {"asc", "desc"} /\ r.heer \in Given
      BY DEF Requests
    <3>2. /\ a.form = r.form /\ a.heer = r.heer
          /\ a.ranj = IF r.form = "asc" THEN Upward(r.heer, cell) ELSE UpwardDesc(r.heer, cell)
      BY DEF Conversion
    <3>3. \E p \in HeerParts : r.heer = HeerRaw(p)
      BY <3>1, PrecisionAssumption
    <3> QED BY <3>1, <3>2, <3>3
  <2>3. ASSUME NEW a \in converted, NEW b \in converted, a.form = b.form, a.heer < b.heer
        PROVE  a.ranj < b.ranj
    <3> PICK p \in HeerParts : a.heer = HeerRaw(p)
      BY <2>2
    <3> PICK q \in HeerParts : b.heer = HeerRaw(q)
      BY <2>2
    <3>1. /\ Upward(a.heer, cell) < Upward(b.heer, cell)
          /\ UpwardDesc(a.heer, cell) < UpwardDesc(b.heer, cell)
      BY <2>1, <2>3, ConversionOrder
    <3> QED BY <2>2, <2>3, <3>1
  <2>4. ASSUME NEW a \in converted
        PROVE  /\ a.form = "asc" => SameTime(a.heer, Downward(a.ranj))
               /\ a.form = "desc" => SameTime(HeerFlip(a.heer), HeerFlip(DownwardDesc(a.ranj)))
    <3> PICK p \in HeerParts : a.heer = HeerRaw(p)
      BY <2>2
    <3>1. /\ SameTime(a.heer, Downward(Upward(a.heer, cell)))
          /\ SameTime(HeerFlip(a.heer), HeerFlip(DownwardDesc(UpwardDesc(a.heer, cell))))
      BY <2>1, ConversionBack
    <3> QED BY <2>2, <3>1
  <2> QED BY <2>3, <2>4 DEF ConvertedInOrder
<1> QED BY <1>1, <1>2

\* Whatever its threads ask and however RANJID_PRECISION changes, the conversions of a process
\* are in order and go back, for all field widths, precisions and HeerIds.
THEOREM InOrder == PrecisionSpec => []ConvertedInOrder
<1>1. PrecisionInit => CellInv
  <2>1. Empty \in 0 .. Empty
    BY LayoutAssumption DEF Empty
  <2> QED BY <2>1 DEF PrecisionInit, CellInv
<1> QED BY <1>1, CellInvStep, CellInvOrders, PTL DEF PrecisionSpec

-----------------------------------------------------------------------------
(* Identifiers on their way. *)

\* A raw value of a type, or the placeholder, and what it was made of.
HoldsMeaning(k, v) ==
  /\ k \in HeerKinds => v \in 0 .. WordEnd - 1 /\ HeerMeaning(k, v) = meant
  /\ k \in RanjKinds =>
       /\ IsUuid(v)
       /\ IsRanjId(v) => RanjMeaning(k, v) = meant
       /\ ~IsRanjId(v) => meant = Unsaved

\* The inductive invariant: a form that an identifier was written in is one its number or UUID
\* survives in, a JSON number never, and still has the value its fields gave.
WireInv ==
  /\ kind \in Kinds \cup {"none"} /\ HoldsMeaning(kind, raw)
  /\ kind # "none" => wire = Nothing
  /\ wire.form \in {"digits", "number", "integer"} => wire.value \in Int
  /\ wire.form = "word" => IsWord(wire.value)
  /\ wire.form \in {"hex", "uuid"} => IsUuid(wire.value)
  /\ sentAs \in Kinds \cup {"none"} /\ HoldsMeaning(sentAs, wire.value)
  /\ sentAs \in HeerKinds => wire.form \in {"digits", "word", "integer"}
  /\ sentAs \in RanjKinds => wire.form \in {"hex", "uuid"}

LEMMA HeerKindsOnly ==
  /\ \A k \in HeerKinds : k \in Kinds /\ k \notin RanjKinds /\ (k = "HeerId" \/ k = "HeerIdDesc")
  /\ \A k \in RanjKinds : k \in Kinds /\ k \notin HeerKinds /\ (k = "RanjId" \/ k = "RanjIdDesc")
  /\ \A k \in Kinds : k \in HeerKinds \/ k \in RanjKinds
  /\ "none" \notin Kinds /\ "none" \notin HeerKinds /\ "none" \notin RanjKinds
  BY DEF HeerKinds, RanjKinds, Kinds

\* The zero of the placeholders has 128 bits.
LEMMA ZeroIsUuid == IsUuid(0)
<1>1. LET u == 0 IN HighField(u) = 0
  <2>1. \A n \in Nat \ {0} : 0 \div n = 0
    <3> TAKE n \in Nat \ {0}
    <3>1. 0 \in 0 .. n - 1
      OBVIOUS
    <3>2. Put(0, n, 0) \div n = 0 /\ Put(0, n, 0) = 0
      BY <3>1, PutFields DEF Put
    <3> QED BY <3>2
  <2> QED BY <2>1, LayoutAssumption
        DEF HighField, AboveMid, AboveVariant, AbovePrecision, AboveLow, AboveNode, AboveSeq
<1> QED BY <1>1, LayoutAssumption DEF IsUuid

\* The flip of a HeerId's bits is a HeerId's bits, and gives them back.
LEMMA HeerFlipTwice ==
  ASSUME NEW n \in 0 .. WordEnd - 1
  PROVE  HeerFlip(n) \in 0 .. WordEnd - 1 /\ HeerFlip(HeerFlip(n)) = n
<1>0. WordEnd \in Int /\ WordEnd = HeerTicks * HeerNodes * HeerSeqs
  BY LayoutAssumption DEF WordEnd
<1> DEFINE p == HeerFields(n)
<1>1. p \in HeerParts /\ HeerRaw(p) = n
  BY <1>0, HeerSplit
<1> HIDE DEF p
<1>2. /\ Mirrored(p) \in HeerParts /\ Mirrored(Mirrored(p)) = p
      /\ HeerFlip(n) = HeerRaw(Mirrored(p))
  BY <1>1, MirroredType
<1>3. HeerFlip(HeerRaw(Mirrored(p))) = HeerRaw(p)
  BY <1>2, MirroredType
<1> DEFINE f == HeerRaw(Mirrored(p))
<1>4. f \in Nat /\ HeerFields(f) \in HeerParts /\ HeerRaw(HeerFields(f)) = f
  BY <1>2, HeerFieldsOfRaw
<1> HIDE DEF f
<1>5. f < WordEnd
  BY <1>0, <1>4, HeerSplit
<1> QED BY <1>0, <1>1, <1>2, <1>3, <1>4, <1>5 DEF f

\* An identifier that is created has the fields it was given (new of the four types).
LEMMA CreatedMeaning ==
  ASSUME NEW k \in Kinds, NEW p, NEW v \in New(k, p)
  PROVE  /\ k \in HeerKinds => v \in 0 .. WordEnd - 1 /\ HeerMeaning(k, v) = p
         /\ k \in RanjKinds => IsUuid(v) /\ IsRanjId(v) /\ RanjMeaning(k, v) = p
<1>1. CASE k \in HeerKinds
  <2>1. p \in HeerParts /\ v = IF k = "HeerId" THEN HeerRaw(p) ELSE HeerFlip(HeerRaw(p))
    BY <1>1 DEF HeerKinds, New, NewHeer, NewHeerDesc
  <2>2. HeerRaw(p) \in Nat /\ HeerFields(HeerRaw(p)) = p
    BY <2>1, HeerFieldsOfRaw
  <2>3. HeerRaw(p) \in 0 .. WordEnd - 1
    <3>1. HeerRaw(p) < WordEnd
      BY <2>1, <2>2, HeerSplit DEF WordEnd
    <3> QED BY <2>2, <3>1, LayoutAssumption DEF WordEnd
  <2>4. /\ HeerFlip(HeerRaw(p)) \in 0 .. WordEnd - 1
        /\ HeerFlip(HeerFlip(HeerRaw(p))) = HeerRaw(p)
    BY <2>3, HeerFlipTwice
  <2> QED BY <1>1, <2>1, <2>2, <2>3, <2>4, HeerKindsOnly DEF HeerMeaning
<1>2. CASE k \in RanjKinds
  <2>1. p \in RanjParts /\ v = IF k = "RanjId" THEN RanjRaw(p) ELSE RanjFlip(RanjRaw(p))
    BY <1>2 DEF RanjKinds, New, NewRanj, NewRanjDesc
  <2>2. IsUuid(RanjRaw(p)) /\ IsRanjId(RanjRaw(p)) /\ RanjFields(RanjRaw(p)) = p
    BY <2>1, RanjRawIsUuid, RanjFieldsOfRaw
  <2>3. /\ IsUuid(RanjFlip(RanjRaw(p))) /\ IsRanjId(RanjFlip(RanjRaw(p)))
        /\ RanjFlip(RanjFlip(RanjRaw(p))) = RanjRaw(p)
    BY <2>2, UuidFlipTwice
  <2> QED BY <1>2, <2>1, <2>2, <2>3, HeerKindsOnly DEF RanjMeaning
<1> QED BY <1>1, <1>2 DEF Kinds

\* What a boundary writes has the raw value, in a form that keeps it.
LEMMA WrittenForm ==
  ASSUME NEW b \in Boundaries, NEW k \in Kinds, NEW v, NEW w \in Writing(b, k, v)
  PROVE  /\ w.value = v
         /\ k \in HeerKinds => w.form \in {"digits", "word", "integer"}
         /\ k \in RanjKinds => w.form \in {"hex", "uuid"}
<1> USE HeerKindsOnly DEF Display, Inner, HeerText, RanjText
<1>1. CASE b = "serde"
  BY <1>1 DEF Writing, SerdeWrites
<1>2. CASE b = "tokio"
  BY <1>2 DEF Writing, TokioWrites
<1>3. CASE b = "sqlx"
  BY <1>3 DEF Writing, SqlxWrites
<1>4. CASE b = "python"
  BY <1>4 DEF Writing, PythonWrites
<1>5. CASE b = "node"
  BY <1>5 DEF Writing, NodeWrites, HeerKinds, RanjKinds
<1>6. CASE b = "c"
  BY <1>6 DEF Writing, CWrites
<1> QED BY <1>1, <1>2, <1>3, <1>4, <1>5, <1>6 DEF Boundaries

\* What a boundary reads is the value that came, if that is one of the type.
LEMMA ReadValue ==
  ASSUME NEW b \in Boundaries, NEW k \in Kinds, NEW w,
         w.form \in {"digits", "number", "integer"} => w.value \in Int,
         w.form = "word" => IsWord(w.value),
         NEW v \in Reading(b, k, w)
  PROVE  /\ v = w.value
         /\ k \in HeerKinds => v \in 0 .. WordEnd - 1
         /\ k \in RanjKinds => w.form \in {"hex", "uuid"} /\ IsRanjId(v)
<1>1. CASE k \in HeerKinds
  <2>1. v = w.value /\ v >= 0 /\ IsWord(w.value)
    <3> USE <1>1, HeerKindsOnly DEF HeerFromStr, FromI64, Inner
    <3>1. CASE b = "serde"
      BY <3>1 DEF Reading, SerdeReadsHeer
    <3>2. CASE b = "tokio"
      BY <3>2 DEF Reading, TokioReads
    <3>3. CASE b = "sqlx"
      BY <3>3 DEF Reading, SqlxReads
    <3>4. CASE b = "python"
      BY <3>4 DEF Reading, PythonReadsHeer
    <3>5. CASE b = "node"
      BY <3>5 DEF Reading, NodeReadsHeer, HeerKinds
    <3>6. CASE b = "c"
      BY <3>6 DEF Reading, CReadsHeer, HeerKinds
    <3> QED BY <3>1, <3>2, <3>3, <3>4, <3>5, <3>6 DEF Boundaries
  <2>2. WordEnd \in Int
    BY LayoutAssumption DEF WordEnd
  <2> QED BY <1>1, <2>1, <2>2, HeerKindsOnly DEF IsWord
<1>2. CASE k \in RanjKinds
  <2> USE <1>2, HeerKindsOnly DEF RanjFromStr, FromUuid, Inner
  <2>1. CASE b = "serde"
    BY <2>1 DEF Reading, SerdeReadsRanj
  <2>2. CASE b = "tokio"
    BY <2>2 DEF Reading, TokioReads
  <2>3. CASE b = "sqlx"
    BY <2>3 DEF Reading, SqlxReads
  <2>4. CASE b = "python"
    BY <2>4 DEF Reading, PythonReadsRanj
  <2>5. CASE b = "node"
    BY <2>5 DEF Reading, NodeReadsRanj, RanjKinds
  <2>6. CASE b = "c"
    BY <2>6 DEF Reading, CReadsRanj, RanjKinds
  <2> QED BY <2>1, <2>2, <2>3, <2>4, <2>5, <2>6 DEF Boundaries
<1> QED BY <1>1, <1>2, HeerKindsOnly

LEMMA WireInitInv == WireInit => WireInv
  BY HeerKindsOnly DEF WireInit, WireInv, HoldsMeaning, Nothing

LEMMA WireStep == WireInv /\ [WireNext]_wireVars => WireInv'
<1> SUFFICES ASSUME WireInv, [WireNext]_wireVars PROVE WireInv'
  OBVIOUS
<1>1. CASE UNCHANGED wireVars
  BY <1>1 DEF WireInv, HoldsMeaning, wireVars
<1>2. ASSUME NEW k \in Kinds, NEW p, Create(k, p) PROVE WireInv'
  <2>1. /\ \E v \in New(k, p) : raw' = v
        /\ kind' = k /\ meant' = p /\ wire' = Nothing /\ sentAs' = sentAs /\ wire = Nothing
    BY <1>2 DEF Create, Idle
  <2>2. sentAs = "none"
    BY <2>1 DEF WireInv, Nothing, Kinds, HeerKinds, RanjKinds
  <2>3. HoldsMeaning(kind, raw)'
    BY <2>1, CreatedMeaning DEF HoldsMeaning
  <2> QED BY <2>1, <2>2, <2>3, HeerKindsOnly DEF WireInv, HoldsMeaning, Nothing
<1>3. ASSUME NEW k \in Kinds, Placeholder(k) PROVE WireInv'
  <2>1. /\ k \in RanjKinds /\ kind' = k /\ raw' = 0 /\ meant' = Unsaved
        /\ wire' = Nothing /\ sentAs' = sentAs /\ wire = Nothing
    BY <1>3 DEF Placeholder, Idle
  <2>2. sentAs = "none"
    BY <2>1 DEF WireInv, Nothing, Kinds, HeerKinds, RanjKinds
  <2> QED BY <2>1, <2>2, HeerKindsOnly, ZeroIsUuid, WireAssumption DEF WireInv, HoldsMeaning, Nothing
<1>4. ASSUME NEW w \in Arrivals, Arrive(w) PROVE WireInv'
  BY <1>4, HeerKindsOnly, WireAssumption DEF Arrive, Idle, WireInv, HoldsMeaning
<1>5. CASE TurnAround
  <2>1. /\ kind \in Kinds /\ wire' = wire /\ sentAs' = sentAs /\ meant' = meant
        /\ kind \in HeerKinds => kind' = HeerReversed(kind) /\ raw' = HeerFlip(raw)
        /\ kind \in RanjKinds => kind' = RanjReversed(kind) /\ raw' = RanjFlip(raw)
    BY <1>5, HeerKindsOnly DEF TurnAround, WireInv
  <2>2. kind' \in Kinds /\ HoldsMeaning(kind, raw)'
    <3>1. CASE kind \in HeerKinds
      <4>1. raw \in 0 .. WordEnd - 1 /\ HeerMeaning(kind, raw) = meant
        BY <3>1 DEF WireInv, HoldsMeaning
      <4>2. raw' \in 0 .. WordEnd - 1 /\ HeerFlip(raw') = raw /\ raw' = HeerFlip(raw)
        BY <2>1, <3>1, <4>1, HeerFlipTwice
      <4>3. kind' \in HeerKinds /\ HeerMeaning(kind', raw') = HeerMeaning(kind, raw)
        BY <2>1, <3>1, <4>2 DEF HeerReversed, HeerMeaning, HeerKinds
      <4> QED BY <2>1, <4>1, <4>2, <4>3, HeerKindsOnly DEF HoldsMeaning
    <3>2. CASE kind \in RanjKinds
      <4>1. /\ IsUuid(raw) /\ (IsRanjId(raw) => RanjMeaning(kind, raw) = meant)
            /\ ~IsRanjId(raw) => meant = Unsaved
        BY <3>2 DEF WireInv, HoldsMeaning
      <4>2. /\ raw' = RanjFlip(raw) /\ IsUuid(raw') /\ RanjFlip(raw') = raw
            /\ IsRanjId(raw') <=> IsRanjId(raw)
        BY <2>1, <3>2, <4>1, UuidFlipTwice
      <4>3. kind' \in RanjKinds /\ RanjMeaning(kind', raw') = RanjMeaning(kind, raw)
        BY <2>1, <3>2, <4>2 DEF RanjReversed, RanjMeaning, RanjKinds
      <4> QED BY <2>1, <4>1, <4>2, <4>3, HeerKindsOnly DEF HoldsMeaning
    <3> QED BY <2>1, <3>1, <3>2, HeerKindsOnly
  <2>3. wire = Nothing
    BY <2>1, HeerKindsOnly DEF WireInv
  <2> QED BY <2>1, <2>2, <2>3 DEF WireInv, HoldsMeaning
<1>6. ASSUME NEW b \in Boundaries, Send(b) PROVE WireInv'
  <2>1. /\ kind \in Kinds /\ wire' \in Writing(b, kind, raw)
        /\ sentAs' = kind /\ kind' = "none" /\ meant' = meant
    BY <1>6 DEF Send, WireInv
  <2>2. /\ wire'.value = raw
        /\ kind \in HeerKinds => wire'.form \in {"digits", "word", "integer"}
        /\ kind \in RanjKinds => wire'.form \in {"hex", "uuid"}
    BY <2>1, WrittenForm
  <2>3. HoldsMeaning(sentAs, wire.value)'
    BY <2>1, <2>2 DEF WireInv, HoldsMeaning
  <2>4. /\ kind \in HeerKinds => wire'.value \in 0 .. WordEnd - 1
        /\ kind \in RanjKinds => IsUuid(wire'.value)
    BY <2>2 DEF WireInv, HoldsMeaning
  <2>5. \A n \in 0 .. WordEnd - 1 : n \in Int /\ IsWord(n)
    BY LayoutAssumption DEF IsWord, WordEnd
  <2>6. kind \in HeerKinds \/ kind \in RanjKinds
    BY <2>1, HeerKindsOnly
  <2> QED BY <2>1, <2>2, <2>3, <2>4, <2>5, <2>6, HeerKindsOnly DEF WireInv, HoldsMeaning
<1>7. CASE ThroughJavaScript
  <2>1. /\ wire.form = "number" /\ wire.value \in Int
        /\ wire' = [wire EXCEPT !.value = 2 * (wire.value \div 2)]
        /\ kind' = kind /\ raw' = raw /\ meant' = meant /\ sentAs' = sentAs
    BY <1>7 DEF ThroughJavaScript, WireInv
  <2>2. sentAs = "none" /\ kind = "none"
    BY <2>1, HeerKindsOnly DEF WireInv, Nothing
  <2>3. wire'.form = "number" /\ wire'.value \in Int
    BY <2>1
  <2> QED BY <2>1, <2>2, <2>3, HeerKindsOnly DEF WireInv, HoldsMeaning
<1>8. ASSUME NEW b \in Boundaries, NEW k \in Kinds, Receive(b, k) PROVE WireInv'
  <2>1. /\ raw' \in Reading(b, k, wire) /\ kind' = k
        /\ meant' = IF sentAs = k /\ meant # Unsaved THEN meant ELSE Meaning(k, wire.value)
        /\ wire' = Nothing /\ sentAs' = "none"
    BY <1>8 DEF Receive
  <2>2. /\ raw' = wire.value
        /\ k \in HeerKinds => raw' \in 0 .. WordEnd - 1
        /\ k \in RanjKinds => IsUuid(wire.value) /\ IsRanjId(raw')
    BY <2>1, ReadValue DEF WireInv
  <2>3. Meaning(k, wire.value) = IF k \in HeerKinds THEN HeerMeaning(k, wire.value) ELSE RanjMeaning(k, wire.value)
    BY DEF Meaning
  <2>4. sentAs = k => meant = Meaning(k, wire.value)
    BY <2>2, <2>3, HeerKindsOnly DEF WireInv, HoldsMeaning
  <2>5. HoldsMeaning(kind, raw)'
    BY <2>1, <2>2, <2>3, <2>4, HeerKindsOnly DEF HoldsMeaning
  <2> QED BY <2>1, <2>5, HeerKindsOnly DEF WireInv, HoldsMeaning, Nothing
<1>9. ASSUME NEW b \in Boundaries, NEW k \in Kinds, Refuse(b, k) PROVE WireInv'
  BY <1>9, HeerKindsOnly DEF Refuse, WireInv, HoldsMeaning, Nothing
<1> QED
  BY <1>1, <1>2, <1>3, <1>4, <1>5, <1>6, <1>7, <1>8, <1>9, HeerKindsOnly DEF WireNext, Over

\* However an identifier travels: through any of the library's boundaries, in any form, turned
\* around in between and in whatever order, what a program holds has the fields it was made of,
\* or those of the number or UUID that arrived, and everything else is refused.
THEOREM Lossless == WireSpec => []LosslessOrRefused
<1>1. WireInv => LosslessOrRefused
  BY DEF WireInv, HoldsMeaning, LosslessOrRefused
<1> QED BY <1>1, WireInitInv, WireStep, PTL DEF WireSpec

-----------------------------------------------------------------------------
(* The C functions. *)

\* Why the report is the thread's own: its slot always holds its own latest failure.
SlotsAreOwn ==
  /\ lastError = [t \in Callers |-> lastError[t]]
  /\ reported = [t \in Callers |-> reported[t]]
  /\ failure = lastError

\* The inductive invariant.
FfiInv == SlotsAreOwn /\ ErrorIsOwn

\* A call changes the failure and the slot of its own thread alone, and alike: set_last_error
\* of heeranjid-ffi writes a thread_local.
LEMMA CallKeepsFfiInv ==
  ASSUME FfiInv, NEW t \in Callers, NEW error, Call(t, error)
  PROVE  FfiInv'
<1>1. SlotsAreOwn'
  <2>1. CASE error = ""
    BY <2>1 DEF FfiInv, SlotsAreOwn, Call
  <2>2. CASE error # ""
    BY <2>2 DEF FfiInv, SlotsAreOwn, Call, Slot
  <2> QED BY <2>1, <2>2
<1>2. ErrorIsOwn'
  <2> SUFFICES ASSUME NEW u \in Callers, reported'[u] # "nothing yet"
               PROVE  reported'[u] = failure'[u]
    BY DEF ErrorIsOwn
  <2>1. u # t
    BY DEF FfiInv, SlotsAreOwn, Call
  <2>2. reported'[u] = reported[u] /\ failure'[u] = failure[u]
    BY <2>1 DEF FfiInv, SlotsAreOwn, Call
  <2> QED BY <2>2 DEF FfiInv, ErrorIsOwn
<1> QED BY <1>1, <1>2 DEF FfiInv

\* heer_last_error reads the slot and changes nothing another thread sees.
LEMMA LastErrorKeepsFfiInv ==
  ASSUME FfiInv, NEW t \in Callers, LastError(t)
  PROVE  FfiInv'
<1>1. SlotsAreOwn'
  BY DEF FfiInv, SlotsAreOwn, LastError, Slot
<1>2. ErrorIsOwn'
  <2> SUFFICES ASSUME NEW u \in Callers, reported'[u] # "nothing yet"
               PROVE  reported'[u] = failure'[u]
    BY DEF ErrorIsOwn
  <2>1. CASE u = t
    BY <2>1 DEF FfiInv, SlotsAreOwn, LastError, Slot
  <2>2. CASE u # t
    BY <2>2 DEF FfiInv, SlotsAreOwn, ErrorIsOwn, LastError
  <2> QED BY <2>1, <2>2
<1> QED BY <1>1, <1>2 DEF FfiInv

\* Each function of heeranjid-ffi is such a call.
LEMMA FfiStep == FfiInv /\ [FfiNext]_ffiVars => FfiInv'
<1> SUFFICES ASSUME FfiInv, [FfiNext]_ffiVars PROVE FfiInv'
  OBVIOUS
<1>1. CASE UNCHANGED ffiVars
  BY <1>1 DEF FfiInv, SlotsAreOwn, ErrorIsOwn, ffiVars
<1>2. ASSUME NEW t \in Callers, CallHeer(t) PROVE FfiInv'
  <2> PICK null \in BOOLEAN, buffer \in Buffers :
        \/ \E n \in Words : Call(t, HeerDecodeError(n)) \/ Call(t, HeerToStringError(n, buffer))
        \/ \E w \in Strings : Call(t, HeerFromStringError(null, w))
    BY <1>2 DEF CallHeer
  <2>1. \E error : Call(t, error)
    OBVIOUS
  <2> QED BY <2>1, CallKeepsFfiInv
<1>3. ASSUME NEW t \in Callers, CallRanj(t) PROVE FfiInv'
  <2> PICK null \in BOOLEAN, buffer \in Buffers :
        \/ \E u \in Structs : Call(t, RanjDecodeError(null, u)) \/ Call(t, RanjToStringError(null, u, buffer))
        \/ \E w \in Strings : Call(t, RanjFromStringError(null, w))
    BY <1>3 DEF CallRanj
  <2>1. \E error : Call(t, error)
    OBVIOUS
  <2> QED BY <2>1, CallKeepsFfiInv
<1>4. ASSUME NEW t \in Callers, LastError(t) PROVE FfiInv'
  BY <1>4, LastErrorKeepsFfiInv
<1> QED BY <1>1, <1>2, <1>3, <1>4 DEF FfiNext

\* For any threads and any calls: a thread that asks is told its own latest failure.
THEOREM OwnErrors == FfiSpec => []ErrorIsOwn
<1>1. FfiInit => FfiInv
  BY DEF FfiInit, FfiInv, SlotsAreOwn, ErrorIsOwn
<1>2. FfiInv => ErrorIsOwn
  BY DEF FfiInv
<1> QED BY <1>1, <1>2, FfiStep, PTL DEF FfiSpec

-----------------------------------------------------------------------------
(* The conversion of a batch: sorting. *)

\* How many elements of D come before x in the order R.
Rank(D, R, x) == Cardinality({y \in D : <<y, x>> \in R})

\* Ranks run from 0, in the order, and none is left out.
LEMMA Ranks ==
  ASSUME NEW D, IsFiniteSet(D), NEW R,
         \A x, y \in D : x = y \/ <<x, y>> \in R \/ <<y, x>> \in R,
         \A x \in D : <<x, x>> \notin R,
         \A x, y, z \in D : <<x, y>> \in R /\ <<y, z>> \in R => <<x, z>> \in R
  PROVE  /\ Cardinality(D) \in Nat
         /\ \A x \in D : Rank(D, R, x) \in 0 .. Cardinality(D) - 1
         /\ \A x, y \in D : <<x, y>> \in R <=> Rank(D, R, x) < Rank(D, R, y)
         /\ \A x, y \in D : Rank(D, R, x) = Rank(D, R, y) => x = y
         /\ \A k \in 0 .. Cardinality(D) - 1 : \E x \in D : Rank(D, R, x) = k
<1> DEFINE Below(x) == {y \in D : <<y, x>> \in R}
<1>1. \A x \in D : IsFiniteSet(Below(x)) /\ Cardinality(Below(x)) \in Nat
  BY FS_Subset, FS_CardinalityType
<1>2. Cardinality(D) \in Nat
  BY FS_CardinalityType
<1>3. ASSUME NEW x \in D, NEW y \in D, <<x, y>> \in R
      PROVE  Cardinality(Below(x)) < Cardinality(Below(y))
  <2>1. Below(x) \subseteq Below(y) /\ x \in Below(y) /\ x \notin Below(x)
    BY <1>3
  <2>2. Cardinality(Below(x)) <= Cardinality(Below(y)) /\ Cardinality(Below(x)) # Cardinality(Below(y))
    BY <1>1, <2>1, FS_Subset
  <2> QED BY <1>1, <2>2
<1>4. ASSUME NEW x \in D PROVE Cardinality(Below(x)) \in 0 .. Cardinality(D) - 1
  <2>1. Below(x) \subseteq D /\ x \notin Below(x)
    OBVIOUS
  <2>2. Cardinality(Below(x)) <= Cardinality(D) /\ Cardinality(Below(x)) # Cardinality(D)
    BY <2>1, FS_Subset
  <2> QED BY <1>1, <1>2, <2>2
<1> DEFINE rank == [x \in D |-> Cardinality(Below(x))]
<1>5. rank \in [D -> 0 .. Cardinality(D) - 1] /\ \A x, y \in D : rank[x] = rank[y] => x = y
  <2>1. rank \in [D -> 0 .. Cardinality(D) - 1]
    BY <1>4
  <2>2. ASSUME NEW x \in D, NEW y \in D, rank[x] = rank[y] PROVE x = y
    <3> HIDE DEF Below
    <3>1. ~(Cardinality(Below(x)) < Cardinality(Below(y))) /\ ~(Cardinality(Below(y)) < Cardinality(Below(x)))
      BY <1>1, <2>2
    <3> QED BY <1>3, <3>1
  <2> QED BY <2>1, <2>2
<1>6. rank \in Injection(D, 0 .. Cardinality(D) - 1)
  <2> HIDE DEF rank
  <2> QED BY <1>5, Fun_IsInj
<1>7. /\ IsFiniteSet(0 .. Cardinality(D) - 1)
      /\ Cardinality(0 .. Cardinality(D) - 1) = Cardinality(D)
  <2>1. /\ IsFiniteSet(0 .. Cardinality(D) - 1)
        /\ Cardinality(0 .. Cardinality(D) - 1) =
             IF 0 > Cardinality(D) - 1 THEN 0 ELSE (Cardinality(D) - 1) - 0 + 1
    BY <1>2, FS_Interval, SMTT(30)
  <2> QED BY <1>2, <2>1
<1>8. \A k \in 0 .. Cardinality(D) - 1 : \E x \in D : rank[x] = k
  <2> HIDE DEF rank
  <2>1. rank \in Surjection(D, 0 .. Cardinality(D) - 1)
    BY <1>6, <1>7, FS_Injection
  <2> QED BY <2>1 DEF Surjection
<1>9. \A x \in D : rank[x] = Rank(D, R, x)
  BY DEF Rank
<1>10. ASSUME NEW x \in D, NEW y \in D PROVE <<x, y>> \in R <=> rank[x] < rank[y]
  <2>1. <<x, y>> \in R => rank[x] < rank[y]
    BY <1>3
  <2>2. <<y, x>> \in R => rank[y] < rank[x]
    BY <1>3
  <2> HIDE DEF rank
  <2>3. rank[x] \in Int /\ rank[y] \in Int
    BY <1>2, <1>5
  <2> QED BY <2>1, <2>2, <2>3
<1> HIDE DEF rank
<1> QED BY <1>2, <1>5, <1>8, <1>9, <1>10

\* f maps D one-to-one onto E and keeps the order.
SameOrder(f, D, R, E, Q) ==
  /\ f \in [D -> E]
  /\ \A z \in E : \E x \in D : f[x] = z
  /\ \A x, y \in D : f[x] = f[y] => x = y
  /\ \A x, y \in D : <<x, y>> \in R <=> <<f[x], f[y]>> \in Q

\* It keeps the ranks.
LEMMA SameRanks ==
  ASSUME NEW D, IsFiniteSet(D), NEW R, NEW E, NEW Q, NEW f, SameOrder(f, D, R, E, Q), NEW x \in D
  PROVE  Rank(E, Q, f[x]) = Rank(D, R, x)
<1> USE DEF SameOrder
<1> DEFINE A == {y \in D : <<y, x>> \in R}
           B == {z \in E : <<z, f[x]>> \in Q}
           g == [y \in A |-> f[y]]
<1>1. IsFiniteSet(A)
  BY FS_Subset
<1>2. g \in [A -> B] /\ (\A y, z \in A : g[y] = g[z] => y = z) /\ \A z \in B : \E y \in A : g[y] = z
  OBVIOUS
<1>3. ExistsBijection(A, B)
  <2> HIDE DEF A, B, g
  <2>1. g \in Bijection(A, B)
    BY <1>2, Fun_IsBij
  <2> QED BY <2>1 DEF ExistsBijection
<1> HIDE DEF A, B
<1>4. Cardinality(B) = Cardinality(A)
  BY <1>1, <1>3, FS_Bijection
<1> QED BY <1>4 DEF Rank, A, B

\* The order of a stable sort.
Stable(keys) == {p \in (DOMAIN keys) \X (DOMAIN keys) : Precedes(keys, p[1], p[2])}

LEMMA StableOrder ==
  ASSUME NEW n \in Nat, NEW keys \in [1 .. n -> Int]
  PROVE  /\ \A i, j \in 1 .. n : <<i, j>> \in Stable(keys) <=> Precedes(keys, i, j)
         /\ \A i, j \in 1 .. n : i = j \/ <<i, j>> \in Stable(keys) \/ <<j, i>> \in Stable(keys)
         /\ \A i \in 1 .. n : <<i, i>> \notin Stable(keys)
         /\ \A i, j, k \in 1 .. n :
              <<i, j>> \in Stable(keys) /\ <<j, k>> \in Stable(keys) => <<i, k>> \in Stable(keys)
<1>1. \A i, j \in 1 .. n : <<i, j>> \in Stable(keys) <=> Precedes(keys, i, j)
  BY DEF Stable
<1>2. \A i \in 1 .. n : keys[i] \in Int /\ i \in Int
  OBVIOUS
<1> QED BY <1>1, <1>2 DEF Precedes

\* SortOrder lists every index once, in the stable order.
LEMMA Sorting ==
  ASSUME NEW n \in Nat, NEW keys \in [1 .. n -> Int]
  PROVE  /\ SortOrder(keys) \in [1 .. n -> 1 .. n]
         /\ \A i \in 1 .. n : \E k \in 1 .. n : SortOrder(keys)[k] = i
         /\ \A k \in 1 .. n : Rank(1 .. n, Stable(keys), SortOrder(keys)[k]) = k - 1
         /\ \A k, l \in 1 .. n : SortOrder(keys)[k] = SortOrder(keys)[l] => k = l
         /\ \A k, l \in 1 .. n : Precedes(keys, SortOrder(keys)[k], SortOrder(keys)[l]) <=> k < l
<1> DEFINE order == SortOrder(keys)
           R == Stable(keys)
<1>1. IsFiniteSet(1 .. n) /\ Cardinality(1 .. n) = n
  <2>1. /\ IsFiniteSet(1 .. n)
        /\ Cardinality(1 .. n) = IF 1 > n THEN 0 ELSE n - 1 + 1
    BY FS_Interval
  <2> QED BY <2>1
<1>2. /\ \A i \in 1 .. n : Rank(1 .. n, R, i) \in 0 .. n - 1
      /\ \A i, j \in 1 .. n : <<i, j>> \in R <=> Rank(1 .. n, R, i) < Rank(1 .. n, R, j)
      /\ \A i, j \in 1 .. n : Rank(1 .. n, R, i) = Rank(1 .. n, R, j) => i = j
      /\ \A k \in 0 .. n - 1 : \E i \in 1 .. n : Rank(1 .. n, R, i) = k
  <2> HIDE DEF R
  <2>1. /\ \A x, y \in 1 .. n : x = y \/ <<x, y>> \in R \/ <<y, x>> \in R
        /\ \A x \in 1 .. n : <<x, x>> \notin R
        /\ \A x, y, z \in 1 .. n : <<x, y>> \in R /\ <<y, z>> \in R => <<x, z>> \in R
    BY StableOrder DEF R
  <2>2. /\ \A x \in 1 .. n : Rank(1 .. n, R, x) \in 0 .. Cardinality(1 .. n) - 1
        /\ \A x, y \in 1 .. n : <<x, y>> \in R <=> Rank(1 .. n, R, x) < Rank(1 .. n, R, y)
        /\ \A x, y \in 1 .. n : Rank(1 .. n, R, x) = Rank(1 .. n, R, y) => x = y
        /\ \A k \in 0 .. Cardinality(1 .. n) - 1 : \E x \in 1 .. n : Rank(1 .. n, R, x) = k
    BY <1>1, <2>1, Ranks
  <2> QED BY <1>1, <2>2
<1> DEFINE before(i) == {j \in DOMAIN keys : Precedes(keys, j, i)}
<1>3. DOMAIN keys = 1 .. n /\ \A i \in 1 .. n : Cardinality(before(i)) = Rank(1 .. n, R, i)
  <2> SUFFICES ASSUME NEW i \in 1 .. n PROVE Cardinality(before(i)) = Rank(1 .. n, R, i)
    OBVIOUS
  <2>1. before(i) = {j \in 1 .. n : <<j, i>> \in R}
    BY StableOrder
  <2> QED BY <2>1 DEF Rank
<1>4. order = [k \in DOMAIN keys |-> CHOOSE i \in DOMAIN keys : Cardinality(before(i)) = k - 1]
  BY DEF SortOrder
<1> HIDE DEF order, R, before
<1>5. ASSUME NEW k \in 1 .. n PROVE order[k] \in 1 .. n /\ Rank(1 .. n, R, order[k]) = k - 1
  <2>1. k - 1 \in 0 .. n - 1
    OBVIOUS
  <2>2. PICK x \in DOMAIN keys : Rank(1 .. n, R, x) = k - 1
    BY <1>2, <1>3, <2>1
  <2>3. \E y \in DOMAIN keys : Cardinality(before(y)) = k - 1
    BY <1>3, <2>2
  <2>4. order[k] \in DOMAIN keys /\ Cardinality(before(order[k])) = k - 1
    BY <1>3, <1>4, <2>3
  <2> QED BY <1>3, <2>4
<1>6. order \in [1 .. n -> 1 .. n]
  BY <1>4, <1>5
<1>7. ASSUME NEW i \in 1 .. n PROVE \E k \in 1 .. n : order[k] = i
  <2>1. Rank(1 .. n, R, i) \in 0 .. n - 1
    BY <1>2
  <2>2. Rank(1 .. n, R, i) + 1 \in 1 .. n
    BY <2>1
  <2>3. Rank(1 .. n, R, order[Rank(1 .. n, R, i) + 1]) = Rank(1 .. n, R, i)
    BY <1>5, <2>1, <2>2
  <2> QED BY <1>2, <1>6, <2>2, <2>3
<1>8. ASSUME NEW k \in 1 .. n, NEW l \in 1 .. n PROVE <<order[k], order[l]>> \in R <=> k < l
  <2>1. /\ order[k] \in 1 .. n /\ Rank(1 .. n, R, order[k]) = k - 1
        /\ order[l] \in 1 .. n /\ Rank(1 .. n, R, order[l]) = l - 1
    BY <1>5
  <2>2. <<order[k], order[l]>> \in R <=> Rank(1 .. n, R, order[k]) < Rank(1 .. n, R, order[l])
    BY <1>2, <2>1, Zenon
  <2>3. <<order[k], order[l]>> \in R <=> k - 1 < l - 1
    BY <2>1, <2>2, Zenon
  <2> QED BY <2>3
<1>9. \A k, l \in 1 .. n : order[k] = order[l] => k = l
  BY <1>5
<1>10. \A k, l \in 1 .. n : Precedes(keys, order[k], order[l]) <=> k < l
  BY <1>5, <1>8, StableOrder DEF R
<1> QED BY <1>5, <1>6, <1>7, <1>9, <1>10 DEF order, R

-----------------------------------------------------------------------------
(* The conversion of a batch: what the groups become. *)

RawRanjs == {u \in Nat : IsUuid(u) /\ IsRanjId(u)}

\* The members of one group, and the number one of them gets.
Peers(s, i) == {j \in DOMAIN s : Key(s[j]) = Key(s[i])}
Number(s, i) == Cardinality({j \in Peers(s, i) : Precedes(s, j, i)})

PartsOf(s, i) == [ts |-> Millisecond(s[i]), node |-> RanjFields(s[i]).node, seq |-> Number(s, i)]
Pairs == [ranj : RawRanjs, heer : Int]
Pair(s, i) == [ranj |-> s[i], heer |-> HeerRaw(PartsOf(s, i))]

LEMMA BatchType ==
  ASSUME NEW s \in Seq(RawRanjs)
  PROVE  /\ Len(s) \in Nat /\ DOMAIN s = 1 .. Len(s)
         /\ s \in [1 .. Len(s) -> Int] /\ s \in [1 .. Len(s) -> RawRanjs]
         /\ IsFiniteSet(1 .. Len(s)) /\ Cardinality(1 .. Len(s)) = Len(s)
<1>1. /\ IsFiniteSet(1 .. Len(s))
      /\ Cardinality(1 .. Len(s)) = IF 1 > Len(s) THEN 0 ELSE Len(s) - 1 + 1
  BY FS_Interval
<1> QED BY <1>1 DEF RawRanjs

\* Numbers are given in the stable order of a group, each once, from 0.
LEMMA Numbering ==
  ASSUME NEW s \in Seq(RawRanjs), NEW i \in DOMAIN s
  PROVE  /\ IsFiniteSet(Peers(s, i)) /\ Cardinality(Peers(s, i)) \in Nat
         /\ Number(s, i) \in 0 .. Cardinality(Peers(s, i)) - 1
         /\ Number(s, i) = Rank(Peers(s, i), Stable(s), i)
         /\ \A j \in Peers(s, i) :
              /\ Number(s, i) < Number(s, j) <=> Precedes(s, i, j)
              /\ Number(s, j) < Number(s, i) <=> Precedes(s, j, i)
              /\ Number(s, i) = Number(s, j) => i = j
<1> DEFINE D == Peers(s, i)
           R == Stable(s)
<1>1. i \in D /\ D \subseteq 1 .. Len(s) /\ IsFiniteSet(D)
  BY BatchType, FS_Subset DEF Peers
<1>2. /\ \A j, k \in D : <<j, k>> \in R <=> Precedes(s, j, k)
      /\ \A x, y \in D : x = y \/ <<x, y>> \in R \/ <<y, x>> \in R
      /\ \A x \in D : <<x, x>> \notin R
      /\ \A x, y, z \in D : <<x, y>> \in R /\ <<y, z>> \in R => <<x, z>> \in R
  <2> HIDE DEF D, R
  <2>1. /\ \A j, k \in 1 .. Len(s) : <<j, k>> \in R <=> Precedes(s, j, k)
        /\ \A x, y \in 1 .. Len(s) : x = y \/ <<x, y>> \in R \/ <<y, x>> \in R
        /\ \A x \in 1 .. Len(s) : <<x, x>> \notin R
        /\ \A x, y, z \in 1 .. Len(s) : <<x, y>> \in R /\ <<y, z>> \in R => <<x, z>> \in R
    BY BatchType, StableOrder DEF R
  <2> QED BY <1>1, <2>1
<1>3. \A j \in D : Peers(s, j) = D
  BY DEF Peers
<1>4. \A j \in D : Number(s, j) = Rank(D, R, j)
  <2> TAKE j \in D
  <2>1. {k \in Peers(s, j) : Precedes(s, k, j)} = {k \in D : <<k, j>> \in R}
    BY <1>2, <1>3
  <2> QED BY <2>1 DEF Number, Rank
<1> HIDE DEF D, R
<1>5. /\ Cardinality(D) \in Nat
      /\ \A x \in D : Rank(D, R, x) \in 0 .. Cardinality(D) - 1
      /\ \A x, y \in D : <<x, y>> \in R <=> Rank(D, R, x) < Rank(D, R, y)
      /\ \A x, y \in D : Rank(D, R, x) = Rank(D, R, y) => x = y
  BY <1>1, <1>2, Ranks
<1>6. /\ Number(s, i) \in 0 .. Cardinality(D) - 1
      /\ Number(s, i) = Rank(D, R, i)
  BY <1>1, <1>4, <1>5
<1>7. ASSUME NEW j \in D
      PROVE  /\ Number(s, i) < Number(s, j) <=> Precedes(s, i, j)
             /\ Number(s, j) < Number(s, i) <=> Precedes(s, j, i)
             /\ Number(s, i) = Number(s, j) => i = j
  <2>1. Number(s, i) = Rank(D, R, i) /\ Number(s, j) = Rank(D, R, j)
    BY <1>1, <1>4
  <2>2. /\ Rank(D, R, i) < Rank(D, R, j) <=> Precedes(s, i, j)
        /\ Rank(D, R, j) < Rank(D, R, i) <=> Precedes(s, j, i)
        /\ Rank(D, R, i) = Rank(D, R, j) => i = j
    BY <1>1, <1>2, <1>5, Zenon
  <2> QED BY <2>1, <2>2
<1> QED BY <1>1, <1>5, <1>6, <1>7 DEF D, R

\* The members of a group that were gathered before index n.
Arrived(s, n, key) == {i \in DOMAIN s : i < n /\ Key(s[i]) = key}

\* group holds the members that arrived, at the indices f, in the order of the batch.
Gathers(f, s, n, key, group) ==
  /\ f \in [1 .. Len(group) -> Arrived(s, n, key)]
  /\ \A i \in Arrived(s, n, key) : \E k \in 1 .. Len(group) : f[k] = i
  /\ \A k, l \in 1 .. Len(group) : k < l => f[k] < f[l]
  /\ \A k \in 1 .. Len(group) : group[k] = s[f[k]]

\* A group that was gathered in the order of the batch and then sorted is numbered so.
LEMMA GroupSorted ==
  ASSUME NEW s \in Seq(RawRanjs), NEW n \in Nat, n > Len(s), NEW key, NEW g \in Seq(RawRanjs), NEW f,
         Gathers(f, s, n, key, g)
  PROVE  /\ SortOrder(g) \in [1 .. Len(g) -> 1 .. Len(g)]
         /\ \A k \in 1 .. Len(g) :
              /\ SortedGroup(g)[k] = s[f[SortOrder(g)[k]]]
              /\ Number(s, f[SortOrder(g)[k]]) = k - 1
              /\ Renumbered(key, g)[k] = Pair(s, f[SortOrder(g)[k]])
         /\ Renumbered(key, g) \in Seq(Pairs)
         /\ Len(Renumbered(key, g)) = Len(g)
<1> DEFINE m == Len(g)
           o == SortOrder(g)
           P == {i \in DOMAIN s : Key(s[i]) = key}
<1>1. /\ m \in Nat /\ DOMAIN g = 1 .. m /\ g \in [1 .. m -> Int] /\ IsFiniteSet(1 .. m)
      /\ DOMAIN s = 1 .. Len(s) /\ s \in [1 .. Len(s) -> Int] /\ Len(s) \in Nat
  BY BatchType
<1>0. /\ f \in [1 .. m -> P]
      /\ \A i \in P : \E k \in 1 .. m : f[k] = i
      /\ \A k, l \in 1 .. m : k < l => f[k] < f[l]
      /\ \A k \in 1 .. m : g[k] = s[f[k]]
  <2>1. Arrived(s, n, key) = P
    BY <1>1 DEF Arrived
  <2> QED BY <2>1 DEF Gathers
<1>2. /\ o \in [1 .. m -> 1 .. m]
      /\ \A k \in 1 .. m : Rank(1 .. m, Stable(g), o[k]) = k - 1
  BY <1>1, Sorting
<1>3. ASSUME NEW k \in 1 .. m PROVE f[k] \in P /\ f[k] \in Int
  <2>1. f[k] \in P
    BY <1>0
  <2>2. f[k] \in DOMAIN s
    BY <2>1
  <2> QED BY <1>1, <2>1, <2>2
<1>4. ASSUME NEW k \in 1 .. m PROVE Number(s, f[k]) = Rank(1 .. m, Stable(g), k)
  <2>1. Peers(s, f[k]) = P /\ f[k] \in DOMAIN s
    BY <1>3 DEF Peers
  <2>2. Number(s, f[k]) = Rank(P, Stable(s), f[k])
    BY <2>1, Numbering
  <2>3. \A x, y \in 1 .. m : f[x] = f[y] => x = y
    BY <1>0, <1>1, <1>3
  <2>4. \A x, y \in 1 .. m : <<x, y>> \in Stable(g) <=> <<f[x], f[y]>> \in Stable(s)
    <3> TAKE x, y \in 1 .. m
    <3>1. <<x, y>> \in Stable(g) <=> Precedes(g, x, y)
      BY <1>1, StableOrder
    <3>2. <<f[x], f[y]>> \in Stable(s) <=> Precedes(s, f[x], f[y])
      BY <1>1, <1>3, StableOrder
    <3>3. g[x] = s[f[x]] /\ g[y] = s[f[y]] /\ (x < y <=> f[x] < f[y])
      BY <1>0, <1>1, <1>3
    <3> QED BY <3>1, <3>2, <3>3 DEF Precedes
  <2> HIDE DEF P
  <2>5. Rank(P, Stable(s), f[k]) = Rank(1 .. m, Stable(g), k)
    <3>1. f \in [1 .. m -> P] /\ \A z \in P : \E x \in 1 .. m : f[x] = z
      BY <1>0
    <3>2. SameOrder(f, 1 .. m, Stable(g), P, Stable(s))
      BY <2>3, <2>4, <3>1 DEF SameOrder
    <3> HIDE DEF m
    <3> QED BY <1>1, <3>2, SameRanks
  <2> QED BY <2>2, <2>5
<1>5. ASSUME NEW k \in 1 .. m
      PROVE  /\ SortedGroup(g)[k] = s[f[o[k]]]
             /\ Number(s, f[o[k]]) = k - 1
             /\ Renumbered(key, g)[k] = Pair(s, f[o[k]])
             /\ Renumbered(key, g)[k] \in Pairs
  <2>1. o[k] \in 1 .. m /\ f[o[k]] \in P
    BY <1>2, <1>3
  <2>2. Number(s, f[o[k]]) = k - 1
    BY <1>2, <1>4, <2>1
  <2>3. SortedGroup(g)[k] = s[f[o[k]]]
    BY <1>0, <1>1, <2>1 DEF SortedGroup
  <2>4. /\ key.ms = Millisecond(s[f[o[k]]]) /\ key.node = RanjFields(s[f[o[k]]]).node
        /\ s[f[o[k]]] \in RawRanjs
    BY <1>1, <2>1, BatchType DEF Key
  <2>5. Renumbered(key, g)[k] = Pair(s, f[o[k]])
    BY <2>2, <2>3, <2>4 DEF Renumbered, Pair, PartsOf
  <2>6. Pair(s, f[o[k]]) \in Pairs
    <3>1. PartsOf(s, f[o[k]]) \in [ts : Int, node : Int, seq : Int]
      <4>1. s[f[o[k]]] \in Nat /\ IsUuid(s[f[o[k]]]) /\ IsRanjId(s[f[o[k]]])
        BY <2>4 DEF RawRanjs
      <4>2. RanjFields(s[f[o[k]]]) \in RanjParts
        BY <4>1, RanjSplit
      <4>3. /\ RanjFields(s[f[o[k]]]).ts \in Int /\ RanjFields(s[f[o[k]]]).node \in Int
            /\ Millis[RanjFields(s[f[o[k]]]).precision] \in Nat \ {0}
        BY <4>2, LayoutAssumption DEF RanjParts
      <4> QED BY <2>2, <4>3 DEF PartsOf, Millisecond
    <3>2. HeerRaw(PartsOf(s, f[o[k]])) \in Int
      BY <3>1, LayoutAssumption DEF HeerRaw, Put
    <3> QED BY <2>4, <3>2 DEF Pair, Pairs
  <2> QED BY <2>2, <2>3, <2>5, <2>6
<1>6. Renumbered(key, g) = [k \in 1 .. m |-> Renumbered(key, g)[k]]
  BY DEF Renumbered
<1>7. /\ Renumbered(key, g) \in Seq(Pairs)
      /\ Len(Renumbered(key, g)) = m
  BY <1>1, <1>5, <1>6
<1> QED BY <1>2, <1>5, <1>7

LEMMA Interval ==
  ASSUME NEW n \in Nat
  PROVE  IsFiniteSet(1 .. n) /\ Cardinality(1 .. n) = n
<1>1. IsFiniteSet(1 .. n) /\ Cardinality(1 .. n) = IF 1 > n THEN 0 ELSE n - 1 + 1
  BY FS_Interval
<1> QED BY <1>1

LEMMA PrecedesOnce ==
  ASSUME NEW keys, NEW i \in Int, NEW j \in Int, keys[i] \in Int, keys[j] \in Int
  PROVE  Precedes(keys, i, j) => ~Precedes(keys, j, i) /\ i # j
BY DEF Precedes

\* Only one listing of all indices is in the stable order.
LEMMA OneOrder ==
  ASSUME NEW n \in Nat, NEW s \in [1 .. n -> Int], NEW e \in [1 .. n -> 1 .. n],
         \A i \in 1 .. n : \E k \in 1 .. n : e[k] = i,
         \A k, l \in 1 .. n : k < l => Precedes(s, e[k], e[l])
  PROVE  \A k \in 1 .. n : e[k] = SortOrder(s)[k]
<1> DEFINE D == 1 .. n
           Less == {p \in D \X D : p[1] < p[2]}
<1>1. \A k, l \in D : <<k, l>> \in Less <=> k < l
  OBVIOUS
<1>2. \A i \in D : s[i] \in Int /\ i \in Int
  OBVIOUS
<1>3. ASSUME NEW k \in D, NEW l \in D
      PROVE  /\ <<k, l>> \in Less <=> <<e[k], e[l]>> \in Stable(s)
             /\ e[k] = e[l] => k = l
  <2>1. <<e[k], e[l]>> \in Stable(s) <=> Precedes(s, e[k], e[l])
    BY StableOrder
  <2>2. /\ k < l => Precedes(s, e[k], e[l])
        /\ l < k => Precedes(s, e[l], e[k])
    OBVIOUS
  <2>3. e[k] \in D /\ e[l] \in D
    OBVIOUS
  <2>4. s[e[k]] \in Int /\ s[e[l]] \in Int /\ e[k] \in Int /\ e[l] \in Int
    BY <1>2, <2>3
  <2>5. Precedes(s, e[k], e[l]) => ~Precedes(s, e[l], e[k]) /\ e[k] # e[l]
    BY <2>4, PrecedesOnce, Zenon
  <2>6. Precedes(s, e[l], e[k]) => ~Precedes(s, e[k], e[l]) /\ e[k] # e[l]
    BY <2>4, PrecedesOnce, Zenon
  <2>7. <<k, l>> \in Less <=> k < l
    BY <1>1
  <2> HIDE DEF Less
  <2>8. CASE k < l
    BY <2>1, <2>2, <2>5, <2>7, <2>8, Zenon
  <2>9. CASE l < k
    <3>1. ~(k < l)
      BY <2>9
    <3> QED BY <2>1, <2>2, <2>6, <2>7, <2>9, <3>1, Zenon
  <2>10. CASE k = l
    <3>1. ~(k < l)
      BY <2>10
    <3> QED BY <2>1, <2>5, <2>7, <2>10, <3>1, Zenon
  <2>11. k < l \/ l < k \/ k = l
    OBVIOUS
  <2> QED BY <2>8, <2>9, <2>10, <2>11
<1>4. SameOrder(e, D, Less, D, Stable(s))
  BY <1>3 DEF SameOrder
<1>5. IsFiniteSet(D) /\ Cardinality(D) = n
  BY Interval
<1>6. ASSUME NEW k \in D PROVE Rank(D, Less, k) = k - 1
  <2>1. {y \in D : <<y, k>> \in Less} = 1 .. k - 1
    <3>1. \A y \in D : <<y, k>> \in Less <=> y < k
      BY <1>1
    <3>2. {y \in D : <<y, k>> \in Less} = {y \in D : y < k}
      <4> HIDE DEF Less, D
      <4> QED BY <3>1
    <3>3. {y \in D : y < k} = 1 .. k - 1
      BY SMTT(30)
    <3> QED BY <3>2, <3>3
  <2>2. Cardinality(1 .. k - 1) = IF 1 > k - 1 THEN 0 ELSE (k - 1) - 1 + 1
    BY FS_Interval
  <2>3. Cardinality(1 .. k - 1) = k - 1
    BY <2>2
  <2> QED BY <2>1, <2>3 DEF Rank
<1>7. ASSUME NEW k \in D PROVE Rank(D, Stable(s), e[k]) = k - 1
  <2> HIDE DEF D, Less
  <2>1. Rank(D, Stable(s), e[k]) = Rank(D, Less, k)
    <3>1. \A x \in D : Rank(D, Stable(s), e[x]) = Rank(D, Less, x)
      <4> HIDE DEF Less
      <4>1. IsFiniteSet(D) /\ SameOrder(e, D, Less, D, Stable(s))
        BY <1>4, <1>5
      <4> QED BY ONLY <4>1, SameRanks, SMTT(60)
    <3> QED BY <3>1, <1>7, Zenon
  <2>2. Rank(D, Less, k) = k - 1
    BY <1>6
  <2> QED BY <2>1, <2>2, Zenon
<1>8. ASSUME NEW k \in D PROVE SortOrder(s)[k] \in D /\ Rank(D, Stable(s), SortOrder(s)[k]) = k - 1
  <2>1. /\ SortOrder(s) \in [D -> D]
        /\ \A i \in D : Rank(D, Stable(s), SortOrder(s)[i]) = i - 1
    BY Sorting
  <2> HIDE DEF D
  <2> QED BY <2>1
<1>9. \A x, y \in D : Rank(D, Stable(s), x) = Rank(D, Stable(s), y) => x = y
  <2>1. /\ \A x, y \in D : x = y \/ <<x, y>> \in Stable(s) \/ <<y, x>> \in Stable(s)
        /\ \A x \in D : <<x, x>> \notin Stable(s)
        /\ \A x, y, z \in D : <<x, y>> \in Stable(s) /\ <<y, z>> \in Stable(s) => <<x, z>> \in Stable(s)
    BY StableOrder
  <2> HIDE DEF D
  <2> QED BY <1>5, <2>1, Ranks
<1> QED BY <1>7, <1>8, <1>9, ZenonT(60)

\* The pairs of all groups, in whatever order the groups came, are sorted into that of the batch.
LEMMA FinalOrder ==
  ASSUME NEW s \in Seq(RawRanjs), NEW r \in Seq(Pairs), NEW h \in [1 .. Len(r) -> 1 .. Len(s)],
         \A i \in 1 .. Len(s) : \E k \in 1 .. Len(r) : h[k] = i,
         \A k, l \in 1 .. Len(r) : h[k] = h[l] => k = l,
         \A k \in 1 .. Len(r) : r[k] = Pair(s, h[k]),
         \A k, l \in 1 .. Len(r) :
           k < l /\ s[h[k]] = s[h[l]] => Number(s, h[k]) < Number(s, h[l])
  PROVE  SortedResults(r) = [k \in 1 .. Len(s) |-> Pair(s, SortOrder(s)[k])]
<1> DEFINE n == Len(s)
           m == Len(r)
<1>1. /\ n \in Nat /\ DOMAIN s = 1 .. n /\ s \in [1 .. n -> Int]
      /\ IsFiniteSet(1 .. n) /\ Cardinality(1 .. n) = n
      /\ m \in Nat /\ DOMAIN r = 1 .. m
  BY BatchType
<1>2. m = n
  <2>1. IsFiniteSet(1 .. m) /\ Cardinality(1 .. m) = m
    BY <1>1, Interval, Zenon
  <2>2. h \in Bijection(1 .. m, 1 .. n)
    <3> DEFINE A == 1 .. m
               B == 1 .. n
    <3>1. /\ h \in [A -> B]
          /\ \A i \in B : \E k \in A : h[k] = i
          /\ \A k, l \in A : h[k] = h[l] => k = l
      OBVIOUS
    <3> HIDE DEF A, B
    <3>2. h \in Bijection(A, B)
      BY <3>1, Fun_IsBij
    <3> QED BY <3>2 DEF A, B
  <2>3. Cardinality(1 .. n) = Cardinality(1 .. m)
    <3> HIDE DEF m, n
    <3>1. ExistsBijection(1 .. m, 1 .. n)
      BY <2>2 DEF ExistsBijection
    <3> QED BY <2>1, <3>1, FS_Bijection
  <2> QED BY <1>1, <2>1, <2>3, Zenon
<1> DEFINE keys == [i \in DOMAIN r |-> r[i].ranj]
           o == SortOrder(keys)
           e == [k \in 1 .. n |-> h[o[k]]]
<1>3. /\ keys \in [1 .. n -> Int]
      /\ \A k \in 1 .. n : keys[k] = s[h[k]] /\ h[k] \in 1 .. n
  BY <1>1, <1>2 DEF Pair
<1>4. SortedResults(r) = [k \in 1 .. n |-> r[o[k]]]
  BY <1>1, <1>2 DEF SortedResults
<1> HIDE DEF keys, o
<1>5. /\ o \in [1 .. n -> 1 .. n]
      /\ \A i \in 1 .. n : \E k \in 1 .. n : o[k] = i
      /\ \A k, l \in 1 .. n : Precedes(keys, o[k], o[l]) <=> k < l
  BY <1>1, <1>3, Sorting, ZenonT(60) DEF o
<1>6. /\ e \in [1 .. n -> 1 .. n]
      /\ \A i \in 1 .. n : \E k \in 1 .. n : e[k] = i
  <2>1. e \in [1 .. n -> 1 .. n]
    BY <1>3, <1>5
  <2>2. ASSUME NEW i \in 1 .. n PROVE \E k \in 1 .. n : e[k] = i
    <3>1. PICK l \in 1 .. n : h[l] = i
      BY <1>2
    <3>2. PICK k \in 1 .. n : o[k] = l
      BY <1>5
    <3> QED BY <3>1, <3>2
  <2> QED BY <2>1, <2>2
<1>7. ASSUME NEW k \in 1 .. n, NEW l \in 1 .. n, k < l
      PROVE  Precedes(s, e[k], e[l])
  <2>1. /\ e[k] = h[o[k]] /\ e[l] = h[o[l]] /\ o[k] \in 1 .. n /\ o[l] \in 1 .. n
        /\ e[k] \in 1 .. n /\ e[l] \in 1 .. n
        /\ keys[o[k]] = s[e[k]] /\ keys[o[l]] = s[e[l]]
    BY <1>3, <1>5
  <2>2. Precedes(keys, o[k], o[l])
    BY <1>5, <1>7
  <2>3. CASE s[e[k]] < s[e[l]]
    BY <2>3 DEF Precedes
  <2>4. CASE s[e[k]] = s[e[l]] /\ o[k] < o[l]
    <3>1. Number(s, e[k]) < Number(s, e[l])
      BY <1>2, <2>1, <2>4
    <3>2. e[l] \in Peers(s, e[k])
      BY <1>1, <2>1, <2>4 DEF Peers
    <3>3. e[k] \in DOMAIN s
      BY <1>1, <2>1
    <3> QED BY <3>1, <3>2, <3>3, Numbering
  <2> QED BY <2>1, <2>2, <2>3, <2>4 DEF Precedes
<1> HIDE DEF e
<1>8. \A k \in 1 .. n : e[k] = SortOrder(s)[k]
  <2>1. \A k, l \in 1 .. n : k < l => Precedes(s, e[k], e[l])
    BY <1>7
  <2> HIDE DEF n
  <2> QED BY <1>1, <1>6, <2>1, OneOrder, ZenonT(60)
<1>9. ASSUME NEW k \in 1 .. n PROVE r[o[k]] = Pair(s, SortOrder(s)[k])
  <2>1. o[k] \in 1 .. n /\ e[k] = h[o[k]]
    BY <1>5 DEF e
  <2> QED BY <1>2, <1>8, <2>1, SMTT(60)
<1> QED BY <1>4, <1>9

\* The number of an identifier counts those of its group before it in the sorted batch.
LEMMA NumberInOrder ==
  ASSUME NEW s \in Seq(RawRanjs), NEW k \in 1 .. Len(s)
  PROVE  LET o == SortOrder(s) IN
         Cardinality({j \in 1 .. (k - 1) : Key(s[o[j]]) = Key(s[o[k]])}) = Number(s, o[k])
<1> DEFINE o == SortOrder(s)
           J == {j \in 1 .. (k - 1) : Key(s[o[j]]) = Key(s[o[k]])}
           B == {x \in Peers(s, o[k]) : Precedes(s, x, o[k])}
           g == [j \in J |-> o[j]]
<1>1. /\ Len(s) \in Nat /\ DOMAIN s = 1 .. Len(s) /\ s \in [1 .. Len(s) -> Int]
  BY BatchType
<1>2. /\ o \in [1 .. Len(s) -> 1 .. Len(s)]
      /\ \A i \in 1 .. Len(s) : \E l \in 1 .. Len(s) : o[l] = i
      /\ \A j, l \in 1 .. Len(s) : o[j] = o[l] => j = l
      /\ \A j, l \in 1 .. Len(s) : Precedes(s, o[j], o[l]) <=> j < l
  BY <1>1, Sorting
<1> HIDE DEF o
<1>3. IsFiniteSet(J)
  <2>1. IsFiniteSet(1 .. (k - 1))
    BY FS_Interval
  <2> QED BY <2>1, FS_Subset
<1>4. \A j \in J : j \in 1 .. Len(s) /\ j < k
  BY <1>1
<1>5. g \in [J -> B]
  <2>1. ASSUME NEW j \in J PROVE o[j] \in B
    <3>1. o[j] \in Peers(s, o[k])
      BY <1>1, <1>2, <1>4 DEF Peers
    <3>2. Precedes(s, o[j], o[k])
      BY <1>2, <1>4
    <3> QED BY <3>1, <3>2
  <2> QED BY <2>1
<1>6. ASSUME NEW x \in B PROVE \E j \in J : g[j] = x
  <2>1. x \in 1 .. Len(s) /\ Key(s[x]) = Key(s[o[k]]) /\ Precedes(s, x, o[k])
    BY <1>1 DEF Peers
  <2>2. PICK j \in 1 .. Len(s) : o[j] = x
    BY <1>2, <2>1
  <2>3. j < k
    BY <1>2, <2>1, <2>2
  <2>4. j \in J
    BY <1>1, <2>1, <2>2, <2>3
  <2> QED BY <2>2, <2>4
<1>7. \A j, l \in J : g[j] = g[l] => j = l
  BY <1>2, <1>4
<1> HIDE DEF J, B, g
<1>8. ExistsBijection(J, B)
  <2>1. g \in Bijection(J, B)
    BY <1>5, <1>6, <1>7, Fun_IsBij
  <2> QED BY <2>1 DEF ExistsBijection
<1>9. Cardinality(B) = Cardinality(J)
  BY <1>3, <1>8, FS_Bijection
<1> QED BY <1>9 DEF J, B, o, Number

-----------------------------------------------------------------------------
(* The conversion of a batch: its invariant. *)

\* The members of groups that were squashed.
Done(s, n, g) == {i \in DOMAIN s : n > Len(s) /\ g[Key(s[i])] = <<>>}

\* r holds the pairs of the members of D, at the indices h, equal RanjIds by their numbers.
Lists(h, s, D, r) ==
  /\ h \in [1 .. Len(r) -> D]
  /\ \A i \in D : \E k \in 1 .. Len(r) : h[k] = i
  /\ \A k, l \in 1 .. Len(r) : h[k] = h[l] => k = l
  /\ \A k \in 1 .. Len(r) : r[k] = Pair(s, h[k])
  /\ \A k, l \in 1 .. Len(r) : k < l /\ s[h[k]] = s[h[l]] => Number(s, h[k]) < Number(s, h[l])

Types ==
  /\ ids \in Seq(RawRanjs)
  /\ pos \in 1 .. Len(ids) + 1
  /\ groups \in [{Key(ids[i]) : i \in DOMAIN ids} -> Seq(RawRanjs)]
  /\ results \in Seq(Pairs)

FieldsFit == \A i \in DOMAIN ids : i < pos => TooWide(ids[i]) = "no"

GroupsInv ==
  \A key \in DOMAIN groups :
    pos <= Len(ids) \/ groups[key] # <<>> => \E f : Gathers(f, ids, pos, key, groups[key])

ResultsInv == outcome # "ok" => \E h : Lists(h, ids, Done(ids, pos, groups), results)

GroupsFit == \A i \in Done(ids, pos, groups) : Cardinality(Peers(ids, i)) <= HeerSeqs

\* The result as a function of the batch.
Converted(s) == [k \in 1 .. Len(s) |-> Pair(s, SortOrder(s)[k])]

Answer ==
  outcome = "ok" => pos > Len(ids) /\ Done(ids, pos, groups) = DOMAIN ids /\ results = Converted(ids)

Refusal ==
  /\ outcome \in {"running", "ok", "node", "timestamp", "sequence"}
  /\ outcome \in {"node", "timestamp"} => \E i \in DOMAIN ids : TooWide(ids[i]) = outcome
  /\ outcome = "sequence" =>
       pos > Len(ids) /\ \E i \in DOMAIN ids : Cardinality(Peers(ids, i)) > HeerSeqs

FromHeers ==
  heers # <<>> =>
    \E precision \in 0 .. Precisions - 1 :
      heers \in [DOMAIN ids -> HeerIds] /\ \A i \in DOMAIN ids : ids[i] = ToRanj(heers[i], precision)

BatchInv ==
  Types /\ FieldsFit /\ GroupsInv /\ ResultsInv /\ GroupsFit /\ Answer /\ Refusal /\ FromHeers

LEMMA ToRanjIsRaw ==
  ASSUME NEW h \in HeerIds, NEW precision \in 0 .. Precisions - 1
  PROVE  ToRanj(h, precision) \in RawRanjs
<1>1. PICK p \in HeerParts : h = HeerRaw(p)
  BY ConvertAssumption
<1>2. ToRanj(h, precision) = RanjRaw(Scaled(p, precision)) /\ Scaled(p, precision) \in RanjParts
  BY <1>1, HeerFieldsOfRaw, ScaledType DEF ToRanj, Scaled
<1> QED BY <1>2, RanjRawIsUuid, RanjFieldsOfRaw DEF RawRanjs, IsUuid

LEMMA BatchInit == Init => BatchInv
<1> SUFFICES ASSUME Init PROVE BatchInv
  OBVIOUS
<1> USE DEF Init
<1>1. FromHeers
  BY DEF FromHeers
<1>2. ids \in Seq(RawRanjs)
  <2>1. CASE ids \in UNION {[1..n -> RanjIds] : n \in 0..MaxBatch}
    <3>1. PICK n \in 0 .. MaxBatch : ids \in [1 .. n -> RanjIds]
      BY <2>1
    <3>2. RanjIds \subseteq RawRanjs
      BY ConvertAssumption DEF RawRanjs, IsUuid
    <3>3. n \in Nat
      BY <3>1, ConvertAssumption
    <3> QED BY <3>1, <3>2, <3>3
  <2>2. CASE \E n \in 1 .. MaxBatch, precision \in 0 .. Precisions - 1 :
               heers \in [1 .. n -> HeerIds] /\ ids = [i \in 1 .. n |-> ToRanj(heers[i], precision)]
    <3>1. PICK n \in 1 .. MaxBatch, precision \in 0 .. Precisions - 1 :
            heers \in [1 .. n -> HeerIds] /\ ids = [i \in 1 .. n |-> ToRanj(heers[i], precision)]
      BY <2>2
    <3>2. \A i \in 1 .. n : ids[i] \in RawRanjs
      BY <3>1, ToRanjIsRaw
    <3> QED BY <3>1, <3>2, ConvertAssumption
  <2> QED BY <2>1, <2>2
<1>3. Len(ids) \in Nat /\ DOMAIN ids = 1 .. Len(ids)
  BY <1>2
<1>4. Types
  <2>1. pos = 1
    OBVIOUS
  <2>2. groups \in [{Key(ids[i]) : i \in DOMAIN ids} -> Seq(RawRanjs)] /\ results \in Seq(Pairs)
    OBVIOUS
  <2> HIDE DEF Init
  <2>3. pos \in 1 .. Len(ids) + 1
    BY <1>3, <2>1
  <2> QED BY <1>2, <2>2, <2>3 DEF Types
<1>5. FieldsFit
  <2>1. pos = 1
    OBVIOUS
  <2> HIDE DEF Init
  <2> QED BY <1>3, <2>1 DEF FieldsFit
<1>6. GroupsInv
  <2> SUFFICES ASSUME NEW key \in DOMAIN groups PROVE Gathers(<<>>, ids, pos, key, groups[key])
    BY DEF GroupsInv
  <2>1. Arrived(ids, pos, key) = {}
    BY <1>3 DEF Arrived
  <2>2. groups[key] = <<>>
    OBVIOUS
  <2> QED BY <2>1, <2>2 DEF Gathers
<1>7. Done(ids, pos, groups) = {}
  BY <1>3 DEF Done
<1>8. ResultsInv
  <2>1. Lists(<<>>, ids, {}, <<>>)
    BY DEF Lists
  <2> QED BY <1>7, <2>1 DEF ResultsInv
<1> QED BY <1>1, <1>4, <1>5, <1>6, <1>7, <1>8 DEF BatchInv, GroupsFit, Answer, Refusal

\* An identifier arrives at its group.
LEMMA GathersMore ==
  ASSUME NEW s \in Seq(RawRanjs), NEW n \in DOMAIN s, NEW key, NEW group \in Seq(RawRanjs), NEW f,
         Gathers(f, s, n, key, group)
  PROVE  /\ Key(s[n]) # key => Gathers(f, s, n + 1, key, group)
         /\ Key(s[n]) = key => \E e : Gathers(e, s, n + 1, key, Append(group, s[n]))
<1>1. /\ Len(s) \in Nat /\ DOMAIN s = 1 .. Len(s) /\ s \in [1 .. Len(s) -> RawRanjs]
      /\ Len(group) \in Nat /\ DOMAIN group = 1 .. Len(group)
  BY BatchType
<1>2. CASE Key(s[n]) # key
  <2>1. Arrived(s, n + 1, key) = Arrived(s, n, key)
    BY <1>1, <1>2 DEF Arrived
  <2> QED BY <1>2, <2>1 DEF Gathers
<1>3. CASE Key(s[n]) = key
  <2> DEFINE m == Len(group)
             more == Append(group, s[n])
             e == [k \in 1 .. m + 1 |-> IF k = m + 1 THEN n ELSE f[k]]
  <2>1. Arrived(s, n + 1, key) = Arrived(s, n, key) \cup {n}
    BY <1>1, <1>3 DEF Arrived
  <2>2. /\ Len(more) = m + 1 /\ more[m + 1] = s[n]
        /\ \A k \in 1 .. m : more[k] = group[k]
    BY <1>1
  <2>3. ASSUME NEW k \in 1 .. m
        PROVE  /\ k \in 1 .. m + 1 /\ k # m + 1 /\ e[k] = f[k]
               /\ f[k] \in Arrived(s, n, key) /\ f[k] < n /\ group[k] = s[f[k]]
    BY <1>1 DEF Gathers, Arrived
  <2>4. m + 1 \in 1 .. m + 1 /\ e[m + 1] = n /\ \A k \in 1 .. m + 1 : k = m + 1 \/ k \in 1 .. m
    BY <1>1
  <2> HIDE DEF e, more, m
  <2>5. DOMAIN e = 1 .. m + 1 /\ e = [k \in 1 .. m + 1 |-> e[k]]
    BY DEF e
  <2>6. e \in [1 .. m + 1 -> Arrived(s, n + 1, key)]
    <3>1. \A k \in 1 .. m + 1 : e[k] \in Arrived(s, n + 1, key)
      BY <2>1, <2>3, <2>4
    <3> QED BY <2>5, <3>1
  <2>7. \A i \in Arrived(s, n + 1, key) : \E k \in 1 .. m + 1 : e[k] = i
    <3> SUFFICES ASSUME NEW i \in Arrived(s, n + 1, key) PROVE \E k \in 1 .. m + 1 : e[k] = i
      OBVIOUS
    <3>1. CASE i = n
      BY <2>4, <3>1
    <3>2. CASE i \in Arrived(s, n, key)
      <4>1. PICK k \in 1 .. m : f[k] = i
        BY <3>2 DEF Gathers, m
      <4> QED BY <2>3, <4>1
    <3> QED BY <2>1, <3>1, <3>2
  <2>8. ASSUME NEW k \in 1 .. m + 1, NEW l \in 1 .. m + 1, k < l PROVE e[k] < e[l]
    <3>1. m \in Nat
      BY <1>1 DEF m
    <3>2. k \in 1 .. m /\ (l = m + 1 \/ l \in 1 .. m)
      BY <2>8, <3>1
    <3>3. l \in 1 .. m => f[k] < f[l]
      BY <2>8, <3>2 DEF Gathers, m
    <3> QED BY <2>3, <2>4, <3>2, <3>3
  <2>9. \A k \in 1 .. m + 1 : more[k] = s[e[k]]
    BY <2>2, <2>3, <2>4
  <2>10. Gathers(e, s, n + 1, key, more)
    BY <2>2, <2>6, <2>7, <2>8, <2>9 DEF Gathers
  <2> QED BY <1>3, <2>10 DEF more
<1> QED BY <1>2, <1>3

\* The members of one more group are listed.
LEMMA ListsMore ==
  ASSUME NEW s \in Seq(RawRanjs), NEW D, NEW E, D \subseteq DOMAIN s, E \subseteq DOMAIN s,
         \A i \in D, j \in E : Key(s[i]) # Key(s[j]),
         NEW q \in Seq(Pairs), NEW r \in Seq(Pairs), NEW g, NEW h, Lists(g, s, D, q), Lists(h, s, E, r)
  PROVE  \E e : Lists(e, s, D \cup E, q \o r)
<1> DEFINE m == Len(q)
           n == Len(r)
           all == q \o r
           e == [k \in 1 .. m + n |-> IF k <= m THEN g[k] ELSE h[k - m]]
<1>1. m \in Nat /\ n \in Nat
  OBVIOUS
<1>2. /\ Len(all) = m + n
      /\ \A k \in 1 .. m : all[k] = q[k]
      /\ \A k \in 1 .. n : all[m + k] = r[k]
  OBVIOUS
<1>3. ASSUME NEW k \in 1 .. m
      PROVE  /\ k \in 1 .. m + n /\ e[k] = g[k] /\ g[k] \in D /\ all[k] = Pair(s, g[k])
  BY <1>1, <1>2, SMTT(60) DEF Lists
<1>4. ASSUME NEW k \in 1 .. n
      PROVE  /\ m + k \in 1 .. m + n /\ e[m + k] = h[k] /\ h[k] \in E /\ all[m + k] = Pair(s, h[k])
  <2>1. m + k \in 1 .. m + n /\ ~(m + k <= m) /\ (m + k) - m = k
    BY <1>1
  <2> QED BY <1>2, <2>1 DEF Lists
<1>5. ASSUME NEW k \in 1 .. m + n PROVE k \in 1 .. m \/ \E l \in 1 .. n : k = m + l
  <2>1. CASE k <= m
    BY <1>1, <2>1
  <2>2. CASE k > m
    <3>1. k - m \in 1 .. n /\ k = m + (k - m)
      BY <1>1, <2>2
    <3> QED BY <3>1
  <2> QED BY <1>1, <2>1, <2>2
<1>6. \A i \in D, j \in E : i # j /\ s[i] # s[j]
  OBVIOUS
<1>7. DOMAIN e = 1 .. m + n /\ e = [k \in 1 .. m + n |-> e[k]]
  OBVIOUS
<1> HIDE DEF e, all, m, n
<1>8. e \in [1 .. m + n -> D \cup E]
  <2>1. \A k \in 1 .. m + n : e[k] \in D \cup E
    BY <1>3, <1>4, <1>5
  <2> QED BY <1>7, <2>1
<1>9. ASSUME NEW i \in D \cup E PROVE \E k \in 1 .. m + n : e[k] = i
  <2>1. CASE i \in D
    <3>1. PICK k \in 1 .. m : g[k] = i
      BY <2>1 DEF Lists, m
    <3> QED BY <1>3, <3>1
  <2>2. CASE i \in E
    <3>1. PICK k \in 1 .. n : h[k] = i
      BY <2>2 DEF Lists, n
    <3> QED BY <1>4, <3>1
  <2> QED BY <2>1, <2>2
<1>10. ASSUME NEW k \in 1 .. m + n, NEW l \in 1 .. m + n, e[k] = e[l] PROVE k = l
  <2>1. \A a, b \in 1 .. m : g[a] = g[b] => a = b
    BY DEF Lists, m
  <2>2. \A a, b \in 1 .. n : h[a] = h[b] => a = b
    BY DEF Lists, n
  <2> QED BY <1>3, <1>4, <1>5, <1>6, <1>10, <2>1, <2>2, SMTT(60)
<1>11. \A k \in 1 .. m + n : all[k] = Pair(s, e[k])
  BY <1>3, <1>4, <1>5
<1>12. ASSUME NEW k \in 1 .. m + n, NEW l \in 1 .. m + n, k < l, s[e[k]] = s[e[l]]
       PROVE  Number(s, e[k]) < Number(s, e[l])
  <2>1. CASE k \in 1 .. m /\ l \in 1 .. m
    <3>1. k < l /\ s[g[k]] = s[g[l]] => Number(s, g[k]) < Number(s, g[l])
      BY <2>1 DEF Lists, m
    <3> QED BY <1>3, <1>12, <2>1, <3>1
  <2>2. CASE \E a, b \in 1 .. n : k = m + a /\ l = m + b
    <3>1. PICK a \in 1 .. n, b \in 1 .. n : k = m + a /\ l = m + b
      BY <2>2
    <3>2. a < b
      BY <1>1, <1>12, <3>1
    <3>3. a < b /\ s[h[a]] = s[h[b]] => Number(s, h[a]) < Number(s, h[b])
      BY DEF Lists, n
    <3> QED BY <1>4, <1>12, <3>1, <3>2, <3>3
  <2>3. CASE k \in 1 .. m /\ \E b \in 1 .. n : l = m + b
    BY <1>3, <1>4, <1>6, <1>12, <2>3
  <2>4. CASE l \in 1 .. m /\ \E a \in 1 .. n : k = m + a
    BY <1>3, <1>4, <1>6, <1>12, <2>4
  <2> QED BY <1>5, <2>1, <2>2, <2>3, <2>4
<1>13. Lists(e, s, D \cup E, all)
  BY <1>2, <1>8, <1>9, <1>10, <1>11, <1>12 DEF Lists
<1> QED BY <1>13 DEF all

\* A group of the batch.
Grouped(s, key) == {i \in DOMAIN s : Key(s[i]) = key}

\* The pairs of a group that is complete.
LEMMA GroupLists ==
  ASSUME NEW s \in Seq(RawRanjs), NEW n \in Nat, n > Len(s), NEW key, NEW group \in Seq(RawRanjs), NEW f,
         Gathers(f, s, n, key, group)
  PROVE  /\ \E h : Lists(h, s, Grouped(s, key), Renumbered(key, group))
         /\ Renumbered(key, group) \in Seq(Pairs)
         /\ IsFiniteSet(Grouped(s, key)) /\ Cardinality(Grouped(s, key)) = Len(group)
         /\ \A i \in Grouped(s, key) : Peers(s, i) = Grouped(s, key)
<1> DEFINE E == {i \in DOMAIN s : Key(s[i]) = key}
           m == Len(group)
           o == SortOrder(group)
           h == [k \in 1 .. m |-> f[o[k]]]
           r == Renumbered(key, group)
<1>1. /\ Len(s) \in Nat /\ DOMAIN s = 1 .. Len(s)
      /\ m \in Nat /\ DOMAIN group = 1 .. m /\ group \in [1 .. m -> Int]
  BY BatchType
<1>2. Arrived(s, n, key) = E
  BY <1>1 DEF Arrived
<1>3. /\ f \in [1 .. m -> E]
      /\ \A i \in DOMAIN s : Key(s[i]) = key => \E k \in 1 .. m : f[k] = i
      /\ \A i \in E : \E k \in 1 .. m : f[k] = i
      /\ \A k, l \in 1 .. m : k < l => f[k] < f[l]
      /\ \A k \in 1 .. m : group[k] = s[f[k]]
  BY <1>2 DEF Gathers
<1>4. /\ o \in [1 .. m -> 1 .. m]
      /\ \A k \in 1 .. m : Number(s, f[o[k]]) = k - 1 /\ r[k] = Pair(s, f[o[k]])
      /\ r \in Seq(Pairs) /\ Len(r) = m
  BY GroupSorted
<1>5. \A k \in 1 .. m : \E l \in 1 .. m : o[l] = k
  BY <1>1, Sorting
<1>6. \A i \in E : Peers(s, i) = E
  BY DEF Peers
<1>7. ASSUME NEW k \in 1 .. m, NEW l \in 1 .. m, f[k] = f[l] PROVE k = l
  <2>1. f[k] \in E /\ f[k] \in Int
    BY <1>1, <1>3
  <2>2. ~(f[k] < f[l]) /\ ~(f[l] < f[k])
    BY <1>7, <2>1
  <2> QED BY <1>1, <1>3, <2>2
<1>8. IsFiniteSet(E) /\ Cardinality(E) = m
  <2>1. IsFiniteSet(1 .. m) /\ Cardinality(1 .. m) = m
    BY <1>1, Interval
  <2> DEFINE A == 1 .. m
  <2>2. f \in [A -> E] /\ (\A i \in E : \E k \in A : f[k] = i) /\ \A k, l \in A : f[k] = f[l] => k = l
    BY <1>3, <1>7
  <2>3. E \subseteq 1 .. Len(s)
    BY <1>1
  <2> HIDE DEF A, E
  <2>4. f \in Bijection(A, E)
    BY <2>2, Fun_IsBij
  <2>5. ExistsBijection(A, E)
    BY <2>4 DEF ExistsBijection
  <2>6. IsFiniteSet(E)
    BY <1>1, <2>3, Interval, FS_Subset
  <2> QED BY <2>1, <2>5, <2>6, FS_Bijection DEF A
<1>9. Lists(h, s, E, r)
  <2>1. \A k \in 1 .. m : o[k] \in 1 .. m /\ h[k] = f[o[k]] /\ h[k] \in E
    BY <1>3, <1>4
  <2>2. h \in [1 .. m -> E]
    BY <2>1
  <2> HIDE DEF h, o, E, r, m
  <2>3. ASSUME NEW i \in E PROVE \E k \in 1 .. m : h[k] = i
    <3>1. PICK k \in 1 .. m : f[k] = i
      BY <1>3
    <3>2. PICK l \in 1 .. m : o[l] = k
      BY <1>5
    <3> QED BY <2>1, <3>1, <3>2
  <2>4. ASSUME NEW k \in 1 .. m, NEW l \in 1 .. m PROVE /\ h[k] = h[l] => k = l
                                                        /\ k < l => Number(s, h[k]) < Number(s, h[l])
    <3>1. Number(s, h[k]) = k - 1 /\ Number(s, h[l]) = l - 1
      BY <1>4, <2>1
    <3>2. h[k] = h[l] => k - 1 = l - 1
      BY <3>1
    <3> QED BY <1>1, <3>1, <3>2
  <2>5. \A k \in 1 .. m : r[k] = Pair(s, h[k])
    BY <1>4, <2>1
  <2> QED BY <1>4, <2>2, <2>3, <2>4, <2>5 DEF Lists
<1>10. E = Grouped(s, key)
  BY DEF Grouped
<1> HIDE DEF E
<1> QED BY <1>4, <1>6, <1>8, <1>9, <1>10

LEMMA GatherStep == BatchInv /\ Gather => BatchInv'
<1> SUFFICES ASSUME BatchInv, Gather PROVE BatchInv'
  OBVIOUS
<1> USE DEF BatchInv
<1> DEFINE key == Key(ids[pos])
<1>1. /\ ids' = ids /\ pos' = pos + 1 /\ results' = results /\ outcome' = outcome /\ heers' = heers
      /\ groups' = [groups EXCEPT ![key] = Append(@, ids[pos])]
      /\ outcome = "running" /\ pos <= Len(ids) /\ TooWide(ids[pos]) = "no"
  BY DEF Gather, Gathering
<1>2. /\ Len(ids) \in Nat /\ DOMAIN ids = 1 .. Len(ids) /\ ids \in [1 .. Len(ids) -> RawRanjs]
      /\ ids \in Seq(RawRanjs)
  BY BatchType DEF Types
<1>3. pos \in DOMAIN ids /\ pos \in Nat /\ ids[pos] \in RawRanjs /\ key \in DOMAIN groups
  BY <1>1, <1>2 DEF Types
<1>4. \A k \in DOMAIN groups : groups[k] \in Seq(RawRanjs)
  BY DEF Types
<1>5. /\ DOMAIN groups' = DOMAIN groups
      /\ groups'[key] = Append(groups[key], ids[pos])
      /\ \A k \in DOMAIN groups : k # key => groups'[k] = groups[k]
  BY <1>1, <1>3
<1>6. Types'
  <2>1. Append(groups[key], ids[pos]) \in Seq(RawRanjs)
    BY <1>3, <1>4
  <2>2. groups' \in [{Key(ids[i]) : i \in DOMAIN ids} -> Seq(RawRanjs)]
    BY <1>1, <2>1 DEF Types
  <2>3. pos' \in 1 .. Len(ids) + 1
    BY <1>1, <1>2, <1>3
  <2> QED BY <1>1, <2>2, <2>3 DEF Types
<1> HIDE DEF key
<1>7. FieldsFit'
  <2>1. \A i \in DOMAIN ids : i < pos + 1 => i < pos \/ i = pos
    BY <1>2, <1>3
  <2> QED BY <1>1, <2>1 DEF FieldsFit
<1>8. ASSUME NEW k \in DOMAIN groups
      PROVE  \E e : Gathers(e, ids, pos + 1, k, groups'[k])
  <2>1. PICK f : Gathers(f, ids, pos, k, groups[k])
    BY <1>1 DEF GroupsInv
  <2>2. CASE k = key
    BY <1>2, <1>3, <1>4, <1>5, <2>1, <2>2, GathersMore DEF key
  <2>3. CASE k # key
    BY <1>2, <1>3, <1>4, <1>5, <2>1, <2>3, GathersMore DEF key
  <2> QED BY <2>2, <2>3
<1>9. GroupsInv'
  <2>1. \A k \in DOMAIN groups' : \E f : Gathers(f, ids', pos', k, groups'[k])
    BY <1>1, <1>5, <1>8
  <2> QED BY <2>1 DEF GroupsInv
<1>10. Done(ids, pos + 1, groups') = {} /\ Done(ids, pos, groups) = {}
  <2>1. ASSUME NEW i \in DOMAIN ids, pos + 1 > Len(ids) PROVE groups'[Key(ids[i])] # <<>>
    <3>1. Key(ids[i]) \in DOMAIN groups
      BY DEF Types
    <3>2. PICK e : Gathers(e, ids, pos + 1, Key(ids[i]), groups'[Key(ids[i])])
      BY <1>8, <3>1
    <3>3. i \in Arrived(ids, pos + 1, Key(ids[i]))
      BY <1>2, <1>3, <2>1 DEF Arrived
    <3>4. PICK k \in 1 .. Len(groups'[Key(ids[i])]) : e[k] = i
      BY <3>2, <3>3 DEF Gathers
    <3> QED BY <3>4
  <2>2. ~(pos > Len(ids))
    BY <1>1, <1>2, <1>3
  <2> QED BY <2>1, <2>2 DEF Done
<1>11. Done(ids', pos', groups') = Done(ids, pos, groups)
  BY <1>1, <1>10
<1>12. ResultsInv'
  <2>1. PICK h : Lists(h, ids, Done(ids, pos, groups), results)
    BY <1>1 DEF ResultsInv
  <2>2. Lists(h, ids', Done(ids', pos', groups'), results')
    BY <1>1, <1>11, <2>1
  <2> QED BY <2>2 DEF ResultsInv
<1>13. GroupsFit'
  BY <1>1, <1>11 DEF GroupsFit
<1>14. Answer' /\ Refusal' /\ FromHeers'
  BY <1>1 DEF Answer, Refusal, FromHeers
<1> QED BY <1>6, <1>7, <1>9, <1>12, <1>13, <1>14

LEMMA RejectStep == BatchInv /\ Reject => BatchInv'
<1> SUFFICES ASSUME BatchInv, Reject PROVE BatchInv'
  OBVIOUS
<1> USE DEF BatchInv
<1>1. /\ ids' = ids /\ pos' = pos /\ results' = results /\ heers' = heers /\ groups' = groups
      /\ outcome = "running" /\ pos <= Len(ids) /\ TooWide(ids[pos]) # "no" /\ outcome' = TooWide(ids[pos])
  BY DEF Reject, Gathering
<1>2. pos \in DOMAIN ids
  <2>1. Len(ids) \in Nat /\ DOMAIN ids = 1 .. Len(ids)
    BY BatchType DEF Types
  <2> QED BY <1>1, <2>1 DEF Types
<1>3. outcome' \in {"node", "timestamp"}
  BY <1>1 DEF TooWide
<1>4. Types' /\ FieldsFit' /\ GroupsInv' /\ GroupsFit' /\ FromHeers'
  BY <1>1 DEF Types, FieldsFit, GroupsInv, GroupsFit, FromHeers
<1>5. ResultsInv'
  BY <1>1 DEF ResultsInv
<1>6. Answer' /\ Refusal'
  BY <1>1, <1>2, <1>3 DEF Answer, Refusal
<1> QED BY <1>4, <1>5, <1>6

\* The members of a group that is left, when all have been gathered.
LEMMA LeftGroup ==
  ASSUME BatchInv, Squashing, NEW key \in Left
  PROVE  /\ \E h : Lists(h, ids, Grouped(ids, key), Renumbered(key, groups[key]))
         /\ Renumbered(key, groups[key]) \in Seq(Pairs)
         /\ IsFiniteSet(Grouped(ids, key)) /\ Cardinality(Grouped(ids, key)) = Len(groups[key])
         /\ \A i \in Grouped(ids, key) : Peers(ids, i) = Grouped(ids, key)
         /\ \E i \in DOMAIN ids : Key(ids[i]) = key
<1>1. /\ key \in DOMAIN groups /\ groups[key] # <<>> /\ groups[key] \in Seq(RawRanjs)
      /\ ids \in Seq(RawRanjs)
      /\ \E i \in DOMAIN ids : Key(ids[i]) = key
  BY DEF Left, BatchInv, Types
<1>2. pos \in Nat /\ pos > Len(ids)
  <2>1. Len(ids) \in Nat
    BY <1>1
  <2> QED BY <2>1 DEF Squashing, BatchInv, Types
<1>3. PICK f : Gathers(f, ids, pos, key, groups[key])
  BY <1>1, <1>2 DEF BatchInv, GroupsInv
<1> QED BY <1>1, <1>2, <1>3, GroupLists

LEMMA SquashStep == ASSUME BatchInv, NEW key \in Left, Squash(key) PROVE BatchInv'
<1> USE DEF BatchInv
<1> DEFINE E == Grouped(ids, key)
           r == Renumbered(key, groups[key])
           D == Done(ids, pos, groups)
<1>1. /\ ids' = ids /\ pos' = pos /\ heers' = heers /\ outcome' = outcome
      /\ results' = results \o r
      /\ groups' = [groups EXCEPT ![key] = <<>>]
      /\ outcome = "running" /\ pos > Len(ids) /\ ~TooMany(Len(groups[key]))
      /\ Squashing
  BY DEF Squash, Squashing
<1>2. /\ \E h : Lists(h, ids, E, r)
      /\ r \in Seq(Pairs)
      /\ IsFiniteSet(E) /\ Cardinality(E) = Len(groups[key])
      /\ \A i \in E : Peers(ids, i) = E
  BY <1>1, LeftGroup
<1>3. /\ key \in DOMAIN groups /\ groups[key] # <<>>
      /\ DOMAIN groups' = DOMAIN groups
      /\ groups'[key] = <<>>
      /\ \A k \in DOMAIN groups : k # key => groups'[k] = groups[k]
  BY <1>1 DEF Left
<1>4. \A i \in DOMAIN ids : Key(ids[i]) \in DOMAIN groups
  BY DEF Types
<1>5. /\ Done(ids', pos', groups') = D \cup E
      /\ D \subseteq DOMAIN ids /\ E \subseteq DOMAIN ids
      /\ \A i \in D, j \in E : Key(ids[i]) # Key(ids[j])
  <2>1. ASSUME NEW i \in DOMAIN ids
        PROVE  groups'[Key(ids[i])] = <<>> <=> groups[Key(ids[i])] = <<>> \/ Key(ids[i]) = key
    BY <1>3, <1>4
  <2>2. Done(ids, pos, groups') = {i \in DOMAIN ids : groups[Key(ids[i])] = <<>> \/ Key(ids[i]) = key}
    BY <1>1, <2>1 DEF Done
  <2>3. D = {i \in DOMAIN ids : groups[Key(ids[i])] = <<>>}
    BY <1>1 DEF Done
  <2>4. E = {i \in DOMAIN ids : Key(ids[i]) = key}
    BY DEF Grouped
  <2> HIDE DEF D, E
  <2>5. Done(ids, pos, groups') = D \cup E
    BY <2>2, <2>3, <2>4
  <2> QED BY <1>1, <1>3, <2>3, <2>4, <2>5
<1>6. Types'
  <2>1. groups' \in [{Key(ids[i]) : i \in DOMAIN ids} -> Seq(RawRanjs)]
    <3> DEFINE K == {Key(ids[i]) : i \in DOMAIN ids}
               S == Seq(RawRanjs)
    <3>1. groups \in [K -> S] /\ <<>> \in S
      BY DEF Types
    <3> HIDE DEF K, S
    <3>2. groups' \in [K -> S]
      BY <1>1, <3>1
    <3> QED BY <3>2 DEF K, S
  <2>2. results \o r \in Seq(Pairs)
    BY <1>2 DEF Types
  <2> QED BY <1>1, <2>1, <2>2 DEF Types
<1>7. FieldsFit' /\ FromHeers' /\ Answer' /\ Refusal'
  BY <1>1 DEF FieldsFit, FromHeers, Answer, Refusal
<1>8. GroupsInv'
  <2> SUFFICES ASSUME NEW k \in DOMAIN groups, groups'[k] # <<>>
               PROVE  \E f : Gathers(f, ids, pos, k, groups'[k])
    <3>1. Len(ids) \in Nat /\ pos \in Nat
      BY DEF Types
    <3>2. ~(pos <= Len(ids))
      BY <1>1, <3>1
    <3> QED BY <1>1, <1>3, <3>2 DEF GroupsInv
  <2>1. groups'[k] = groups[k]
    BY <1>3
  <2> QED BY <2>1 DEF GroupsInv
<1>9. ResultsInv'
  <2>1. PICK g : Lists(g, ids, D, results)
    BY <1>1 DEF ResultsInv
  <2>2. PICK h : Lists(h, ids, E, r)
    BY <1>2
  <2>3. ids \in Seq(RawRanjs) /\ results \in Seq(Pairs)
    BY DEF Types
  <2> HIDE DEF D, E, r
  <2>4. \E e : Lists(e, ids, D \cup E, results \o r)
    BY <1>2, <1>5, <2>1, <2>2, <2>3, ListsMore
  <2> QED BY <1>1, <1>5, <2>4 DEF ResultsInv
<1>10. GroupsFit'
  <2>1. Cardinality(E) <= HeerSeqs
    <3>1. Len(groups[key]) \in Nat
      BY <1>3 DEF Types
    <3> HIDE DEF E
    <3> QED BY <1>1, <1>2, <3>1, LayoutAssumption DEF TooMany
  <2>2. ASSUME NEW i \in D \cup E PROVE Cardinality(Peers(ids, i)) <= HeerSeqs
    <3>1. CASE i \in E
      <4>1. Peers(ids, i) = E
        BY <1>2, <3>1
      <4> QED BY <2>1, <4>1
    <3>2. CASE i \in D
      BY <3>2 DEF GroupsFit
    <3> QED BY <3>1, <3>2
  <2> HIDE DEF D, E
  <2> QED BY <1>1, <1>5, <2>2 DEF GroupsFit
<1> QED BY <1>6, <1>7, <1>8, <1>9, <1>10

LEMMA OverflowStep == ASSUME BatchInv, NEW key \in Left, Overflow(key) PROVE BatchInv'
<1> USE DEF BatchInv
<1> DEFINE E == Grouped(ids, key)
<1>1. /\ ids' = ids /\ pos' = pos /\ heers' = heers /\ groups' = groups /\ results' = results
      /\ outcome = "running" /\ pos > Len(ids) /\ TooMany(Len(groups[key])) /\ outcome' = "sequence"
      /\ Squashing
  BY DEF Overflow, Squashing
<1>2. /\ Cardinality(E) = Len(groups[key])
      /\ \A i \in E : Peers(ids, i) = E
      /\ \E i \in DOMAIN ids : Key(ids[i]) = key
  BY <1>1, LeftGroup
<1>3. PICK i \in DOMAIN ids : Key(ids[i]) = key
  BY <1>2
<1>4. Cardinality(Peers(ids, i)) = Len(groups[key])
  <2>1. i \in E
    BY <1>3 DEF Grouped
  <2> HIDE DEF E
  <2> QED BY <1>2, <2>1
<1>5. Types' /\ FieldsFit' /\ GroupsInv' /\ GroupsFit' /\ FromHeers'
  BY <1>1 DEF Types, FieldsFit, GroupsInv, GroupsFit, FromHeers
<1>6. ResultsInv'
  BY <1>1 DEF ResultsInv
<1>7. Answer' /\ Refusal'
  BY <1>1, <1>3, <1>4 DEF Answer, Refusal, TooMany
<1> QED BY <1>5, <1>6, <1>7

LEMMA FinishStep == BatchInv /\ Finish => BatchInv'
<1> SUFFICES ASSUME BatchInv, Finish PROVE BatchInv'
  OBVIOUS
<1> USE DEF BatchInv
<1>1. /\ ids' = ids /\ pos' = pos /\ heers' = heers /\ groups' = groups
      /\ results' = SortedResults(results) /\ outcome' = "ok"
      /\ outcome = "running" /\ pos > Len(ids) /\ Left = {}
  BY DEF Finish, Squashing
<1>2. /\ ids \in Seq(RawRanjs) /\ results \in Seq(Pairs)
      /\ Len(ids) \in Nat /\ DOMAIN ids = 1 .. Len(ids)
      /\ ids \in [1 .. Len(ids) -> RawRanjs] /\ ids \in [1 .. Len(ids) -> Int]
  BY BatchType DEF Types
<1>3. Done(ids, pos, groups) = DOMAIN ids
  <2>1. \A i \in DOMAIN ids : Key(ids[i]) \in DOMAIN groups
    BY DEF Types
  <2>2. \A i \in DOMAIN ids : groups[Key(ids[i])] = <<>>
    BY <1>1, <2>1 DEF Left
  <2> QED BY <1>1, <2>2 DEF Done
<1>4. PICK h : Lists(h, ids, DOMAIN ids, results)
  BY <1>1, <1>3 DEF ResultsInv
<1>5. SortedResults(results) = Converted(ids)
  BY <1>2, <1>4, FinalOrder, ZenonT(60) DEF Lists, Converted
<1>6. Converted(ids) \in Seq(Pairs)
  <2>1. PICK g : Lists(g, ids, DOMAIN ids, results)
    BY <1>4
  <2>2. ASSUME NEW i \in DOMAIN ids PROVE Pair(ids, i) \in Pairs
    <3>1. PICK k \in 1 .. Len(results) : g[k] = i /\ results[k] = Pair(ids, g[k])
      BY <2>1 DEF Lists
    <3>2. results[k] \in Pairs
      BY <1>2
    <3> QED BY <3>1, <3>2
  <2>3. SortOrder(ids) \in [1 .. Len(ids) -> 1 .. Len(ids)]
    BY <1>2, Sorting
  <2>4. \A k \in 1 .. Len(ids) : Pair(ids, SortOrder(ids)[k]) \in Pairs
    BY <1>2, <2>2, <2>3
  <2> QED BY <1>2, <2>4 DEF Converted
<1>7. Types'
  BY <1>1, <1>5, <1>6 DEF Types
<1>8. FieldsFit' /\ GroupsInv' /\ GroupsFit' /\ FromHeers'
  BY <1>1 DEF FieldsFit, GroupsInv, GroupsFit, FromHeers
<1>9. ResultsInv' /\ Answer' /\ Refusal'
  BY <1>1, <1>3, <1>5 DEF ResultsInv, Answer, Refusal
<1> QED BY <1>7, <1>8, <1>9

LEMMA BatchStep == BatchInv /\ [Next]_vars => BatchInv'
<1> SUFFICES ASSUME BatchInv, [Next]_vars PROVE BatchInv'
  OBVIOUS
<1>1. CASE UNCHANGED vars
  BY <1>1 DEF vars, BatchInv, Types, FieldsFit, GroupsInv, ResultsInv, GroupsFit, Answer, Refusal, FromHeers
<1>2. CASE Ended
  BY <1>1, <1>2 DEF Ended
<1>3. ASSUME NEW key \in Left, Squash(key) \/ Overflow(key) PROVE BatchInv'
  BY <1>3, SquashStep, OverflowStep
<1> QED BY <1>1, <1>2, <1>3, GatherStep, RejectStep, FinishStep DEF Next

-----------------------------------------------------------------------------
(* The conversion of a batch: what the invariant means for callers. *)

\* The invariant of a conversion holds in every reachable state.
LEMMA Conversions == Spec => []BatchInv
BY BatchInit, BatchStep, PTL DEF Spec

LEMMA Fields ==
  ASSUME BatchInv, NEW i \in DOMAIN ids
  PROVE  /\ ids[i] \in RawRanjs /\ RanjFields(ids[i]) \in RanjParts /\ RanjRaw(RanjFields(ids[i])) = ids[i]
         /\ Millis[RanjFields(ids[i]).precision] \in Nat \ {0}
         /\ Millisecond(ids[i]) \in Nat
         /\ TooWide(ids[i]) = "no" => /\ Millisecond(ids[i]) \in 0 .. HeerTicks - 1
                                      /\ RanjFields(ids[i]).node \in 0 .. HeerNodes - 1
<1>1. ids[i] \in RawRanjs
  BY DEF BatchInv, Types
<1>2. RanjFields(ids[i]) \in RanjParts /\ RanjRaw(RanjFields(ids[i])) = ids[i]
  BY <1>1, RanjSplit DEF RawRanjs
<1>3. /\ RanjFields(ids[i]).ts \in Nat /\ RanjFields(ids[i]).node \in Nat
      /\ Millis[RanjFields(ids[i]).precision] \in Nat \ {0}
  BY <1>2, LayoutAssumption DEF RanjParts
<1>4. Millisecond(ids[i]) \in Nat
  BY <1>3, SplitField DEF Millisecond
<1>5. HeerTicks \in Nat \ {0} /\ HeerNodes \in Nat \ {0}
  BY LayoutAssumption
<1> QED BY <1>1, <1>2, <1>3, <1>4, <1>5 DEF TooWide

\* When every identifier was gathered, the check counts the same groups.
LEMMA SameGroups ==
  ASSUME BatchInv, pos > Len(ids)
  PROVE  /\ \A i \in DOMAIN ids : TooWide(ids[i]) = "no" /\ Members(Key(ids[i])) = Peers(ids, i)
<1>1. Len(ids) \in Nat /\ DOMAIN ids = 1 .. Len(ids) /\ pos \in Nat
  BY BatchType DEF BatchInv, Types
<1>2. \A i \in DOMAIN ids : TooWide(ids[i]) = "no"
  BY <1>1 DEF BatchInv, FieldsFit
<1> QED BY <1>2 DEF Members, Peers

LEMMA InvAgrees == BatchInv => AgreesWithCheck
<1> SUFFICES ASSUME BatchInv PROVE AgreesWithCheck
  OBVIOUS
<1>1. ASSUME outcome = "ok" PROVE Conflicts = {}
  <2>1. /\ pos > Len(ids)
        /\ \A i \in DOMAIN ids : Cardinality(Peers(ids, i)) <= HeerSeqs
    BY <1>1 DEF BatchInv, Answer, GroupsFit
  <2>2. \A i \in DOMAIN ids : TooWide(ids[i]) = "no" /\ Members(Key(ids[i])) = Peers(ids, i)
    BY <2>1, SameGroups
  <2>3. ASSUME NEW i \in DOMAIN ids PROVE ~(Cardinality(Members(Key(ids[i]))) > HeerSeqs)
    <3>1. Cardinality(Peers(ids, i)) \in Nat /\ HeerSeqs \in Nat
      BY Numbering, LayoutAssumption DEF BatchInv, Types
    <3> QED BY <2>1, <2>2, <3>1
  <2> QED BY <2>2, <2>3 DEF Conflicts
<1>2. ASSUME outcome \notin {"running", "ok"} PROVE outcome \in Conflicts
  <2>1. CASE outcome = "sequence"
    <3>1. PICK i \in DOMAIN ids : pos > Len(ids) /\ Cardinality(Peers(ids, i)) > HeerSeqs
      BY <2>1 DEF BatchInv, Refusal
    <3>2. Members(Key(ids[i])) = Peers(ids, i)
      BY <3>1, SameGroups
    <3> QED BY <2>1, <3>1, <3>2 DEF Conflicts
  <2>2. CASE outcome \in {"node", "timestamp"}
    BY <2>2 DEF BatchInv, Refusal, Conflicts
  <2> QED BY <1>2, <2>1, <2>2 DEF BatchInv, Refusal
<1> QED BY <1>1, <1>2 DEF AgreesWithCheck

LEMMA InvOrderFree == BatchInv => OrderFree
<1> SUFFICES ASSUME BatchInv, outcome = "ok" PROVE OrderFree
  BY DEF OrderFree
<1> DEFINE n == Len(ids)
           o == SortOrder(ids)
           sorted == SortedGroup(ids)
           renumbered(i) == [ts |-> Key(sorted[i]).ms, node |-> Key(sorted[i]).node,
                       seq |-> Cardinality({j \in 1..(i - 1) : Key(sorted[j]) = Key(sorted[i])})]
<1>1. /\ ids \in Seq(RawRanjs) /\ n \in Nat /\ DOMAIN ids = 1 .. n /\ ids \in [1 .. n -> Int]
      /\ results = Converted(ids)
  BY BatchType DEF BatchInv, Types, Answer
<1>2. o \in [1 .. n -> 1 .. n]
  BY <1>1, Sorting
<1>3. \A i \in 1 .. n : sorted[i] = ids[o[i]]
  BY <1>1 DEF SortedGroup
<1>4. ASSUME NEW i \in 1 .. n
      PROVE  renumbered(i) = PartsOf(ids, o[i])
  <2>1. {j \in 1..(i - 1) : Key(sorted[j]) = Key(sorted[i])} = {j \in 1..(i - 1) : Key(ids[o[j]]) = Key(ids[o[i]])}
    <3>1. \A j \in 1 .. (i - 1) : j \in 1 .. n
      BY <1>1
    <3> HIDE DEF sorted
    <3> QED BY <1>3, <3>1
  <2>2. Cardinality({j \in 1..(i - 1) : Key(ids[o[j]]) = Key(ids[o[i]])}) = Number(ids, o[i])
    BY <1>1, NumberInOrder
  <2>3. sorted[i] = ids[o[i]]
    BY <1>3
  <2> QED BY <2>1, <2>2, <2>3 DEF PartsOf, Key
<1>5. \A i \in 1 .. n : Pair(ids, o[i]) = [ranj |-> sorted[i], heer |-> HeerRaw(renumbered(i))]
  BY <1>3, <1>4 DEF Pair
<1>6. results = [i \in 1 .. n |-> [ranj |-> sorted[i], heer |-> HeerRaw(renumbered(i))]]
  <2> HIDE DEF renumbered, sorted, o
  <2> QED BY <1>1, <1>5 DEF Converted, o
<1> QED BY <1>6 DEF OrderFree

\* The fields of the HeerIds of a batch that converts.
LEMMA PairParts ==
  ASSUME BatchInv, outcome = "ok", NEW i \in DOMAIN ids
  PROVE  PartsOf(ids, i) \in HeerParts
<1>1. /\ pos > Len(ids) /\ Cardinality(Peers(ids, i)) <= HeerSeqs /\ ids \in Seq(RawRanjs)
  BY DEF BatchInv, Types, Answer, GroupsFit
<1>2. TooWide(ids[i]) = "no"
  BY <1>1, SameGroups
<1>3. Number(ids, i) \in 0 .. HeerSeqs - 1
  <2>1. Cardinality(Peers(ids, i)) \in Nat /\ Number(ids, i) \in 0 .. Cardinality(Peers(ids, i)) - 1
    BY <1>1, Numbering
  <2> QED BY <1>1, <2>1, LayoutAssumption
<1> QED BY <1>2, <1>3, Fields DEF PartsOf, HeerParts

\* Two members of one group are numbered in the order of their RanjIds, then of the batch.
LEMMA PeersOrder ==
  ASSUME BatchInv, NEW i \in DOMAIN ids, NEW j \in DOMAIN ids, Key(ids[i]) = Key(ids[j])
  PROVE  /\ ids[i] < ids[j] => Number(ids, i) < Number(ids, j)
         /\ Number(ids, i) = Number(ids, j) => i = j
<1>1. ids \in Seq(RawRanjs)
  BY DEF BatchInv, Types
<1>2. j \in Peers(ids, i)
  BY DEF Peers
<1>3. /\ Number(ids, i) < Number(ids, j) <=> Precedes(ids, i, j)
      /\ Number(ids, i) = Number(ids, j) => i = j
  BY <1>1, <1>2, Numbering
<1> QED BY <1>3 DEF Precedes

\* Division keeps the order.
LEMMA Quotients ==
  ASSUME NEW a \in Nat, NEW b \in Nat, NEW m \in Nat \ {0}, a <= b
  PROVE  a \div m < b \div m \/ a \div m = b \div m
BY SMTT(30)

LEMMA InvKeepsOrder == BatchInv => KeepsOrder
<1> SUFFICES ASSUME BatchInv, outcome = "ok", NEW k \in DOMAIN results, NEW l \in DOMAIN results
             PROVE  LET a == results[k]
                        b == results[l]
                        p == RanjFields(a.ranj)
                        q == RanjFields(b.ranj)
                    IN
                    /\ k # l => a.heer # b.heer
                    /\ p.node = q.node /\ p.precision = q.precision /\ a.ranj < b.ranj => a.heer < b.heer
  BY DEF KeepsOrder
<1> DEFINE n == Len(ids)
           o == SortOrder(ids)
           i == o[k]
           j == o[l]
           p == RanjFields(ids[i])
           q == RanjFields(ids[j])
           m == Millis[p.precision]
<1>1. /\ ids \in Seq(RawRanjs) /\ n \in Nat /\ DOMAIN ids = 1 .. n /\ ids \in [1 .. n -> Int]
      /\ results = Converted(ids)
  BY BatchType DEF BatchInv, Types, Answer
<1>2. o \in [1 .. n -> 1 .. n] /\ \A a, b \in 1 .. n : o[a] = o[b] => a = b
  BY <1>1, Sorting
<1>3. /\ k \in 1 .. n /\ l \in 1 .. n /\ i \in DOMAIN ids /\ j \in DOMAIN ids
      /\ results[k] = Pair(ids, i) /\ results[l] = Pair(ids, j)
  BY <1>1, <1>2 DEF Converted
<1>4. i = j => k = l
  BY <1>2, <1>3
<1> HIDE DEF i, j
<1>5. PartsOf(ids, i) \in HeerParts /\ PartsOf(ids, j) \in HeerParts
  BY <1>3, PairParts
<1>6. ASSUME HeerRaw(PartsOf(ids, i)) = HeerRaw(PartsOf(ids, j)) PROVE i = j
  <2>1. PartsOf(ids, i) = PartsOf(ids, j)
    BY <1>5, <1>6, HeerFieldsOfRaw
  <2>2. Key(ids[i]) = Key(ids[j]) /\ Number(ids, i) = Number(ids, j)
    BY <2>1 DEF PartsOf, Key
  <2> QED BY <1>3, <2>2, PeersOrder
<1>7. ASSUME p.node = q.node, p.precision = q.precision, ids[i] < ids[j]
      PROVE  HeerRaw(PartsOf(ids, i)) < HeerRaw(PartsOf(ids, j))
  <2>1. /\ p \in RanjParts /\ RanjRaw(p) = ids[i] /\ q \in RanjParts /\ RanjRaw(q) = ids[j]
        /\ m \in Nat \ {0}
    BY <1>3, Fields
  <2>2. p.ts < q.ts \/ (p.ts = q.ts /\ (p.node < q.node \/ (p.node = q.node /\ p.seq < q.seq)))
    BY <1>7, <2>1, RanjOrderOfNodes
  <2>3. p.ts \in Nat /\ q.ts \in Nat /\ p.ts <= q.ts
    BY <2>1, <2>2 DEF RanjParts
  <2>4. p.ts \div m < q.ts \div m \/ p.ts \div m = q.ts \div m
    BY <2>1, <2>3, Quotients
  <2>5. Millisecond(ids[i]) = p.ts \div m /\ Millisecond(ids[j]) = q.ts \div m
    BY <1>7 DEF Millisecond
  <2>6. /\ PartsOf(ids, i).ts = Millisecond(ids[i]) /\ PartsOf(ids, j).ts = Millisecond(ids[j])
        /\ PartsOf(ids, i).node = p.node /\ PartsOf(ids, j).node = q.node
        /\ PartsOf(ids, i).seq = Number(ids, i) /\ PartsOf(ids, j).seq = Number(ids, j)
    BY DEF PartsOf
  <2>7. CASE Millisecond(ids[i]) < Millisecond(ids[j])
    BY <1>5, <2>6, <2>7, HeerOrder
  <2>8. CASE Millisecond(ids[i]) = Millisecond(ids[j])
    <3>1. Key(ids[i]) = Key(ids[j])
      BY <1>7, <2>8 DEF Key
    <3>2. Number(ids, i) < Number(ids, j)
      BY <1>3, <1>7, <3>1, PeersOrder
    <3> HIDE DEF p, q
    <3> QED BY <1>5, <1>7, <2>6, <2>8, <3>2, HeerOrder
  <2> QED BY <2>4, <2>5, <2>7, <2>8
<1>8. /\ Pair(ids, i).ranj = ids[i] /\ Pair(ids, j).ranj = ids[j]
      /\ Pair(ids, i).heer = HeerRaw(PartsOf(ids, i)) /\ Pair(ids, j).heer = HeerRaw(PartsOf(ids, j))
  BY DEF Pair
<1> QED BY <1>3, <1>4, <1>6, <1>7, <1>8

\* A HeerId as a RanjId, in the terms of the batch.
LEMMA FromHeer ==
  ASSUME NEW h \in HeerIds, NEW precision \in 0 .. Precisions - 1
  PROVE  LET p == HeerFields(h)
             ranj == ToRanj(h, precision)
         IN
         /\ p \in HeerParts /\ HeerRaw(p) = h
         /\ RanjFields(ranj).node = p.node /\ RanjFields(ranj).precision = precision
         /\ Millisecond(ranj) = p.ts /\ TooWide(ranj) = "no"
<1> DEFINE p == HeerFields(h)
           ranj == ToRanj(h, precision)
<1>1. PICK q \in HeerParts : h = HeerRaw(q)
  BY ConvertAssumption
<1>2. q = p /\ p \in HeerParts /\ HeerRaw(p) = h
  BY <1>1, HeerFieldsOfRaw
<1> HIDE DEF p
<1>3. ranj = RanjRaw(Scaled(p, precision)) /\ Scaled(p, precision) \in RanjParts
  BY <1>2, ScaledType DEF ToRanj, Scaled, p
<1>4. RanjFields(ranj) = Scaled(p, precision)
  BY <1>3, RanjFieldsOfRaw
<1>5. /\ p.ts \in Nat /\ p.ts < HeerTicks /\ p.node < HeerNodes /\ p.node \in Nat
      /\ HeerTicks \in Nat /\ HeerNodes \in Nat /\ Millis[precision] \in Nat \ {0}
  BY <1>2, LayoutAssumption DEF HeerParts
<1>6. RanjFields(ranj).node = p.node /\ RanjFields(ranj).precision = precision
  BY <1>4 DEF Scaled
<1>7. Millisecond(ranj) = p.ts
  <2>1. (p.ts * Millis[precision]) \div Millis[precision] = p.ts
    BY <1>5, Scaling
  <2> QED BY <1>4, <2>1 DEF Millisecond, Scaled
<1>8. TooWide(ranj) = "no"
  BY <1>5, <1>6, <1>7 DEF TooWide
<1> QED BY <1>2, <1>6, <1>7, <1>8 DEF p

\* Distinct HeerIds of one millisecond and node are no more than there are sequences.
LEMMA FewPeers ==
  ASSUME BatchInv, NEW precision \in 0 .. Precisions - 1, heers \in [DOMAIN ids -> HeerIds],
         \A i \in DOMAIN ids : ids[i] = ToRanj(heers[i], precision),
         IsInjective(heers), NEW i \in DOMAIN ids
  PROVE  Cardinality(Peers(ids, i)) <= HeerSeqs
<1> DEFINE D == Peers(ids, i)
           T == 0 .. HeerSeqs - 1
           f == [j \in D |-> HeerFields(heers[j]).seq]
<1>1. \A j \in D : j \in DOMAIN ids /\ heers[j] \in HeerIds /\ Key(ids[j]) = Key(ids[i])
  BY DEF Peers
<1>2. \A j \in D : /\ HeerFields(heers[j]) \in HeerParts /\ HeerRaw(HeerFields(heers[j])) = heers[j]
                   /\ HeerFields(heers[j]).ts = Key(ids[i]).ms /\ HeerFields(heers[j]).node = Key(ids[i]).node
  <2> TAKE j \in D
  <2>1. ids[j] = ToRanj(heers[j], precision) /\ heers[j] \in HeerIds /\ Key(ids[j]) = Key(ids[i])
    BY <1>1
  <2>2. /\ HeerFields(heers[j]) \in HeerParts /\ HeerRaw(HeerFields(heers[j])) = heers[j]
        /\ RanjFields(ids[j]).node = HeerFields(heers[j]).node
        /\ Millisecond(ids[j]) = HeerFields(heers[j]).ts
    BY <2>1, FromHeer
  <2>3. Key(ids[j]).ms = Millisecond(ids[j]) /\ Key(ids[j]).node = RanjFields(ids[j]).node
    BY DEF Key
  <2> QED BY <2>1, <2>2, <2>3
<1> HIDE DEF D
<1>3. f \in [D -> T]
  BY <1>2 DEF HeerParts
<1>4. ASSUME NEW j \in D, NEW k \in D, f[j] = f[k] PROVE j = k
  <2>1. HeerFields(heers[j]) = HeerFields(heers[k])
    BY <1>2, <1>4 DEF HeerParts
  <2>2. heers[j] = heers[k]
    BY <1>2, <2>1
  <2> QED BY <1>1, <2>2 DEF IsInjective
<1> HIDE DEF f
<1>5. f \in Injection(D, T)
  BY <1>3, <1>4, Fun_IsInj
<1>6. IsFiniteSet(T) /\ Cardinality(T) = HeerSeqs
  <2>1. HeerSeqs \in Nat \ {0}
    BY LayoutAssumption
  <2>2. /\ IsFiniteSet(0 .. HeerSeqs - 1)
        /\ Cardinality(0 .. HeerSeqs - 1) = IF 0 > HeerSeqs - 1 THEN 0 ELSE (HeerSeqs - 1) - 0 + 1
    BY <2>1, FS_Interval
  <2> QED BY <2>1, <2>2
<1> HIDE DEF T
<1>7. Cardinality(D) <= Cardinality(T)
  BY <1>5, <1>6, FS_Injection
<1> QED BY <1>6, <1>7 DEF D

LEMMA InvRoundTrip == BatchInv => RoundTrip
<1> SUFFICES ASSUME BatchInv, heers # <<>>, IsInjective(heers)
             PROVE  /\ outcome \in {"running", "ok"}
                    /\ outcome = "ok" =>
                         \E precision \in 0 .. Precisions - 1 :
                           LET back == [i \in DOMAIN heers |->
                                          (CHOOSE k \in DOMAIN results :
                                             results[k].ranj = ToRanj(heers[i], precision))]
                           IN /\ \A i \in DOMAIN heers : ids[i] = ToRanj(heers[i], precision)
                              /\ \A i \in DOMAIN heers :
                                   LET p == HeerFields(heers[i])
                                       q == HeerFields(results[back[i]].heer)
                                   IN q.ts = p.ts /\ q.node = p.node
                              /\ \A i, j \in DOMAIN heers :
                                   heers[i] < heers[j] => results[back[i]].heer < results[back[j]].heer
  BY DEF RoundTrip
<1>1. PICK precision \in 0 .. Precisions - 1 :
        heers \in [DOMAIN ids -> HeerIds] /\ \A i \in DOMAIN ids : ids[i] = ToRanj(heers[i], precision)
  BY DEF BatchInv, FromHeers
<1>2. DOMAIN heers = DOMAIN ids
  BY <1>1
<1>3. ASSUME NEW i \in DOMAIN ids
      PROVE  /\ heers[i] \in HeerIds /\ ids[i] = ToRanj(heers[i], precision)
             /\ HeerFields(heers[i]) \in HeerParts /\ HeerRaw(HeerFields(heers[i])) = heers[i]
             /\ RanjFields(ids[i]).node = HeerFields(heers[i]).node
             /\ Millisecond(ids[i]) = HeerFields(heers[i]).ts
             /\ TooWide(ids[i]) = "no"
  <2>1. heers[i] \in HeerIds /\ ids[i] = ToRanj(heers[i], precision)
    BY <1>1
  <2> QED BY <2>1, FromHeer
<1>4. outcome \in {"running", "ok"}
  <2>1. \A i \in DOMAIN ids : Cardinality(Peers(ids, i)) <= HeerSeqs
    BY <1>1, FewPeers
  <2>2. \A i \in DOMAIN ids : Cardinality(Peers(ids, i)) \in Nat
    BY Numbering DEF BatchInv, Types
  <2>3. HeerSeqs \in Nat
    BY LayoutAssumption
  <2>4. outcome # "sequence"
    BY <2>1, <2>2, <2>3 DEF BatchInv, Refusal
  <2>5. outcome \notin {"node", "timestamp"}
    BY <1>3 DEF BatchInv, Refusal
  <2> QED BY <2>4, <2>5 DEF BatchInv, Refusal
<1> DEFINE back == [i \in DOMAIN heers |->
                      (CHOOSE k \in DOMAIN results : results[k].ranj = ToRanj(heers[i], precision))]
           o == SortOrder(ids)
<1>5. ASSUME NEW i \in DOMAIN ids, NEW j \in DOMAIN ids, heers[i] < heers[j] PROVE ids[i] < ids[j]
  <2>1. Upward(heers[i], precision) < Upward(heers[j], precision)
    <3> DEFINE p == HeerFields(heers[i])
               q == HeerFields(heers[j])
    <3>1. p \in HeerParts /\ q \in HeerParts /\ HeerRaw(p) = heers[i] /\ HeerRaw(q) = heers[j]
      BY <1>3
    <3> HIDE DEF p, q
    <3>2. HeerRaw(p) < HeerRaw(q)
      BY <1>5, <3>1
    <3> QED BY <3>1, <3>2, ConversionOrder
  <2> QED BY <1>3, <2>1 DEF Upward
<1>6. ASSUME NEW i \in DOMAIN ids, NEW j \in DOMAIN ids, ids[i] = ids[j] PROVE i = j
  <2>1. heers[i] \in Int /\ heers[j] \in Int
    BY <1>3, HeerFieldsOfRaw
  <2>2. ids[i] \in Int /\ ids[j] \in Int
    BY Fields DEF RawRanjs
  <2>3. ~(heers[i] < heers[j]) /\ ~(heers[j] < heers[i])
    BY <1>5, <1>6, <2>2
  <2>4. heers[i] = heers[j]
    BY <2>1, <2>3
  <2> QED BY <1>2, <2>4 DEF IsInjective
<1>7. ASSUME outcome = "ok", NEW i \in DOMAIN ids PROVE results[back[i]] = Pair(ids, i)
  <2>1. /\ results = Converted(ids) /\ ids \in Seq(RawRanjs)
        /\ DOMAIN ids = 1 .. Len(ids) /\ ids \in [1 .. Len(ids) -> Int] /\ Len(ids) \in Nat
    BY <1>7, BatchType DEF BatchInv, Types, Answer
  <2>2. DOMAIN results = 1 .. Len(ids) /\ \A k \in 1 .. Len(ids) : results[k] = Pair(ids, o[k])
    BY <2>1 DEF Converted
  <2>3. /\ o \in [1 .. Len(ids) -> 1 .. Len(ids)]
        /\ \E k \in 1 .. Len(ids) : o[k] = i
    <3>1. /\ SortOrder(ids) \in [1 .. Len(ids) -> 1 .. Len(ids)]
          /\ \A j \in 1 .. Len(ids) : \E k \in 1 .. Len(ids) : SortOrder(ids)[k] = j
      BY <2>1, Sorting
    <3> QED BY <2>1, <3>1, Zenon
  <2> HIDE DEF o
  <2>4. \E k \in DOMAIN results : results[k].ranj = ToRanj(heers[i], precision)
    BY <1>3, <2>2, <2>3 DEF Pair
  <2>5. back[i] = CHOOSE k \in DOMAIN results : results[k].ranj = ToRanj(heers[i], precision)
    BY <1>2
  <2> HIDE DEF back
  <2>6. back[i] \in DOMAIN results /\ results[back[i]].ranj = ToRanj(heers[i], precision)
    BY <2>4, <2>5
  <2>7. /\ o[back[i]] \in DOMAIN ids /\ results[back[i]] = Pair(ids, o[back[i]])
        /\ results[back[i]].ranj = ids[o[back[i]]]
    BY <2>1, <2>2, <2>3, <2>6, SMTT(30) DEF Pair
  <2>8. ids[o[back[i]]] = ids[i]
    BY <1>3, <2>6, <2>7
  <2> QED BY <1>6, <2>7, <2>8
<1> HIDE DEF back
<1>8. ASSUME outcome = "ok", NEW i \in DOMAIN ids
      PROVE  /\ results[back[i]].heer = HeerRaw(PartsOf(ids, i))
             /\ PartsOf(ids, i) \in HeerParts
             /\ PartsOf(ids, i).ts = HeerFields(heers[i]).ts /\ PartsOf(ids, i).node = HeerFields(heers[i]).node
             /\ PartsOf(ids, i).seq = Number(ids, i)
             /\ HeerFields(results[back[i]].heer) = PartsOf(ids, i)
  <2>1. results[back[i]].heer = HeerRaw(PartsOf(ids, i)) /\ PartsOf(ids, i) \in HeerParts
    <3>1. results[back[i]] = Pair(ids, i)
      BY <1>7, <1>8
    <3> QED BY <1>8, <3>1, PairParts DEF Pair
  <2>2. HeerFields(HeerRaw(PartsOf(ids, i))) = PartsOf(ids, i)
    BY <2>1, HeerFieldsOfRaw
  <2>3. /\ PartsOf(ids, i).ts = Millisecond(ids[i]) /\ PartsOf(ids, i).node = RanjFields(ids[i]).node
        /\ PartsOf(ids, i).seq = Number(ids, i)
    BY DEF PartsOf
  <2> QED BY <1>3, <2>1, <2>2, <2>3
<1>9. ASSUME outcome = "ok", NEW i \in DOMAIN ids, NEW j \in DOMAIN ids, heers[i] < heers[j]
      PROVE  results[back[i]].heer < results[back[j]].heer
  <2> DEFINE p == HeerFields(heers[i])
             q == HeerFields(heers[j])
             a == PartsOf(ids, i)
             b == PartsOf(ids, j)
  <2>1. /\ p \in HeerParts /\ q \in HeerParts /\ HeerRaw(p) < HeerRaw(q)
        /\ a \in HeerParts /\ b \in HeerParts
        /\ a.ts = p.ts /\ a.node = p.node /\ a.seq = Number(ids, i)
        /\ b.ts = q.ts /\ b.node = q.node /\ b.seq = Number(ids, j)
        /\ results[back[i]].heer = HeerRaw(a) /\ results[back[j]].heer = HeerRaw(b)
    BY <1>3, <1>8, <1>9
  <2>2. p.ts = q.ts /\ p.node = q.node => Number(ids, i) < Number(ids, j)
    <3> SUFFICES ASSUME p.ts = q.ts, p.node = q.node PROVE Number(ids, i) < Number(ids, j)
      OBVIOUS
    <3>1. Key(ids[i]) = Key(ids[j])
      BY <1>3 DEF Key
    <3>2. ids[i] < ids[j]
      BY <1>5, <1>9
    <3> QED BY <3>1, <3>2, PeersOrder
  <2> HIDE DEF p, q, a, b
  <2>3. p.ts < q.ts \/ (p.ts = q.ts /\ (p.node < q.node \/ (p.node = q.node /\ p.seq < q.seq)))
    BY <2>1, HeerOrder
  <2>4. HeerRaw(a) < HeerRaw(b)
    BY <2>1, <2>2, <2>3, HeerOrder
  <2> QED BY <2>1, <2>4
<1>10. ASSUME outcome = "ok"
       PROVE  /\ \A i \in DOMAIN heers : ids[i] = ToRanj(heers[i], precision)
              /\ \A i \in DOMAIN heers :
                   LET p == HeerFields(heers[i])
                       q == HeerFields(results[back[i]].heer)
                   IN q.ts = p.ts /\ q.node = p.node
              /\ \A i, j \in DOMAIN heers :
                   heers[i] < heers[j] => results[back[i]].heer < results[back[j]].heer
  BY <1>2, <1>3, <1>8, <1>9, <1>10
<1> QED BY <1>4, <1>10 DEF back

-----------------------------------------------------------------------------
(* The conversion of a batch: the theorems. *)

\* What the check passes converts, and an error was a conflict the check reports.
THEOREM ChecksAgree == Spec => []AgreesWithCheck
BY Conversions, InvAgrees, PTL

\* The order in which the HashMap yields the groups does not show in the result.
THEOREM OneResult == Spec => []OrderFree
BY Conversions, InvOrderFree, PTL

\* Distinct results, in the order of the batch's identifiers of one node and precision.
THEOREM OrderKept == Spec => []KeepsOrder
BY Conversions, InvKeepsOrder, PTL

\* HeerIds come back, renumbered, from the RanjIds they were converted to.
THEOREM ComesBack == Spec => []RoundTrip
BY Conversions, InvRoundTrip, PTL

-----------------------------------------------------------------------------
(* The parts together. *)

\* A step of the library is a step of one part and leaves the others alone.
THEOREM Composition == LibrarySpec => Spec /\ PrecisionSpec /\ WireSpec /\ FfiSpec
<1>1. LibraryInit => Init /\ PrecisionInit /\ WireInit /\ FfiInit
  BY DEF LibraryInit
<1>2. [LibraryNext]_libraryVars =>
        [Next]_vars /\ [PrecisionNext]_precisionVars /\ [WireNext]_wireVars /\ [FfiNext]_ffiVars
  BY DEF LibraryNext, libraryVars
<1> QED BY <1>1, <1>2, PTL DEF LibrarySpec, Spec, PrecisionSpec, WireSpec, FfiSpec

\* So everything proved of a part holds of the library.
THEOREM WholeLibrary ==
  LibrarySpec => [](/\ AgreesWithCheck /\ OrderFree /\ KeepsOrder /\ RoundTrip
                    /\ ConvertedInOrder /\ LosslessOrRefused /\ ErrorIsOwn)
BY Composition, ChecksAgree, OneResult, OrderKept, ComesBack, InOrder, Lossless, OwnErrors, PTL
=============================================================================
