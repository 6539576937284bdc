-------------------------------- MODULE Ids --------------------------------
(***************************************************************************)
(* Points of generated time: what the timestamp and sequence fields of a   *)
(* HeerId or a RanjId, and the two columns of a generator state row, hold. *)
(* A tick carries SeqCap sequences; a batch fills ticks one after another. *)
(***************************************************************************)
EXTENDS Integers, Sequences

CONSTANT SeqCap     \* identifiers per tick: 8192 (HeerId), 65536 (RanjId)

ASSUME SeqCapAssumption == SeqCap \in Nat \ {0}

Seqs == 0 .. SeqCap - 1
Point == [tick : Nat, seq : Seqs]

\* The order of two points, which is the order of the raw values of identifiers of one
\* node: the timestamp field is the most significant.
Before(a, b) == a.tick < b.tick \/ (a.tick = b.tick /\ a.seq < b.seq)

\* Mutant of PointAt: the batch runs past the last sequence of its tick.
PastTick(t, q, i) == [tick |-> t, seq |-> q + i]

\* The i-th point, from 0, of a batch that starts at sequence q of tick t: the loop of
\* generate_ids fills the tick and goes on with sequence 0 of the next one.  A batch may
\* start at q = SeqCap, when the tick is full.
PointAt(t, q, i) == [tick |-> t + (q + i) \div SeqCap, seq |-> (q + i) % SeqCap]

IdsOf(ids) == {ids[i] : i \in 1..Len(ids)}
=============================================================================
