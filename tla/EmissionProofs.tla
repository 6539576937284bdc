--------------------------- MODULE EmissionProofs ---------------------------
(***************************************************************************)
(* Facts about points and their order, on which the proofs of the          *)
(* generator and of its configuration rest as well; and the emission loop, *)
(* which returns the closed form for every capacity of a tick, every       *)
(* starting point and every requested count.                               *)
(***************************************************************************)
EXTENDS Emission, TLAPS

-----------------------------------------------------------------------------
(* Points. *)

\* Division by the capacity of a tick.
LEMMA DivModLemma ==
  ASSUME NEW a \in Nat
  PROVE  /\ a \div SeqCap \in Nat
         /\ a % SeqCap \in Seqs
         /\ a = SeqCap * (a \div SeqCap) + (a % SeqCap)
  BY SeqCapAssumption, SMTT(30) DEF Seqs

\* Quotient and remainder are determined by that equation.
LEMMA DivModUnique ==
  ASSUME NEW a \in Nat, NEW d \in Nat, NEW r \in Seqs, a = SeqCap * d + r
  PROVE  a \div SeqCap = d /\ a % SeqCap = r
  BY DivModLemma, SeqCapAssumption, SMTT(30) DEF Seqs

\* A greater number has a greater quotient, or the same one and a greater remainder.
LEMMA DivMonotone ==
  ASSUME NEW a \in Nat, NEW b \in Nat, a < b
  PROVE  \/ a \div SeqCap < b \div SeqCap
         \/ a \div SeqCap = b \div SeqCap /\ a % SeqCap < b % SeqCap
  BY DivModLemma, SeqCapAssumption, SMTT(30) DEF Seqs

\* A number of at least d whole ticks has a quotient of at least d.
LEMMA DivAtLeast ==
  ASSUME NEW a \in Nat, NEW d \in Nat, a >= SeqCap * d
  PROVE  a \div SeqCap >= d
  BY DivModLemma, SeqCapAssumption, SMTT(30) DEF Seqs

\* Every point of a batch is a point: its sequence fits its field.
LEMMA PointAtType ==
  ASSUME NEW t \in Nat, NEW q \in Nat, NEW i \in Nat
  PROVE  PointAt(t, q, i) \in Point
  <1>1. q + i \in Nat
    OBVIOUS
  <1>2. (q + i) \div SeqCap \in Nat /\ (q + i) % SeqCap \in Seqs
    BY <1>1, DivModLemma
  <1> QED
    BY <1>2 DEF PointAt, Point

\* A batch is strictly increasing.
LEMMA PointAtIncreasing ==
  ASSUME NEW t \in Nat, NEW q \in Nat, NEW i \in Nat, NEW j \in Nat, i < j
  PROVE  Before(PointAt(t, q, i), PointAt(t, q, j))
  <1>1. q + i \in Nat /\ q + j \in Nat /\ q + i < q + j
    OBVIOUS
  <1>2. /\ (q + i) \div SeqCap \in Nat
        /\ (q + j) \div SeqCap \in Nat
    BY <1>1, DivModLemma
  <1>3. \/ (q + i) \div SeqCap < (q + j) \div SeqCap
        \/ (q + i) \div SeqCap = (q + j) \div SeqCap /\ (q + i) % SeqCap < (q + j) % SeqCap
    BY <1>1, DivMonotone
  <1> QED
    BY <1>2, <1>3 DEF PointAt, Before

\* Before the end of the first tick the points of a batch are in that tick.
LEMMA PointAtInTick ==
  ASSUME NEW t \in Nat, NEW q \in Nat, NEW i \in Nat, q + i < SeqCap
  PROVE  PointAt(t, q, i) = [tick |-> t, seq |-> q + i]
  <1>1. q + i \in Nat /\ q + i \in Seqs /\ q + i = SeqCap * 0 + (q + i)
    BY SeqCapAssumption DEF Seqs
  <1>2. (q + i) \div SeqCap = 0 /\ (q + i) % SeqCap = q + i
    BY <1>1, DivModUnique
  <1> QED
    BY <1>2 DEF PointAt

\* The elements of a concatenation.
LEMMA ConcatElements ==
  ASSUME NEW S, NEW a \in Seq(S), NEW b \in Seq(S)
  PROVE  /\ a \o b \in Seq(S)
         /\ Len(a) \in Nat /\ Len(b) \in Nat
         /\ Len(a \o b) = Len(a) + Len(b)
         /\ \A i \in 1..Len(a) : (a \o b)[i] = a[i]
         /\ \A i \in Len(a) + 1 .. Len(a) + Len(b) : (a \o b)[i] = b[i - Len(a)]
  OBVIOUS

\* Points and identifiers are compared by these two fields alone.
Comparable(a) == a.tick \in Int /\ a.seq \in Int

\* The order is a strict total order of the positions compared.
LEMMA BeforeOrder ==
  ASSUME NEW a, NEW b, NEW c, Comparable(a), Comparable(b), Comparable(c)
  PROVE  /\ ~Before(a, a)
         /\ Before(a, b) => ~Before(b, a)
         /\ Before(a, b) /\ Before(b, c) => Before(a, c)
         /\ ~Before(b, a) /\ Before(b, c) => Before(a, c)
         /\ Before(a, b) /\ ~Before(c, b) => Before(a, c)
         /\ ~Before(a, b) /\ ~Before(b, c) => ~Before(a, c)
  BY DEF Comparable, Before

\* A point that starts a batch is not after any point of the batch.
LEMMA PointAtFrom ==
  ASSUME NEW t \in Nat, NEW q \in Nat, NEW i \in Nat
  PROVE  LET p == PointAt(t, q, i) IN p.tick > t \/ (p.tick = t /\ p.seq = q + i)
  <1>1. q + i \in Nat
    OBVIOUS
  <1>2. /\ (q + i) \div SeqCap \in Nat
        /\ q + i = SeqCap * ((q + i) \div SeqCap) + ((q + i) % SeqCap)
        /\ (q + i) % SeqCap \in Nat
    BY <1>1, DivModLemma DEF Seqs
  <1>3. CASE (q + i) \div SeqCap = 0
    <2>1. SeqCap * ((q + i) \div SeqCap) = 0
      BY <1>3, SeqCapAssumption
    <2> QED BY <1>1, <1>2, <1>3, <2>1 DEF PointAt
  <1>4. CASE (q + i) \div SeqCap > 0
    BY <1>2, <1>4 DEF PointAt
  <1> QED
    BY <1>2, <1>3, <1>4

-----------------------------------------------------------------------------
(* The emission loop. *)

USE SeqCapAssumption, EmissionAssumption

LEMMA InitLoopInv == EmissionInit => LoopInv
  <1> SUFFICES ASSUME EmissionInit
               PROVE  LoopInv
    OBVIOUS
  <1>1. /\ start.tick \in Nat /\ start.seq \in 0..SeqCap /\ start.count \in Nat \ {0}
        /\ start \in [tick : Nat, seq : 0..SeqCap, count : Nat \ {0}]
    BY DEF EmissionInit
  <1>2. remaining = start.count /\ current_tick = start.tick /\ next_sequence = start.seq
    BY DEF EmissionInit
  <1>3. out = <<>>
    BY DEF EmissionInit
  <1>4. /\ out \in Seq(Point) /\ Len(out) = 0
        /\ \A i \in 1..Len(out) : out[i] = PointAt(start.tick, start.seq, i - 1)
    BY <1>3
  <1>5. start.seq + Len(out) = SeqCap * (current_tick - start.tick) + next_sequence
    <2>1. SeqCap * (start.tick - start.tick) = 0
      <3>1. start.tick - start.tick = 0
        BY <1>1
      <3> QED BY <3>1
    <2> QED BY <1>1, <1>2, <1>4, <2>1
  <1>6. remaining # 0 /\ Len(out) + remaining = start.count /\ ~raised
    BY <1>1, <1>2, <1>4 DEF EmissionInit
  <1> QED
    BY <1>1, <1>2, <1>4, <1>5, <1>6 DEF LoopInv

\* What one iteration emits: the next points of the batch.
LEMMA IterationEmits ==
  ASSUME LoopInv, remaining > 0,
         NEW k \in Nat \ {0}, next_sequence + k <= SeqCap
  PROVE  /\ [tick |-> current_tick, seq |-> next_sequence + k - 1]
              = PointAt(start.tick, start.seq, Len(out) + k - 1)
         /\ [tick |-> current_tick, seq |-> next_sequence + k - 1] \in Point
  <1> DEFINE d == current_tick - start.tick
             r == next_sequence + k - 1
             a == start.seq + (Len(out) + k - 1)
  <1>1. /\ start.tick \in Nat /\ start.seq \in Nat /\ Len(out) \in Nat
        /\ current_tick \in Nat /\ current_tick >= start.tick /\ next_sequence \in Nat
    BY DEF LoopInv
  <1>2. d \in Nat /\ r \in Seqs /\ a \in Nat
    BY <1>1 DEF Seqs
  <1>3. start.seq + Len(out) = SeqCap * d + next_sequence
    BY DEF LoopInv
  <1>4. SeqCap * d \in Nat
    BY <1>2
  <1>5. a = SeqCap * d + r
    <2> HIDE DEF d
    <2> QED BY <1>1, <1>2, <1>3, <1>4
  <1>6. a \div SeqCap = d /\ a % SeqCap = r
    <2> HIDE DEF a, d, r
    <2> QED BY <1>2, <1>5, DivModUnique
  <1>7. PointAt(start.tick, start.seq, Len(out) + k - 1) = [tick |-> start.tick + d, seq |-> r]
    BY <1>6 DEF PointAt
  <1>8. start.tick + d = current_tick
    BY <1>1
  <1> QED
    BY <1>1, <1>2, <1>7, <1>8 DEF Point

LEMMA IterateLoopInv == LoopInv /\ Iterate => LoopInv'
  <1> SUFFICES ASSUME LoopInv, Iterate
               PROVE  LoopInv'
    OBVIOUS
  <1> DEFINE e == Least(remaining, AvailableThisTick(next_sequence))
             new == [k \in 1..e |-> [tick |-> current_tick, seq |-> next_sequence + k - 1]]
  <1>1. /\ start.tick \in Nat /\ start.seq \in Nat /\ start.count \in Nat
        /\ remaining \in Nat /\ remaining > 0
        /\ current_tick \in Nat /\ current_tick >= start.tick
        /\ next_sequence \in Nat /\ next_sequence <= SeqCap
        /\ out \in Seq(Point) /\ Len(out) \in Nat
        /\ Len(out) + remaining = start.count
    BY DEF LoopInv, Iterate
  <1>2. /\ e \in Nat /\ e <= remaining /\ next_sequence + e <= SeqCap
        /\ e = remaining \/ next_sequence + e = SeqCap
    BY <1>1 DEF Least, AvailableThisTick
  <1>3. /\ out' = out \o new
        /\ last' = [tick |-> current_tick, seq |-> next_sequence + e - 1]
        /\ remaining' = remaining - e
        /\ current_tick' = current_tick + 1
        /\ next_sequence' = 0
        /\ start' = start
        /\ raised' = raised
        /\ ~Exceeds(current_tick)
    BY DEF Iterate, SeqOfNextTick
  <1>4. \A k \in 1..e :
          /\ new[k] = PointAt(start.tick, start.seq, Len(out) + k - 1)
          /\ new[k] \in Point
    BY <1>1, <1>2, IterationEmits
  <1>5. new \in Seq(Point) /\ Len(new) = e
    <2>1. new \in [1..e -> Point]
      BY <1>4
    <2> HIDE DEF new, e
    <2> QED BY <1>2, <2>1
  <1> HIDE DEF e, new
  <1>6. /\ out' \in Seq(Point)
        /\ Len(out') = Len(out) + e
        /\ \A i \in 1..Len(out) : out'[i] = out[i]
        /\ \A i \in Len(out) + 1..Len(out) + e : out'[i] = new[i - Len(out)]
    BY <1>1, <1>3, <1>5, ConcatElements, ZenonT(60)
  <1>7. \A i \in 1..Len(out') : out'[i] = PointAt(start.tick, start.seq, i - 1)
    <2> SUFFICES ASSUME NEW i \in 1..Len(out')
                 PROVE  out'[i] = PointAt(start.tick, start.seq, i - 1)
      OBVIOUS
    <2>1. CASE i <= Len(out)
      BY <1>1, <1>6, <2>1 DEF LoopInv
    <2>2. CASE i > Len(out)
      <3>1. i - Len(out) \in 1..e /\ Len(out) + (i - Len(out)) - 1 = i - 1
        BY <1>1, <1>2, <1>6, <2>2, SMTT(60)
      <3> QED BY <1>1, <1>2, <1>4, <1>6, <2>2, <3>1
    <2> QED BY <1>1, <1>2, <1>6, <2>1, <2>2
  <1>8. \/ remaining' = 0
        \/ start.seq + Len(out') = SeqCap * (current_tick' - start.tick) + next_sequence'
    <2> SUFFICES ASSUME remaining' # 0
                 PROVE  start.seq + Len(out') = SeqCap * (current_tick' - start.tick) + next_sequence'
      OBVIOUS
    <2>1. next_sequence + e = SeqCap
      BY <1>1, <1>2, <1>3
    <2>2. start.seq + Len(out) = SeqCap * (current_tick - start.tick) + next_sequence
      BY <1>1 DEF LoopInv
    <2> DEFINE before == SeqCap * (current_tick - start.tick)
               after == SeqCap * (current_tick' - start.tick)
    <2>3. before \in Int /\ after = before + SeqCap
      BY <1>1, <1>3
    <2> HIDE DEF before, after
    <2>4. start.seq + Len(out) = before + next_sequence
      BY <2>2 DEF before
    <2>5. Len(out') = Len(out) + e
      BY <1>6
    <2>6. next_sequence' = 0
      BY <1>3
    <2>7. start.seq + (Len(out) + e) = after + 0
      BY <1>1, <1>2, <2>1, <2>3, <2>4
    <2> QED BY <2>5, <2>6, <2>7 DEF after
  <1>9. remaining' = 0 => last' = PointAt(start.tick, start.seq, start.count - 1)
    <2> SUFFICES ASSUME remaining' = 0
                 PROVE  last' = PointAt(start.tick, start.seq, start.count - 1)
      OBVIOUS
    <2>1. remaining' = remaining - e
      BY <1>3
    <2>2. e = remaining
      BY <1>1, <1>2, <2>1
    <2>3. e \in Nat \ {0} /\ Len(out) + e - 1 = start.count - 1
      BY <1>1, <2>2
    <2> QED BY <1>2, <1>3, <2>3, IterationEmits, <1>1
  <1>12. ~Exceeds(last'.tick) /\ ~raised'
    BY <1>3 DEF LoopInv, Exceeds
  <1>10. start' \in [tick : Nat, seq : 0..SeqCap, count : Nat \ {0}]
    BY <1>3 DEF LoopInv
  <1>11. /\ remaining' \in Nat /\ current_tick' \in Nat /\ current_tick' >= start'.tick
         /\ next_sequence' \in 0..SeqCap
         /\ Len(out') + remaining' = start'.count
    BY <1>1, <1>2, <1>3, <1>6
  <1> QED
    BY <1>3, <1>6, <1>7, <1>8, <1>9, <1>10, <1>11, <1>12 DEF LoopInv, Exceeds

\* The invariant of the loop holds of every iteration.
THEOREM LoopInvariant == EmissionSpec => []LoopInv
  <1>1. LoopInv /\ [EmissionNext]_emissionVars => LoopInv'
    <2>1. ASSUME LoopInv, Raise PROVE LoopInv'
      BY <2>1 DEF LoopInv, Raise, Exceeds
    <2>2. ASSUME LoopInv, UNCHANGED emissionVars PROVE LoopInv'
      BY <2>2 DEF LoopInv, Exceeds, emissionVars
    <2>3. ASSUME LoopInv, Ended PROVE LoopInv'
      BY <2>2, <2>3 DEF Ended
    <2> QED BY <2>1, <2>2, <2>3, IterateLoopInv DEF EmissionNext
  <1> QED
    BY <1>1, InitLoopInv, PTL DEF EmissionSpec

\* generate_ids' loop returns exactly the requested points, the last of which it stores.
THEOREM EmissionCorrect == EmissionSpec => []EmitsClosedForm
  <1>1. LoopInv => EmitsClosedForm
    <2> SUFFICES ASSUME LoopInv, remaining = 0
                 PROVE  EmitsClosedForm
      BY DEF EmitsClosedForm
    <2>1. Len(out) \in Nat /\ Len(out) = start.count /\ start.count \in Nat \ {0}
      BY DEF LoopInv
    <2>2. \A i \in 1..start.count : out[i] = PointAt(start.tick, start.seq, i - 1)
      BY <2>1 DEF LoopInv
    <2>3. last = out[start.count]
      BY <2>1, <2>2 DEF LoopInv
    <2> QED BY <2>1, <2>2, <2>3 DEF EmitsClosedForm
  <1> QED
    BY <1>1, LoopInvariant, PTL

\* generate_ranjids raises 50030 exactly for the batches that do not fit its layout.
THEOREM RaisesCorrect == EmissionSpec => []RaisesExactly
  <1>1. LoopInv => RaisesExactly
    <2> SUFFICES ASSUME LoopInv
                 PROVE  RaisesExactly
      OBVIOUS
    <2> DEFINE n == start.count - 1
               lastTick == PointAt(start.tick, start.seq, n).tick
    <2>0. /\ start.tick \in Nat /\ start.seq \in 0..SeqCap /\ start.count \in Nat \ {0}
          /\ out \in Seq(Point) /\ next_sequence \in 0..SeqCap
          /\ current_tick \in Nat /\ current_tick >= start.tick
      BY DEF LoopInv
    <2>1. /\ start.tick \in Nat /\ start.seq \in Nat /\ start.count \in Nat \ {0}
          /\ n \in Nat /\ start.seq + n \in Nat
          /\ Len(out) \in Nat /\ next_sequence \in Nat
          /\ current_tick \in Nat /\ current_tick - start.tick \in Nat
      BY <2>0, SMTT(30)
    <2>2. lastTick = start.tick + (start.seq + n) \div SeqCap /\ lastTick \in Nat
      <3>1. lastTick = start.tick + (start.seq + n) \div SeqCap
        BY DEF PointAt
      <3>2. (start.seq + n) \div SeqCap \in Nat
        <4> HIDE DEF n
        <4> QED BY <2>1, DivModLemma
      <3> DEFINE quotient == (start.seq + n) \div SeqCap
      <3> HIDE DEF n, lastTick, quotient
      <3>3. lastTick = start.tick + quotient
        BY <3>1 DEF quotient
      <3>4. start.tick + quotient \in Nat
        <4>1. quotient \in Nat
          BY <3>2 DEF quotient
        <4> QED BY <2>1, <4>1
      <3> QED BY <3>1, <3>3, <3>4
    <2>3. ASSUME raised PROVE Checked /\ lastTick > LastTick
      <3> DEFINE d == current_tick - start.tick
      <3>1. /\ remaining > 0 /\ remaining \in Nat /\ Len(out) + remaining = start.count
            /\ start.seq + Len(out) = SeqCap * d + next_sequence
            /\ Checked /\ current_tick > LastTick
        BY <2>3 DEF LoopInv, Exceeds
      <3>2. d \in Nat /\ SeqCap * d \in Nat
        BY <2>1
      <3>3. start.seq + n >= SeqCap * d
        <4> HIDE DEF d
        <4> QED BY <2>1, <3>1, <3>2
      <3>4. (start.seq + n) \div SeqCap >= d
        <4> HIDE DEF d, n
        <4> QED BY <2>1, <3>2, <3>3, DivAtLeast
      <3>5. (start.seq + n) \div SeqCap \in Nat
        BY <2>1, DivModLemma
      <3>6. lastTick >= current_tick
        <4> HIDE DEF n, lastTick
        <4> QED BY <2>1, <2>2, <3>4, <3>5
      <3> QED BY <2>1, <2>2, <3>1, <3>6
    <2>4. ASSUME remaining = 0 PROVE ~Checked \/ lastTick <= LastTick
      <3>1. last.tick = lastTick /\ ~Exceeds(last.tick)
        BY <2>4 DEF LoopInv
      <3> HIDE DEF lastTick
      <3> QED BY <2>2, <3>1 DEF Exceeds
    <2>5. raised => ~(~Checked \/ lastTick <= LastTick)
      <3> HIDE DEF lastTick
      <3> QED BY <2>2, <2>3
    <2> QED BY <2>4, <2>5 DEF RaisesExactly
  <1> QED
    BY <1>1, LoopInvariant, PTL
=============================================================================
