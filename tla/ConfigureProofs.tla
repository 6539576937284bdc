-------------------------- MODULE ConfigureProofs --------------------------
(***************************************************************************)
(* What replacing the generators under running calls preserves, for any    *)
(* sessions, nodes, epochs, precisions, batches and any number of calls    *)
(* of heer_configure and install_schema.                                   *)
(***************************************************************************)
EXTENDS Configure, EmissionProofs, FiniteSetTheorems

USE SeqCapAssumption

-----------------------------------------------------------------------------
(* Types. *)

Id == [stream : Streams, precision : DOMAIN Factor \cup {"ms"}, point : Point]

Body == [baked : BOOLEAN, epoch : Nat, precision : DOMAIN Factor]

CallRecord == [stream : Streams, count : Counts, epoch : Nat, precision : DOMAIN Factor]

\* TypeOK with the fields of the records it leaves open.
Types ==
  /\ TypeOK
  /\ job \in [step : {"none", "reset", "smoke", "commit"}, body : Body, force : Forces \cup {FALSE},
              got : SUBSET Id]
  /\ \A s \in Sessions : call[s] = Idle \/ call[s] \in CallRecord
  /\ DOMAIN call = Sessions
  /\ issued \subseteq Id

\* Everything that computes an identifier has an epoch and a known precision.
Clocked(c) == c.epoch \in Nat /\ c.precision \in DOMAIN Factor

LEMMA TickType ==
  ASSUME NEW st \in Streams, NEW c, Clocked(c), NEW now \in Nat
  PROVE  TickOf(st, c, now) \in Int
  <1>1. Factor[c.precision] \in Nat
    BY ConfigureAssumption DEF Clocked
  <1>2. now - c.epoch \in Int
    BY DEF Clocked
  <1> DEFINE a == now - c.epoch
             f == Factor[c.precision]
  <1>3. a * f \in Int
    <2> HIDE DEF a, f
    <2>1. a \in Int /\ f \in Int
      BY <1>1, <1>2 DEF a, f
    <2> QED BY <2>1
  <1> QED
    BY <1>2, <1>3 DEF TickOf

\* The wall clock only moves ticks up.
LEMMA TickGrows ==
  ASSUME NEW st \in Streams, NEW c, Clocked(c), NEW now \in Nat
  PROVE  TickOf(st, c, now) <= TickOf(st, c, now + 1)
  <1> DEFINE a == now - c.epoch
             f == Factor[c.precision]
  <1>1. f \in Nat /\ a \in Int /\ (now + 1) - c.epoch = a + 1
    BY ConfigureAssumption DEF Clocked
  <1> HIDE DEF a, f
  <1>2. a * f <= (a + 1) * f
    BY <1>1, SMTT(30)
  <1> QED
    BY <1>1, <1>2 DEF TickOf, a, f

\* A call that does not fail allocates a batch of points above its row, from the tick the
\* clock shows on, and leaves the last of them in the row.
LEMMA Allocated ==
  ASSUME NEW st \in Streams, NEW r \in Point, NEW c, Clocked(c), NEW n \in Nat \ {0},
         clock \in Nat, ~Fails(st, r, c)
  PROVE  /\ RowAfter(st, r, c, n) \in Point
         /\ Before(r, RowAfter(st, r, c, n))
         /\ RowAfter(st, r, c, 1).tick <= TickOf(st, c, clock) + 1
         /\ BatchFrom(st, r, c, n) \subseteq Id
         /\ \A id \in BatchFrom(st, r, c, n) :
              /\ id.stream = st
              /\ Before(r, id.point)
              /\ ~Before(RowAfter(st, r, c, n), id.point)
         /\ IsFiniteSet(BatchFrom(st, r, c, n))
         /\ Cardinality(BatchFrom(st, r, c, n)) = n
  <1> DEFINE t == TickOf(st, c, clock)
             q == NextSeq(r, t)
             p(i) == PointAt(t, q, i)
             k == IF st.kind = "heer" THEN "ms" ELSE c.precision
             id(i) == [stream |-> st, precision |-> k, point |-> p(i)]
             b == {id(i) : i \in 0 .. n - 1}
  <1>1. BatchFrom(st, r, c, n) = b /\ RowAfter(st, r, c, n) = p(n - 1)
    BY DEF BatchFrom, RowAfter
  <1>2. t \in Nat /\ r.tick \in Nat /\ r.seq \in Nat /\ r.tick <= t
    <2>1. t \in Int
      BY TickType
    <2>2. r.tick \in Nat /\ r.seq \in Nat
      BY DEF Point, Seqs
    <2> QED BY <2>1, <2>2 DEF Fails, RolledBack
  <1>3. /\ q \in Nat
        /\ q <= SeqCap
        /\ t > r.tick \/ (t = r.tick /\ q = r.seq + 1)
    <2>1. r.seq <= SeqCap - 1
      BY DEF Point, Seqs
    <2> HIDE DEF t
    <2> QED BY <1>2, <2>1 DEF NextSeq
  <1>4. k \in DOMAIN Factor \cup {"ms"}
    BY DEF Clocked
  <1> HIDE DEF t, q, k
  <1>5. ASSUME NEW i \in Nat
        PROVE  p(i) \in Point /\ Before(r, p(i))
    <2>1. p(i) \in Point
      BY <1>2, <1>3, PointAtType
    <2>2. p(i).tick > t \/ (p(i).tick = t /\ p(i).seq = q + i)
      BY <1>2, <1>3, PointAtFrom
    <2>3. p(i).tick \in Nat /\ p(i).seq \in Nat
      BY <2>1 DEF Point, Seqs
    <2>4. Before(r, p(i))
      <3> HIDE DEF p
      <3> QED BY <1>2, <1>3, <2>2, <2>3 DEF Before
    <2> QED BY <2>1, <2>4
  <1>6. ASSUME NEW i \in Nat, NEW j \in Nat, i < j
        PROVE  Before(p(i), p(j))
    BY <1>2, <1>3, <1>6, PointAtIncreasing
  <1>7. \A a \in Point : Comparable(a)
    BY DEF Point, Seqs, Comparable
  <1>8. p(0).tick <= t + 1
    <2>1. q \div SeqCap <= 1
      <3>1. CASE q = SeqCap
        <4>1. 0 \in Seqs /\ q = SeqCap * 1 + 0
          BY <3>1 DEF Seqs
        <4>2. q \div SeqCap = 1
          BY <1>3, <4>1, DivModUnique
        <4> QED BY <4>2
      <3>2. CASE q < SeqCap
        <4>1. q \in Seqs /\ q = SeqCap * 0 + q
          BY <1>3, <3>2 DEF Seqs
        <4>2. q \div SeqCap = 0
          BY <1>3, <4>1, DivModUnique
        <4> QED BY <4>2
      <3> QED BY <1>3, <3>1, <3>2
    <2>2. q + 0 = q /\ q \div SeqCap \in Nat
      BY <1>3, DivModLemma
    <2> QED BY <1>2, <2>1, <2>2 DEF PointAt
  <1>9. \A i \in 0 .. n - 1 : i \in Nat /\ id(i) \in Id
    BY <1>4, <1>5 DEF Id
  <1> HIDE DEF p
  <1>10. ASSUME NEW i \in Nat, NEW j \in Nat, p(i) = p(j)
         PROVE  i = j
    <2>1. p(i) \in Point /\ p(j) \in Point
      BY <1>5
    <2>2. ~Before(p(i), p(j)) /\ ~Before(p(j), p(i))
      BY <1>7, <1>10, <2>1, BeforeOrder
    <2> QED BY <1>6, <2>2
  <1>11. IsFiniteSet(b) /\ Cardinality(b) = n
    <2> DEFINE f == [i \in 0 .. n - 1 |-> id(i)]
    <2>1. ExistsBijection(0 .. n - 1, b)
      <3>1. f \in [0 .. n - 1 -> b]
        OBVIOUS
      <3>2. \A i, j \in 0 .. n - 1 : f[i] = f[j] => i = j
        <4> SUFFICES ASSUME NEW i \in 0 .. n - 1, NEW j \in 0 .. n - 1, f[i] = f[j]
                     PROVE  i = j
          OBVIOUS
        <4>1. id(i) = id(j)
          OBVIOUS
        <4>2. p(i) = p(j)
          BY <4>1
        <4> QED BY <1>9, <1>10, <4>2
      <3>3. \A x \in b : \E i \in 0 .. n - 1 : f[i] = x
        OBVIOUS
      <3> HIDE DEF f, b
      <3>4. f \in Bijection(0 .. n - 1, b)
        BY <3>1, <3>2, <3>3 DEF Bijection, Injection, Surjection, IsInjective
      <3> QED BY <3>4 DEF ExistsBijection
    <2>2. IsFiniteSet(0 .. n - 1) /\ Cardinality(0 .. n - 1) = n
      <3>1. 0 \in Int /\ n - 1 \in Int /\ ~(0 > n - 1) /\ (n - 1) - 0 + 1 = n
        OBVIOUS
      <3> QED BY <3>1, FS_Interval
    <2> HIDE DEF b
    <2> QED BY <2>1, <2>2, FS_Bijection
  <1>12. \A x \in b : x.stream = st /\ Before(r, x.point) /\ ~Before(p(n - 1), x.point)
    <2> SUFFICES ASSUME NEW i \in 0 .. n - 1
                 PROVE  Before(r, p(i)) /\ ~Before(p(n - 1), p(i))
      OBVIOUS
    <2>1. i \in Nat /\ n - 1 \in Nat /\ (i < n - 1 \/ i = n - 1)
      OBVIOUS
    <2>2. p(i) \in Point /\ p(n - 1) \in Point /\ Before(r, p(i))
      BY <1>5, <2>1
    <2>3. Before(p(i), p(n - 1)) \/ p(i) = p(n - 1)
      BY <1>6, <2>1
    <2> QED BY <1>7, <2>2, <2>3, BeforeOrder
  <1>13. p(n - 1) \in Point /\ Before(r, p(n - 1))
    BY <1>5
  <1>14. RowAfter(st, r, c, 1).tick <= TickOf(st, c, clock) + 1
    <2>1. RowAfter(st, r, c, 1) = p(0)
      BY DEF RowAfter, p, q, t
    <2> QED BY <1>8, <2>1 DEF t
  <1> QED
    BY <1>1, <1>9, <1>11, <1>12, <1>13, <1>14

-----------------------------------------------------------------------------
(* Type correctness. *)

LEMMA ConfigFacts ==
  /\ "us" \in DOMAIN Factor
  /\ Unconfigured \in Body
  /\ SmokeStreams \subseteq Streams
  BY ConfigureAssumption DEF Unconfigured, Body, SmokeStreams

\* The epoch and the precision a body gives a call.
LEMMA EnteredType ==
  ASSUME Types, NEW b \in Body
  PROVE  Entered(b).epoch \in Nat /\ Entered(b).precision \in DOMAIN Factor
  BY ConfigureAssumption DEF Types, TypeOK, Body, Entered

LEMMA BakedType ==
  ASSUME Types, Valid(config)
  PROVE  Baked(config) \in Body
  BY ConfigureAssumption DEF Types, TypeOK, Body, Baked, Valid

LEMMA SeenType ==
  ASSUME Types, NEW st \in Streams
  PROVE  Seen(st) \in Point
  BY DEF Types, TypeOK, Seen

LEMMA InitTypes == Init => Types
  <1> SUFFICES ASSUME Init
               PROVE  Types
    OBVIOUS
  <1>1. [tick |-> 0, seq |-> 0] \in Point
    BY DEF Point, Seqs
  <1>2. config \in [epoch : Epochs, precision : Precisions] /\ config.epoch \in Nat
    BY ConfigureAssumption DEF Init
  <1>3. body \in Body
    BY <1>2, ConfigureAssumption DEF Init, Body, Baked, Unconfigured
  <1>4. NoJob \in [step : {"none", "reset", "smoke", "commit"}, body : Body,
                   force : Forces \cup {FALSE}, got : SUBSET Id]
    BY ConfigFacts DEF NoJob
  <1> QED
    BY <1>1, <1>2, <1>3, <1>4 DEF Init, Types, TypeOK, Body, NoJob

\* The call of a session that runs.
LEMMA CallFacts ==
  ASSUME Types, NEW s \in Sessions, call[s] # Idle
  PROVE  /\ call[s].stream \in Streams /\ call[s].count \in Nat \ {0} /\ Clocked(call[s])
         /\ row[call[s].stream] \in Point /\ clock \in Nat
  BY ConfigureAssumption DEF Types, TypeOK, CallRecord, Clocked

LEMMA GenerateTypes ==
  ASSUME Types, NEW s \in Sessions, Generate(s)
  PROVE  Types'
  <1> DEFINE c == call[s]
             st == c.stream
  <1>1. /\ st \in Streams /\ c.count \in Nat \ {0} /\ Clocked(c)
        /\ row[st] \in Point /\ clock \in Nat /\ ~Fails(st, row[st], c)
    BY CallFacts DEF Generate
  <1>2. RowAfter(st, row[st], c, c.count) \in Point /\ BatchFrom(st, row[st], c, c.count) \subseteq Id
    BY <1>1, Allocated
  <1>3. /\ issued' = issued \cup BatchFrom(st, row[st], c, c.count)
        /\ row' = [row EXCEPT ![st] = RowAfter(st, row[st], c, c.count)]
        /\ call' = [call EXCEPT ![s] = Idle]
        /\ UNCHANGED <<clock, operatorVars, err, calls>>
    BY DEF Generate
  <1> HIDE DEF c, st
  <1>4. issued' \subseteq Id /\ row' \in [Streams -> Point]
    BY <1>1, <1>2, <1>3 DEF Types, TypeOK
  <1>5. /\ \A x \in Sessions : call'[x] = Idle \/ call'[x] \in CallRecord
        /\ DOMAIN call' = Sessions
        /\ \A x \in Sessions : call'[x] = Idle \/ call'[x].stream \in Streams
    BY <1>3 DEF Types, TypeOK
  <1> QED
    BY <1>3, <1>4, <1>5 DEF Types, TypeOK, operatorVars

\* The identifiers and the row versions of a smoke test.
LEMMA SmokeAllocated ==
  ASSUME Types, Smoke, NEW st \in SmokeStreams
  PROVE  LET r == Seen(st)
             c == SmokeBody
             after == RowAfter(st, r, c, 1)
         IN
         /\ st \in Streams /\ r \in Point /\ Clocked(c)
         /\ after \in Point /\ Before(r, after)
         /\ after.tick <= TickOf(st, c, clock) + 1
         /\ BatchFrom(st, r, c, 1) \subseteq Id
         /\ \A id \in BatchFrom(st, r, c, 1) :
              id.stream = st /\ Before(r, id.point) /\ ~Before(after, id.point)
  <1> DEFINE r == Seen(st)
             c == SmokeBody
  <1>1. st \in Streams
    BY ConfigFacts
  <1>2. r \in Point
    BY <1>1, SeenType
  <1>3. Clocked(c)
    BY EnteredType DEF SmokeBody, Clocked, Types
  <1>4. ~Fails(st, r, c) /\ clock \in Nat /\ 1 \in Nat \ {0}
    BY DEF Smoke, Types, TypeOK
  <1> HIDE DEF r, c
  <1> QED
    BY <1>1, <1>2, <1>3, <1>4, Allocated DEF r, c

LEMMA TypesStep == Types /\ [Next]_vars => Types'
  <1> SUFFICES ASSUME Types, [Next]_vars
               PROVE  Types'
    OBVIOUS
  <1>1. ASSUME NEW s \in Sessions, Call(s) PROVE Types'
    <2>1. PICK st \in Streams, n \in Counts :
            call' = [call EXCEPT ![s] = [stream |-> st, count |-> n,
                                         epoch |-> Entered(body).epoch,
                                         precision |-> Entered(body).precision]]
      BY <1>1 DEF Call
    <2>2. Entered(body).epoch \in Nat /\ Entered(body).precision \in DOMAIN Factor
      BY EnteredType DEF Types, TypeOK, Body
    <2>3. /\ \A x \in Sessions : call'[x] = Idle \/ call'[x] \in CallRecord
          /\ DOMAIN call' = Sessions
          /\ \A x \in Sessions : call'[x] = Idle \/ call'[x].stream \in Streams
      BY <2>1, <2>2 DEF Types, TypeOK, CallRecord
    <2>4. err' \in [Sessions -> {"none", "rollback"}]
      BY <1>1 DEF Call, Types, TypeOK
    <2> QED BY <1>1, <2>3, <2>4 DEF Call, operatorVars, Types, TypeOK
  <1>2. ASSUME NEW s \in Sessions, Generate(s) PROVE Types'
    BY <1>2, GenerateTypes
  <1>3. ASSUME NEW s \in Sessions, GenerateFails(s) PROVE Types'
    <2>1. /\ \A x \in Sessions : call'[x] = Idle \/ call'[x] \in CallRecord
          /\ DOMAIN call' = Sessions
          /\ \A x \in Sessions : call'[x] = Idle \/ call'[x].stream \in Streams
      BY <1>3 DEF GenerateFails, Types, TypeOK
    <2>2. err' \in [Sessions -> {"none", "rollback"}]
      BY <1>3 DEF GenerateFails, Types, TypeOK
    <2> QED BY <1>3, <2>1, <2>2 DEF GenerateFails, operatorVars, Types, TypeOK
  <1>4. CASE SetConfig
    BY <1>4 DEF SetConfig, Types, TypeOK
  <1>5. CASE InstallSchema
    BY <1>5, ConfigFacts DEF InstallSchema, Types, TypeOK, Body
  <1>6. CASE Begin
    <2>1. PICK force \in Forces :
            job' = [step |-> "reset", body |-> Baked(config), force |-> force, got |-> {}]
      BY <1>6 DEF Begin
    <2>2. Baked(config) \in Body
      BY <1>6, BakedType DEF Begin
    <2>3. job' \in [step : {"none", "reset", "smoke", "commit"}, body : Body,
                    force : Forces \cup {FALSE}, got : SUBSET Id]
      BY <2>1, <2>2
    <2> QED BY <1>6, <2>1, <2>3 DEF Begin, Types, TypeOK
  <1>7. CASE Reset
    <2>1. [tick |-> 0, seq |-> 0] \in Point
      BY DEF Point, Seqs
    <2>2. work' \in [Streams -> Point \cup {None}]
      BY <1>7, <2>1 DEF Reset, ResetRow
    <2> QED BY <1>7, <2>2 DEF Reset, Types, TypeOK
  <1>8. CASE Smoke
    <2>1. UNION {BatchFrom(st, Seen(st), SmokeBody, 1) : st \in SmokeStreams} \in SUBSET Id
      <3>1. \A st \in SmokeStreams : BatchFrom(st, Seen(st), SmokeBody, 1) \subseteq Id
        BY <1>8, SmokeAllocated
      <3> QED BY <3>1
    <2>2. work' \in [Streams -> Point \cup {None}]
      <3>1. \A st \in SmokeStreams : RowAfter(st, Seen(st), SmokeBody, 1) \in Point
        BY <1>8, SmokeAllocated
      <3> QED BY <1>8, <3>1 DEF Smoke, Types, TypeOK
    <2>3. job' \in [step : {"none", "reset", "smoke", "commit"}, body : Body,
                    force : Forces \cup {FALSE}, got : SUBSET Id] /\ job'.step = "commit"
      BY <1>8, <2>1 DEF Smoke, Types
    <2> QED BY <1>8, <2>2, <2>3 DEF Smoke, Types, TypeOK
  <1>9. CASE Cancel
    <2>1. NoJob \in [step : {"none", "reset", "smoke", "commit"}, body : Body,
                     force : Forces \cup {FALSE}, got : SUBSET Id] /\ NoJob.step = "none"
      BY ConfigFacts DEF NoJob
    <2> QED BY <1>9, <2>1 DEF Cancel, Types, TypeOK
  <1>10. CASE Finish
    <2>1. NoJob \in [step : {"none", "reset", "smoke", "commit"}, body : Body,
                     force : Forces \cup {FALSE}, got : SUBSET Id] /\ NoJob.step = "none"
      BY ConfigFacts DEF NoJob
    <2>2. row' \in [Streams -> Point]
      BY <1>10, SeenType DEF Finish
    <2>3. body' \in Body /\ issued' \subseteq Id
      BY <1>10 DEF Finish, Types
    <2>4. work' \in [Streams -> Point \cup {None}]
      BY <1>10 DEF Finish
    <2>5. TypeOK'
      BY <1>10, <2>1, <2>2, <2>3, <2>4 DEF Finish, Types, TypeOK, Body
    <2> QED BY <1>10, <2>1, <2>3, <2>5 DEF Finish, Types
  <1>11. CASE Tick
    <2>1. /\ clock' = clock + 1
          /\ config' = config /\ body' = body /\ job' = job /\ work' = work
          /\ row' = row /\ call' = call /\ err' = err /\ issued' = issued
      BY <1>11 DEF Tick, operatorVars
    <2>2. clock' \in Nat
      BY <2>1 DEF Types, TypeOK
    <2>3. TypeOK'
      BY <2>1, <2>2, Zenon DEF Types, TypeOK
    <2> QED BY <2>1, <2>3, Zenon DEF Types
  <1>12. CASE UNCHANGED vars
    BY <1>12 DEF vars, operatorVars, Types, TypeOK
  <1> QED
    BY <1>1, <1>2, <1>3, <1>4, <1>5, <1>6, <1>7, <1>8, <1>9, <1>10, <1>11, <1>12 DEF Next

LEMMA TypesAlways == Spec => []Types
  BY InitTypes, TypesStep, PTL DEF Spec

\* Every reachable state is well typed: no body ever has an epoch or a precision that no
\* heer_config row could have given it, and no state row leaves the range of its columns.
THEOREM TypeCorrect == Spec => []TypeOK
  <1>1. Types => TypeOK
    BY DEF Types
  <1> QED
    BY <1>1, TypesAlways, PTL

-----------------------------------------------------------------------------
(* Node 1 after a configuration. *)

\* The transaction's rows of node 1 are where the smoke test left them, at most one tick
\* ahead of the clock of the bodies about to be installed.
NodeOneReady ==
  /\ job.step # "none" => job.body.baked
  /\ job.step = "commit" =>
       \A st \in SmokeStreams :
         work[st] # None /\ work[st].tick <= TickOf(st, job.body, clock) + 1

\* The epoch and precision baked into a body are those its calls compute with.
LEMMA TickOfBaked ==
  ASSUME NEW b, b.baked, NEW st, NEW now
  PROVE  TickOf(st, Entered(b), now) = TickOf(st, b, now)
  BY DEF Entered, TickOf

LEMMA ReadyStep == Types /\ NodeOneReady /\ [Next]_vars => NodeOneReady'
  <1> SUFFICES ASSUME Types, NodeOneReady, [Next]_vars
               PROVE  NodeOneReady'
    OBVIOUS
  <1>1. CASE UNCHANGED <<clock, work, job>>
    BY <1>1 DEF NodeOneReady
  <1>2. CASE Begin
    <2>1. job'.step = "reset" /\ job'.body = Baked(config)
      BY <1>2 DEF Begin
    <2> QED BY <2>1 DEF NodeOneReady, Baked
  <1>3. CASE Reset
    BY <1>3 DEF Reset, NodeOneReady, Types
  <1>4. CASE Smoke
    <2>1. job.step = "smoke" /\ job.body.baked /\ job'.step = "commit" /\ job'.body = job.body
      BY <1>4 DEF Smoke, NodeOneReady, Types
    <2>2. ASSUME NEW st \in SmokeStreams
          PROVE  work'[st] # None /\ work'[st].tick <= TickOf(st, job.body, clock) + 1
      <3> DEFINE after == RowAfter(st, Seen(st), SmokeBody, 1)
      <3>1. after \in Point /\ after.tick <= TickOf(st, SmokeBody, clock) + 1
        BY <1>4, SmokeAllocated
      <3>2. work'[st] = after
        BY <1>4, ConfigFacts DEF Smoke
      <3>3. TickOf(st, SmokeBody, clock) = TickOf(st, job.body, clock)
        BY <2>1, TickOfBaked DEF SmokeBody
      <3> QED BY <3>1, <3>2, <3>3, ConfigureAssumption
    <2>3. clock' = clock
      BY <1>4 DEF Smoke
    <2> QED BY <2>1, <2>2, <2>3 DEF NodeOneReady
  <1>5. CASE Cancel \/ Finish
    BY <1>5 DEF Cancel, Finish, NodeOneReady, NoJob
  <1>6. CASE Tick
    <2>1. clock' = clock + 1 /\ job' = job /\ work' = work
      BY <1>6 DEF Tick, operatorVars
    <2>2. ASSUME job.step = "commit", NEW st \in SmokeStreams
          PROVE  work[st] # None /\ work[st].tick <= TickOf(st, job.body, clock + 1) + 1
      <3>1. st \in Streams /\ Clocked(job.body) /\ clock \in Nat
        BY ConfigFacts DEF Types, TypeOK, Body, Clocked
      <3>2. /\ TickOf(st, job.body, clock) \in Int
            /\ TickOf(st, job.body, clock + 1) \in Int
            /\ TickOf(st, job.body, clock) <= TickOf(st, job.body, clock + 1)
        <4>1. clock + 1 \in Nat
          BY <3>1
        <4> QED BY <3>1, <4>1, TickType, TickGrows
      <3>3. work[st] # None /\ work[st].tick <= TickOf(st, job.body, clock) + 1
        BY <2>2 DEF NodeOneReady
      <3>4. work[st].tick \in Int
        BY <3>1, <3>3 DEF Types, TypeOK, Point
      <3> QED BY <3>2, <3>3, <3>4
    <2> QED BY <2>1, <2>2 DEF NodeOneReady
  <1>7. UNCHANGED <<clock, work, job>> \/ Begin \/ Reset \/ Smoke \/ Cancel \/ Finish \/ Tick
    BY DEF Next, Call, Generate, GenerateFails, SetConfig, InstallSchema, operatorVars, vars
  <1> QED
    BY <1>1, <1>2, <1>3, <1>4, <1>5, <1>6, <1>7

\* A heer_configure that commits leaves node 1 able to generate, with or without a reset,
\* for any change of epoch and precision: the smoke test would have failed otherwise.
THEOREM NodeOneUsable == Spec => ConfiguredNodeUsable
  <1>1. Init => NodeOneReady
    BY DEF Init, NodeOneReady, NoJob
  <1>2. NodeOneReady /\ [Next]_vars =>
          [Finish => \A st \in SmokeStreams : row'[st].tick <= TickOf(st, body', clock) + 1]_vars
    <2> SUFFICES ASSUME NodeOneReady, Finish, NEW st \in SmokeStreams
                 PROVE  row'[st].tick <= TickOf(st, body', clock) + 1
      OBVIOUS
    <2>1. work[st] # None /\ work[st].tick <= TickOf(st, job.body, clock) + 1
      BY DEF NodeOneReady, Finish
    <2>2. row'[st] = work[st] /\ body' = job.body
      BY <2>1, ConfigFacts DEF Finish, Seen
    <2> QED BY <2>1, <2>2
  <1> QED
    BY <1>1, <1>2, TypesAlways, ReadyStep, PTL DEF Spec, ConfiguredNodeUsable

-----------------------------------------------------------------------------
(* Identifiers are new when nothing is reset. *)

\* Committed identifiers are not above their row, and a transaction that resets nothing has
\* only rows of the smoke test, which lie above the committed ones, as its identifiers do.
IssuedBelow == \A id \in issued : ~Before(row[id.stream], id.point)

NothingReset ==
  /\ job.force = FALSE
  /\ \A st \in Streams : work[st] # None =>
       /\ job.step = "commit"
       /\ st \in SmokeStreams
       /\ Before(row[st], work[st])
  /\ job.step = "commit" => \A st \in SmokeStreams : work[st] # None
  /\ \A id \in job.got :
       /\ job.step = "commit"
       /\ id.stream \in SmokeStreams
       /\ Before(row[id.stream], id.point)
       /\ ~Before(work[id.stream], id.point)
  /\ job.step = "commit" => Cardinality(job.got) = Cardinality(SmokeStreams)

FreshInv == IssuedBelow /\ NothingReset

LEMMA PointComparable == \A a \in Point : Comparable(a)
  BY DEF Point, Seqs, Comparable

LEMMA InitFresh == Init => FreshInv
  BY DEF Init, NoJob, FreshInv, IssuedBelow, NothingReset

\* A call takes identifiers above its row, and nobody has seen one of them.
LEMMA GenerateFresh ==
  ASSUME Types, FreshInv, NEW s \in Sessions, Generate(s)
  PROVE  /\ FreshInv'
         /\ Cardinality(issued' \ issued) = call[s].count
  <1> DEFINE c == call[s]
             st == c.stream
             b == BatchFrom(st, row[st], c, c.count)
             after == RowAfter(st, row[st], c, c.count)
  <1>1. /\ st \in Streams /\ c.count \in Nat \ {0} /\ Clocked(c)
        /\ row[st] \in Point /\ clock \in Nat /\ ~Fails(st, row[st], c)
    BY CallFacts DEF Generate
  <1>2. /\ after \in Point
        /\ Before(row[st], after)
        /\ b \subseteq Id
        /\ \A id \in b : id.stream = st /\ Before(row[st], id.point) /\ ~Before(after, id.point)
        /\ Cardinality(b) = c.count
    BY <1>1, Allocated
  <1>3. /\ issued' = issued \cup b
        /\ row' = [row EXCEPT ![st] = after]
        /\ work[st] = None
        /\ job' = job /\ work' = work
    BY DEF Generate, Granted, operatorVars
  <1> HIDE DEF c, st, b, after
  <1>4. /\ row'[st] = after
        /\ \A x \in Streams : x # st => row'[x] = row[x]
    BY <1>1, <1>3 DEF Types, TypeOK
  <1>5. b \cap issued = {}
    BY <1>2 DEF FreshInv, IssuedBelow
  <1>6. Cardinality(issued' \ issued) = c.count
    <2>1. issued' \ issued = b
      BY <1>3, <1>5
    <2> QED BY <1>2, <2>1
  <1>7. IssuedBelow'
    <2> SUFFICES ASSUME NEW id \in issued'
                 PROVE  ~Before(row'[id.stream], id.point)
      BY DEF IssuedBelow
    <2>1. CASE id \in b
      BY <1>2, <1>4, <2>1
    <2>2. CASE id \in issued /\ id.stream = st
      <3>1. ~Before(row[st], id.point) /\ id.point \in Point
        BY <2>2 DEF FreshInv, IssuedBelow, Types, Id
      <3>2. Comparable(row[st]) /\ Comparable(after) /\ Comparable(id.point)
        BY <1>1, <1>2, <3>1, PointComparable
      <3>3. ~Before(after, id.point)
        BY <1>2, <3>1, <3>2, BeforeOrder
      <3> QED BY <1>4, <2>2, <3>3
    <2>3. CASE id \in issued /\ id.stream # st
      BY <1>4, <2>3 DEF FreshInv, IssuedBelow, Types, Id
    <2> QED BY <1>3, <2>1, <2>2, <2>3
  <1>8. NothingReset'
    <2>1. \A x \in Streams : work[x] # None => x # st
      BY <1>3
    <2>2. \A id \in job.got : id.stream # st /\ id.stream \in Streams
      BY <1>3, ConfigFacts DEF FreshInv, NothingReset
    <2> QED BY <1>3, <1>4, <2>1, <2>2 DEF FreshInv, NothingReset
  <1> QED
    BY <1>6, <1>7, <1>8 DEF FreshInv, c

\* The smoke test takes one new identifier of each kind.
LEMMA SmokeFresh ==
  ASSUME Types, FreshInv, Smoke
  PROVE  FreshInv'
  <1> DEFINE after(st) == RowAfter(st, Seen(st), SmokeBody, 1)
             one(st) == BatchFrom(st, Seen(st), SmokeBody, 1)
             got == UNION {one(st) : st \in SmokeStreams}
  <1>1. /\ job.step = "smoke" /\ job'.step = "commit" /\ job'.force = job.force
        /\ job'.got = got
        /\ work' = [st \in Streams |-> IF st \in SmokeStreams THEN after(st) ELSE work[st]]
        /\ row' = row /\ issued' = issued
    BY DEF Smoke, Types
  <1>2. \A st \in Streams : work[st] = None
    BY <1>1 DEF FreshInv, NothingReset
  <1>3. \A st \in Streams : Seen(st) = row[st]
    BY <1>2 DEF Seen
  <1>4. ASSUME NEW st \in SmokeStreams
        PROVE  /\ st \in Streams
               /\ after(st) \in Point /\ Before(row[st], after(st))
               /\ \A id \in one(st) : /\ id.stream = st /\ Before(row[st], id.point)
                                      /\ ~Before(after(st), id.point)
               /\ IsFiniteSet(one(st)) /\ Cardinality(one(st)) = 1
    <2>1. /\ st \in Streams /\ Seen(st) \in Point /\ Clocked(SmokeBody)
          /\ after(st) \in Point /\ Before(Seen(st), after(st))
          /\ \A id \in one(st) :
               id.stream = st /\ Before(Seen(st), id.point) /\ ~Before(after(st), id.point)
      BY SmokeAllocated
    <2>2. ~Fails(st, Seen(st), SmokeBody) /\ clock \in Nat /\ 1 \in Nat \ {0}
      BY DEF Smoke, Types, TypeOK
    <2>3. IsFiniteSet(one(st)) /\ Cardinality(one(st)) = 1
      BY <2>1, <2>2, Allocated
    <2> QED BY <1>3, <2>1, <2>3
  <1>5. \A st \in Streams : after(st) \in Point => after(st) # None
    BY ConfigureAssumption
  <1> HIDE DEF after, one
  <1>6. Cardinality(got) = Cardinality(SmokeStreams)
    <2>1. IsFiniteSet(SmokeStreams)
      <3>1. SmokeStreams = {[kind |-> "heer", node |-> NodeOne]} \cup {[kind |-> "ranj", node |-> NodeOne]}
        BY ConfigureAssumption DEF SmokeStreams, Streams
      <3> QED BY <3>1, FS_Singleton, FS_Union
    <2>2. \A st \in SmokeStreams : \E id : one(st) = {id}
      BY <1>4, FS_Singleton
    <2> DEFINE f == [st \in SmokeStreams |-> CHOOSE id : one(st) = {id}]
    <2>3. \A st \in SmokeStreams : one(st) = {f[st]}
      BY <2>2
    <2> HIDE DEF f
    <2>4. f \in [SmokeStreams -> got]
      <3>1. \A st \in SmokeStreams : f[st] \in got
        BY <2>3
      <3> QED BY <3>1 DEF f
    <2>5. \A x, y \in SmokeStreams : f[x] = f[y] => x = y
      BY <1>4, <2>3
    <2>6. \A id \in got : \E st \in SmokeStreams : f[st] = id
      BY <2>3
    <2> HIDE DEF got
    <2>7. f \in Bijection(SmokeStreams, got)
      BY <2>4, <2>5, <2>6 DEF Bijection, Injection, Surjection, IsInjective
    <2>8. ExistsBijection(SmokeStreams, got)
      BY <2>7 DEF ExistsBijection
    <2> QED BY <2>1, <2>8, FS_Bijection
  <1>7. \A id \in got : /\ id.stream \in SmokeStreams
                        /\ Before(row[id.stream], id.point)
                        /\ ~Before(after(id.stream), id.point)
    BY <1>4
  <1> HIDE DEF got
  <1>8. \A st \in Streams : /\ st \in SmokeStreams => work'[st] = after(st)
                            /\ st \notin SmokeStreams => work'[st] = None
    BY <1>1, <1>2
  <1>9. job'.force = FALSE
    BY <1>1 DEF FreshInv, NothingReset
  <1>10. \A st \in SmokeStreams : work'[st] = after(st) /\ after(st) # None
    BY <1>4, <1>5, <1>8
  <1>11. NothingReset'
    BY <1>1, <1>4, <1>6, <1>7, <1>8, <1>9, <1>10 DEF NothingReset
  <1>12. IssuedBelow'
    BY <1>1 DEF FreshInv, IssuedBelow
  <1> QED
    BY <1>11, <1>12 DEF FreshInv

\* The commit makes the smoke test's rows and identifiers the committed ones.
LEMMA FinishFresh ==
  ASSUME Types, FreshInv, Finish
  PROVE  /\ FreshInv'
         /\ Cardinality(issued' \ issued) = Cardinality(SmokeStreams)
  <1>1. /\ job.step = "commit"
        /\ row' = [st \in Streams |-> Seen(st)]
        /\ issued' = issued \cup job.got
        /\ work' = [st \in Streams |-> None]
        /\ job' = NoJob
    BY DEF Finish
  <1>2. job.got \cap issued = {}
    BY DEF FreshInv, IssuedBelow, NothingReset
  <1>3. Cardinality(issued' \ issued) = Cardinality(SmokeStreams)
    <2>1. issued' \ issued = job.got
      BY <1>1, <1>2
    <2> QED BY <1>1, <2>1 DEF FreshInv, NothingReset
  <1>4. NothingReset'
    BY <1>1 DEF NothingReset, NoJob
  <1>5. IssuedBelow'
    <2> SUFFICES ASSUME NEW id \in issued'
                 PROVE  ~Before(row'[id.stream], id.point)
      BY DEF IssuedBelow
    <2> DEFINE st == id.stream
    <2>1. id \in Id
      BY <1>1 DEF Types
    <2>2. st \in Streams /\ id.point \in Point /\ row[st] \in Point
      BY <2>1 DEF Id, Types, TypeOK
    <2>3. row'[st] = Seen(st)
      BY <1>1, <2>2
    <2>4. CASE id \in job.got
      <3>1. work[st] # None /\ ~Before(work[st], id.point)
        BY <1>1, <2>4 DEF FreshInv, NothingReset
      <3> QED BY <2>3, <3>1 DEF Seen
    <2>5. CASE id \in issued
      <3>1. ~Before(row[st], id.point)
        BY <2>5 DEF FreshInv, IssuedBelow
      <3>2. CASE work[st] = None
        BY <2>3, <3>1, <3>2 DEF Seen
      <3>3. CASE work[st] # None
        <4>1. Before(row[st], work[st]) /\ work[st] \in Point
          BY <2>2, <3>3 DEF FreshInv, NothingReset, Types, TypeOK
        <4>2. Comparable(row[st]) /\ Comparable(work[st]) /\ Comparable(id.point)
          BY <2>2, <4>1, PointComparable
        <4>3. ~Before(work[st], id.point)
          BY <3>1, <4>1, <4>2, BeforeOrder
        <4> QED BY <2>3, <3>3, <4>3 DEF Seen
      <3> QED BY <3>2, <3>3
    <2> QED BY <1>1, <2>4, <2>5
  <1> QED
    BY <1>3, <1>4, <1>5 DEF FreshInv

LEMMA FreshStep == Forces \subseteq {FALSE} /\ Types /\ FreshInv /\ [Next]_vars => FreshInv'
  <1> SUFFICES ASSUME Forces \subseteq {FALSE}, Types, FreshInv, [Next]_vars
               PROVE  FreshInv'
    OBVIOUS
  <1>1. CASE UNCHANGED <<row, work, job, issued>>
    BY <1>1 DEF FreshInv, IssuedBelow, NothingReset
  <1>2. ASSUME NEW s \in Sessions, Generate(s) PROVE FreshInv'
    BY <1>2, GenerateFresh
  <1>3. CASE Begin
    <2>0. PICK force \in Forces :
            job' = [step |-> "reset", body |-> Baked(config), force |-> force, got |-> {}]
      BY <1>3 DEF Begin
    <2>1. /\ job.step = "none"
          /\ job'.step = "reset" /\ job'.force = FALSE /\ job'.got = {}
          /\ row' = row /\ work' = work /\ issued' = issued
      BY <1>3, <2>0 DEF Begin
    <2> QED BY <2>1 DEF FreshInv, IssuedBelow, NothingReset
  <1>4. CASE Reset
    <2>1. /\ job.step = "reset" /\ job'.step = "smoke" /\ job'.force = job.force /\ job'.got = job.got
          /\ row' = row /\ issued' = issued
      BY <1>4 DEF Reset, Types
    <2>2. work' = [st \in Streams |-> None]
      BY <1>4 DEF Reset, ResetRow, FreshInv, NothingReset
    <2> QED BY <2>1, <2>2 DEF FreshInv, IssuedBelow, NothingReset
  <1>5. CASE Smoke
    BY <1>5, SmokeFresh
  <1>6. CASE Finish
    BY <1>6, FinishFresh
  <1>7. CASE Cancel
    BY <1>7 DEF Cancel, NoJob, FreshInv, IssuedBelow, NothingReset
  <1>8. \/ UNCHANGED <<row, work, job, issued>>
        \/ \E s \in Sessions : Generate(s)
        \/ Begin \/ Reset \/ Smoke \/ Finish \/ Cancel
    BY DEF Next, Call, GenerateFails, SetConfig, InstallSchema, Tick, operatorVars, vars
  <1> QED
    BY <1>1, <1>2, <1>3, <1>4, <1>5, <1>6, <1>7, <1>8

\* As long as no state is reset, replacing the generators never makes an identifier appear
\* twice: the rows go up in every body, old or new, and count all epochs and precisions alike.
THEOREM IssuedOnce == Forces \subseteq {FALSE} => (Spec => NeverIssuedTwice)
  <1> DEFINE Adds == /\ \A s \in Sessions :
                          Generate(s) => Cardinality(issued' \ issued) = call[s].count
                     /\ Finish => Cardinality(issued' \ issued) = Cardinality(SmokeStreams)
  <1> SUFFICES ASSUME Forces \subseteq {FALSE}
               PROVE  Spec => NeverIssuedTwice
    OBVIOUS
  <1>1. Types /\ FreshInv => [Adds]_vars
    BY GenerateFresh, FinishFresh
  <1>2. Types /\ FreshInv /\ [Next]_vars => FreshInv'
    BY FreshStep
  <1> QED
    BY <1>1, <1>2, InitFresh, TypesAlways, PTL DEF Spec, NeverIssuedTwice
=============================================================================
