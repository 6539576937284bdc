------------------------------ MODULE Emission ------------------------------
(***************************************************************************)
(* The emission loop of generate_ids (and of generate_ranjids), one        *)
(* iteration per step: it fills the current tick, moves to the next tick   *)
(* and starts again at sequence 0 until the requested number is out.       *)
(* Generator.tla takes the whole loop as one step and uses the closed form *)
(* Ids!PointAt; EmitsClosedForm and RaisesExactly entitle it to.           *)
(***************************************************************************)
EXTENDS Ids

CONSTANTS
  StartTicks,     \* ticks a batch may start in
  LastTick,       \* the greatest tick of the identifier's layout
  Checked,        \* whether the loop refuses ticks above it (generate_ranjids does)
  Requests        \* values of requested_count

ASSUME EmissionAssumption ==
  /\ StartTicks \subseteq Nat
  /\ Requests \subseteq Nat \ {0}
  /\ LastTick \in Nat
  /\ Checked \in BOOLEAN

VARIABLES
  start,          \* the tick, sequence and count the loop is entered with
  remaining, current_tick, next_sequence,
  out,            \* the rows returned so far
  last,           \* last_emitted_time and last_emitted_sequence
  raised          \* whether the loop raised 50030

emissionVars == <<start, remaining, current_tick, next_sequence, out, last, raised>>

Least(a, b) == IF a < b THEN a ELSE b

\* Mutant of AvailableThisTick: one sequence too many.
OneTooMany(seq) == SeqCap - seq + 1

AvailableThisTick(seq) == SeqCap - seq

\* Mutant of SeqOfNextTick: the sequence is not reset.
SeqNotReset(seq) == SeqCap

SeqOfNextTick(seq) == 0

\* Mutant of Exceeds: the last tick of the layout is refused too.
ExceedsEarly(t) == Checked /\ t >= LastTick

Exceeds(t) == Checked /\ t > LastTick

EmissionInit ==
  /\ start \in [tick : StartTicks, seq : 0..SeqCap, count : Requests]
  /\ remaining = start.count
  /\ current_tick = start.tick
  /\ next_sequence = start.seq
  /\ out = <<>>
  /\ last = [tick |-> 0, seq |-> 0]
  /\ raised = FALSE

\* One iteration of WHILE remaining > 0.
Iterate ==
  LET emit_count == Least(remaining, AvailableThisTick(next_sequence)) IN
  /\ remaining > 0
  /\ ~Exceeds(current_tick)
  /\ out' = out \o [k \in 1..emit_count |->
                      [tick |-> current_tick, seq |-> next_sequence + k - 1]]
  /\ last' = [tick |-> current_tick, seq |-> next_sequence + emit_count - 1]
  /\ remaining' = remaining - emit_count
  /\ current_tick' = current_tick + 1
  /\ next_sequence' = SeqOfNextTick(next_sequence)
  /\ UNCHANGED <<start, raised>>

\* RAISE ... 50030 in the middle of the batch; what was returned so far is discarded.
Raise ==
  /\ remaining > 0
  /\ Exceeds(current_tick)
  /\ ~raised
  /\ raised' = TRUE
  /\ UNCHANGED <<start, remaining, current_tick, next_sequence, out, last>>

Ended == (remaining = 0 \/ raised) /\ UNCHANGED emissionVars

EmissionNext == Iterate \/ Raise \/ Ended

EmissionSpec == EmissionInit /\ [][EmissionNext]_emissionVars

-----------------------------------------------------------------------------
\* The inductive invariant: between iterations the rows out are the first points of the
\* batch, and the loop stands at the next point, or at the end of a full tick.
LoopInv ==
  /\ start \in [tick : Nat, seq : 0..SeqCap, count : Nat \ {0}]
  /\ remaining \in Nat
  /\ current_tick \in Nat
  /\ current_tick >= start.tick
  /\ next_sequence \in 0..SeqCap
  /\ out \in Seq(Point)
  /\ Len(out) + remaining = start.count
  /\ \/ remaining = 0
     \/ start.seq + Len(out) = SeqCap * (current_tick - start.tick) + next_sequence
  /\ \A i \in 1..Len(out) : out[i] = PointAt(start.tick, start.seq, i - 1)
  /\ remaining = 0 =>
       /\ last = PointAt(start.tick, start.seq, start.count - 1)
       /\ ~Exceeds(last.tick)
  /\ raised => remaining > 0 /\ Exceeds(current_tick)

\* When the loop ends it has returned exactly the requested number of identifiers, the
\* i-th being the i-th point from the start, across any number of ticks, and the state row
\* gets the last of them: no gap, no repetition at a tick's end, no lost remainder.
EmitsClosedForm ==
  remaining = 0 =>
    /\ Len(out) = start.count
    /\ \A i \in 1..start.count : out[i] = PointAt(start.tick, start.seq, i - 1)
    /\ last = out[start.count]

\* The loop raises 50030 exactly when the last identifier of the batch would not fit the
\* layout: a batch that fits is never refused half way, also when it is entered with a full
\* tick, and no identifier of a returned batch is beyond the layout.
RaisesExactly ==
  LET fits == ~Checked \/ PointAt(start.tick, start.seq, start.count - 1).tick <= LastTick IN
  /\ raised => ~fits
  /\ remaining = 0 => fits
=============================================================================
