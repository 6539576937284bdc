----------------------------- MODULE Precision -----------------------------
(***************************************************************************)
(* The generation precision of a process: read from RANJID_PRECISION by    *)
(* the first conversion that needs it and kept in a OnceLock.  One thread  *)
(* at a time initialises the cell; a thread that finds the variable        *)
(* invalid panics and leaves the cell empty for the next.                  *)
(***************************************************************************)
EXTENDS IdLayout

CONSTANTS
  Threads,
  Given,                \* HeerIds the threads convert
  DefaultPrecision      \* nanoseconds

ASSUME PrecisionAssumption ==
  /\ DefaultPrecision \in 0 .. Precisions - 1
  /\ Given \subseteq {HeerRaw(p) : p \in HeerParts}
  \* Every HeerId fits in a RanjId.
  /\ HeerNodes <= RanjNodes /\ HeerSeqs <= RanjSeqs
  /\ \A precision \in 0 .. Precisions - 1 : HeerTicks * Millis[precision] <= RanjTicks

VARIABLES
  env,            \* RANJID_PRECISION: a precision, NotSet or Invalid
  cell,           \* the OnceLock: a precision, or Empty
  initializing,   \* the thread that runs the cell's initialiser, if any
  asked,          \* what each thread converts, or Nowhere
  converted       \* the conversions done: type, HeerId and RanjId

precisionVars == <<env, cell, initializing, asked, converted>>

NotSet == Precisions
Invalid == Precisions + 1
Empty == Precisions
Nowhere == [form |-> "none", heer |-> 0]

Requests == [form : {"asc", "desc"}, heer : Given]

-----------------------------------------------------------------------------
\* Mutant of Known: the variable counts again at every conversion.
ReadAgain(c, e) == IF e \in 0 .. Precisions - 1 THEN e ELSE c

\* What get_or_init finds in the cell c while the variable is e.
Known(c, e) == c

\* try_generation_precision: the precision the variable asks for, or none.
Asked(e) == IF e = NotSet THEN {DefaultPrecision} ELSE {e} \cap (0 .. Precisions - 1)

\* From<HeerId> for RanjId, batch_to_ranjids, and From<HeerIdDesc> for RanjIdDesc, which goes
\* through the ascending types.
Upward(heer, precision) == ToRanj(heer, precision)
UpwardDesc(heer, precision) == RanjFlip(ToRanj(HeerFlip(heer), precision))

\* TryFrom<RanjId> for HeerId of a value that fits, and TryFrom<RanjIdDesc>: the sequence is 0.
Downward(ranj) ==
  LET p == RanjFields(ranj) IN HeerRaw([ts |-> p.ts \div Millis[p.precision], node |-> p.node, seq |-> 0])
DownwardDesc(ranj) == HeerFlip(Downward(RanjFlip(ranj)))

Conversion(request, precision) ==
  [form |-> request.form, heer |-> request.heer,
   ranj |-> IF request.form = "asc" THEN Upward(request.heer, precision)
            ELSE UpwardDesc(request.heer, precision)]

-----------------------------------------------------------------------------
PrecisionInit ==
  /\ env \in 0 .. Invalid
  /\ cell = Empty
  /\ initializing = {}
  /\ asked = [t \in Threads |-> Nowhere]
  /\ converted = {}

\* The process changes its environment.
SetEnv(e) ==
  /\ env' = e
  /\ UNCHANGED <<cell, initializing, asked, converted>>

Ask(t, request) ==
  /\ asked[t] = Nowhere
  /\ asked' = [asked EXCEPT ![t] = request]
  /\ UNCHANGED <<env, cell, initializing, converted>>

Make(t, precision) ==
  /\ converted' = converted \cup {Conversion(asked[t], precision)}
  /\ asked' = [asked EXCEPT ![t] = Nowhere]

\* get_or_init of a full cell.
UseCell(t) ==
  /\ asked[t] # Nowhere
  /\ cell # Empty
  /\ Make(t, Known(cell, env))
  /\ UNCHANGED <<env, cell, initializing>>

\* get_or_init of an empty cell: the others wait for this thread.
Enter(t) ==
  /\ asked[t] # Nowhere
  /\ cell = Empty /\ initializing = {}
  /\ initializing' = {t}
  /\ UNCHANGED <<env, cell, asked, converted>>

Fill(t) ==
  /\ initializing = {t}
  /\ \E precision \in Asked(env) : cell' = precision /\ Make(t, precision)
  /\ initializing' = {}
  /\ UNCHANGED env

\* "invalid RANJID_PRECISION".
Panic(t) ==
  /\ initializing = {t}
  /\ Asked(env) = {}
  /\ initializing' = {}
  /\ asked' = [asked EXCEPT ![t] = Nowhere]
  /\ UNCHANGED <<env, cell, converted>>

PrecisionNext ==
  \/ \E e \in 0 .. Invalid : SetEnv(e)
  \/ \E t \in Threads :
       \/ \E request \in Requests : Ask(t, request)
       \/ UseCell(t) \/ Enter(t) \/ Fill(t) \/ Panic(t)

PrecisionSpec == PrecisionInit /\ [][PrecisionNext]_precisionVars

-----------------------------------------------------------------------------
SameTime(one, other) ==
  LET p == HeerFields(one)
      q == HeerFields(other)
  IN p.ts = q.ts /\ p.node = q.node

\* What a process converts, from any of its threads and however its environment changes, is in
\* the order of the HeerIds it was converted from, of each direction, and goes back to the same
\* millisecond and node: no two conversions of a process use different precisions, whose
\* RanjIds do not compare.
ConvertedInOrder ==
  \A a \in converted :
    /\ \A b \in converted : a.form = b.form /\ a.heer < b.heer => a.ranj < b.ranj
    /\ a.form = "asc" => SameTime(a.heer, Downward(a.ranj))
    /\ a.form = "desc" => SameTime(HeerFlip(a.heer), HeerFlip(DownwardDesc(a.ranj)))
=============================================================================
