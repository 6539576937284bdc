-------------------------------- MODULE Wire --------------------------------
(***************************************************************************)
(* Typed identifiers that travel between programs: created from fields,    *)
(* written by one of the library's boundaries, read at another.            *)
(*                                                                         *)
(* What travels is one of a few forms.  A reading is the set of the raw    *)
(* values a boundary accepts it as: one value, or none when it is refused. *)
(* No form says which direction the identifier has.                        *)
(***************************************************************************)
EXTENDS IdLayout

CONSTANTS
  GivenHeer, GivenRanj,   \* fields callers give to new, in range or not
  Arrivals,               \* what other programs send
  SafeInteger,            \* 2^53: JavaScript keeps every JSON number up to here
  MaxHops                 \* bound: identifiers written

VARIABLES
  kind,       \* the type of the identifier the program holds, or "none"
  raw,        \* its raw value
  wire,       \* what is on its way to the next program, or Nothing
  sentAs,     \* the type it was written from, or "none" for an arrival
  meant,      \* the fields it was made of, or Unsaved: the placeholder ZERO
  hops

wireVars == <<kind, raw, wire, sentAs, meant, hops>>

HeerKinds == {"HeerId", "HeerIdDesc"}
RanjKinds == {"RanjId", "RanjIdDesc"}
Kinds == HeerKinds \cup RanjKinds

\* Forms: text of a number or of a UUID, a JSON number, the integer of a language without
\* bounds, a 64-bit word, 16 bytes, and bytes of another length.
Forms == {"digits", "hex", "number", "integer", "word", "uuid", "bytes"}

Nothing == [form |-> "none", value |-> 0]
Unsaved == [ts |-> 0]

WordEnd == HeerTicks * HeerNodes * HeerSeqs          \* 2^63
IsWord(n) == n \in -WordEnd .. WordEnd - 1           \* an i64

ASSUME WireAssumption ==
  /\ \A w \in Arrivals :
       /\ w.form \in Forms
       /\ w.form \in {"digits", "number", "integer"} => w.value \in Int
       /\ w.form = "word" => IsWord(w.value)
       /\ w.form \in {"hex", "uuid"} => IsUuid(w.value)
  /\ SafeInteger \in Nat
  \* The zero UUID is no RanjId.
  /\ ~IsRanjId(0)

-----------------------------------------------------------------------------
(* The types. *)

\* The same bits in the other direction (reverse_order): the mask is its own inverse.
HeerReversed(k) == IF k = "HeerId" THEN "HeerIdDesc" ELSE "HeerId"
RanjReversed(k) == IF k = "RanjId" THEN "RanjIdDesc" ELSE "RanjId"

\* The fields of a raw value: those of a descending type are the fields of the flipped value.
HeerMeaning(k, n) == IF k = "HeerId" THEN HeerFields(n) ELSE HeerFields(HeerFlip(n))
RanjMeaning(k, u) == IF k = "RanjId" THEN RanjFields(u) ELSE RanjFields(RanjFlip(u))
Meaning(k, v) == IF k \in HeerKinds THEN HeerMeaning(k, v) ELSE RanjMeaning(k, v)

\* HeerId::new and HeerIdDesc::new check every field; RanjId::new leaves the sequence to its type.
NewHeer(p) == {HeerRaw(q) : q \in {p} \cap HeerParts}
NewHeerDesc(p) == {HeerFlip(n) : n \in NewHeer(p)}
NewRanj(p) == {RanjRaw(q) : q \in {p} \cap RanjParts}
NewRanjDesc(p) == {RanjFlip(u) : u \in NewRanj(p)}

New(k, p) ==
  CASE k = "HeerId" -> NewHeer(p) [] k = "HeerIdDesc" -> NewHeerDesc(p)
    [] k = "RanjId" -> NewRanj(p) [] k = "RanjIdDesc" -> NewRanjDesc(p)

\* from_i64 and from_uuid.
FromI64(n) == {m \in {n} : m >= 0}
FromUuid(u) == {v \in {u} : IsRanjId(v)}

\* Display: the raw value, also of a descending type.
HeerText(n) == [form |-> "digits", value |-> n]
RanjText(u) == [form |-> "hex", value |-> u]
Display(k, v) == IF k \in HeerKinds THEN HeerText(v) ELSE RanjText(v)

\* FromStr.
HeerFromStr(w) == IF w.form = "digits" /\ IsWord(w.value) THEN FromI64(w.value) ELSE {}
RanjFromStr(w) == IF w.form = "hex" THEN FromUuid(w.value) ELSE {}
FromStr(k, w) == IF k \in HeerKinds THEN HeerFromStr(w) ELSE RanjFromStr(w)

\* The primitive under the type.
Inner(k, v) == [form |-> IF k \in HeerKinds THEN "word" ELSE "uuid", value |-> v]

-----------------------------------------------------------------------------
(* The boundaries: what each writes and what it reads. *)

\* Mutant of SerdeWrites: a human-readable format gets a bare number.
SerdeBare(k, v) == {[form |-> "number", value |-> v], Inner(k, v)}

\* serialize_display_or_inner: text for human-readable formats, else the primitive.
SerdeWrites(k, v) == {Display(k, v), Inner(k, v)}

\* deserialize_i64_wrapper: a word from a binary format; text or a number from JSON.
SerdeReadsHeer(w) ==
  HeerFromStr(w) \cup (IF w.form \in {"word", "number"} /\ IsWord(w.value) THEN FromI64(w.value) ELSE {})

\* deserialize_uuid_wrapper: no number is accepted.
SerdeReadsRanj(w) == RanjFromStr(w) \cup (IF w.form = "uuid" THEN FromUuid(w.value) ELSE {})

\* ToSql and FromSql of tokio-postgres: only BIGINT or only UUID columns are accepted.
TokioWrites(k, v) == {Inner(k, v)}
TokioReads(k, w) ==
  IF w.form # Inner(k, 0).form THEN {} ELSE IF k \in HeerKinds THEN FromI64(w.value) ELSE FromUuid(w.value)

\* Encode and Decode of sqlx, compatible with the same columns.
SqlxWrites(k, v) == {Inner(k, v)}
SqlxReads(k, w) ==
  IF w.form # Inner(k, 0).form THEN {} ELSE IF k \in HeerKinds THEN FromI64(w.value) ELSE FromUuid(w.value)

\* The Python classes: as_int and str of the HeerIds, to_uuid and str of the RanjIds, and back.
PythonWrites(k, v) ==
  {Display(k, v)} \cup (IF k \in HeerKinds THEN {[form |-> "integer", value |-> v]} ELSE {})
PythonReadsHeer(w) ==
  HeerFromStr(w) \cup (IF w.form = "integer" /\ IsWord(w.value) THEN FromI64(w.value) ELSE {})
PythonReadsRanj(w) == RanjFromStr(w)

\* The Node classes, of the ascending types only: toBigInt and strings; toBytes and strings.
NodeWrites(k, v) ==
  CASE k = "HeerId" -> {HeerText(v), [form |-> "integer", value |-> v]}
    [] k = "RanjId" -> {RanjText(v), Inner(k, v)}
    [] OTHER -> {}

\* Mutant of NodeReadsHeer: a BigInt is cut to 64 bits.
NodeReadsWrapped(w) ==
  LET cut == w.value % (2 * WordEnd)
      n == IF cut < WordEnd THEN cut ELSE cut - 2 * WordEnd
  IN HeerFromStr(w) \cup (IF w.form = "integer" THEN FromI64(n) ELSE {})

\* fromBigInt asks for a lossless i64.
NodeReadsHeer(w) ==
  HeerFromStr(w) \cup (IF w.form = "integer" /\ IsWord(w.value) THEN FromI64(w.value) ELSE {})

\* fromBytes wants 16 bytes.
NodeReadsRanj(w) == RanjFromStr(w) \cup (IF w.form = "uuid" THEN FromUuid(w.value) ELSE {})

\* The C functions, of the ascending types only: an i64 or text, 16 bytes or text.
CWrites(k, v) == IF k \in {"HeerId", "RanjId"} THEN {Display(k, v), Inner(k, v)} ELSE {}
CReadsHeer(w) == HeerFromStr(w) \cup (IF w.form = "word" THEN FromI64(w.value) ELSE {})
CReadsRanj(w) == RanjFromStr(w) \cup (IF w.form = "uuid" THEN FromUuid(w.value) ELSE {})

Boundaries == {"serde", "tokio", "sqlx", "python", "node", "c"}

Writing(b, k, v) ==
  CASE b = "serde" -> SerdeWrites(k, v) [] b = "tokio" -> TokioWrites(k, v)
    [] b = "sqlx" -> SqlxWrites(k, v) [] b = "python" -> PythonWrites(k, v)
    [] b = "node" -> NodeWrites(k, v) [] b = "c" -> CWrites(k, v)

Reading(b, k, w) ==
  CASE b = "serde" -> (IF k \in HeerKinds THEN SerdeReadsHeer(w) ELSE SerdeReadsRanj(w))
    [] b = "tokio" -> TokioReads(k, w)
    [] b = "sqlx" -> SqlxReads(k, w)
    [] b = "python" -> (IF k \in HeerKinds THEN PythonReadsHeer(w) ELSE PythonReadsRanj(w))
    [] b = "node" -> (CASE k = "HeerId" -> NodeReadsHeer(w) [] k = "RanjId" -> NodeReadsRanj(w) [] OTHER -> {})
    [] b = "c" -> (CASE k = "HeerId" -> CReadsHeer(w) [] k = "RanjId" -> CReadsRanj(w) [] OTHER -> {})

-----------------------------------------------------------------------------
WireInit ==
  /\ kind = "none" /\ raw = 0
  /\ wire = Nothing /\ sentAs = "none"
  /\ meant = Unsaved
  /\ hops = 0

Idle == kind = "none" /\ wire = Nothing /\ hops < MaxHops

Create(k, p) ==
  /\ Idle
  /\ \E v \in New(k, p) : raw' = v
  /\ kind' = k
  /\ meant' = p
  /\ UNCHANGED <<wire, sentAs, hops>>

\* RanjId::ZERO and RanjIdDesc::ZERO; the ZERO of a HeerId is one of its values.
Placeholder(k) ==
  /\ Idle
  /\ k \in RanjKinds
  /\ kind' = k
  /\ raw' = 0
  /\ meant' = Unsaved
  /\ UNCHANGED <<wire, sentAs, hops>>

Arrive(w) ==
  /\ Idle
  /\ wire' = w
  /\ sentAs' = "none"
  /\ hops' = hops + 1
  /\ UNCHANGED <<kind, raw, meant>>

\* to_desc and to_asc.  Turning a descending placeholder around panics.
TurnAround ==
  /\ kind # "none"
  /\ ~(kind = "RanjIdDesc" /\ FromUuid(RanjFlip(raw)) = {})
  /\ IF kind \in HeerKinds
     THEN kind' = HeerReversed(kind) /\ raw' = HeerFlip(raw)
     ELSE kind' = RanjReversed(kind) /\ raw' = RanjFlip(raw)
  /\ UNCHANGED <<wire, sentAs, meant, hops>>

Send(b) ==
  /\ kind # "none" /\ hops < MaxHops
  /\ wire' \in Writing(b, kind, raw)
  /\ sentAs' = kind
  /\ kind' = "none"
  /\ raw' = 0
  /\ hops' = hops + 1
  /\ UNCHANGED meant

\* JSON.parse and JSON.stringify of a program in between: large numbers are rounded.
ThroughJavaScript ==
  /\ wire.form = "number" /\ wire.value > SafeInteger
  /\ wire' = [wire EXCEPT !.value = 2 * (wire.value \div 2)]
  /\ UNCHANGED <<kind, raw, sentAs, meant, hops>>

\* A program that reads another type than was written takes the fields its own type gives.
Receive(b, k) ==
  /\ wire # Nothing
  /\ \E v \in Reading(b, k, wire) : raw' = v
  /\ kind' = k
  /\ meant' = IF sentAs = k /\ meant # Unsaved THEN meant ELSE Meaning(k, wire.value)
  /\ wire' = Nothing /\ sentAs' = "none"
  /\ UNCHANGED hops

Refuse(b, k) ==
  /\ wire # Nothing
  /\ Reading(b, k, wire) = {}
  /\ wire' = Nothing /\ sentAs' = "none"
  /\ meant' = Unsaved
  /\ UNCHANGED <<kind, raw, hops>>

\* The bound is reached and nothing is on its way.
Over == hops = MaxHops /\ wire = Nothing /\ UNCHANGED wireVars

WireNext ==
  \/ Over
  \/ \E k \in HeerKinds, p \in GivenHeer : Create(k, p)
  \/ \E k \in RanjKinds, p \in GivenRanj : Create(k, p)
  \/ \E k \in Kinds : Placeholder(k)
  \/ \E w \in Arrivals : Arrive(w)
  \/ TurnAround
  \/ \E b \in Boundaries : Send(b)
  \/ ThroughJavaScript
  \/ \E b \in Boundaries, k \in Kinds : Receive(b, k) \/ Refuse(b, k)

WireSpec == WireInit /\ [][WireNext]_wireVars

-----------------------------------------------------------------------------
\* However many programs an identifier has passed, in whatever forms and turned around in
\* between, what a program holds has the fields it was made of, or the fields of the number or
\* UUID that arrived; a number too large, a negative one, a UUID of another kind and a
\* placeholder that was sent are refused, never taken for an identifier.
LosslessOrRefused ==
  /\ kind \in HeerKinds => raw \in 0 .. WordEnd - 1 /\ HeerMeaning(kind, raw) = meant
  /\ kind \in RanjKinds /\ IsRanjId(raw) => RanjMeaning(kind, raw) = meant
  /\ kind \in RanjKinds /\ ~IsRanjId(raw) => meant = Unsaved
=============================================================================
