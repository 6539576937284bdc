------------------------------ MODULE Convert ------------------------------
(***************************************************************************)
(* RanjId::batch_to_heerids, one step per iteration of its loops: the      *)
(* identifiers are grouped by millisecond and node (Gather), the groups    *)
(* are sorted and renumbered in whatever order the HashMap yields them     *)
(* (Squash), and the pairs are sorted by RanjId (Finish).  Any step may    *)
(* end the call with an error instead.                                     *)
(*                                                                         *)
(* check_heerid_convertibility and batch_to_ranjids compute in one step    *)
(* what a caller uses before and after it: Conflicts and ToRanj.           *)
(***************************************************************************)
EXTENDS IdLayout, Sequences, FiniteSets, SequencesExt

CONSTANTS
  RanjIds,        \* raw RanjIds callers convert
  HeerIds,        \* raw HeerIds callers convert to RanjIds and back
  MaxBatch        \* bound: identifiers in a batch

ASSUME ConvertAssumption ==
  /\ \A raw \in RanjIds : IsUuid(raw) /\ IsRanjId(raw)
  /\ HeerIds \subseteq {HeerRaw(p) : p \in HeerParts}
  /\ MaxBatch \in Nat
  \* Every HeerId fits in a RanjId: RanjId::new cannot fail in ToRanj.
  /\ HeerNodes <= RanjNodes /\ HeerSeqs <= RanjSeqs
  /\ \A precision \in 0 .. Precisions - 1 : HeerTicks * Millis[precision] <= RanjTicks

VARIABLES
  heers,      \* the HeerIds the batch was converted from, or none
  ids,        \* the slice of RanjIds to convert
  pos,        \* the next of them to gather
  groups,     \* the HashMap: the RanjIds of each (millisecond, node)
  results,    \* pairs of a RanjId and its HeerId
  outcome     \* "running", "ok" or the error returned

vars == <<heers, ids, pos, groups, results, outcome>>

-----------------------------------------------------------------------------
\* Mutant of Millisecond: every timestamp is taken to be in microseconds.
MicrosOnly(rid) == RanjFields(rid).ts \div Millis[0]

Millisecond(rid) == LET p == RanjFields(rid) IN p.ts \div Millis[p.precision]

Key(rid) == [ms |-> Millisecond(rid), node |-> RanjFields(rid).node]

\* A field that does not fit a HeerId; the node is looked at first.
TooWide(rid) ==
  IF RanjFields(rid).node >= HeerNodes THEN "node"
  ELSE IF Millisecond(rid) >= HeerTicks THEN "timestamp" ELSE "no"

\* Mutant of TooMany: a full group is refused.
FullIsTooMany(n) == n >= HeerSeqs

TooMany(n) == n > HeerSeqs

\* Index i comes before j in a stable sort (slice::sort, sort_by_key).
Precedes(keys, i, j) == keys[i] < keys[j] \/ (keys[i] = keys[j] /\ i < j)

\* The indices of keys in that order: the n-th has n - 1 before it.
SortOrder(keys) ==
  [n \in DOMAIN keys |->
     CHOOSE i \in DOMAIN keys : Cardinality({j \in DOMAIN keys : Precedes(keys, j, i)}) = n - 1]

\* Mutant of SortedGroup: a group is renumbered in the order it was gathered.
AsGathered(group) == group

SortedGroup(group) ==
  LET order == SortOrder(group) IN [i \in DOMAIN group |-> group[order[i]]]

\* Mutant of SortedResults: the pairs stay in the order of the HashMap.
AsCollected(pairs) == pairs

SortedResults(pairs) ==
  LET order == SortOrder([i \in DOMAIN pairs |-> pairs[i].ranj]) IN [i \in DOMAIN pairs |-> pairs[order[i]]]

\* The pairs of one group: sequences from 0 in the order of the RanjIds.  HeerId::new cannot
\* fail: TooWide and TooMany have seen to the three fields.
Renumbered(key, group) ==
  [i \in 1..Len(group) |->
     [ranj |-> SortedGroup(group)[i],
      heer |-> HeerRaw([ts |-> key.ms, node |-> key.node, seq |-> i - 1])]]

-----------------------------------------------------------------------------
Init ==
  /\ \/ heers = <<>> /\ ids \in UNION {[1..n -> RanjIds] : n \in 0..MaxBatch}
     \/ \E n \in 1..MaxBatch, precision \in 0 .. Precisions - 1 :
          /\ heers \in [1..n -> HeerIds]
          /\ ids = [i \in 1..n |-> ToRanj(heers[i], precision)]
  /\ pos = 1
  /\ groups = [key \in {Key(ids[i]) : i \in DOMAIN ids} |-> <<>>]
  /\ results = <<>>
  /\ outcome = "running"

Gathering == outcome = "running" /\ pos <= Len(ids)

Gather ==
  /\ Gathering
  /\ TooWide(ids[pos]) = "no"
  /\ groups' = [groups EXCEPT ![Key(ids[pos])] = Append(@, ids[pos])]
  /\ pos' = pos + 1
  /\ UNCHANGED <<heers, ids, results, outcome>>

\* NodeIdOverflow or TimestampOverflow.
Reject ==
  /\ Gathering
  /\ TooWide(ids[pos]) # "no"
  /\ outcome' = TooWide(ids[pos])
  /\ UNCHANGED <<heers, ids, pos, groups, results>>

\* Groups the second loop has not come to.
Left == {key \in DOMAIN groups : groups[key] # <<>>}

Squashing == outcome = "running" /\ pos > Len(ids)

Squash(key) ==
  /\ Squashing
  /\ key \in Left
  /\ ~TooMany(Len(groups[key]))
  /\ results' = results \o Renumbered(key, groups[key])
  /\ groups' = [groups EXCEPT ![key] = <<>>]
  /\ UNCHANGED <<heers, ids, pos, outcome>>

\* SequenceOverflow.
Overflow(key) ==
  /\ Squashing
  /\ key \in Left
  /\ TooMany(Len(groups[key]))
  /\ outcome' = "sequence"
  /\ UNCHANGED <<heers, ids, pos, groups, results>>

Finish ==
  /\ Squashing
  /\ Left = {}
  /\ results' = SortedResults(results)
  /\ outcome' = "ok"
  /\ UNCHANGED <<heers, ids, pos, groups>>

Ended == outcome # "running" /\ UNCHANGED vars

Next ==
  \/ Gather
  \/ Reject
  \/ \E key \in Left : Squash(key) \/ Overflow(key)
  \/ Finish
  \/ Ended

Spec == Init /\ [][Next]_vars

-----------------------------------------------------------------------------
(* The check a caller makes first. *)

Members(key) == {i \in DOMAIN ids : TooWide(ids[i]) = "no" /\ Key(ids[i]) = key}

\* check_heerid_convertibility: the kinds of conflict it reports.
Conflicts ==
  {kind \in {"node", "timestamp", "sequence"} :
     \/ \E i \in DOMAIN ids : TooWide(ids[i]) = kind
     \/ kind = "sequence" /\ \E i \in DOMAIN ids : Cardinality(Members(Key(ids[i]))) > HeerSeqs}

-----------------------------------------------------------------------------
(* Properties. *)

\* The check and the conversion repeat the same limits and must agree: what the check passes
\* converts (the Django migration relies on it after it has started to change the table), and
\* an error was reported by the check as a conflict of its kind.
AgreesWithCheck ==
  /\ outcome = "ok" => Conflicts = {}
  /\ outcome \notin {"running", "ok"} => outcome \in Conflicts

\* The result does not depend on the order of the HashMap: the RanjIds in order, each with
\* the number of equal or lesser ones of its group before it as its sequence.
OrderFree ==
  outcome = "ok" =>
    LET sorted == SortedGroup(ids) IN
    results = [i \in 1..Len(ids) |->
      LET key == Key(sorted[i]) IN
      [ranj |-> sorted[i],
       heer |-> HeerRaw([ts |-> key.ms, node |-> key.node,
                         seq |-> Cardinality({j \in 1..(i - 1) : Key(sorted[j]) = key})])]]

\* No two identifiers of a batch become the same HeerId, not even equal ones, and those of one
\* node and one precision keep their order ("preserving ordering" of batch_to_heerids).
KeepsOrder ==
  outcome = "ok" =>
    \A i, j \in DOMAIN results :
      LET a == results[i]
          b == results[j]
          p == RanjFields(a.ranj)
          q == RanjFields(b.ranj)
      IN
      /\ i # j => a.heer # b.heer
      /\ p.node = q.node /\ p.precision = q.precision /\ a.ranj < b.ranj => a.heer < b.heer

\* Distinct HeerIds that were converted to RanjIds always convert back, to HeerIds of the same
\* millisecond and node, in the same order; only the sequences are numbered anew.
RoundTrip ==
  heers # <<>> /\ IsInjective(heers) =>
    /\ outcome \in {"running", "ok"}
    /\ outcome = "ok" =>
         \E precision \in 0 .. Precisions - 1 :
           LET back == [i \in DOMAIN heers |->
                          (CHOOSE k \in DOMAIN results :
                             results[k].ranj = ToRanj(heers[i], precision))]
           IN /\ \A i \in DOMAIN heers : ids[i] = ToRanj(heers[i], precision)
              /\ \A i \in DOMAIN heers :
                   LET p == HeerFields(heers[i])
                       q == HeerFields(results[back[i]].heer)
                   IN q.ts = p.ts /\ q.node = p.node
              /\ \A i, j \in DOMAIN heers :
                   heers[i] < heers[j] => results[back[i]].heer < results[back[j]].heer
=============================================================================
