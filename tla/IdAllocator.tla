---------------------------- MODULE IdAllocator ----------------------------
(***************************************************************************)
(* What the ID generator promises its callers, with no clock, no state row *)
(* and no lock: a session reserves a run of identifiers for its open       *)
(* transaction, and the transaction either commits them or drops them.     *)
(* Every reserved identifier lies above everything its stream has          *)
(* committed and everything any open transaction holds of that stream, so  *)
(* no two transactions ever commit the same identifier and every stream    *)
(* commits its identifiers in increasing order.                            *)
(*                                                                         *)
(* Generator.tla implements this specification.                            *)
(***************************************************************************)
EXTENDS Naturals, Sequences

CONSTANTS
  Sessions,     \* the database connections that ask for identifiers
  Streams,      \* one per generator state row: a kind of ID on a node
  Kept          \* the streams the promise is made for

VARIABLES
  got,          \* got[s]: the identifiers session s's open transaction holds
  issued        \* the identifiers of committed transactions

vars == <<got, issued>>

Id == [stream : Streams, tick : Nat, seq : Nat]

\* The order of two identifiers of one stream: by tick, then by sequence.
Before(a, b) == a.tick < b.tick \/ (a.tick = b.tick /\ a.seq < b.seq)

IdsOf(ids) == {ids[i] : i \in 1..Len(ids)}

Init ==
  /\ got = [s \in Sessions |-> <<>>]
  /\ issued = {}

\* s is handed more identifiers: what it held stays a prefix of what it holds.
Reserve(s) ==
  /\ Len(got[s]) < Len(got'[s])
  /\ \A i \in 1..Len(got[s]) : got'[s][i] = got[s][i]
  /\ \A i \in Len(got[s]) + 1 .. Len(got'[s]) :
       LET id == got'[s][i] IN
       id.stream \in Kept =>
         /\ id \in Id
         /\ \A old \in issued : old.stream = id.stream => Before(old, id)
         /\ \A t \in Sessions \ {s} : \A old \in IdsOf(got[t]) : old.stream # id.stream
         /\ \A j \in 1..(i - 1) : got'[s][j].stream = id.stream => Before(got'[s][j], id)
  /\ \A t \in Sessions \ {s} : got'[t] = got[t]
  /\ issued' = issued

Commit(s) ==
  /\ issued' = issued \cup IdsOf(got[s])
  /\ got' = [got EXCEPT ![s] = <<>>]

Abort(s) ==
  /\ got' = [got EXCEPT ![s] = <<>>]
  /\ issued' = issued

Next == \E s \in Sessions : Reserve(s) \/ Commit(s) \/ Abort(s)

Spec == Init /\ [][Next]_vars
=============================================================================
