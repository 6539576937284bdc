----------------------------- MODULE MCClients -----------------------------
(***************************************************************************)
(* Two applications with an object each, which both pass the first node to *)
(* the generator and choose either node for their session.                 *)
(***************************************************************************)
EXTENDS Clients

CONSTANTS c1, c2, n1, n2, o1, o2

OwnerValue == [o \in Objects |-> IF o = o1 THEN c1 ELSE c2]
MixesValue ==
  {[o \in Objects |-> IF o = o1 THEN one ELSE "kept"] : one \in Kinds}
    \cup {[o \in Objects |-> IF o = o1 THEN "fresh" ELSE "default"]}
NodeIdValue == [c \in Clients |-> n1]
=============================================================================
