----------------------------- MODULE MCConfigure -----------------------------
(***************************************************************************)
(* Small instances of Configure for TLC: "ns" is twice as fine as "us".    *)
(***************************************************************************)
EXTENDS Configure, TLC

CONSTANTS s1, s2, n1, n2

FactorValue == [us |-> 1, ns |-> 2]

SessionSymmetry == Permutations(Sessions)
=============================================================================
