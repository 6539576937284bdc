----------------------------- MODULE MCGenerator -----------------------------
(***************************************************************************)
(* Small instances of Generator for TLC.                                   *)
(***************************************************************************)
EXTENDS Generator, TLC

CONSTANTS s1, s2, n1, n2, heer1, ranj1, heer2

\* Two rows of one node: the HeerId and the RanjId state of n1.
OneNode == (heer1 :> n1) @@ (ranj1 :> n1)

\* One row on each of two nodes.
TwoNodes == (heer1 :> n1) @@ (heer2 :> n2)

SingleStream == (heer1 :> n1)

SessionSymmetry == Permutations(Sessions)
==============================================================================
