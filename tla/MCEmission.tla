----------------------------- MODULE MCEmission -----------------------------
(***************************************************************************)
(* Emission with three sequences per tick and batches of up to four ticks. *)
(***************************************************************************)
EXTENDS Emission

StartTicksValue == 0..2
RequestsValue == 1..11
==============================================================================
