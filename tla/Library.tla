------------------------------ MODULE Library ------------------------------
(***************************************************************************)
(* The Rust library in one process: the batch conversion, the generation   *)
(* precision, identifiers on their way through the boundaries, and the C   *)
(* functions.  They share the layout and no state, so interleaving them    *)
(* would add nothing: a behaviour exercises one part.                      *)
(***************************************************************************)
EXTENDS Convert, Precision, Ffi

VARIABLE part

Parts == {"convert", "precision", "wire", "ffi"}

libraryVars == <<part, vars, precisionVars, wireVars, ffiVars>>

LibraryInit ==
  /\ part \in Parts
  /\ Init /\ (part # "convert" => ids = <<>>)
  /\ PrecisionInit /\ (part # "precision" => env = NotSet)
  /\ WireInit
  /\ FfiInit

LibraryNext ==
  \/ part = "convert" /\ Next /\ UNCHANGED <<part, precisionVars, wireVars, ffiVars>>
  \/ part = "precision" /\ PrecisionNext /\ UNCHANGED <<part, vars, wireVars, ffiVars>>
  \/ part = "wire" /\ WireNext /\ UNCHANGED <<part, vars, precisionVars, ffiVars>>
  \/ part = "ffi" /\ FfiNext /\ UNCHANGED <<part, vars, precisionVars, wireVars>>

LibrarySpec == LibraryInit /\ [][LibraryNext]_libraryVars
=============================================================================
