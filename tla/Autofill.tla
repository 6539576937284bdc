------------------------------ MODULE Autofill ------------------------------
(***************************************************************************)
(* The autofill triggers, as what their bodies do to the version of a row  *)
(* that a statement writes.  A version is a record with the source column  *)
(* src and its descending sibling dst; other fields pass through.          *)
(***************************************************************************)
EXTENDS Integers

CONSTANTS
  IdBound,        \* identifiers are 0 .. IdBound - 1
  Null            \* SQL NULL

ASSUME AutofillAssumption ==
  /\ IdBound \in Nat \ {0}
  /\ Null \notin 0 .. IdBound - 1

Ids == 0 .. IdBound - 1
Column == Ids \cup {Null}

\* Flipping inverts every bit of the ordered fields: it mirrors the order of identifiers.
\* The functions are SQL expressions of their argument: NULL gives NULL.
Flip(id) == IF id = Null THEN Null ELSE IdBound - 1 - id

Refilled(version) == [version EXCEPT !.dst = Flip(version.src)]

\* INSERT branch of the PostgreSQL trigger: fill dst if the statement left it NULL.
OnInsert(new) == IF new.dst = Null THEN Refilled(new) ELSE new

\* The T-SQL trigger runs after the statement and updates the rows whose src it finds among the
\* inserted ones that are not NULL; a row without src keeps the dst it has.
AfterWrite(new) == IF new.src = Null THEN new ELSE Refilled(new)

\* Mutant of OnUpdate: an update of src leaves the old dst.
OnlyFillsNull(old, new) == IF new.dst = Null THEN Refilled(new) ELSE new

\* UPDATE branch of the PostgreSQL trigger: recompute dst when src changed, fill it when it is NULL.
OnUpdate(old, new) == IF new.src # old.src \/ new.dst = Null THEN Refilled(new) ELSE new
=============================================================================
