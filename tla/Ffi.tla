--------------------------------- MODULE Ffi ---------------------------------
(***************************************************************************)
(* The C functions as the threads of a C program call them: a call returns *)
(* -1 and leaves its message in the thread's LAST_ERROR, or succeeds and   *)
(* leaves LAST_ERROR alone; heer_last_error copies the message.            *)
(***************************************************************************)
EXTENDS Wire

CONSTANTS
  Callers,        \* threads of the C program
  Words,          \* the i64s they pass
  Structs,        \* the 16 bytes they pass
  Strings,        \* the texts they pass
  MaxCalls        \* bound: calls of all threads

VARIABLES
  lastError,      \* LAST_ERROR, by the thread it belongs to; "" when there is none
  failure,        \* history: the message of the thread's latest failed call, "" before any
  reported,       \* what heer_last_error gave since the thread's latest call, or "nothing yet"
  calls

ffiVars == <<lastError, failure, reported, calls>>

\* A null pointer or no room, too little room, enough room.
Buffers == {"none", "small", "enough"}

\* Mutant of Slot: one LAST_ERROR for the process.
OneSlot(t) == CHOOSE c \in Callers : TRUE

\* thread_local!: each thread has its own.
Slot(t) == t

-----------------------------------------------------------------------------
(* The message each function ends with, "" on success; the first failed check counts. *)

RanjError(u) ==
  CASE VersionField(u) # Version -> "version" [] VariantField(u) # Variant -> "variant" [] OTHER -> ""

HeerError(n) == IF FromI64(n) = {} THEN "negative" ELSE ""

BufferError(buffer) ==
  CASE buffer = "none" -> "null buffer" [] buffer = "small" -> "buffer too small" [] OTHER -> ""

First(one, other) == IF one # "" THEN one ELSE other

\* heer_id_decode and heer_id_to_string.
HeerDecodeError(n) == HeerError(n)
HeerToStringError(n, buffer) == First(HeerError(n), BufferError(buffer))

\* heer_id_from_string: s and out are checked, then UTF-8, then the number.
HeerFromStringError(null, w) ==
  CASE null -> "null pointer"
    [] w.form = "bytes" -> "not UTF-8"
    [] ~(w.form = "digits" /\ IsWord(w.value)) -> "not a number"
    [] OTHER -> HeerError(w.value)

\* ranj_id_decode and ranj_id_to_string.
RanjDecodeError(null, u) == IF null THEN "null pointer" ELSE RanjError(u)
RanjToStringError(null, u, buffer) ==
  IF null THEN "null pointer" ELSE First(RanjError(u), BufferError(buffer))

\* ranj_id_from_string.
RanjFromStringError(null, w) ==
  CASE null -> "null pointer"
    [] w.form = "bytes" -> "not UTF-8"
    [] w.form # "hex" -> "not a UUID"
    [] OTHER -> RanjError(w.value)

-----------------------------------------------------------------------------
FfiInit ==
  /\ lastError = [t \in Callers |-> ""]
  /\ failure = [t \in Callers |-> ""]
  /\ reported = [t \in Callers |-> "nothing yet"]
  /\ calls = 0

Call(t, error) ==
  /\ calls < MaxCalls
  /\ calls' = calls + 1
  /\ lastError' = IF error = "" THEN lastError ELSE [lastError EXCEPT ![Slot(t)] = error]
  /\ failure' = IF error = "" THEN failure ELSE [failure EXCEPT ![t] = error]
  /\ reported' = [reported EXCEPT ![t] = "nothing yet"]

CallHeer(t) ==
  \E null \in BOOLEAN, buffer \in Buffers :
    \/ \E n \in Words : Call(t, HeerDecodeError(n)) \/ Call(t, HeerToStringError(n, buffer))
    \/ \E w \in Strings : Call(t, HeerFromStringError(null, w))

CallRanj(t) ==
  \E null \in BOOLEAN, buffer \in Buffers :
    \/ \E u \in Structs : Call(t, RanjDecodeError(null, u)) \/ Call(t, RanjToStringError(null, u, buffer))
    \/ \E w \in Strings : Call(t, RanjFromStringError(null, w))

\* heer_last_error: a small buffer gets the beginning of the message, no buffer its length.
LastError(t) ==
  /\ reported' = [reported EXCEPT ![t] = lastError[Slot(t)]]
  /\ UNCHANGED <<lastError, failure, calls>>

FfiNext == \E t \in Callers : CallHeer(t) \/ CallRanj(t) \/ LastError(t)

FfiSpec == FfiInit /\ [][FfiNext]_ffiVars

-----------------------------------------------------------------------------
\* heer_last_error tells a thread the reason of its own latest failed call, whatever other
\* threads have called in between and however many calls of its own succeeded since; a thread
\* without a failure is told of none.
ErrorIsOwn == \A t \in Callers : reported[t] # "nothing yet" => reported[t] = failure[t]
=============================================================================
