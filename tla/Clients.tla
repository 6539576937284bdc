------------------------------ MODULE Clients ------------------------------
(***************************************************************************)
(* Applications that save objects, each over a session of its own:         *)
(*   "kept"     Django's bulk_create, Prisma's createMany and EF's          *)
(*              SaveChanges ask for identifiers first and write them into   *)
(*              the caller's objects, which a retry sends again;            *)
(*   "fresh"    Prisma's create puts one into a copy, a new one each time;  *)
(*   "default"  the database calls generate_id() for the session's node.    *)
(* The generator is asked in the open transaction, or in one of its own.   *)
(* Commits, inserts and connections are lost, and callers try again.       *)
(*                                                                         *)
(* Identifiers are numbers of a node: the clock stands still, which is     *)
(* when a rolled back number is given again.                               *)
(***************************************************************************)
EXTENDS Integers, Sequences, FiniteSets, SequencesExt

CONSTANTS
  Clients, Nodes, Objects,
  Owner,          \* the client that saves an object
  NodeId,         \* the node a client passes to the generator (HEERANJID_NODE_ID)
  NoNode, NoClient,
  Mixes,          \* for each object, how it gets its identifier
  MaxIds,         \* bound: numbers of a node
  MaxTries,       \* bound: times an object is saved
  MaxChoices      \* bound: times a session chooses its node

Kinds == {"kept", "fresh", "default"}

ASSUME ClientsAssumption ==
  /\ Owner \in [Objects -> Clients] /\ NodeId \in [Clients -> Nodes]
  /\ Mixes \subseteq [Objects -> Kinds]
  /\ NoNode \notin Nodes /\ NoClient \notin Clients
  /\ {MaxIds, MaxTries, MaxChoices} \subseteq Nat

VARIABLES
  active,         \* nodes with is_active
  position,       \* the committed last number of each node
  ahead,          \* the last number in the transaction that holds the node's row
  holder,         \* the client whose transaction holds the node's row
  tx,             \* "none", "open" or "failed"
  setting,        \* heer.node_id of the session
  before,         \* the setting when the transaction began
  kind,           \* how each object gets its identifier
  kept,           \* the identifier the caller's object holds, or NoId
  sending,        \* the identifier of the try under way, or NoId
  state,          \* "new", "inserted", "again" (no answer, rolled back, or a default failed), "saved", "duplicate"
  met,            \* the rows that duplicate keys were reported for
  tries,
  table,          \* committed rows: identifier, object and the session's choice
  pending,        \* rows of open transactions
  choices,        \* history: the nodes a session chose and that were not rolled back
  settled,        \* history: how many of them when the transaction began
  undone          \* history: the identifiers given in transactions that were rolled back

vars == <<active, position, ahead, holder, tx, setting, before, kind, kept, sending, state,
          met, tries, table, pending, choices, settled, undone>>

session == <<tx, setting, before, choices, settled>>
nodes == <<position, ahead, holder, undone>>
objects == <<kind, kept, sending, state, met, tries>>

Ids == [node : Nodes, number : 1..MaxIds]
NoId == [node |-> NoNode, number |-> 0]

-----------------------------------------------------------------------------
(* Sessions. *)

\* Mutant of AtCommit: the choice was local to its transaction.
LocalChoice(c) == before[c]

\* set_config(..., false): a choice outlives its transaction.
AtCommit(c) == setting[c]

\* A call of create asks for the identifier and inserts without its caller in between.
Creating(c) == \E o \in Objects : Owner[o] = c /\ kind[o] = "fresh" /\ state[o] = "new" /\ sending[o] # NoId

Begin(c) ==
  /\ tx[c] = "none" /\ ~Creating(c)
  /\ tx' = [tx EXCEPT ![c] = "open"]
  /\ before' = [before EXCEPT ![c] = setting[c]]
  /\ settled' = [settled EXCEPT ![c] = Len(choices[c])]
  /\ UNCHANGED <<active, setting, choices, nodes, objects, table, pending>>

\* Only a session whose defaults generate has a use for its node.
UsesSession(c) == \E o \in Objects : Owner[o] = c /\ kind[o] = "default"

\* set_heer_node_id of an active node; setNodeId, set_ranj_node_id.
Choose(c, n) ==
  /\ tx[c] # "failed" /\ Len(choices[c]) < MaxChoices /\ UsesSession(c)
  /\ n \in active
  /\ setting' = [setting EXCEPT ![c] = n]
  /\ choices' = [choices EXCEPT ![c] = Append(@, n)]
  /\ UNCHANGED <<active, tx, before, settled, nodes, objects, table, pending>>

\* An error ends a transaction's work; only a rollback is left.
Failed(c) == tx' = IF tx[c] = "open" THEN [tx EXCEPT ![c] = "failed"] ELSE tx

ChooseFails(c, n) ==
  /\ tx[c] = "open" /\ UsesSession(c)
  /\ n \notin active
  /\ Failed(c)
  /\ UNCHANGED <<active, setting, before, choices, settled, nodes, objects, table, pending>>

Deactivate(n) ==
  /\ n \in active
  /\ active' = active \ {n}
  /\ UNCHANGED <<session, nodes, objects, table, pending>>

-----------------------------------------------------------------------------
(* The generator. *)

\* Mutant of LastNumber: a call does not see what its own transaction was given before.
LastCommitted(c, n) == position[n]

\* The last number as the transaction of c sees it.
LastNumber(c, n) == IF holder[n] = c THEN ahead[n] ELSE position[n]

Free(c, n) == n \in active /\ holder[n] \in {c, NoClient} /\ LastNumber(c, n) < MaxIds

NextId(c, n) == [node |-> n, number |-> LastNumber(c, n) + 1]

\* The row stays locked until the transaction ends; a transaction of its own ends at once.
Advance(c, n) ==
  IF tx[c] = "open"
  THEN /\ ahead' = [ahead EXCEPT ![n] = LastNumber(c, n) + 1]
       /\ holder' = [holder EXCEPT ![n] = c]
       /\ UNCHANGED position
  ELSE /\ position' = [position EXCEPT ![n] = LastNumber(c, n) + 1]
       /\ UNCHANGED <<ahead, holder>>

\* What the open transaction of c was given.
GivenTo(c) == {id \in Ids : holder[id.node] = c /\ id.number \in position[id.node] + 1 .. ahead[id.node]}

-----------------------------------------------------------------------------
(* Saving an object. *)

\* Mutant of Assigned: createMany fills in copies too.
AssignedToCopy(o, id) == NoId

\* What the caller's object holds after the identifier was generated.
Assigned(o, id) == IF kind[o] = "kept" THEN id ELSE NoId

\* generateHeerIds, _generate_heer_ids, GenerateHeerIdsAsync for an object without identifier.
Assign(c, o) ==
  /\ tx[c] # "failed" /\ c = Owner[o]
  /\ kind[o] # "default" /\ state[o] = "new" /\ sending[o] = NoId
  /\ Free(c, NodeId[c])
  /\ Advance(c, NodeId[c])
  /\ sending' = [sending EXCEPT ![o] = NextId(c, NodeId[c])]
  /\ kept' = [kept EXCEPT ![o] = Assigned(o, NextId(c, NodeId[c]))]
  /\ UNCHANGED <<active, session, undone, kind, state, met, tries, table, pending>>

RowsOf(c) == IF tx[c] = "open" THEN table \cup pending[c] ELSE table

\* The key is in a row of another open transaction: wait for its end.
Waits(c, id) == \E d \in Clients \ {c} : \E row \in pending[d] : row.id = id

\* The node the session chose last, if it chose one.
Chosen(c) == IF choices[c] = <<>> THEN NoNode ELSE Last(choices[c])

\* The row is in the table, and the answer arrives or not; or it is part of the transaction.
Store(c, o, id) ==
  LET row == [id |-> id, object |-> o,
              chosen |-> IF kind[o] = "default" THEN Chosen(c) ELSE id.node]
  IN IF tx[c] = "open"
     THEN /\ pending' = [pending EXCEPT ![c] = @ \cup {row}]
          /\ state' = [state EXCEPT ![o] = "inserted"]
          /\ UNCHANGED table
     ELSE /\ table' = table \cup {row}
          /\ \E s \in {"saved", "again"} : state' = [state EXCEPT ![o] = s]
          /\ UNCHANGED pending

Insert(c, o) ==
  /\ tx[c] # "failed" /\ c = Owner[o]
  /\ state[o] = "new" /\ sending[o] # NoId /\ ~Waits(c, sending[o])
  /\ ~\E row \in RowsOf(c) : row.id = sending[o]
  /\ Store(c, o, sending[o])
  /\ UNCHANGED <<active, session, nodes, kind, kept, sending, met, tries>>

Duplicate(c, o) ==
  /\ tx[c] # "failed" /\ c = Owner[o]
  /\ state[o] = "new" /\ sending[o] # NoId /\ ~Waits(c, sending[o])
  /\ \E row \in RowsOf(c) : row.id = sending[o] /\ met' = [met EXCEPT ![o] = {row}]
  /\ state' = [state EXCEPT ![o] = "duplicate"]
  /\ Failed(c)
  /\ UNCHANGED <<active, setting, before, choices, settled, nodes, kind, kept, sending, tries, table, pending>>

\* An INSERT whose default calls generate_id() for current_heer_node_id().
Generates(c, o) ==
  /\ tx[c] # "failed" /\ c = Owner[o]
  /\ kind[o] = "default" /\ state[o] = "new"
  /\ setting[c] \in Nodes
  /\ Free(c, setting[c])
  /\ ~Waits(c, NextId(c, setting[c]))

InsertDefault(c, o) ==
  /\ Generates(c, o)
  /\ ~\E row \in RowsOf(c) : row.id = NextId(c, setting[c])
  /\ Advance(c, setting[c])
  /\ Store(c, o, NextId(c, setting[c]))
  /\ UNCHANGED <<active, session, undone, kind, kept, sending, met, tries>>

\* The identifier is a row's already: the statement fails, and the number it was given is taken
\* back with it.  The caller, who holds no identifier, may save the object again.
DefaultDuplicate(c, o) ==
  /\ Generates(c, o)
  /\ \E row \in RowsOf(c) : row.id = NextId(c, setting[c]) /\ met' = [met EXCEPT ![o] = {row}]
  /\ state' = [state EXCEPT ![o] = "again"]
  /\ Failed(c)
  /\ UNCHANGED <<active, setting, before, choices, settled, nodes, kind, kept, sending, tries, table, pending>>

\* "heer.node_id is not set for this session", or the node is not active any more.
DefaultFails(c, o) ==
  /\ tx[c] = "open" /\ c = Owner[o]
  /\ kind[o] = "default" /\ state[o] = "new"
  /\ setting[c] \notin active
  /\ Failed(c)
  /\ UNCHANGED <<active, setting, before, choices, settled, nodes, objects, table, pending>>

\* The caller saves the object again: with the identifier it holds, if any.
Retry(o) ==
  /\ state[o] = "again" /\ tx[Owner[o]] = "none" /\ tries[o] < MaxTries
  /\ tries' = [tries EXCEPT ![o] = @ + 1]
  /\ state' = [state EXCEPT ![o] = "new"]
  /\ sending' = [sending EXCEPT ![o] = kept[o]]
  /\ UNCHANGED <<active, session, nodes, kind, kept, met, table, pending>>

-----------------------------------------------------------------------------
(* The end of a transaction. *)

InTx(c) == {o \in Objects : Owner[o] = c /\ state[o] = "inserted"}

Released(c) ==
  /\ holder' = [n \in Nodes |-> IF holder[n] = c THEN NoClient ELSE holder[n]]
  /\ ahead' = [n \in Nodes |-> IF holder[n] = c THEN 0 ELSE ahead[n]]

Commit(c) ==
  /\ tx[c] = "open" /\ ~Creating(c)
  /\ tx' = [tx EXCEPT ![c] = "none"]
  /\ position' = [n \in Nodes |-> LastNumber(c, n)]
  /\ Released(c)
  /\ table' = table \cup pending[c]
  /\ pending' = [pending EXCEPT ![c] = {}]
  /\ \E answer \in {"saved", "again"} :
       /\ state' = [o \in Objects |-> IF o \in InTx(c) THEN answer ELSE state[o]]
       \* Without an answer the connection is gone, and its settings with it.
       /\ setting' = [setting EXCEPT ![c] = IF answer = "saved" THEN AtCommit(c) ELSE NoNode]
       /\ choices' = IF answer = "saved" THEN choices ELSE [choices EXCEPT ![c] = <<>>]
  /\ UNCHANGED <<active, undone, before, settled, kind, kept, sending, met, tries>>

\* ROLLBACK, or the connection is lost.
Rollback(c) ==
  /\ tx[c] # "none"
  /\ tx' = [tx EXCEPT ![c] = "none"]
  /\ Released(c)
  /\ undone' = undone \cup GivenTo(c)
  /\ sending' = [o \in Objects |-> IF Owner[o] = c THEN kept[o] ELSE sending[o]]
  /\ pending' = [pending EXCEPT ![c] = {}]
  /\ state' = [o \in Objects |-> IF o \in InTx(c) THEN "again" ELSE state[o]]
  /\ \/ /\ setting' = [setting EXCEPT ![c] = before[c]]
        /\ choices' = [choices EXCEPT ![c] = SubSeq(@, 1, settled[c])]
     \/ /\ setting' = [setting EXCEPT ![c] = NoNode]
        /\ choices' = [choices EXCEPT ![c] = <<>>]
  /\ UNCHANGED <<active, position, before, settled, kind, kept, met, tries, table>>

-----------------------------------------------------------------------------
Init ==
  /\ active = Nodes
  /\ position = [n \in Nodes |-> 0] /\ ahead = position
  /\ holder = [n \in Nodes |-> NoClient]
  /\ tx = [c \in Clients |-> "none"]
  /\ setting = [c \in Clients |-> NoNode] /\ before = setting
  /\ kind \in Mixes
  /\ kept = [o \in Objects |-> NoId] /\ sending = kept
  /\ state = [o \in Objects |-> "new"]
  /\ met = [o \in Objects |-> {}]
  /\ tries = [o \in Objects |-> 1]
  /\ table = {}
  /\ pending = [c \in Clients |-> {}]
  /\ choices = [c \in Clients |-> <<>>] /\ settled = [c \in Clients |-> 0]
  /\ undone = {}

Next ==
  \/ \E c \in Clients :
       \/ Begin(c) \/ Commit(c) \/ Rollback(c)
       \/ \E n \in Nodes : Choose(c, n) \/ ChooseFails(c, n)
       \/ \E o \in Objects :
            \/ Assign(c, o) \/ Insert(c, o) \/ Duplicate(c, o)
            \/ InsertDefault(c, o) \/ DefaultDuplicate(c, o) \/ DefaultFails(c, o)
  \/ \E o \in Objects : Retry(o)
  \/ \E n \in Nodes : Deactivate(n)

Spec == Init /\ [][Next]_vars

-----------------------------------------------------------------------------
\* What a database default generates carries the node its session chose last, in whatever
\* transaction, unless that was rolled back.
NodeKept ==
  \A row \in table \cup UNION {pending[c] : c \in Clients} :
    kind[row.object] = "default" => row.id.node = row.chosen

\* However often the caller tries again after an answer was lost, an object that keeps its
\* identifier is stored once.  A duplicate key, for an identifier that was sent or for one that a
\* column default just generated, means that the object was stored before, or that the identifier
\* is one whose generation had been rolled back.
RetrySafe ==
  /\ \A o \in Objects : kind[o] = "kept" => Cardinality({row \in table : row.object = o}) <= 1
  /\ \A o \in Objects : \A row \in met[o] : row.object # o => row.id \in undone
=============================================================================
