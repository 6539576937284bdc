--------------------------- MODULE ClientsProofs ----------------------------
(***************************************************************************)
(* What clients may rely on when they save objects and try again: for any  *)
(* clients, sessions, nodes and objects, any mix of the ways an object     *)
(* gets its identifier, and any number of tries.                           *)
(***************************************************************************)
EXTENDS Clients, FiniteSetTheorems, TLAPS

Row == [id : Ids, object : Objects, chosen : Nodes]

\* The rows of the table, committed or not.
AllRows == table \cup UNION {pending[c] : c \in Clients}

-----------------------------------------------------------------------------
(* The invariant. *)

Types ==
  /\ position \in [Nodes -> 0 .. MaxIds] /\ ahead \in [Nodes -> 0 .. MaxIds]
  /\ holder \in [Nodes -> Clients \cup {NoClient}]
  /\ active \subseteq Nodes
  /\ tx \in [Clients -> {"none", "open", "failed"}]
  /\ setting \in [Clients -> Nodes \cup {NoNode}] /\ before \in [Clients -> Nodes \cup {NoNode}]
  /\ choices \in [Clients -> Seq(Nodes)] /\ settled \in [Clients -> Nat]
  /\ kind \in [Objects -> Kinds]
  /\ kept \in [Objects -> Ids \cup {NoId}] /\ sending \in [Objects -> Ids \cup {NoId}]
  /\ state \in [Objects -> {"new", "inserted", "again", "saved", "duplicate"}]
  /\ met \in [Objects -> SUBSET Row]
  /\ tries \in [Objects -> Nat]
  /\ table \subseteq Row
  /\ pending \in [Clients -> SUBSET Row]

\* Only a transaction holds a node's row, and its numbers go on from the committed one.
HolderOpen ==
  \A n \in Nodes : holder[n] # NoClient => tx[holder[n]] # "none" /\ position[n] <= ahead[n]

\* The session's setting is the node chosen last, and a transaction remembers the one before it.
SessionInv ==
  \A c \in Clients :
    /\ setting[c] = IF choices[c] = <<>> THEN NoNode ELSE Last(choices[c])
    /\ tx[c] # "none" =>
         /\ settled[c] <= Len(choices[c])
         /\ before[c] = IF settled[c] = 0 THEN NoNode ELSE choices[c][settled[c]]

\* A default leaves the identifier to the database.
NoneSent == \A o \in Objects : kind[o] = "default" => sending[o] = NoId /\ kept[o] = NoId

\* An object that keeps its identifier sends that one and is stored under that one.
KeptInv ==
  /\ \A o \in Objects : kind[o] = "kept" => sending[o] = kept[o]
  /\ \A row \in AllRows :
       kind[row.object] = "kept" => row.id = kept[row.object] /\ row.chosen = row.id.node

\* An object uses an identifier while it holds or sends it, and where it is stored under it.
Used(id, o) ==
  \/ kept[o] = id
  \/ sending[o] = id
  \/ \E row \in table : row.id = id /\ row.object = o
  \/ \E row \in pending[Owner[o]] : row.id = id /\ row.object = o

OwnRows == \A c \in Clients : \A row \in pending[c] : Owner[row.object] = c

\* The number of an identifier in use has been counted in its owner's sight, or was rolled back.
UsesGiven ==
  \A o \in Objects, id \in Ids :
    Used(id, o) => id \in undone \/ id.number <= LastNumber(Owner[o], id.node)

\* Two objects use one identifier only if it was rolled back.
UsesApart ==
  \A o, p \in Objects, id \in Ids : o # p /\ Used(id, o) /\ Used(id, p) => id \in undone

Inv ==
  /\ Types /\ HolderOpen /\ OwnRows /\ NoneSent /\ SessionInv
  /\ NodeKept /\ KeptInv /\ UsesGiven /\ UsesApart /\ RetrySafe

-----------------------------------------------------------------------------
LEMMA NotAnId == NoId \notin Ids
  BY ClientsAssumption DEF NoId, Ids

-----------------------------------------------------------------------------
(* The generator. *)

LEMMA LastNumberType ==
  ASSUME Types, NEW c, NEW n \in Nodes
  PROVE  LastNumber(c, n) \in 0 .. MaxIds
  BY DEF Types, LastNumber

\* A client that finds the row free sees no less than anyone else, and gets a new number.
LEMMA NextIdNew ==
  ASSUME Types, HolderOpen, NEW c \in Clients, NEW n \in Nodes, Free(c, n)
  PROVE  /\ NextId(c, n) \in Ids
         /\ \A d \in Clients : LastNumber(d, n) < NextId(c, n).number
<1>1. LastNumber(c, n) \in 0 .. MaxIds /\ LastNumber(c, n) < MaxIds /\ MaxIds \in Nat
  BY LastNumberType, ClientsAssumption DEF Free
<1>2. NextId(c, n) \in Ids
  BY <1>1 DEF NextId, Ids
<1>3. ASSUME NEW d \in Clients PROVE LastNumber(d, n) <= LastNumber(c, n)
  BY ClientsAssumption DEF Types, HolderOpen, Free, LastNumber
<1> QED BY <1>1, <1>2, <1>3, LastNumberType DEF NextId

\* Nobody's last number goes back, and the caller's is the one it was given.
LEMMA AdvanceStep ==
  ASSUME Types, HolderOpen, NEW c \in Clients, NEW n \in Nodes, tx[c] # "failed",
         Free(c, n), Advance(c, n), tx' = tx
  PROVE  /\ position' \in [Nodes -> 0 .. MaxIds] /\ ahead' \in [Nodes -> 0 .. MaxIds]
         /\ holder' \in [Nodes -> Clients \cup {NoClient}]
         /\ HolderOpen'
         /\ \A d \in Clients, m \in Nodes : LastNumber(d, m) <= LastNumber(d, m)'
         /\ LastNumber(c, n)' = NextId(c, n).number
<1>1. LastNumber(c, n) \in 0 .. MaxIds /\ LastNumber(c, n) + 1 \in 0 .. MaxIds
  BY LastNumberType, ClientsAssumption DEF Free
<1>2. NextId(c, n).number = LastNumber(c, n) + 1
  BY DEF NextId
<1>3. NoClient \notin Clients /\ holder[n] \in {c, NoClient}
  BY ClientsAssumption DEF Free
<1>4. CASE tx[c] = "open"
  <2>1. /\ ahead' = [ahead EXCEPT ![n] = LastNumber(c, n) + 1]
        /\ holder' = [holder EXCEPT ![n] = c]
        /\ position' = position
    BY <1>4 DEF Advance
  <2>2. position[n] <= LastNumber(c, n)
    BY <1>3 DEF Types, HolderOpen, LastNumber
  <2>3. HolderOpen'
    BY <1>1, <1>3, <1>4, <2>1, <2>2 DEF Types, HolderOpen
  <2>4. ASSUME NEW d \in Clients, NEW m \in Nodes PROVE LastNumber(d, m) <= LastNumber(d, m)'
    BY <1>1, <1>3, <2>1, <2>2 DEF Types, LastNumber
  <2>5. LastNumber(c, n)' = LastNumber(c, n) + 1
    BY <2>1 DEF Types, LastNumber
  <2> QED BY <1>1, <1>2, <2>1, <2>3, <2>4, <2>5 DEF Types
<1>5. CASE tx[c] # "open"
  <2>1. /\ position' = [position EXCEPT ![n] = LastNumber(c, n) + 1]
        /\ ahead' = ahead /\ holder' = holder
    BY <1>5 DEF Advance
  <2>2. holder[n] = NoClient
    BY <1>3, <1>5 DEF Types, HolderOpen
  <2>3. HolderOpen'
    BY <2>1, <2>2 DEF Types, HolderOpen
  <2>4. ASSUME NEW d \in Clients, NEW m \in Nodes PROVE LastNumber(d, m) <= LastNumber(d, m)'
    BY <1>1, <1>3, <2>1, <2>2 DEF Types, LastNumber
  <2>5. LastNumber(c, n)' = LastNumber(c, n) + 1
    BY <1>3, <2>1, <2>2 DEF Types, LastNumber
  <2> QED BY <1>1, <1>2, <2>1, <2>3, <2>4, <2>5 DEF Types
<1> QED BY <1>4, <1>5

-----------------------------------------------------------------------------
(* The end of a transaction. *)

\* Giving the rows of c back leaves the others' numbers alone.
LEMMA ReleasedStep ==
  ASSUME Types, HolderOpen, NEW c \in Clients, Released(c),
         tx' = [tx EXCEPT ![c] = "none"],
         \A n \in Nodes : holder[n] # c => position'[n] = position[n]
  PROVE  /\ ahead' \in [Nodes -> 0 .. MaxIds] /\ holder' \in [Nodes -> Clients \cup {NoClient}]
         /\ HolderOpen'
         /\ \A d \in Clients, n \in Nodes :
              LastNumber(d, n)' = IF holder[n] = d /\ d # c THEN LastNumber(d, n) ELSE position'[n]
<1>1. 0 \in 0 .. MaxIds /\ NoClient \notin Clients
  BY ClientsAssumption
<1>2. /\ ahead' \in [Nodes -> 0 .. MaxIds] /\ holder' \in [Nodes -> Clients \cup {NoClient}]
      /\ \A n \in Nodes : /\ holder[n] = c => holder'[n] = NoClient
                          /\ holder[n] # c => holder'[n] = holder[n] /\ ahead'[n] = ahead[n]
  BY <1>1 DEF Types, Released
<1>3. HolderOpen'
  BY <1>1, <1>2 DEF Types, HolderOpen
<1>4. \A d \in Clients, n \in Nodes :
        LastNumber(d, n)' = IF holder[n] = d /\ d # c THEN LastNumber(d, n) ELSE position'[n]
  BY <1>1, <1>2 DEF LastNumber
<1> QED BY <1>2, <1>3, <1>4

\* A commit takes what its transaction was given for the committed number.
LEMMA CommitNumbers ==
  ASSUME Types, HolderOpen, NEW c \in Clients, Commit(c)
  PROVE  /\ position' \in [Nodes -> 0 .. MaxIds] /\ ahead' \in [Nodes -> 0 .. MaxIds]
         /\ holder' \in [Nodes -> Clients \cup {NoClient}]
         /\ HolderOpen'
         /\ \A d \in Clients, n \in Nodes : LastNumber(d, n) <= LastNumber(d, n)'
<1>1. /\ position' = [n \in Nodes |-> LastNumber(c, n)] /\ Released(c)
      /\ tx' = [tx EXCEPT ![c] = "none"]
  BY DEF Commit
<1>2. /\ position' \in [Nodes -> 0 .. MaxIds]
      /\ \A n \in Nodes : holder[n] # c => position'[n] = position[n]
  BY <1>1, LastNumberType DEF LastNumber
<1>3. /\ ahead' \in [Nodes -> 0 .. MaxIds] /\ holder' \in [Nodes -> Clients \cup {NoClient}]
      /\ HolderOpen'
      /\ \A d \in Clients, n \in Nodes :
           LastNumber(d, n)' = IF holder[n] = d /\ d # c THEN LastNumber(d, n) ELSE position'[n]
  BY <1>1, <1>2, ReleasedStep
<1>4. ASSUME NEW d \in Clients, NEW n \in Nodes PROVE LastNumber(d, n) <= LastNumber(d, n)'
  <2>1. NoClient \notin Clients /\ MaxIds \in Nat
    BY ClientsAssumption
  <2>2. /\ LastNumber(d, n) \in 0 .. MaxIds /\ LastNumber(c, n) \in 0 .. MaxIds
        /\ position[n] \in 0 .. MaxIds
    BY LastNumberType DEF Types
  <2>3. holder[n] # d => LastNumber(d, n) = position[n] /\ position[n] <= LastNumber(c, n)
    BY <2>1, <2>2 DEF Types, HolderOpen, LastNumber
  <2> QED BY <1>1, <1>3, <2>1, <2>2, <2>3
<1> QED BY <1>2, <1>3, <1>4

\* A rollback forgets what its transaction was given, and that is remembered as undone.
LEMMA RollbackNumbers ==
  ASSUME Types, HolderOpen, NEW c \in Clients, Rollback(c)
  PROVE  /\ position' \in [Nodes -> 0 .. MaxIds] /\ ahead' \in [Nodes -> 0 .. MaxIds]
         /\ holder' \in [Nodes -> Clients \cup {NoClient}]
         /\ HolderOpen'
         /\ \A d \in Clients, id \in Ids :
              id.number <= LastNumber(d, id.node) =>
                id \in undone' \/ id.number <= LastNumber(d, id.node)'
<1>1. /\ position' = position /\ Released(c)
      /\ tx' = [tx EXCEPT ![c] = "none"]
      /\ undone' = undone \cup GivenTo(c)
  BY DEF Rollback
<1>2. /\ ahead' \in [Nodes -> 0 .. MaxIds] /\ holder' \in [Nodes -> Clients \cup {NoClient}]
      /\ HolderOpen'
      /\ \A d \in Clients, n \in Nodes :
           LastNumber(d, n)' = IF holder[n] = d /\ d # c THEN LastNumber(d, n) ELSE position'[n]
  BY <1>1, ReleasedStep
<1>3. ASSUME NEW d \in Clients, NEW id \in Ids, id.number <= LastNumber(d, id.node)
      PROVE  id \in undone' \/ id.number <= LastNumber(d, id.node)'
  <2>1. id.node \in Nodes /\ id.number \in 1 .. MaxIds
    BY DEF Ids
  <2>2. /\ position[id.node] \in 0 .. MaxIds /\ ahead[id.node] \in 0 .. MaxIds
        /\ MaxIds \in Nat
    BY <2>1, ClientsAssumption DEF Types
  <2>3. CASE holder[id.node] = d /\ d # c
    BY <1>2, <1>3, <2>1, <2>3
  <2>4. CASE holder[id.node] # d
    BY <1>1, <1>2, <1>3, <2>1, <2>4 DEF LastNumber
  <2>5. CASE holder[id.node] = c /\ d = c /\ id.number > position[id.node]
    <3>1. id.number \in position[id.node] + 1 .. ahead[id.node]
      BY <1>3, <2>1, <2>2, <2>5 DEF LastNumber
    <3> QED BY <1>1, <2>5, <3>1 DEF GivenTo
  <2>6. CASE d = c /\ id.number <= position[id.node]
    BY <1>1, <1>2, <2>1, <2>6
  <2> QED BY <2>1, <2>2, <2>3, <2>4, <2>5, <2>6
<1> QED BY <1>1, <1>2, <1>3 DEF Types

-----------------------------------------------------------------------------
(* Types. *)

\* The row of o that c stores under id.
Stored(row, c, o, id) ==
  /\ row.id = id /\ row.object = o
  /\ row.chosen = IF kind[o] = "default" THEN Chosen(c) ELSE id.node

\* One row is added, to the table or to the transaction.
LEMMA StoreTypes ==
  ASSUME Types, NEW c \in Clients, NEW o \in Objects, NEW id \in Ids, Store(c, o, id),
         kind[o] = "default" => choices[c] # <<>>
  PROVE  /\ state' \in [Objects -> {"new", "inserted", "again", "saved", "duplicate"}]
         /\ table' \subseteq Row
         /\ pending' \in [Clients -> SUBSET Row]
         /\ \A r \in table' \ table : Stored(r, c, o, id)
         /\ \A d \in Clients : \A r \in pending'[d] \ pending[d] : d = c /\ Stored(r, c, o, id)
<1> DEFINE row == [id |-> id, object |-> o,
                   chosen |-> IF kind[o] = "default" THEN Chosen(c) ELSE id.node]
<1>1. id.node \in Nodes
  BY DEF Ids
<1>2. choices[c] # <<>> => Chosen(c) \in Nodes
  <2> SUFFICES ASSUME choices[c] # <<>> PROVE Chosen(c) \in Nodes
    OBVIOUS
  <2>1. choices[c] \in Seq(Nodes)
    BY DEF Types
  <2> QED BY <2>1 DEF Last, Chosen
<1>3. row \in Row /\ Stored(row, c, o, id)
  BY <1>1, <1>2 DEF Row, Stored
<1> HIDE DEF row
<1>4. CASE tx[c] = "open"
  <2>1. /\ pending' = [pending EXCEPT ![c] = @ \cup {row}] /\ table' = table
        /\ state' = [state EXCEPT ![o] = "inserted"]
    BY <1>4 DEF Store, row
  <2> QED BY <1>3, <2>1 DEF Types
<1>5. CASE tx[c] # "open"
  <2>1. /\ pending' = pending /\ table' = table \cup {row}
        /\ \E s \in {"saved", "again"} : state' = [state EXCEPT ![o] = s]
    BY <1>5 DEF Store, row
  <2> QED BY <1>3, <2>1 DEF Types
<1> QED BY <1>4, <1>5

\* A default generates for a node the session chose, and gets a new number.
LEMMA DefaultGenerates ==
  ASSUME Types, HolderOpen, SessionInv, NEW c \in Clients, NEW o \in Objects, Generates(c, o)
  PROVE  /\ setting[c] \in Nodes /\ choices[c] # <<>> /\ setting[c] = Chosen(c)
         /\ NextId(c, setting[c]) \in Ids
         /\ \A d \in Clients : LastNumber(d, setting[c]) < NextId(c, setting[c]).number
<1>1. setting[c] \in Nodes /\ Free(c, setting[c])
  BY DEF Generates
<1>2. choices[c] # <<>> /\ setting[c] = Chosen(c)
  BY <1>1, ClientsAssumption DEF SessionInv, Chosen
<1> QED BY <1>1, <1>2, NextIdNew

LEMMA InitTypes == Init => Types /\ HolderOpen /\ OwnRows /\ NoneSent
<1> SUFFICES ASSUME Init PROVE Types /\ HolderOpen /\ OwnRows /\ NoneSent
  OBVIOUS
<1>1. /\ MaxIds \in Nat /\ Mixes \subseteq [Objects -> Kinds]
  BY ClientsAssumption
<1>2. <<>> \in Seq(Nodes)
  OBVIOUS
<1> QED BY <1>1, <1>2 DEF Init, Types, HolderOpen, OwnRows, NoneSent

LEMMA TypesStep ==
  ASSUME Types, HolderOpen, OwnRows, NoneSent, SessionInv, [Next]_vars
  PROVE  Types' /\ HolderOpen' /\ OwnRows' /\ NoneSent'
<1> USE DEF session, nodes, objects
<1>1. CASE UNCHANGED vars
  BY <1>1 DEF vars, Types, HolderOpen, OwnRows, NoneSent
<1>2. ASSUME NEW c \in Clients, Begin(c)
      PROVE  Types' /\ HolderOpen' /\ OwnRows' /\ NoneSent'
  <2>1. Len(choices[c]) \in Nat
    BY DEF Types
  <2>2. Types'
    BY <1>2, <2>1 DEF Begin, Types
  <2> QED BY <1>2, <2>2 DEF Begin, HolderOpen, OwnRows, NoneSent, Types
<1>3. ASSUME NEW c \in Clients, Commit(c)
      PROVE  Types' /\ HolderOpen' /\ OwnRows' /\ NoneSent'
  <2>1. <<>> \in Seq(Nodes)
    OBVIOUS
  <2>2. Types'
    BY <1>3, <2>1, CommitNumbers, ZenonT(60) DEF Commit, Types, AtCommit
  <2>3. OwnRows'
    BY <1>3 DEF Commit, OwnRows, Types
  <2> QED BY <1>3, <2>2, <2>3, CommitNumbers DEF Commit, NoneSent
<1>4. ASSUME NEW c \in Clients, Rollback(c)
      PROVE  Types' /\ HolderOpen' /\ OwnRows' /\ NoneSent'
  <2>1. /\ <<>> \in Seq(Nodes)
        /\ SubSeq(choices[c], 1, settled[c]) \in Seq(Nodes)
    BY <1>4 DEF Types, SessionInv, Rollback
  <2>2. Types'
    BY <1>4, <2>1, RollbackNumbers, ZenonT(60) DEF Rollback, Types
  <2>3. OwnRows'
    BY <1>4 DEF Rollback, OwnRows, Types
  <2> QED BY <1>4, <2>2, <2>3, RollbackNumbers DEF Rollback, NoneSent, Types
<1>5. ASSUME NEW c \in Clients, NEW n \in Nodes, Choose(c, n)
      PROVE  Types' /\ HolderOpen' /\ OwnRows' /\ NoneSent'
  <2>1. Append(choices[c], n) \in Seq(Nodes)
    BY DEF Types
  <2> QED BY <1>5, <2>1 DEF Choose, Types, HolderOpen, OwnRows, NoneSent
<1>6. ASSUME NEW c \in Clients, NEW n \in Nodes, ChooseFails(c, n)
      PROVE  Types' /\ HolderOpen' /\ OwnRows' /\ NoneSent'
  BY <1>6 DEF ChooseFails, Failed, Types, HolderOpen, OwnRows, NoneSent
<1>7. ASSUME NEW c \in Clients, NEW o \in Objects, Assign(c, o)
      PROVE  Types' /\ HolderOpen' /\ OwnRows' /\ NoneSent'
  <2>1. NodeId[c] \in Nodes
    BY ClientsAssumption
  <2>2. NextId(c, NodeId[c]) \in Ids
    BY <1>7, <2>1, NextIdNew DEF Assign
  <2>3. /\ position' \in [Nodes -> 0 .. MaxIds] /\ ahead' \in [Nodes -> 0 .. MaxIds]
        /\ holder' \in [Nodes -> Clients \cup {NoClient}] /\ HolderOpen'
    BY <1>7, <2>1, AdvanceStep DEF Assign
  <2>4. Types'
    BY <1>7, <2>2, <2>3 DEF Assign, Assigned, Types
  <2> QED BY <1>7, <2>3, <2>4 DEF Assign, OwnRows, NoneSent, Types
<1>8. ASSUME NEW c \in Clients, NEW o \in Objects, Insert(c, o)
      PROVE  Types' /\ HolderOpen' /\ OwnRows' /\ NoneSent'
  <2>1. sending[o] \in Ids /\ kind[o] # "default"
    BY <1>8 DEF Insert, Types, NoneSent
  <2>2. /\ state' \in [Objects -> {"new", "inserted", "again", "saved", "duplicate"}]
        /\ table' \subseteq Row /\ pending' \in [Clients -> SUBSET Row]
    BY <1>8, <2>1, StoreTypes DEF Insert
  <2>3. Types' /\ HolderOpen' /\ NoneSent'
    BY <1>8, <2>2 DEF Insert, Types, HolderOpen, NoneSent
  <2>4. OwnRows'
    BY <1>8, <2>1, StoreTypes DEF Insert, OwnRows, Stored
  <2> QED BY <2>3, <2>4
<1>9. ASSUME NEW c \in Clients, NEW o \in Objects, Duplicate(c, o)
      PROVE  Types' /\ HolderOpen' /\ OwnRows' /\ NoneSent'
  <2>1. \A row \in RowsOf(c) : {row} \in SUBSET Row
    BY DEF RowsOf, Types
  <2>2. Types'
    BY <1>9, <2>1 DEF Duplicate, Failed, Types
  <2> QED BY <1>9, <2>2 DEF Duplicate, Failed, Types, HolderOpen, OwnRows, NoneSent
<1>10. ASSUME NEW c \in Clients, NEW o \in Objects, InsertDefault(c, o)
      PROVE  Types' /\ HolderOpen' /\ OwnRows' /\ NoneSent'
  <2>1. NextId(c, setting[c]) \in Ids /\ choices[c] # <<>>
    BY <1>10, DefaultGenerates DEF InsertDefault
  <2>2. /\ position' \in [Nodes -> 0 .. MaxIds] /\ ahead' \in [Nodes -> 0 .. MaxIds]
        /\ holder' \in [Nodes -> Clients \cup {NoClient}] /\ HolderOpen'
    BY <1>10, AdvanceStep DEF InsertDefault, Generates
  <2>3. /\ state' \in [Objects -> {"new", "inserted", "again", "saved", "duplicate"}]
        /\ table' \subseteq Row /\ pending' \in [Clients -> SUBSET Row]
    BY <1>10, <2>1, StoreTypes DEF InsertDefault
  <2>4. Types' /\ NoneSent'
    BY <1>10, <2>2, <2>3 DEF InsertDefault, Types, NoneSent
  <2>5. OwnRows'
    BY <1>10, <2>1, StoreTypes DEF InsertDefault, Generates, OwnRows, Stored
  <2> QED BY <2>2, <2>4, <2>5
<1>11. ASSUME NEW c \in Clients, NEW o \in Objects, DefaultFails(c, o)
      PROVE  Types' /\ HolderOpen' /\ OwnRows' /\ NoneSent'
  BY <1>11 DEF DefaultFails, Failed, Types, HolderOpen, OwnRows, NoneSent
<1>12. ASSUME NEW o \in Objects, Retry(o)
      PROVE  Types' /\ HolderOpen' /\ OwnRows' /\ NoneSent'
  <2>1. tries[o] + 1 \in Nat
    BY DEF Types
  <2> QED BY <1>12, <2>1 DEF Retry, Types, HolderOpen, OwnRows, NoneSent
<1>13. ASSUME NEW n \in Nodes, Deactivate(n)
      PROVE  Types' /\ HolderOpen' /\ OwnRows' /\ NoneSent'
  BY <1>13 DEF Deactivate, Types, HolderOpen, OwnRows, NoneSent
<1>14. ASSUME NEW c \in Clients, NEW o \in Objects, DefaultDuplicate(c, o)
      PROVE  Types' /\ HolderOpen' /\ OwnRows' /\ NoneSent'
  <2>1. \A row \in RowsOf(c) : {row} \in SUBSET Row
    BY DEF RowsOf, Types
  <2>2. Types'
    BY <1>14, <2>1 DEF DefaultDuplicate, Failed, Types
  <2> QED BY <1>14, <2>2 DEF DefaultDuplicate, Failed, Types, HolderOpen, OwnRows, NoneSent
<1> QED
  BY <1>1, <1>2, <1>3, <1>4, <1>5, <1>6, <1>7, <1>8, <1>9, <1>10, <1>11, <1>12, <1>13, <1>14 DEF Next

-----------------------------------------------------------------------------
(* The node of a session. *)

LEMMA InitSession == Init => SessionInv
  BY DEF Init, SessionInv

\* Beginning remembers how many choices there are, rolling back goes back to them, and a lost
\* connection forgets all of them.
LEMMA SessionStep ==
  ASSUME Types, SessionInv, [Next]_vars
  PROVE  SessionInv'
<1> USE DEF session, nodes, objects
<1>1. CASE UNCHANGED <<tx, setting, before, choices, settled>>
  BY <1>1 DEF SessionInv
<1>2. ASSUME NEW c \in Clients, Begin(c) PROVE SessionInv'
  <2>1. /\ setting[c] = IF choices[c] = <<>> THEN NoNode ELSE Last(choices[c])
        /\ choices[c] \in Seq(Nodes)
    BY DEF SessionInv, Types
  <2>2. /\ Len(choices[c]) \in Nat /\ (choices[c] = <<>> <=> Len(choices[c]) = 0)
        /\ Last(choices[c]) = choices[c][Len(choices[c])]
    BY <2>1 DEF Last
  <2> QED BY <1>2, <2>1, <2>2 DEF Begin, SessionInv, Types
<1>3. ASSUME NEW c \in Clients, NEW n \in Nodes, Choose(c, n) PROVE SessionInv'
  <2>1. choices[c] \in Seq(Nodes) /\ settled[c] \in Nat
    BY DEF Types
  <2>2. /\ Append(choices[c], n) # <<>> /\ Last(Append(choices[c], n)) = n
        /\ Len(Append(choices[c], n)) = Len(choices[c]) + 1
        /\ \A i \in 1 .. Len(choices[c]) : Append(choices[c], n)[i] = choices[c][i]
    BY <2>1 DEF Last
  <2> QED BY <1>3, <2>1, <2>2, SMTT(60) DEF Choose, SessionInv, Types
<1>4. ASSUME NEW c \in Clients, Commit(c) PROVE SessionInv'
  BY <1>4 DEF Commit, AtCommit, SessionInv, Types
<1>5. ASSUME NEW c \in Clients, Rollback(c) PROVE SessionInv'
  <2>1. /\ choices[c] \in Seq(Nodes) /\ settled[c] \in Nat
        /\ settled[c] <= Len(choices[c])
        /\ before[c] = IF settled[c] = 0 THEN NoNode ELSE choices[c][settled[c]]
    BY <1>5 DEF Rollback, SessionInv, Types
  <2>2. before[c] = IF SubSeq(choices[c], 1, settled[c]) = <<>> THEN NoNode
                    ELSE Last(SubSeq(choices[c], 1, settled[c]))
    BY <2>1 DEF Last
  <2> QED BY <1>5, <2>2, ZenonT(60) DEF Rollback, SessionInv, Types
<1>6. ASSUME NEW c \in Clients,
             \/ \E n \in Nodes : ChooseFails(c, n)
             \/ \E o \in Objects : Duplicate(c, o) \/ DefaultDuplicate(c, o) \/ DefaultFails(c, o)
      PROVE  SessionInv'
  <2>1. /\ tx' = [tx EXCEPT ![c] = "failed"] \/ tx' = tx
        /\ tx[c] = "open" \/ tx' = tx
        /\ UNCHANGED <<setting, before, choices, settled>>
    BY <1>6 DEF ChooseFails, Duplicate, DefaultDuplicate, DefaultFails, Failed
  <2> QED BY <2>1 DEF SessionInv, Types
<1>7. ASSUME NEW c \in Clients, NEW o \in Objects, Assign(c, o) \/ Insert(c, o) \/ InsertDefault(c, o)
      PROVE  SessionInv'
  BY <1>1, <1>7 DEF Assign, Insert, InsertDefault
<1>8. CASE UNCHANGED vars \/ (\E o \in Objects : Retry(o)) \/ (\E n \in Nodes : Deactivate(n))
  BY <1>1, <1>8 DEF vars, Retry, Deactivate
<1> QED BY <1>2, <1>3, <1>4, <1>5, <1>6, <1>7, <1>8 DEF Next

-----------------------------------------------------------------------------
(* The rows. *)

\* No step changes how an object gets its identifier, and a row is new only when it is stored.
LEMMA RowsAdded ==
  ASSUME Types, HolderOpen, NoneSent, SessionInv, [Next]_vars
  PROVE  /\ kind' = kind
         /\ \A row \in AllRows' : row \in AllRows \/
              \E c \in Clients, o \in Objects :
                \/ /\ Insert(c, o) /\ Stored(row, c, o, sending[o])
                   /\ sending[o] \in Ids /\ kind[o] # "default"
                \/ /\ InsertDefault(c, o) /\ Stored(row, c, o, NextId(c, setting[c]))
                   /\ kind[o] = "default"
<1> USE DEF session, nodes, objects
<1>1. ASSUME NEW c \in Clients, NEW o \in Objects, NEW row \in AllRows', row \notin AllRows,
             Insert(c, o) \/ InsertDefault(c, o)
      PROVE  \/ /\ Insert(c, o) /\ Stored(row, c, o, sending[o])
                /\ sending[o] \in Ids /\ kind[o] # "default"
             \/ /\ InsertDefault(c, o) /\ Stored(row, c, o, NextId(c, setting[c]))
                /\ kind[o] = "default"
  <2>1. CASE Insert(c, o)
    <3>1. sending[o] \in Ids /\ kind[o] # "default"
      BY <2>1 DEF Insert, Types, NoneSent
    <3>2. Stored(row, c, o, sending[o])
      BY <1>1, <2>1, <3>1, StoreTypes DEF Insert, AllRows
    <3> QED BY <2>1, <3>1, <3>2
  <2>2. CASE InsertDefault(c, o)
    <3>1. NextId(c, setting[c]) \in Ids /\ choices[c] # <<>>
      BY <2>2, DefaultGenerates DEF InsertDefault
    <3>2. Stored(row, c, o, NextId(c, setting[c]))
      BY <1>1, <2>2, <3>1, StoreTypes DEF InsertDefault, AllRows
    <3> QED BY <2>2, <3>2 DEF InsertDefault, Generates
  <2> QED BY <1>1, <2>1, <2>2
<1>2. CASE UNCHANGED vars \/ (\E o \in Objects : Retry(o)) \/ (\E n \in Nodes : Deactivate(n))
  BY <1>2 DEF vars, Retry, Deactivate, AllRows
<1>3. ASSUME NEW c \in Clients, Begin(c) \/ (\E n \in Nodes : Choose(c, n) \/ ChooseFails(c, n))
                                \/ (\E o \in Objects : Assign(c, o) \/ Duplicate(c, o)
                                                     \/ DefaultDuplicate(c, o) \/ DefaultFails(c, o))
      PROVE  kind' = kind /\ AllRows' = AllRows
  BY <1>3 DEF Begin, Choose, ChooseFails, Assign, Duplicate, DefaultDuplicate, DefaultFails, AllRows
<1>4. ASSUME NEW c \in Clients, Commit(c) \/ Rollback(c)
      PROVE  kind' = kind /\ AllRows' \subseteq AllRows
  <2>1. /\ \A d \in Clients : pending'[d] \subseteq pending[d]
        /\ table' \subseteq table \cup pending[c]
        /\ kind' = kind
    BY <1>4 DEF Commit, Rollback, Types
  <2> QED BY <2>1 DEF AllRows
<1>5. kind' = kind
  BY <1>2, <1>3, <1>4 DEF Next, Insert, InsertDefault
<1> QED BY <1>1, <1>2, <1>3, <1>4, <1>5 DEF Next

LEMMA InitRows == Init => NodeKept /\ KeptInv /\ RetrySafe
<1> SUFFICES ASSUME Init PROVE NodeKept /\ KeptInv /\ RetrySafe
  OBVIOUS
<1>1. table = {} /\ AllRows = {}
  BY DEF Init, AllRows
<1>2. {row \in table : FALSE} = {} /\ Cardinality({}) = 0
  BY FS_EmptySet
<1>3. \A o \in Objects : Cardinality({row \in table : row.object = o}) <= 1
  <2> TAKE o \in Objects
  <2>1. {row \in table : row.object = o} = {}
    BY <1>1
  <2> QED BY <1>2, <2>1
<1> QED BY <1>1, <1>3 DEF Init, NodeKept, KeptInv, RetrySafe, AllRows

\* A default's row has the session's node, which is the one chosen last.
LEMMA NodeStep ==
  ASSUME Types, HolderOpen, NoneSent, SessionInv, NodeKept, [Next]_vars
  PROVE  NodeKept'
<1> SUFFICES ASSUME NEW row \in AllRows', kind'[row.object] = "default"
             PROVE  row.id.node = row.chosen
  BY DEF NodeKept, AllRows
<1>1. CASE row \in AllRows
  BY <1>1, RowsAdded DEF NodeKept, AllRows
<1>2. ASSUME NEW c \in Clients, NEW o \in Objects, InsertDefault(c, o),
             Stored(row, c, o, NextId(c, setting[c])), kind[o] = "default"
      PROVE  row.id.node = row.chosen
  <2>1. setting[c] = Chosen(c)
    BY <1>2, DefaultGenerates DEF InsertDefault
  <2> QED BY <1>2, <2>1 DEF Stored, NextId
<1> QED BY <1>1, <1>2, RowsAdded DEF Stored

\* A kept identifier is given once and sent ever since.
LEMMA KeptStep ==
  ASSUME Types, HolderOpen, NoneSent, SessionInv, KeptInv, [Next]_vars
  PROVE  KeptInv'
<1> USE DEF session, nodes, objects
<1>1. \A o \in Objects : kind[o] = "kept" =>
        sending'[o] = kept'[o] /\ (kept[o] # NoId => kept'[o] = kept[o])
  <2> SUFFICES ASSUME NEW o \in Objects, kind[o] = "kept"
               PROVE  sending'[o] = kept'[o] /\ (kept[o] # NoId => kept'[o] = kept[o])
    OBVIOUS
  <2>1. sending[o] = kept[o]
    BY DEF KeptInv
  <2>2. ASSUME NEW c \in Clients, NEW p \in Objects, Assign(c, p)
        PROVE  sending'[o] = kept'[o] /\ (kept[o] # NoId => kept'[o] = kept[o])
    BY <2>1, <2>2 DEF Assign, Assigned, Types
  <2>3. ASSUME NEW c \in Clients, Rollback(c)
        PROVE  sending'[o] = kept'[o] /\ (kept[o] # NoId => kept'[o] = kept[o])
    BY <2>1, <2>3 DEF Rollback
  <2>4. ASSUME NEW p \in Objects, Retry(p)
        PROVE  sending'[o] = kept'[o] /\ (kept[o] # NoId => kept'[o] = kept[o])
    BY <2>1, <2>4 DEF Retry, Types
  <2>5. ASSUME NEW c \in Clients,
               \/ Begin(c) \/ Commit(c)
               \/ \E n \in Nodes : Choose(c, n) \/ ChooseFails(c, n)
               \/ \E p \in Objects : Insert(c, p) \/ Duplicate(c, p) \/ InsertDefault(c, p)
                                      \/ DefaultDuplicate(c, p) \/ DefaultFails(c, p)
        PROVE  UNCHANGED <<sending, kept>>
    BY <2>5 DEF Begin, Commit, Choose, ChooseFails, Insert, Duplicate, InsertDefault, DefaultDuplicate, DefaultFails
  <2>6. CASE UNCHANGED vars \/ \E n \in Nodes : Deactivate(n)
    BY <2>1, <2>6 DEF vars, Deactivate
  <2> QED BY <2>1, <2>2, <2>3, <2>4, <2>5, <2>6 DEF Next
<1>2. ASSUME NEW row \in AllRows', kind'[row.object] = "kept"
      PROVE  row.id = kept'[row.object] /\ row.chosen = row.id.node
  <2>1. CASE row \in AllRows
    <3>1. row \in Row
      BY <2>1 DEF AllRows, Types
    <3>2. row.object \in Objects /\ row.id # NoId
      BY <3>1, NotAnId DEF Row
    <3>3. kind[row.object] = "kept" /\ row.id = kept[row.object] /\ row.chosen = row.id.node
      BY <1>2, <2>1, RowsAdded DEF KeptInv
    <3> QED BY <1>1, <3>2, <3>3
  <2>2. ASSUME NEW c \in Clients, NEW o \in Objects, Insert(c, o),
               Stored(row, c, o, sending[o]), sending[o] \in Ids, kind[o] # "default"
        PROVE  row.id = kept'[row.object] /\ row.chosen = row.id.node
    <3>1. row.object = o /\ row.id = sending[o] /\ row.chosen = row.id.node
      BY <2>2 DEF Stored
    <3>2. kind[o] = "kept" /\ sending[o] = kept[o] /\ kept' = kept
      BY <1>2, <2>2, <3>1, RowsAdded DEF KeptInv, Insert
    <3> QED BY <3>1, <3>2
  <2>3. kind' = kind
    BY RowsAdded
  <2> QED BY <1>2, <2>1, <2>2, <2>3, RowsAdded DEF Stored
<1> QED BY <1>1, <1>2, RowsAdded DEF KeptInv

-----------------------------------------------------------------------------
(* Identifiers in use. *)

LEMMA InitUses == Init => UsesGiven /\ UsesApart
<1> SUFFICES ASSUME Init, NEW o \in Objects, NEW id \in Ids PROVE ~Used(id, o)
  BY DEF UsesGiven, UsesApart
<1>1. Owner[o] \in Clients
  BY ClientsAssumption
<1> QED BY <1>1, NotAnId DEF Init, Used

\* No use is new: none of the numbers in use is forgotten unless it is undone.
LEMMA NoNewUse ==
  ASSUME UsesGiven, UsesApart, undone \subseteq undone',
         \A o \in Objects, id \in Ids : Used(id, o)' => Used(id, o),
         \A d \in Clients, id \in Ids :
           id.number <= LastNumber(d, id.node) =>
             id \in undone' \/ id.number <= LastNumber(d, id.node)'
  PROVE  UsesGiven' /\ UsesApart'
<1>1. \A o \in Objects : Owner[o] \in Clients
  BY ClientsAssumption
<1> QED BY <1>1 DEF UsesGiven, UsesApart

\* One object gets a new identifier: nobody has used it that has not been undone.
LEMMA OneNewUse ==
  ASSUME UsesGiven, UsesApart, undone' = undone,
         NEW p \in Objects, NEW new \in Ids,
         \A o \in Objects, id \in Ids : Used(id, o)' => Used(id, o) \/ (o = p /\ id = new),
         \A d \in Clients : LastNumber(d, new.node) < new.number,
         \A d \in Clients, n \in Nodes : LastNumber(d, n) <= LastNumber(d, n)',
         new.number <= LastNumber(Owner[p], new.node)',
         Types, Types'
  PROVE  UsesGiven' /\ UsesApart'
<1>1. \A o \in Objects : Owner[o] \in Clients
  BY ClientsAssumption
<1>2. \A id \in Ids : id.node \in Nodes /\ id.number \in Int
  BY DEF Ids
<1>3. \A d \in Clients, n \in Nodes : LastNumber(d, n) \in Int /\ LastNumber(d, n)' \in Int
  BY LastNumberType, SMTT(30) DEF LastNumber, Types
<1>4. \A o \in Objects : Used(new, o) => new \in undone
  BY <1>1, <1>2, <1>3 DEF UsesGiven
<1>5. UsesGiven'
  <2> SUFFICES ASSUME NEW o \in Objects, NEW id \in Ids, Used(id, o)'
               PROVE  id \in undone \/ id.number <= LastNumber(Owner[o], id.node)'
    BY DEF UsesGiven
  <2>1. CASE Used(id, o)
    <3>1. id \in undone \/ id.number <= LastNumber(Owner[o], id.node)
      BY <2>1 DEF UsesGiven
    <3> QED BY <1>1, <1>2, <1>3, <3>1
  <2> QED BY <2>1
<1>6. UsesApart'
  BY <1>4 DEF UsesApart
<1> QED BY <1>5, <1>6

LEMMA UsesStep ==
  ASSUME Types, HolderOpen, OwnRows, NoneSent, SessionInv, UsesGiven, UsesApart, [Next]_vars
  PROVE  UsesGiven' /\ UsesApart'
<1> USE DEF session, nodes, objects
<1>0. /\ \A o \in Objects : Owner[o] \in Clients
      /\ Types' /\ HolderOpen' /\ OwnRows'
      /\ \A d \in Clients, id \in Ids : LastNumber(d, id.node) \in Int
  BY ClientsAssumption, TypesStep, LastNumberType DEF Ids
\* Steps that give no identifier and end no transaction.
<1>1. ASSUME UNCHANGED <<position, ahead, holder, undone>>,
             \A o \in Objects, id \in Ids : Used(id, o)' => Used(id, o)
      PROVE  UsesGiven' /\ UsesApart'
  <2>1. \A d \in Clients, id \in Ids : LastNumber(d, id.node)' = LastNumber(d, id.node)
    BY <1>1 DEF LastNumber
  <2> QED BY <1>1, <2>1, NoNewUse
<1>2. CASE UNCHANGED <<position, ahead, holder, undone, kept, sending, table, pending>>
  BY <1>1, <1>2 DEF Used
<1>3. ASSUME NEW c \in Clients,
             \/ Begin(c)
             \/ \E n \in Nodes : Choose(c, n) \/ ChooseFails(c, n)
             \/ \E o \in Objects : Duplicate(c, o) \/ DefaultDuplicate(c, o) \/ DefaultFails(c, o)
      PROVE  UsesGiven' /\ UsesApart'
  BY <1>2, <1>3 DEF Begin, Choose, ChooseFails, Duplicate, DefaultDuplicate, DefaultFails
<1>4. CASE UNCHANGED vars \/ \E n \in Nodes : Deactivate(n)
  BY <1>2, <1>4 DEF vars, Deactivate
<1>5. ASSUME NEW o \in Objects, Retry(o) PROVE UsesGiven' /\ UsesApart'
  BY <1>1, <1>5 DEF Retry, Used, Types
<1>6. ASSUME NEW c \in Clients, NEW o \in Objects, Insert(c, o) PROVE UsesGiven' /\ UsesApart'
  <2>1. sending[o] \in Ids /\ kind[o] # "default" /\ Owner[o] = c
    BY <1>6 DEF Insert, Types, NoneSent
  <2>2. /\ \A r \in table' \ table : r.id = sending[o] /\ r.object = o
        /\ \A d \in Clients : \A r \in pending'[d] \ pending[d] : r.id = sending[o] /\ r.object = o
    BY <1>6, <2>1, StoreTypes DEF Insert, Stored
  <2>3. ASSUME NEW p \in Objects, NEW id \in Ids, Used(id, p)' PROVE Used(id, p)
    BY <1>0, <1>6, <2>2, <2>3 DEF Insert, Used
  <2> QED BY <1>1, <1>6, <2>3 DEF Insert
<1>7. ASSUME NEW c \in Clients, NEW o \in Objects, Assign(c, o) PROVE UsesGiven' /\ UsesApart'
  <2> DEFINE n == NodeId[c]
  <2>1. /\ n \in Nodes /\ Owner[o] = c
        /\ tx[c] # "failed" /\ Free(c, n) /\ Advance(c, n) /\ tx' = tx
    BY <1>7, ClientsAssumption DEF Assign
  <2>new. PICK new \in Ids : new = NextId(c, n) /\ new.node = n
    BY <2>1, NextIdNew DEF NextId
  <2>2. /\ \A d \in Clients : LastNumber(d, new.node) < new.number
        /\ \A d \in Clients, m \in Nodes : LastNumber(d, m) <= LastNumber(d, m)'
        /\ new.number <= LastNumber(Owner[o], new.node)'
    <3>1. \A d \in Clients : LastNumber(d, n) < new.number
      BY <2>new, <2>1, NextIdNew
    <3>2. /\ \A d \in Clients, m \in Nodes : LastNumber(d, m) <= LastNumber(d, m)'
          /\ LastNumber(c, n)' = new.number
      BY <2>new, <2>1, AdvanceStep
    <3>3. new.number \in Int
      BY <2>new DEF Ids
    <3> QED BY <2>new, <2>1, <3>1, <3>2, <3>3
  <2>3. ASSUME NEW p \in Objects, NEW id \in Ids, Used(id, p)'
        PROVE  Used(id, p) \/ (p = o /\ id = new)
    BY <1>7, <2>new, <2>3, NotAnId DEF Assign, Assigned, Used, Types
  <2>4. undone' = undone
    BY <1>7 DEF Assign
  <2> QED BY <1>0, <2>2, <2>3, <2>4, OneNewUse
<1>8. ASSUME NEW c \in Clients, NEW o \in Objects, InsertDefault(c, o) PROVE UsesGiven' /\ UsesApart'
  <2>n. PICK n \in Nodes : n = setting[c]
    BY <1>8 DEF InsertDefault, Generates
  <2>1. /\ Owner[o] = c /\ choices[c] # <<>>
        /\ tx[c] # "failed" /\ Free(c, n) /\ Advance(c, n) /\ tx' = tx
    BY <1>8, <2>n, DefaultGenerates DEF InsertDefault, Generates
  <2>new. PICK new \in Ids : new = NextId(c, n) /\ new.node = n
    BY <2>1, NextIdNew DEF NextId
  <2>2. /\ \A d \in Clients : LastNumber(d, new.node) < new.number
        /\ \A d \in Clients, m \in Nodes : LastNumber(d, m) <= LastNumber(d, m)'
        /\ new.number <= LastNumber(Owner[o], new.node)'
    <3>1. \A d \in Clients : LastNumber(d, n) < new.number
      BY <2>new, <2>1, NextIdNew
    <3>2. /\ \A d \in Clients, m \in Nodes : LastNumber(d, m) <= LastNumber(d, m)'
          /\ LastNumber(c, n)' = new.number
      BY <2>new, <2>1, AdvanceStep
    <3>3. new.number \in Int
      BY <2>new DEF Ids
    <3> QED BY <2>new, <2>1, <3>1, <3>2, <3>3
  <2>3. /\ \A r \in table' \ table : r.id = new /\ r.object = o
        /\ \A d \in Clients : \A r \in pending'[d] \ pending[d] : r.id = new /\ r.object = o
    BY <1>8, <2>1, <2>n, <2>new, StoreTypes DEF InsertDefault, Stored
  <2>4. ASSUME NEW p \in Objects, NEW id \in Ids, Used(id, p)'
        PROVE  Used(id, p) \/ (p = o /\ id = new)
    BY <1>0, <1>8, <2>3, <2>4 DEF InsertDefault, Used
  <2>5. undone' = undone
    BY <1>8 DEF InsertDefault
  <2> QED BY <1>0, <2>2, <2>4, <2>5, OneNewUse
<1>9. ASSUME NEW c \in Clients, Commit(c) PROVE UsesGiven' /\ UsesApart'
  <2>1. /\ \A d \in Clients : pending'[d] \subseteq pending[d]
        /\ table' = table \cup pending[c]
        /\ kept' = kept /\ sending' = sending /\ undone' = undone
    BY <1>9 DEF Commit, Types
  <2>2. \A r \in pending[c] : Owner[r.object] = c
    BY DEF OwnRows
  <2>3. ASSUME NEW p \in Objects, NEW id \in Ids, Used(id, p)' PROVE Used(id, p)
    BY <1>0, <2>1, <2>2, <2>3 DEF Used
  <2>4. /\ \A d \in Clients, n \in Nodes : LastNumber(d, n) <= LastNumber(d, n)'
        /\ \A d \in Clients, n \in Nodes : LastNumber(d, n)' \in Int /\ LastNumber(d, n) \in Int
    <3>1. \A d \in Clients, n \in Nodes : LastNumber(d, n) <= LastNumber(d, n)'
      BY <1>9, CommitNumbers
    <3>2. \A d \in Clients, n \in Nodes : LastNumber(d, n)' \in Int
      BY <1>0 DEF LastNumber, Types
    <3>3. \A d \in Clients, n \in Nodes : LastNumber(d, n) \in Int
      BY LastNumberType
    <3> QED BY <3>1, <3>2, <3>3
  <2>5. \A id \in Ids : id.node \in Nodes /\ id.number \in Int
    BY DEF Ids
  <2> QED BY <2>1, <2>3, <2>4, <2>5, NoNewUse
<1>10. ASSUME NEW c \in Clients, Rollback(c) PROVE UsesGiven' /\ UsesApart'
  <2>1. ASSUME NEW p \in Objects, NEW id \in Ids, Used(id, p)' PROVE Used(id, p)
    BY <1>0, <1>10, <2>1 DEF Rollback, Used, Types
  <2>2. undone \subseteq undone'
    BY <1>10 DEF Rollback
  <2> QED BY <1>10, <2>1, <2>2, RollbackNumbers, NoNewUse
<1> QED
  BY <1>3, <1>4, <1>5, <1>6, <1>7, <1>8, <1>9, <1>10 DEF Next

-----------------------------------------------------------------------------
(* Trying again. *)

\* What an object meets is in the table or of its own transaction: its own row, or one that uses
\* the identifier it sends, or one that uses a number its default has just been given as new.
LEMMA MetStep ==
  ASSUME Types, HolderOpen, OwnRows, SessionInv, UsesGiven, UsesApart, RetrySafe, [Next]_vars
  PROVE  \A o \in Objects : \A row \in met'[o] : row.object # o => row.id \in undone'
<1> USE DEF session, nodes, objects
<1>1. undone \subseteq undone'
  BY DEF Next, vars, Begin, Choose, ChooseFails, Deactivate, Assign, Insert, Duplicate, InsertDefault,
         DefaultDuplicate, DefaultFails, Retry, Commit, Rollback
<1>2. ASSUME met' = met
      PROVE  \A o \in Objects : \A row \in met'[o] : row.object # o => row.id \in undone'
  BY <1>1, <1>2 DEF RetrySafe
<1>3. ASSUME NEW c \in Clients, NEW p \in Objects, Duplicate(c, p)
      PROVE  \A o \in Objects : \A row \in met'[o] : row.object # o => row.id \in undone'
  <2>1. PICK row \in RowsOf(c) : row.id = sending[p] /\ met' = [met EXCEPT ![p] = {row}]
    BY <1>3 DEF Duplicate
  <2>2. /\ row \in Row /\ p \in Objects /\ Owner[p] = c
        /\ row \in table \/ (row \in pending[c] /\ Owner[row.object] = c)
    BY <1>3, <2>1 DEF Duplicate, RowsOf, Types, OwnRows
  <2>3. row.id \in Ids /\ row.object \in Objects
    BY <2>2 DEF Row
  <2>4. Used(row.id, p) /\ Used(row.id, row.object)
    BY <2>1, <2>2 DEF Used
  <2>5. row.object # p => row.id \in undone
    BY <2>3, <2>4 DEF UsesApart
  <2> QED BY <1>1, <2>1, <2>5 DEF RetrySafe, Types
<1>4. ASSUME NEW c \in Clients, NEW p \in Objects, DefaultDuplicate(c, p)
      PROVE  \A o \in Objects : \A row \in met'[o] : row.object # o => row.id \in undone'
  <2> DEFINE n == setting[c]
  <2>1. PICK row \in RowsOf(c) : row.id = NextId(c, n) /\ met' = [met EXCEPT ![p] = {row}]
    BY <1>4 DEF DefaultDuplicate
  <2>2. /\ row \in Row
        /\ row \in table \/ (row \in pending[c] /\ Owner[row.object] = c)
    BY <2>1 DEF RowsOf, Types, OwnRows
  <2>3. row.id \in Ids /\ row.object \in Objects /\ Owner[row.object] \in Clients
    BY <2>2, ClientsAssumption DEF Row
  <2>4. Used(row.id, row.object)
    BY <2>2 DEF Used
  <2>5. /\ n \in Nodes /\ row.id.node = n
        /\ LastNumber(Owner[row.object], n) < row.id.number
    <3>1. Generates(c, p)
      BY <1>4 DEF DefaultDuplicate
    <3>2. n \in Nodes /\ \A d \in Clients : LastNumber(d, n) < NextId(c, n).number
      BY <3>1, DefaultGenerates
    <3> QED BY <2>1, <2>3, <3>2 DEF NextId
  <2>6. LastNumber(Owner[row.object], n) \in Int /\ row.id.number \in Int
    BY <2>3, <2>5, LastNumberType DEF Ids
  <2>7. row.id \in undone
    BY <2>3, <2>4, <2>5, <2>6 DEF UsesGiven
  <2> QED BY <1>1, <2>1, <2>7 DEF RetrySafe, Types
<1>5. met' = met \/ \E c \in Clients, p \in Objects : Duplicate(c, p) \/ DefaultDuplicate(c, p)
  BY DEF Next, vars, Begin, Choose, ChooseFails, Deactivate, Assign, Insert, InsertDefault,
         DefaultFails, Retry, Commit, Rollback
<1> QED BY <1>2, <1>3, <1>4, <1>5

\* The rows of an object that are stored under one identifier are one row.
LEMMA StoredOnce ==
  ASSUME NEW T \in SUBSET Row, NEW o \in Objects, NEW id,
         \A row \in T : row.object = o => row.id = id /\ row.chosen = row.id.node
  PROVE  Cardinality({row \in T : row.object = o}) <= 1
<1> DEFINE S == {row \in T : row.object = o}
           r == [id |-> id, object |-> o, chosen |-> id.node]
<1>1. S \subseteq {r}
  BY DEF Row
<1> HIDE DEF r, S
<1>2. IsFiniteSet({r}) /\ Cardinality({r}) = 1
  BY FS_Singleton
<1>3. Cardinality(S) <= 1
  BY <1>1, <1>2, FS_Subset
<1> QED BY <1>3 DEF S

-----------------------------------------------------------------------------
LEMMA InitInv == Init => Inv
  BY InitTypes, InitSession, InitRows, InitUses DEF Inv

LEMMA InvStep == Inv /\ [Next]_vars => Inv'
<1> SUFFICES ASSUME Inv, [Next]_vars PROVE Inv'
  OBVIOUS
<1>1. Types' /\ HolderOpen' /\ OwnRows' /\ NoneSent'
  BY TypesStep DEF Inv
<1>2. SessionInv' /\ NodeKept' /\ KeptInv'
  BY SessionStep, NodeStep, KeptStep DEF Inv
<1>3. UsesGiven' /\ UsesApart'
  BY UsesStep DEF Inv
<1>4. RetrySafe'
  <2>1. \A o \in Objects : kind'[o] = "kept" => Cardinality({row \in table' : row.object = o}) <= 1
    <3> SUFFICES ASSUME NEW o \in Objects, kind'[o] = "kept"
                 PROVE  Cardinality({row \in table' : row.object = o}) <= 1
      OBVIOUS
    <3>1. table' \in SUBSET Row
      BY <1>1 DEF Types
    <3>2. \A row \in table' : row.object = o => row.id = kept'[o] /\ row.chosen = row.id.node
      BY <1>2 DEF KeptInv, AllRows
    <3> QED BY <3>1, <3>2, StoredOnce
  <2> QED BY <2>1, MetStep DEF Inv, RetrySafe
<1> QED BY <1>1, <1>2, <1>3, <1>4 DEF Inv

THEOREM Inductive == Spec => []Inv
  BY InitInv, InvStep, PTL DEF Spec

\* Whatever transactions commit, roll back or fail and whatever connections are lost: what a
\* column default generates has the node its session chose last and did not roll back.
THEOREM NodeChosen == Spec => []NodeKept
<1>1. Inv => NodeKept
  BY DEF Inv
<1> QED BY <1>1, Inductive, PTL

\* However often callers try again after an answer was lost: an object that keeps its identifier
\* is stored once, and an object, whether it sends an identifier or a column default generates
\* one, meets another object's row only under an identifier whose generation was rolled back.
THEOREM RetriesSafe == Spec => []RetrySafe
<1>1. Inv => RetrySafe
  BY DEF Inv
<1> QED BY <1>1, Inductive, PTL
=============================================================================
