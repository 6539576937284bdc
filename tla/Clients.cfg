SPECIFICATION Spec
CONSTANTS
  c1 = c1
  c2 = c2
  n1 = n1
  n2 = n2
  o1 = o1
  o2 = o2
  Clients = {c1, c2}
  Nodes = {n1, n2}
  Objects = {o1, o2}
  Owner <- OwnerValue
  NodeId <- NodeIdValue
  Mixes <- MixesValue
  NoNode = NoNode
  NoClient = NoClient
  MaxIds = 2
  MaxTries = 2
  MaxChoices = 2
INVARIANTS NodeKept RetrySafe
