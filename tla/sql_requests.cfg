SPECIFICATION Spec
CONSTANTS
  Clients = {c1, c2}
  Entities = {e1}
  Values = {v1, v2}
  NoValue = NoValue
  Arrays = {v2}
  Backends <- MCBackends
  MaxRows = 3
  Urls = {u1, u2}
  Wants <- MCWants
  MaxRetries <- MCMaxRetries
  Adapters = {a1}
  Calls <- MCCalls
  MaxHooks = 2
  Ops = {"create", "update", "delete"}
  Bodies <- MCBodies
  Scenarios <- MCScenarios
  MaxEvents = 2
SYMMETRY Symmetry
INVARIANTS
  LinearUnlessRaced
  ErrorStoresNoPart
  SettledIsStored
  AcknowledgedIsNotResent
  InOrder
  NobodyIsSkipped
PROPERTY
  ImplementsTree
