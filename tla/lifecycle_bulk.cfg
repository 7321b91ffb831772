SPECIFICATION Spec
CONSTANTS
  Clients = {c1}
  Entities = {e1, e2}
  Values = {v1}
  NoValue = NoValue
  MaxDocs = 3
  Ops = {"create", "get", "update", "delete"}
  Modes = {"single", "bulk", "atomic"}
  IfMatch = TRUE
  MaxItems = 2
  GlobalHandlers <- MCGlobal
  SchemaHandlers <- MCSchema
SYMMETRY Symmetry
INVARIANTS
  RejectedWritesNothing
  BulkAccounts
  AloneIsLinear
