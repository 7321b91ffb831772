SPECIFICATION Spec
CONSTANTS
  Clients = {c1, c2}
  Entities = {e1}
  Values = {v1}
  NoValue = NoValue
  MaxDocs = 3
  Ops = {"create", "update", "delete"}
  Modes = {"single"}
  IfMatch = FALSE
  MaxItems = 1
  GlobalHandlers <- MCGlobal
  SchemaHandlers <- MCNobody
SYMMETRY Symmetry
INVARIANTS
  SuccessIsStored
  AuditIsSound
