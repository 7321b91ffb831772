SPECIFICATION Spec
CONSTANTS
  Clients = {c1, c2}
  Entities = {e1}
  Values = {v1}
  NoValue = NoValue
  MaxDocs = 3
  Ops = {"create", "update"}
  Modes = {"single"}
  IfMatch = TRUE
  MaxItems = 1
  GlobalHandlers <- MCGlobal
  SchemaHandlers <- MCGuard
INVARIANT
  ConditionalWriteIsNext
