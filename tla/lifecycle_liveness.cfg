SPECIFICATION FairSpec
CONSTANTS
  Clients = {c1}
  Entities = {e1}
  Values = {v1}
  NoValue = NoValue
  MaxDocs = 2
  Ops = {"create", "get", "update", "delete"}
  Modes = {"single", "bulk"}
  IfMatch = TRUE
  MaxItems = 2
  GlobalHandlers <- MCGlobal
  SchemaHandlers <- MCSchema
PROPERTY
  Answered
