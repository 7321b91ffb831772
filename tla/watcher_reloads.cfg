SPECIFICATION FairSpec
CONSTANTS
  Schemas = {s1, s2}
  Versions = {1, 2}
  Bodies = {b1, b2}
  Refs <- NoRefs
  Quirks = {}
  MaxEdits = 2
  MaxStops = 0
  None = None
INVARIANTS
  TypeOK
  QuietMeansCurrent
  ModelsAreFresh
  ToldIsCurrent
PROPERTY
  Converges
