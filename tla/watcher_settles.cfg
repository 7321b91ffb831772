SPECIFICATION FairSpec
CONSTANTS
  Schemas = {s1}
  Versions = {1}
  Bodies = {b1}
  Refs <- NoRefs
  Quirks = {"offline", "mtime", "register"}
  MaxEdits = 3
  MaxStops = 1
  None = None
PROPERTY
  Settles
