SPECIFICATION Spec
CONSTANTS
  Clients = {c1, c2}
  Entities = {e1, e2}
  GivenIds = {e1}
  Values = {v1}
  NoValue = NoValue
  MaxBatch = 2
  MaxDocs = 3
SYMMETRY Symmetry
INVARIANTS
  TypeOK
  Lineage
  SameCreator
  LinearUnlessRaced
  DeletedIsFinalUnlessRaced
PROPERTY
  ImplementsTree
