SPECIFICATION Spec
CONSTANTS
  MaxDepth = 1
  Entities = {1, 2, 3, 4}
  Initial <- MCInitial
  Ids = {1, 2, 3, 4, 5}
  Users <- MCUsers
  Clauses <- MCClauses
  Walks <- MCWalks
  MaxWrites = 1
CHECK_DEADLOCK FALSE
INVARIANTS
  WalkShowsAll
  ShownInOrder
  ShownIsMeant
