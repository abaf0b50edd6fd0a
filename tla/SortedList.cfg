SPECIFICATION Spec
CONSTANTS
  Cells = {c1, c2, c3, c4}
  Indices = {1, 2, 3}
  Sizes = {0, 1, 2}
  NULL = NULL
INVARIANTS
  TypeOK
  DoublyLinked
  LargestFirst
PROPERTIES
  ImplementsFreeList
  InsertReturns
