SPECIFICATION Spec
CONSTANTS
  C_DEFAULT = 3
  DataStart = 10
  small = small
  large = large
  Documents <- MCDocuments
  DocSize <- MCDocSize
  OPEN = OPEN
  CLOSE = CLOSE
  REMOVE = REMOVE
INVARIANTS
  TypeOK
  ExtentsDisjoint
  ExtentsCover
  BlocksFit
  FreeListExact
  NoChildCycle
  StackChained
PROPERTIES
  DeleteReturns
  ImplementsDocStore
