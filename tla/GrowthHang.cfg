SPECIFICATION GrowthSpec
CONSTANTS
  C_DEFAULT = 3
  MaxInodes = 7
  MaxEnd = 25
  MaxCountToDelete = 3
  HeadSize = 1
  InodeSize = 3
  small = small
  large = large
  Documents <- MCDocuments
  DocSize <- MCDocSize
  OPEN = OPEN
  CLOSE = CLOSE
  REMOVE = REMOVE
PROPERTIES
  GrowthReturns
CHECK_DEADLOCK FALSE
