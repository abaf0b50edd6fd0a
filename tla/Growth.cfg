SPECIFICATION GrowthSpec
CONSTANTS
  C_DEFAULT = 3
  MaxInodes = 12
  MaxEnd = 60
  MaxCountToDelete = 3
  HeadSize = 1
  InodeSize = 3
  small = small
  large = large
  Documents <- MCDocuments
  DocSize <- MCDocSize
  OPEN = OPEN
  CLOSE = CLOSE
  REMOVE = REMOVE
INVARIANTS
  GrowthTypeOK
  NoLiveInodeListed
  TableApart
PROPERTIES
  ImplementsDocStore
  MovesKeepBlocks
  DataTiled
  NewInodesListed
  GrowthAloneReturns
CHECK_DEADLOCK FALSE
