SPECIFICATION QuerySpec
CONSTANTS
  C_DEFAULT = 3
  DataStart = 10
  small = small
  large = large
  Documents <- MCDocuments
  DocSize <- MCSameSize
  OPEN = OPEN
  CLOSE = CLOSE
  REMOVE = REMOVE
  NameOf <- MCNameOf
  ContentOf <- MCContentOf
  AllConditions <- MCAllConditions
  Queries <- MCSelect
  StrLen <- MCStrLen
  KeySize = 1
  FixedSize <- MCFixedSize
PROPERTIES
  WalkReturns
CHECK_DEADLOCK FALSE
