SPECIFICATION UpdateSpec
CONSTANTS
  C_DEFAULT = 3
  DataStart = 10
  small = small
  large = large
  Documents <- MCDocuments
  DocSize <- MCDocSize
  OPEN = OPEN
  CLOSE = CLOSE
  REMOVE = REMOVE
  Keys <- MCKeys
  Values <- MCValues
  ContentOf <- MCContentOf
  Updates <- MCBoth
  StrLen <- MCStrLen
  KeySize = 1
  FixedSize <- MCFixedSize
INVARIANTS
  UpdateWritesAll
