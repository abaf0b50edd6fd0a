SPECIFICATION QuerySpecNoReuse
CONSTANTS
  C_DEFAULT = 4
  DataStart = 10
  small = small
  large = large
  Documents <- MCDocuments
  DocSize <- MCDocSize
  OPEN = OPEN
  CLOSE = CLOSE
  REMOVE = REMOVE
  NameOf <- MCNameOf
  ContentOf <- MCContentOf
  AllConditions <- MCAllConditions
  Queries <- MCQueries
  StrLen <- MCStrLen
  KeySize = 1
  FixedSize <- MCFixedSize
INVARIANTS
  EngineTypeOK
  HitsExact
  SiblingsExact
  DeletesBelowTarget
PROPERTIES
  UpdatesExact
  WalkReturns
