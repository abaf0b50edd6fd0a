SPECIFICATION Spec
CONSTANTS
  Half = 15
  KeySize = 3
  StringSize = 4
  MaxElements = 2
  MaxDocuments = 2
  BufferSize = 120
  Messages <- MCMessages
  Queries <- MCQueries
  Jobs <- MCJobs
  ReadersOf <- MCReadersOf
INVARIANTS
  CodecTypeOK
  RefusedOnlyWhenFull
  RoundTrips
  UnknownSkipped
  CutRefused
  DeliveredWhole
CHECK_DEADLOCK FALSE
