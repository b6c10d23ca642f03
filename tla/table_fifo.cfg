SPECIFICATION FairSpec
CONSTANTS
  a = a
  b = b
  c = c
  e = e
  z = z
  NoField = none
  Fields = {a, b}
  NameLen <- NameLens
  ValueLen <- ValueLens
  NullName = {}
  Entries = 4
  DataSize = 32
  InfoSize = 2
  Overhead = 8
  Static = 2
  U16 = 128
  MaxSizes = {10, 22, 32, 40}
  GarbageLens = {0, 3}
  Horizon = 16
INVARIANTS
  EvictedReported
  EvictedAreGone
  RecordsContiguous
  FetchReturnsStored
  Accounting
  WithinMax
  EvictFindsField
PROPERTIES
  NeverFails
  CallsReturn
  
