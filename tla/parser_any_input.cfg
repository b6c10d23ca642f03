SPECIFICATION ParserSpec
CONSTANTS
  a = a
  z = z
  large = large
  NoField = none
  Fields = {a, z}
  NameLen <- NameLens
  ValueLen <- ValueLens
  NullName = {z}
  Entries = 4
  DataSize = 8
  InfoSize = 2
  Overhead = 2
  Static = 2
  U16 = 32
  MaxSizes = {0, 5}
  GarbageLens = {0, 4}
  Horizon = 9
  Words = 1
  WordBits = 4
  IntBits = 2
  StaticField <- Statics
  Asked = {0, 1, 3}
  EmptyBlocks = TRUE
INVARIANTS
  ParserTypeOK
  PendingAreReferences
  EmittedOnce
