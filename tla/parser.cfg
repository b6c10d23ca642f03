SPECIFICATION ParserFairSpec
CONSTANTS
  a = a
  z = z
  large = large
  NoField = none
  Fields = {a, large}
  NameLen <- NameLens
  ValueLen <- ValueLens
  NullName = {}
  Entries = 4
  DataSize = 24
  InfoSize = 2
  Overhead = 8
  Static = 2
  U16 = 128
  MaxSizes = {10, 24, 40}
  GarbageLens = {0, 3}
  Horizon = 12
  Words = 2
  WordBits = 2
  IntBits = 2
  StaticField <- Statics
  Asked = {1, 2, 3, 4}
  EmptyBlocks = FALSE
INVARIANTS
  ReferencesLive
  BlockEmitsReferences
PROPERTY
  ParserGoesOn
