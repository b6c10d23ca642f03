SPECIFICATION Spec
CONSTANTS
  a = a
  b = b
  c = c
  e = e
  z = z
  NoField = none
  Fields = {a, e, z}
  NameLen <- NameLens
  ValueLen <- ValueLens
  NullName = {z}
  Entries = 3
  DataSize = 10
  InfoSize = 2
  Overhead = 3
  Static = 2
  U16 = 32
  MaxSizes = {0, 5, 11}
  GarbageLens = {0, 5}
  Horizon = 23
INVARIANTS
  TypeOK
  RingHoldsLive
PROPERTIES
  NoOverwrite
