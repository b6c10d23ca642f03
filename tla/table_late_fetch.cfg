SPECIFICATION Spec
CONSTANTS
  a = a
  b = b
  c = c
  e = e
  z = z
  NoField = none
  Fields = {a, b}
  NameLen <- NameLens
  ValueLen <- ValueLens
  NullName = {}
  Entries = 4
  DataSize = 32
  InfoSize = 2
  Overhead = 8
  Static = 2
  U16 = 128
  MaxSizes = {10, 20, 32, 40}
  GarbageLens = {0, 3}
  Horizon = 32
INVARIANT
  FetchReturnsStored
