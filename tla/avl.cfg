SPECIFICATION Spec
CONSTANTS
  MCKeys = {0, 1, 2, 3, 4, 5, 6, 7, 8}
  v1 = v1
  v2 = v2
  Keys <- MCKeys
  KeyLen <- MCKeyLen
  KeyText <- MCKeyText
  KeyFolded <- MCKeyFolded
  Values <- MCValues
  Null = Null
  ShortBits = 16
  MaxWalked = 5
INVARIANTS
  GetsWhatIsStored
  TreeOK
PROPERTIES
  RefinesDictionary
