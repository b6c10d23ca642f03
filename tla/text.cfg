SPECIFICATION TextSpec
CONSTANTS
  Nul = 0
  Junk = Junk
  None = None
  Extra = 0
  Word = 1000
  CountWord = 64
  WideWord = 256
  IntWord = 256
  LongWord = 65536
  Space = 3
  Block = 8
  Kinds <- MCKinds
  Octets <- MCOctets
  MaxLen <- MCMaxLen
  Sizes <- MCSizes
  Items <- MCItems
INVARIANTS
  TextsFit
  RoundTrips
  Defined
  DigestOfWhole
