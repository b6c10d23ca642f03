SPECIFICATION ClientSpec
CONSTANTS
  a = a
  b = b
  Octets <- MCOctets
  Texts <- MCTexts
  Nul = Nul
  Junk = Junk
  None = None
  Extra = 1
  Word = 100
  MaxLen = 3
INVARIANTS
  MemoryOK
  NoMemKeepsText
  CallsDoAsTold
PROPERTIES
  EndKept
