\* The sizes that matter are an eighth of those in the code: 16 for 128, 32 for 256.
SPECIFICATION WireSpec
CONSTANTS
  Base = 16
  UIntMax = 1000000
  VlqMax = 6
  LenWrap = 32
  EndOfString = 37
  Symbols <- SmallSymbols
  CodeBits <- SmallBits
  CodeOf <- SmallCode
  Strings <- LongStrings
  MaxAdded = 1
  MaxRendered = 1
  Octets = {}
  Blocks = {}
  StringPrefix = 4
INVARIANT SentIsReceived
