SPECIFICATION WireSpec
CONSTANTS
  Base = 4
  UIntMax = 50
  VlqMax = 4
  LenWrap = 64
  EndOfString = 37
  Symbols <- SmallSymbols
  CodeBits <- SmallBits
  CodeOf <- SmallCode
  Strings <- SomeStrings
  MaxAdded = 2
  MaxRendered = 10
  Octets = {0, 1, 3, 4, 7, 129, 130, 255}
  Blocks <- OtherBlocks
  StringPrefix = 2
INVARIANTS
  SentIsReceived
  NothingMadeUp
  CutIsNoticed

  
