SPECIFICATION SetSpec
CONSTANTS
  Words = 2
  WordBits = 3
  IntBits = 3
INVARIANT
  IteratorOK
PROPERTY
  RefinesIndexSet
