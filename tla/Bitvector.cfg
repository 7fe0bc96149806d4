\* Words of two bits, of which two are inline; sizes up to five take a third word.
CONSTANTS
  WordBits = 2
  MaxSize = 5
  MaxString = 5
  ClearedBits <- MCClearedBits
SPECIFICATION Spec
CONSTRAINT Careful
INVARIANTS
  BitsAgree
  QueriesAgree
  MemoryCoversSize
