SPECIFICATION Spec
CONSTANTS
  WordBits = 16
  ImmBits = 8
  AlignBits = 1
  L1Bits = 3
  L2Bits = 5
  L3Bits = 6
  JumpBits = 2
  JumpOffset = 2
  StoreL3 = 3
  FloatRange = 251
  MaxLit = 1
  Alphabet <- MCAlphabet
  LoopAlphabet <- MCLoopAlphabet
  MaxLength = 3
  ItemAlphabet <- MCItemAlphabet
  ItemLoop <- MCItemLoop
  MaxItem = 5
  Items = {0, 12345}
  ReachWords = 2
  CacheLines = 16
  Seeds <- MCSeeds
INVARIANTS
    SameEverywhere
    JumpsBounded
CHECK_DEADLOCK FALSE
