SPECIFICATION Spec
CONSTANTS
  Blocks = 3
  AnswerLens <- MCLens
  Keys <- MCKeys
  MaxStores = 3
INVARIANTS TypeOK Readable RestKept
PROPERTIES StoreAtomic
CHECK_DEADLOCK FALSE
