SPECIFICATION Spec
CONSTANTS
  BufferBits = 32
  UsedBitsPerWord = 24
  UIntModulus = 65536
  WordCounts = {0,1,2,3,4,5,6}
  Removals <- DecoderRemovals
INVARIANTS
  TypeOK
  WindowIsNextBits
  FullWhileWordsLeft
CHECK_DEADLOCK FALSE
