SPECIFICATION LoopSpec
CONSTANTS
  BufferBits = 32
  UsedBitsPerWord = 24
  UIntModulus = 65536
  WordCounts = {2,3}
  Removals <- DecoderRemovals
INVARIANTS
  NoDataGivenUp
CHECK_DEADLOCK FALSE
