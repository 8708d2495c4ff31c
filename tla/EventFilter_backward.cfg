SPECIFICATION Spec
CONSTANTS
  EventHeaderSize = 3
  FragmentHeaderSize = 2
  MinFragmentSize = 1
  MaxFilePayload = 7
  CountModulus = 4
  HeaderSizeModulus = 8
  SizeModulus = 16
  Invocations <- BackwardRange
INVARIANTS
  OnlyAskedFor
CHECK_DEADLOCK FALSE
