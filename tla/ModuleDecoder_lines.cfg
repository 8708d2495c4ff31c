SPECIFICATION Spec
CONSTANTS
  UIntModulus = 65536
  Inputs <- LinePairs
INVARIANTS
  TypeOK
  HitsDecoded
  ErrorsDecoded
  LedNeedsLedx
PROPERTIES
  LedKept
  Termination
CHECK_DEADLOCK FALSE
