SPECIFICATION Spec
CONSTANTS
  UIntModulus = 65536
  Inputs <- DifferentCrossings
INVARIANTS
  MismatchReported
CHECK_DEADLOCK FALSE
