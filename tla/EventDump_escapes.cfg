SPECIFICATION Spec
CONSTANTS
  WordBits = 8
  FieldBits = 3
  KeptBits = 1
  MaxTrigLine = 2
  Invocations <- SomeFiles
  Garbage <- GarbageWords
INVARIANTS
  RefusalReported
CHECK_DEADLOCK FALSE
