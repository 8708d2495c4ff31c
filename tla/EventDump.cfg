SPECIFICATION Spec
CONSTANTS
  WordBits = 8
  FieldBits = 3
  KeptBits = 1
  MaxTrigLine = 2
  Invocations <- AnyRun
  Garbage <- GarbageWords
INVARIANTS
  TypeOK
  TriggerAsSent
  SamplesAsSent
PROPERTIES
  ImplementsSelection
  Termination
CHECK_DEADLOCK FALSE
