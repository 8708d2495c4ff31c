SPECIFICATION Spec
CONSTANTS
  WordBits = 8
  FieldBits = 3
  KeptBits = 1
  Transmissions <- SomeTransmissions
INVARIANTS
  TypeOK
  ValidIffWhole
  LinesInOrder
  LossFound
  ChangeFound
CHECK_DEADLOCK FALSE
