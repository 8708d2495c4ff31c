SPECIFICATION Spec
CONSTANTS
  EventHeaderSize = 3
  FragmentHeaderSize = 2
  MinFragmentSize = 1
  o1 = o1  o2 = o2  o3 = o3  o4 = o4
  MaxFilePayload = 5
  CountModulus = 3
  HeaderSizeModulus = 4
  SizeModulus = 10
  Objects = {o1, o2, o3, o4}
  SourceIds <- ThreeSources
  EventIds = {5}
  BcIds = {10}
  Payloads <- AnySize
  Statuses <- ErrorStatus
  TriggerBits <- FirstTriggerBit
  MaxHeld = 2
  KeepsRejected = TRUE
SYMMETRY ObjectSymmetry
INVARIANTS
  SizeIsRawLength
  RoundTrip
  OneOwner
PROPERTIES
  OnlyGrows
