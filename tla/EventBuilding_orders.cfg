SPECIFICATION Spec
CONSTANTS
  EventHeaderSize = 3
  FragmentHeaderSize = 2
  MinFragmentSize = 1
  o1 = o1  o2 = o2  o3 = o3  o4 = o4
  MaxFilePayload = 4
  CountModulus = 4
  HeaderSizeModulus = 4
  SizeModulus = 8
  Objects = {o1, o2, o3}
  SourceIds <- ThreeSources
  EventIds = {5, 6}
  BcIds = {10, 11}
  Payloads <- OneByte
  Statuses <- TwoStatuses
  TriggerBits = {}
  MaxHeld = 1
  KeepsRejected = TRUE
SYMMETRY ObjectSymmetry
INVARIANTS
  TypeOK
  MismatchIffDisagree
  IdentityFromFragments
  StatusAccounted
PROPERTIES
  ImplementsContents
