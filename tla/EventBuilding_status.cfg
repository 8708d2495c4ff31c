SPECIFICATION Spec
CONSTANTS
  EventHeaderSize = 3
  FragmentHeaderSize = 2
  MinFragmentSize = 1
  o1 = o1  o2 = o2  o3 = o3  o4 = o4
  MaxFilePayload = 7
  CountModulus = 2
  HeaderSizeModulus = 4
  SizeModulus = 16
  Objects = {o1, o2, o3, o4}
  SourceIds <- ThreeSources
  EventIds = {5}
  BcIds = {10}
  Payloads <- OneByte
  Statuses <- ErrorStatus
  TriggerBits = {}
  MaxHeld = 3
  KeepsRejected = TRUE
INVARIANTS
  StatusReported
