SPECIFICATION Spec
CONSTANTS
  FragmentCapacity = 2
  MaxMessageId = 429981695
  Radix = 12
  OldByte = 5
  MessageIds <- MCMessageIds
  MessageLens <- MCMessageLens
  Fragments <- MCFragments
CHECK_DEADLOCK FALSE
INVARIANTS
  BytesCarryFrame
  DecodeAgrees
