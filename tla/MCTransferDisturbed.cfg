SPECIFICATION Spec
CONSTANTS
  FragmentCapacity = 2
  MaxMessageId = 2
  Writers = {w1}
  Readers = {r1, r2}
  RingCapacity = 2
  Lengths = {2, 5}
  ReadSizes = {3, 5}
  PeerSendsEmpty = FALSE
  AlienSlots <- PeerFrames
  MaxCalls = 3
  MaxTxResets = 1
  MaxRxResets = 1
  NoThread = none
SYMMETRY ThreadSymmetry
INVARIANTS
  DeliveredInOrder
  BufferBound
