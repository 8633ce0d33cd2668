SPECIFICATION LiveSpec
CONSTANTS
  FragmentCapacity = 2
  MaxMessageId = 2
  Writers = {w1, w2}
  Readers = {r1}
  RingCapacity = 2
  Lengths = {0, 2, 5}
  ReadSizes = {1, 5}
  PeerSendsEmpty = TRUE
  AlienSlots = {}
  MaxCalls = 3
  MaxTxResets = 0
  MaxRxResets = 0
  NoThread = none
INVARIANTS
  IdsAreFresh
  NoDanglingMessage
  NoProtocolError
PROPERTIES
  PoisonIsFinal
  SendErrorIsFinal
  ImplementsMessageChannel
  CallsReturn
  NotStranded
  AcceptedIsDelivered
