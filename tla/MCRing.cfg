SPECIFICATION Spec
CONSTANTS
  RingCapacity = 3
  IndexMod = 9
  SlotWords = 2
  Word = {0, 1}
  ZeroWord = 0
INVARIANTS
  TypeOK
  NoSlotRace
PROPERTIES
  ImplementsSlotQueue
