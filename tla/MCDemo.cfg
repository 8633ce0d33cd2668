SPECIFICATION Spec
CONSTANTS
  RingCapacity = 4
  FragmentCapacity = 2
  RequestLengths <- SmallRequests
  DataLengths <- SmallDataMessages
  AckLength = 2
  MaxEmptyPolls = 2
  Publishers = {"publish.c", "draining"}
INVARIANTS
  OnlyExpectedMessages
  PassIsMutual
PROPERTIES
  BothEnd
  BothPass
