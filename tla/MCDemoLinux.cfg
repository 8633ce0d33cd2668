SPECIFICATION Spec
CONSTANTS
  RingCapacity = 32
  FragmentCapacity = 232
  RequestLengths <- Requests
  DataLengths <- DataMessages
  AckLength = 36
  MaxEmptyPolls = 2
  Publishers = {"publish.c"}
INVARIANTS
  FullDuplexProgress
