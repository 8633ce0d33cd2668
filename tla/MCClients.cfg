SPECIFICATION ClientsSpec
CONSTANTS
  Procs = {p1, p2}
  Pubs = {pub}
  Subs = {sub}
  Channels = {pub, sub}
  Ids = {d1, d2, d3}
  NoChannel = nochannel
  NoId = noid
SYMMETRY ProgramSymmetry
INVARIANTS
  HandleIsBacked
  ManagerOutlivesEndpoints
  RemovedIsGone
  NoSilentOrphan
  ManagerLivesWithObjects
  ExitTellsLeftover
