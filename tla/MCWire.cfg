SPECIFICATION Spec
CONSTANTS
  ShortMax = 9
  ChunkSize = 4
  OciChunk = 60
  Refused = Refused
  None = None
  Clients <- MCClients
  Backends <- MCBackends
  Queries <- MCQueries
  Changes <- MCChanges
  BindValues <- MCBindValues
  Again <- MCAgain
  Closes <- MCCloses
  Sizes <- MCSizes
  CallNumbers = 9
  MaxRuns = 2
INVARIANTS
  BoundAsSent
  ReadAsHeld
PROPERTY
  EveryRowArrives
CHECK_DEADLOCK FALSE
