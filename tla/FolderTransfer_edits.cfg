SPECIFICATION Spec
CONSTANTS
  v1 = v1
  v2 = v2
  Hole = Hole
  NoFile = NoFile
  NumFiles = 2
  MaxLen = 2
  Versions <- TwoVersions
  InitSources <- TwoFiles
  BatchChunks = 1
  FlushChunks = 1
  QueueCap = 1
  MaxAttempts = 3
  KeepState = TRUE
  PathKeyed = TRUE
  Decisions = {"Accept", "Reject"}
  MaxConns = 3
  MaxFaults = 1
  MaxEdits = 1
  MaxLaunches = 2
  MaxRestarts = 1
CHECK_DEADLOCK FALSE
ACTION_CONSTRAINT WritersDrainFirst
INVARIANTS SuccessMeansDelivered DoneFilesAreDelivered
