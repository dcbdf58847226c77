SPECIFICATION Spec
CONSTANTS
  v1 = v1
  v2 = v2
  Hole = Hole
  NoFile = NoFile
  NumFiles = 1
  MaxLen = 2
  Versions <- TwoVersions
  InitSources <- OneFile
  BatchChunks = 1
  FlushChunks = 1
  QueueCap = 1
  MaxAttempts = 3
  KeepState = TRUE
  PathKeyed = FALSE
  Decisions = {"Accept"}
  MaxConns = 3
  MaxFaults = 1
  MaxEdits = 1
  MaxLaunches = 1
  MaxRestarts = 0
CHECK_DEADLOCK FALSE
INVARIANT ComparedFilesAreIntact
