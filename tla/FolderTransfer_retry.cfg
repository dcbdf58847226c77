SPECIFICATION FairSpec
CONSTANTS
  v1 = v1
  v2 = v2
  Hole = Hole
  NoFile = NoFile
  NumFiles = 2
  MaxLen = 3
  Versions <- MCVersions
  InitSources <- WithEmpty
  BatchChunks = 2
  FlushChunks = 2
  QueueCap = 1
  MaxAttempts = 2
  KeepState = TRUE
  PathKeyed = FALSE
  Decisions = {"Accept"}
  MaxConns = 3
  MaxFaults = 2
  MaxEdits = 0
  MaxLaunches = 2
  MaxRestarts = 0
INVARIANTS TypeOK RenameFindsThePartial SuccessMeansDelivered FinalFilesAreWhole
PROPERTIES Delivers SendTerminates
