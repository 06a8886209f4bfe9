SPECIFICATION WorkflowSpec
CONSTANTS
  Scripts = {"lifecycle", "daxRefresh", "full", "directLake"}
  MaxPolls = 2
  Sources <- MCSources
  Limits = {1, 3, 7, 100}
  MaxBytes = 1024
  Envelope = 160
  Reason = 17
  Trailer = 21
INVARIANTS
  TypeOK
  OkMeansDone
  CleanupReachesTheModel
  RefreshVerdict
  CutsAreAnnounced
  NoneLeftOutInVain
PROPERTIES
  ScriptEnds
CHECK_DEADLOCK FALSE
