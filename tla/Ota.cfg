SPECIFICATION FairSpec
CONSTANTS
  Conns = {c1, c2}
  NoConn = NoConn
  LoopTasks = {missionTask, loopTask}
  Size = 2
  ManifestSizes = {1, 2}
  OtaIdleTimeout = 1
  OtaRebootDelay = 1
  MaxLag = 1
INVARIANTS
  TypeOK
  ImageVerified
  CompleteIsTrue
PROPERTIES
  SessionEnds
  RebootsAfterFinish
