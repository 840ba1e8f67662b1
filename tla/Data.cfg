SPECIFICATION Spec
CONSTANTS
  TelemetryQueueLen = 2
  FrameQueueLen = 4
  EventQueueLen = 3
  LastProfile = 2
INVARIANTS
  TypeOK
  TelemetryBelongs
  VideoBelongs
  VideoFollowsSession
  NoFrameLeak
  FlightLinesFit
