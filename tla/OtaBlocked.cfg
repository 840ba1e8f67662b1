SPECIFICATION DeviceSpec
CONSTANTS
  Sids = {}
  NoSid = NoSid
  Horizon = 1
  RecordingLeadBeforeIgn = 1
  PostLandingRecord = 1
  MaxMissionRecord = 2
  Commands <- ArmCommands
  IgnitionTimes = {}
  SdOutcomes = {TRUE}
  Conns = {c1}
  NoConn = NoConn
  LoopTasks = {missionTask}
  Size = 1
  ManifestSizes = {1}
  OtaIdleTimeout = 1
  OtaRebootDelay = 1
  MaxLag = 1
PROPERTIES
  BlockedWhileRecording
