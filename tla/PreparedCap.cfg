SPECIFICATION Spec
CONSTANTS
  Sids = {s1}
  NoSid = NoSid
  Horizon = 1
  RecordingLeadBeforeIgn = 1
  PostLandingRecord = 1
  MaxMissionRecord = 2
  Commands <- PrepareCommands
  IgnitionTimes = {1}
  SdOutcomes = {TRUE}
INVARIANTS
  HardSafetyCap
