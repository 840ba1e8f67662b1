SPECIFICATION DeviceSpec
CONSTANTS
  Sids = {}
  NoSid = NoSid
  Horizon = 1
  RecordingLeadBeforeIgn = 1
  PostLandingRecord = 1
  MaxMissionRecord = 1
  NearIgnition = 1
  Commands <- FlyCommands
  IgnitionTimes = {}
  SdOutcomes = {FALSE}
  MaxGap = 1
  LiftoffMin = 1
  BurnoutMin = 1
  BurnMax = 1
  ApogeeMin = 1
  ApogeeMax = 1
  LandedConfirm = 1
  AltRing = 1
INVARIANTS
  ArmedDetectsLiftoff
