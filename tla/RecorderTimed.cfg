SPECIFICATION FairSpec
CONSTANTS
  Sids = {}
  NoSid = NoSid
  Horizon = 1
  RecordingLeadBeforeIgn = 1
  PostLandingRecord = 1
  MaxMissionRecord = 3
  Commands <- TimedCommands
  IgnitionTimes = {1}
  SdOutcomes = {TRUE, FALSE}
INVARIANTS
  LiftoffLatched
  NoOrphanSession
  PreparingIsServed
  SessionIsCapped
  PostLandingEnds
PROPERTIES
  ImplementsLifecycle
  SessionsClose
  StartsAreServed
  IgnitionIsReached
