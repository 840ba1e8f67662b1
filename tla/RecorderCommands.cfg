SPECIFICATION Spec
CONSTANTS
  Sids = {}
  NoSid = NoSid
  Horizon = 1
  RecordingLeadBeforeIgn = 1
  PostLandingRecord = 1
  MaxMissionRecord = 1
  Commands <- PlanCommands
  IgnitionTimes = {1, 2}
  SdOutcomes = {TRUE, FALSE}
INVARIANTS
  TypeOK
  CountdownHasInstant
  ConnectedMeansLink
  RecordingHasSession
  PostLandingIsTimed
  StoppingIsServed
PROPERTIES
  FlightNotForgotten
  FlightKeepsRecording
  PhasesAgree
