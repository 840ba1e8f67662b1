SPECIFICATION FairEvidenceSpec
CONSTANTS
  MaxGap = 4
  LiftoffMin = 3
  BurnoutMin = 2
  BurnMax = 4
  ApogeeMin = 2
  ApogeeMax = 3
  LandedConfirm = 4
  AltRing = 2
INVARIANTS
  LiftoffEvidence
  LandingEvidence
  TurnNeedsBaseline
PROPERTIES
  OrderedPhases
  TimedPhasesEnd
