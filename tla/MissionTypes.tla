---------------------------- MODULE MissionTypes ----------------------------
(***************************************************************************)
(* The enumerations and predicates of include/types.h that the mission     *)
(* state machine, the flight detector and the recorder share.              *)
(*                                                                         *)
(* MissionState::BOOT is left before any other task or callback exists     *)
(* (setup() calls begin() and advanceFromBoot() back to back), and         *)
(* MissionState::ERROR is only entered by setError(), which nothing calls: *)
(* neither is a state of the models.                                       *)
(***************************************************************************)

\* Mission states before liftoff in which the rocket stands armed on the pad.
PadStates == {"ARMED", "RECORDING", "COUNTDOWN", "IGNITION_EXPECTED"}

InFlightStates == {"ASCENT", "COAST", "APOGEE", "DESCENT"}

MissionState ==
  {"SELF_TEST", "IDLE", "CONNECTED", "LANDED", "ABORTED"}
    \cup PadStates \cup InFlightStates

\* missionInFlight()
MissionInFlight(m) == m \in InFlightStates

\* missionPostLiftoff()
MissionPostLiftoff(m) == MissionInFlight(m) \/ m = "LANDED"

RecordingState ==
  {"IDLE", "PREPARING", "ACTIVE", "POST_LANDING", "STOPPING", "STOPPED", "FAILED"}

FlightPhase ==
  {"PRELAUNCH", "LIFTOFF", "POWERED_ASCENT", "COAST",
   "APOGEE", "DESCENT", "IMPACT", "LANDED"}

\* phaseInFlight()
PhaseInFlight(p) == p \notin {"PRELAUNCH", "LANDED"}

CmdResult == {"ACK", "REJECTED", "IGNORED", "NACK"}

\* The phases FlightDetect::update() may move to from each phase, one per call.
Successors ==
  [p \in FlightPhase |->
     CASE p = "PRELAUNCH"      -> {"LIFTOFF"}
       [] p = "LIFTOFF"        -> {"POWERED_ASCENT"}
       [] p = "POWERED_ASCENT" -> {"COAST"}
       [] p = "COAST"          -> {"APOGEE", "DESCENT"}
       [] p = "APOGEE"         -> {"DESCENT"}
       [] p = "DESCENT"        -> {"IMPACT", "LANDED"}
       [] p = "IMPACT"         -> {"LANDED"}
       [] OTHER                -> {}]
=============================================================================
