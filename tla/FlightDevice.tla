---------------------------- MODULE FlightDevice ----------------------------
(***************************************************************************)
(* The recorder and the flight detector on one device: sensorTask, with    *)
(* the recorder's other tasks around it.                                   *)
(*                                                                         *)
(* FlightRecorder lets the reported phase move along Successors; module    *)
(* FlightDetect moves its phase by samples, alone.  Between the two is     *)
(* sensorTask (src/main.cpp), which reads the state machine for its care   *)
(* flag, calls update(), and then passes phase() on.  missionTask runs on  *)
(* the other core and gets in between: the care flag may be stale when     *)
(* update() uses it, and a ground test may replace the phase between       *)
(* update() and the report.                                                *)
(*                                                                         *)
(* The variables of the recorder keep their meaning, detected being the    *)
(* phase sensorTask passed on last; current is FlightDetect::current.      *)
(***************************************************************************)
EXTENDS FlightRecorder

CONSTANTS
  NearIgnition,  \* |now - ignition| < 15 s holds at a distance of 0 .. NearIgnition
  MaxGap, LiftoffMin, BurnoutMin, BurnMax, ApogeeMin, ApogeeMax, LandedConfirm,
  AltRing        \* as in FlightDetect

VARIABLES
  current, baselined, peaked, impacted, altitudes, quietAccum, phaseAge, conditionAge,
  hotRun, hotGap, quietSeen, quietGap, parity,  \* as in FlightDetect and DetectEvidence
  sensorPc,                                     \* what sensorTask does next
  care                                          \* the care flag it read, or near_ign

Detector == INSTANCE DetectEvidence

detectorVars == <<current, baselined, peaked, impacted, altitudes, quietAccum, phaseAge,
                  conditionAge, hotRun, hotGap, quietSeen, quietGap, parity>>

deviceVars == <<vars, detectorVars, sensorPc, care>>

DeviceInit ==
  /\ Init
  /\ Detector!EvidenceInit
  /\ sensorPc = "look"
  /\ care = FALSE

-----------------------------------------------------------------------------
(* sensorTask.                                                             *)

SensorGoes(from, to) == Booted /\ sensorPc = from /\ sensorPc' = to

\* The care flag of sensorTask.
Care == countdownOn \/ liftedOff \/ mission \in PadStates

\* near_ign of FlightDetect::update()
NearIgn == ignitionIn \in 0 .. NearIgnition

Look ==
  /\ SensorGoes("look", "update")
  /\ care' = (Care \/ NearIgn)
  /\ UNCHANGED <<vars, detectorVars>>

\* update() on a sample, with the care flag of before.
Update(s, dt) ==
  /\ Detector!SampleSeen(s, dt, care)
  /\ SensorGoes("update", IF current' # current THEN "report" ELSE "look")
  /\ UNCHANGED <<vars, care>>

\* The sample is not valid, or a ground test has stopped the detector.
Skip ==
  /\ SensorGoes("update", "look")
  /\ UNCHANGED <<vars, detectorVars, care>>

\* setFlightPhase(phase()): the phase as it is by now.
Report ==
  /\ SensorGoes("report", "look")
  /\ detected' = current
  /\ SetFlightPhase(current)
  /\ UNCHANGED <<forced, storagePc, sessionOpen, due, overtaken, stranded>>
  /\ UNCHANGED <<detectorVars, care>>

-----------------------------------------------------------------------------
(* missionTask and the rest.                                               *)

\* injectPhase() and setFlightPhase() of ground_test.
Inject(p) ==
  /\ GroundTest(p)
  /\ Detector!InjectPhase(p)
  /\ UNCHANGED <<Detector!counts, sensorPc, care>>

\* What the recorder does without its detector.
Others ==
  \/ SelfTestDone \/ Connect \/ Disconnect \/ Command \/ MissionTick
  \/ MissionStarts \/ StorageStep \/ ClockAdvance

DeviceNext ==
  \/ Others /\ UNCHANGED <<detectorVars, sensorPc, care>>
  \/ \E p \in {"LIFTOFF", "LANDED"} : Inject(p)
  \/ Look \/ Skip \/ Report
  \/ \E s \in Detector!Sample, dt \in 1 .. MaxGap : Update(s, dt)

DeviceSpec == DeviceInit /\ [][DeviceNext]_deviceVars

-----------------------------------------------------------------------------
\* The device implements the recorder with its detector left open ...
ImplementsRecorder == Spec

\* ... and the detector with its surroundings left open.
ImplementsDetector == Detector!EvidenceSpec

\* The recorder opens its window after the landing on evidence: a flight (altitude
\* gained or an impact) and quiet samples that span landedConfirmMs at their gaps,
\* whatever commands, marks and BLE events come between the samples and the window.
LandingIsReal ==
  recording = "POST_LANDING" /\ ~forced =>
    (peaked \/ impacted) /\ quietSeen * quietGap >= LandedConfirm

\* A mission only takes off, without a ground test, on hot samples in a row that
\* span liftoffMinMs at their gaps and were taken with care.  (A forced reset in flight
\* makes the detector's next phase take the mission off again.)
FlightIsSeen ==
  [][~MissionInFlight(mission) /\ MissionInFlight(mission') =>
       \/ forced' \/ "reset_force" \in Commands
       \/ care /\ hotRun * hotGap >= LiftoffMin]_deviceVars
=============================================================================
