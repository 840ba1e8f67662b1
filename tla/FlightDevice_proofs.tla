------------------------ MODULE FlightDevice_proofs ------------------------
(***************************************************************************)
(* Proofs about FlightDevice: recorder and detector, joined by sensorTask, *)
(* each implement the specification they have alone, and so the evidence   *)
(* that is proved of the detector reaches the recording and the mission.   *)
(***************************************************************************)
EXTENDS FlightDevice, FlightRecorder_proofs

DetectProofs == INSTANCE FlightDetect_proofs

-----------------------------------------------------------------------------
(* sensorTask, between detector and recorder.                              *)

\* sensorTask has passed on the phase of the detector, or is about to pass on the
\* next one; a ground test passes its phase on itself and leaves a report that
\* says the same.  A liftoff that is still to be reported was seen with care.
SensorInv ==
  /\ sensorPc \in {"look", "update", "report"}
  /\ care \in BOOLEAN
  /\ detected \in FlightPhase
  /\ forced => current = detected /\ current \in {"LIFTOFF", "LANDED"}
  /\ ~forced => IF sensorPc = "report" THEN current \in Successors[detected]
                ELSE current = detected
  /\ ~forced /\ sensorPc = "report" /\ current = "LIFTOFF" => care

\* One sample moves the detector by one phase, and to LIFTOFF only with care.
LEMMA SampleMovesOn ==
  ASSUME NEW s \in Detector!Sample, NEW dt, NEW c \in BOOLEAN,
         Detector!SampleSeen(s, dt, c), current' # current
  PROVE  /\ ~forced /\ ~forced'
         /\ current' \in Successors[current]
         /\ current' = "LIFTOFF" => c
<1> USE DEF Successors, FlightPhase, Detector!Enter, Detector!Stay
<1>1. ~forced /\ ~forced' /\ Detector!Update(s, dt, c)
  BY DEF Detector!SampleSeen, Detector!Update, Detector!Observe
<1>2. CASE Detector!Prelaunch(s, dt, c)
  BY <1>1, <1>2 DEF Detector!Prelaunch
<1>3. CASE Detector!Liftoff(s)
  BY <1>1, <1>3 DEF Detector!Liftoff
<1>4. CASE Detector!Burn(s, dt)
  BY <1>1, <1>4 DEF Detector!Burn
<1>5. CASE Detector!Coast(s, dt)
  BY <1>1, <1>5 DEF Detector!Coast
<1>6. CASE Detector!Apogee(s, dt)
  BY <1>1, <1>6 DEF Detector!Apogee
<1>7. CASE Detector!Fall(s, dt)
  BY <1>1, <1>7 DEF Detector!Fall
<1>8. CASE Detector!Rest(dt)
  BY <1>1, <1>8 DEF Detector!Rest
<1>9. QED
  BY <1>1, <1>2, <1>3, <1>4, <1>5, <1>6, <1>7, <1>8 DEF Detector!Update

\* The other tasks touch neither phase nor the flag of a ground test.
LEMMA OthersLeavePhase == Others => UNCHANGED <<detected, forced>>
BY DEF Others, SelfTestDone, Connect, Disconnect, Command, taskVars, MissionTick,
   MissionStarts, StorageStep, StorageStart, StorageNoStart, StorageMarkActive, StorageMarkFailed,
   StorageStop, StorageNoStop, StorageMarkStopped, ClockAdvance

\* Every step of the device keeps SensorInv.
LEMMA SensorStep == SensorInv /\ [DeviceNext]_deviceVars => SensorInv'
<1> SUFFICES ASSUME SensorInv, [DeviceNext]_deviceVars PROVE SensorInv'
  OBVIOUS
<1> USE DEF SensorInv, SensorGoes
<1>1. CASE Others /\ UNCHANGED <<detectorVars, sensorPc, care>>
  BY <1>1, OthersLeavePhase DEF detectorVars
<1>2. ASSUME NEW p \in {"LIFTOFF", "LANDED"}, Inject(p) PROVE SensorInv'
  BY <1>2 DEF Inject, GroundTest, Detector!InjectPhase, FlightPhase
<1>3. CASE Look
  BY <1>3 DEF Look, Care, NearIgn, vars, detectorVars
<1>4. ASSUME NEW s \in Detector!Sample, NEW dt \in 1 .. MaxGap, Update(s, dt)
      PROVE  SensorInv'
  <2>1. UNCHANGED <<detected, forced, care>> /\ sensorPc = "update"
    BY <1>4 DEF Update, vars
  <2>2. CASE current' = current
    BY <1>4, <2>1, <2>2 DEF Update
  <2>3. CASE current' # current
    <3>1. current' \in Successors[current] /\ ~forced /\ (current' = "LIFTOFF" => care)
      BY <1>4, <2>3, SampleMovesOn DEF Update
    <3>2. QED
      BY <1>4, <2>1, <2>3, <3>1 DEF Update
  <2>4. QED
    BY <2>2, <2>3
<1>5. CASE Skip
  BY <1>5 DEF Skip, vars, detectorVars
<1>6. CASE Report
  BY <1>6 DEF Report, detectorVars, Successors, FlightPhase
<1>7. CASE UNCHANGED deviceVars
  BY <1>7 DEF deviceVars, vars, detectorVars
<1>8. QED
  BY <1>1, <1>2, <1>3, <1>4, <1>5, <1>6, <1>7 DEF DeviceNext

\* SensorInv is an invariant of the device.
LEMMA SensorInvariant == DeviceSpec => []SensorInv
<1>1. DeviceInit => SensorInv
  BY DEF DeviceInit, Init, Detector!EvidenceInit, Detector!Init, SensorInv, FlightPhase
<1>2. QED
  BY <1>1, SensorStep, PTL DEF DeviceSpec

-----------------------------------------------------------------------------
(* The detector on the device.                                             *)

\* A step of the device is one of the detector or leaves it alone: nothing but a
\* sample and a ground test touches it, and a sample comes with some care flag.
LEMMA DeviceStepForDetector ==
  ASSUME care \in BOOLEAN, [DeviceNext]_deviceVars
  PROVE  [Detector!EvidenceNext]_Detector!evidenceVars
<1> USE DEF Detector!evidenceVars, Detector!counts, Detector!vars
<1>1. CASE UNCHANGED <<detectorVars, forced>>
  BY <1>1 DEF detectorVars
<1>2. ASSUME NEW p \in {"LIFTOFF", "LANDED"}, Inject(p)
      PROVE  Detector!EvidenceNext
  BY <1>2 DEF Inject, Detector!EvidenceNext
<1>3. ASSUME NEW s \in Detector!Sample, NEW dt \in 1 .. MaxGap, Update(s, dt)
      PROVE  Detector!EvidenceNext
  BY <1>3 DEF Update, Detector!EvidenceNext, Detector!AnySample
<1>4. Others => UNCHANGED forced
  BY DEF Others, SelfTestDone, Connect, Disconnect, Command, taskVars, MissionTick,
     MissionStarts, StorageStep, StorageStart, StorageNoStart, StorageMarkActive, StorageMarkFailed,
     StorageStop, StorageNoStop, StorageMarkStopped, ClockAdvance
<1>5. Look \/ Skip \/ Report \/ UNCHANGED deviceVars => UNCHANGED <<detectorVars, forced>>
  BY DEF Look, Skip, Report, vars, deviceVars
<1>6. QED
  BY <1>1, <1>2, <1>3, <1>4, <1>5 DEF DeviceNext

\* On the device the detector does what it does alone: the other tasks only give
\* it a care flag, however old.
THEOREM DeviceImplementsDetector == DeviceSpec => ImplementsDetector
<1>1. DeviceInit => Detector!EvidenceInit
  BY DEF DeviceInit
<1>2. SensorInv /\ [DeviceNext]_deviceVars
        => [Detector!EvidenceNext]_Detector!evidenceVars
  BY DeviceStepForDetector DEF SensorInv
<1>3. QED
  BY <1>1, <1>2, SensorInvariant, PTL DEF DeviceSpec, ImplementsDetector, Detector!EvidenceSpec

\* The instance of the detector in the model and the one its theorems come with
\* are the same specification.
LEMMA SameDetector == Detector!EvidenceSpec => DetectProofs!EvidenceSpec
<1> USE DEF Detector!Unset, Detector!AgeTop, Detector!Init, Detector!Sample, Detector!Least,
            Detector!Held, Detector!Agl, Detector!Observe, Detector!Enter, Detector!Stay,
            Detector!Hot, Detector!LiftoffHeld, Detector!Prelaunch, Detector!Liftoff,
            Detector!BurnOver, Detector!Burn, Detector!Coast, Detector!Apogee,
            Detector!Quiet, Detector!HadFlight, Detector!QuietTime, Detector!Fall,
            Detector!Rest, Detector!Update, Detector!InjectPhase, Detector!evidenceVars,
            Detector!EvidenceTop, Detector!EvidenceInit, Detector!counts, Detector!Longer,
            Detector!HotSeen, Detector!Impact, Detector!Rests, Detector!SampleSeen,
            Detector!AnySample, DetectProofs!Unset, DetectProofs!AgeTop, DetectProofs!Init,
            DetectProofs!Sample, DetectProofs!Least, DetectProofs!Held, DetectProofs!Agl,
            DetectProofs!Observe, DetectProofs!Enter, DetectProofs!Stay, DetectProofs!Hot,
            DetectProofs!LiftoffHeld, DetectProofs!Prelaunch, DetectProofs!Liftoff,
            DetectProofs!BurnOver, DetectProofs!Burn, DetectProofs!Coast,
            DetectProofs!Apogee, DetectProofs!Quiet, DetectProofs!HadFlight,
            DetectProofs!QuietTime, DetectProofs!Fall, DetectProofs!Rest,
            DetectProofs!Update, DetectProofs!InjectPhase, DetectProofs!evidenceVars,
            DetectProofs!EvidenceTop, DetectProofs!EvidenceInit, DetectProofs!counts,
            DetectProofs!Longer, DetectProofs!HotSeen, DetectProofs!Impact,
            DetectProofs!Rests, DetectProofs!SampleSeen, DetectProofs!AnySample
<1>1. Detector!EvidenceInit => DetectProofs!EvidenceInit
  OBVIOUS
<1>2. [Detector!EvidenceNext]_Detector!evidenceVars
        => [DetectProofs!EvidenceNext]_DetectProofs!evidenceVars
  BY DEF Detector!EvidenceNext, DetectProofs!EvidenceNext, Detector!vars, DetectProofs!vars
<1>3. QED
  BY <1>1, <1>2, PTL DEF Detector!EvidenceSpec, DetectProofs!EvidenceSpec

\* What FlightDetect assumes of its constants.
DetectorConstants ==
  /\ MaxGap \in Nat \ {0}
  /\ LiftoffMin \in Nat \ {0} /\ BurnoutMin \in Nat /\ BurnMax \in Nat
  /\ ApogeeMin \in Nat /\ ApogeeMax \in Nat
  /\ LandedConfirm \in Nat \ {0} /\ AltRing \in Nat
  /\ LiftoffMin <= BurnMax /\ BurnoutMin <= BurnMax
  /\ ApogeeMin <= BurnMax /\ ApogeeMax <= BurnMax

\* The evidence that is proved of the detector holds on the device.
LEMMA DeviceEvidence ==
  ASSUME DetectorConstants
  PROVE  DeviceSpec => [](Detector!LiftoffEvidence /\ Detector!LandingEvidence)
<1>1. DetectProofs!EvidenceSpec
        => [](DetectProofs!LiftoffEvidence /\ DetectProofs!LandingEvidence)
  BY DetectProofs!LiftoffProven, DetectProofs!LandingProven, PTL
     DEF DetectorConstants, DetectProofs!GapAssumption, DetectProofs!ThresholdAssumption
<1>2. DetectProofs!LiftoffEvidence /\ DetectProofs!LandingEvidence
        => Detector!LiftoffEvidence /\ Detector!LandingEvidence
  BY DEF Detector!LiftoffEvidence, Detector!LandingEvidence, DetectProofs!LiftoffEvidence,
         DetectProofs!LandingEvidence
<1>3. QED
  BY <1>1, <1>2, DeviceImplementsDetector, SameDetector, PTL DEF ImplementsDetector

-----------------------------------------------------------------------------
(* The recorder on the device.                                             *)

\* A report is a step of the recorder's detector, or the echo of a ground test.
LEMMA ReportIsStep ==
  ASSUME SensorInv, Report
  PROVE  Next
<1>1. Booted /\ detected' = current /\ SetFlightPhase(current)
  BY DEF Report, SensorGoes
<1>2. CASE forced
  <2>1. current \in {"LIFTOFF", "LANDED"} /\ detected = current
    BY <1>2 DEF SensorInv
  <2>2. ReportAgain(current)
    BY <1>1, <1>2, <2>1 DEF Report, ReportAgain, taskVars
  <2>3. QED
    BY <2>1, <2>2 DEF Next
<1>3. CASE ~forced
  <2>1. current \in Successors[detected]
    BY <1>3 DEF SensorInv, Report, SensorGoes
  <2>2. Detect(current)
    BY <1>1, <1>3, <2>1 DEF Report, Detect
  <2>3. current \in FlightPhase
    BY <2>1 DEF SensorInv, Successors, FlightPhase
  <2>4. QED
    BY <2>2, <2>3 DEF Next
<1>4. QED
  BY <1>2, <1>3

\* The device implements the recorder: what sensorTask reports moves along
\* Successors, also when a ground test overtakes it, so everything that is proved
\* of FlightRecorder holds on the device.
THEOREM DeviceImplementsRecorder == DeviceSpec => ImplementsRecorder
<1>1. DeviceInit => Init
  BY DEF DeviceInit
<1>2. SensorInv /\ [DeviceNext]_deviceVars => [Next]_vars
  <2> SUFFICES ASSUME SensorInv, DeviceNext PROVE [Next]_vars
    BY DEF deviceVars
  <2>1. CASE Others
    BY <2>1 DEF Others, Next
  <2>2. ASSUME NEW p \in {"LIFTOFF", "LANDED"}, Inject(p) PROVE Next
    BY <2>2 DEF Inject, Next
  <2>3. CASE Report
    BY <2>3, ReportIsStep
  <2>4. ASSUME NEW s \in Detector!Sample, NEW dt \in 1 .. MaxGap, Update(s, dt)
        PROVE  UNCHANGED vars
    BY <2>4 DEF Update
  <2>5. QED
    BY <2>1, <2>2, <2>3, <2>4 DEF DeviceNext, Look, Skip
<1>3. QED
  BY <1>1, <1>2, SensorInvariant, PTL DEF DeviceSpec, ImplementsRecorder, Spec

-----------------------------------------------------------------------------
(* From the samples to the mission.                                        *)

\* What the recorder's invariants say of the device.
LEMMA DeviceRecorderInv ==
  DeviceSpec => [](TypeOK /\ FlightInv /\ PhaseInv /\ SightInv /\ RecordingInv)
<1>1. Spec => [](TypeOK /\ FlightInv /\ PhaseInv /\ SightInv /\ RecordingInv)
  BY TypeInit, TypeStep, FlightInit, FlightStep, PhaseInit, PhaseStep, SightInit, SightStep,
     RecordingInit, RecordingStep, PTL DEF Spec
<1>2. QED
  BY <1>1, DeviceImplementsRecorder, PTL DEF ImplementsRecorder

\* For any thresholds, gaps, samples and interleavings: the window after a landing
\* is opened on the evidence of a flight and of a rest, a single quiet sample being
\* that only after a gap as long as landedConfirmMs.
THEOREM LandingReal ==
  ASSUME DetectorConstants
  PROVE  DeviceSpec => []LandingIsReal
<1>1. SensorInv /\ Detector!LandingEvidence /\ PhaseInv /\ RecordingInv => LandingIsReal
  <2> SUFFICES ASSUME SensorInv, Detector!LandingEvidence, PhaseInv, RecordingInv,
                      recording = "POST_LANDING", ~forced
               PROVE  (peaked \/ impacted) /\ quietSeen * quietGap >= LandedConfirm
    BY DEF LandingIsReal
  <2>1. detected = "LANDED"
    BY DEF RecordingInv, PostLandingIsTimed, PhaseInv
  <2>2. current = "LANDED"
    BY <2>1 DEF SensorInv, Successors, FlightPhase
  <2>3. QED
    BY <2>2 DEF Detector!LandingEvidence
<1>2. QED
  BY <1>1, SensorInvariant, DeviceEvidence, DeviceRecorderInv, PTL

\* No step but a report or a ground test launches a mission.
LEMMA OthersDoNotLaunch ==
  ASSUME TypeOK, FlightInv, Others, ~MissionInFlight(mission)
  PROVE  ~MissionInFlight(mission')
<1> USE DEF MissionInFlight, InFlightStates
<1>1. CASE SelfTestDone
  BY <1>1 DEF SelfTestDone, AdvanceSelfTestOk
<1>2. CASE Connect
  BY <1>2 DEF Connect, BleConnect
<1>3. CASE Disconnect
  BY <1>3 DEF Disconnect, BleDisconnect, MissionAfterDisconnect
<1>4. CASE Command
  BY <1>4, CommandLife DEF Command, Life
<1>5. CASE MissionTick \/ MissionStarts
  BY <1>5, FinishStartMission DEF MissionTick, MissionStarts, Tick, LeadStart,
     IgnitionReached
<1>6. CASE StorageStep
  BY <1>6 DEF StorageStep, StorageStart, ConsumeStart, StorageNoStart, StorageMarkActive,
     MarkRecordingActive, StorageMarkFailed, MarkRecordingFailed, StorageStop, ConsumeStop,
     StorageNoStop, StorageMarkStopped, MarkRecordingStopped, fsmVars
<1>7. CASE ClockAdvance
  BY <1>7 DEF ClockAdvance, TimePasses
<1>8. QED
  BY <1>1, <1>2, <1>3, <1>4, <1>5, <1>6, <1>7 DEF Others

\* A report launches the mission only with LIFTOFF: after a later phase the
\* mission is in flight already, unless a forced reset took it down.
LEMMA ReportLaunches ==
  ASSUME TypeOK, SightInv, SensorInv, Report, "reset_force" \notin Commands, ~forced,
         ~MissionInFlight(mission), MissionInFlight(mission')
  PROVE  current = "LIFTOFF"
<1>1. current \in Successors[detected] /\ SetFlightPhase(current)
  BY DEF SensorInv, Report, SensorGoes
<1>2. ~PhaseInFlight(detected)
  BY DEF SightInv, FlightUnseen
<1>3. detected \in {"PRELAUNCH", "LANDED"}
  BY <1>2 DEF TypeOK, FlightPhase, PhaseInFlight
<1>4. QED
  BY <1>1, <1>3 DEF Successors, FlightPhase

\* For any thresholds and interleavings: without a ground test or forced resets a
\* mission takes off only on hot samples that, at the gaps they came with, span
\* liftoffMinMs, and that were taken with care.
THEOREM FlightSeen ==
  ASSUME DetectorConstants
  PROVE  DeviceSpec => FlightIsSeen
<1>1. TypeOK /\ FlightInv /\ SightInv /\ SensorInv /\ Detector!LiftoffEvidence
        /\ [DeviceNext]_deviceVars
        => [~MissionInFlight(mission) /\ MissionInFlight(mission') =>
              \/ forced' \/ "reset_force" \in Commands
              \/ care /\ hotRun * hotGap >= LiftoffMin]_deviceVars
  <2> SUFFICES ASSUME TypeOK, FlightInv, SightInv, SensorInv, Detector!LiftoffEvidence,
                      DeviceNext, ~MissionInFlight(mission), MissionInFlight(mission'),
                      ~forced', "reset_force" \notin Commands
               PROVE  care /\ hotRun * hotGap >= LiftoffMin
    BY DEF deviceVars
  <2>1. ~Others
    BY OthersDoNotLaunch
  <2>2. ASSUME NEW p, Inject(p) PROVE FALSE
    BY <2>2 DEF Inject, GroundTest
  <2>3. ~Look /\ ~Skip
    BY DEF Look, Skip, vars
  <2>4. ASSUME NEW s, NEW dt, Update(s, dt) PROVE FALSE
    BY <2>4 DEF Update, vars
  <2>5. Report
    BY <2>1, <2>2, <2>3, <2>4 DEF DeviceNext
  <2>6. ~forced /\ sensorPc = "report"
    BY <2>5 DEF Report, SensorGoes
  <2>7. current = "LIFTOFF"
    BY <2>5, <2>6, ReportLaunches
  <2>8. QED
    BY <2>6, <2>7 DEF SensorInv, Detector!LiftoffEvidence
<1>2. QED
  BY <1>1, SensorInvariant, DeviceEvidence, DeviceRecorderInv, PTL
     DEF DeviceSpec, FlightIsSeen

=============================================================================
