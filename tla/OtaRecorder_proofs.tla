------------------------- MODULE OtaRecorder_proofs -------------------------
(***************************************************************************)
(* Proofs about the device: what is proved of the recorder and of the      *)
(* update service, each on its own, still holds where they run together.   *)
(*                                                                         *)
(* The service sees the recorder as a flag that may change at any moment,  *)
(* so the device implements OtaService.  The recorder sees the service as  *)
(* restarts out of nowhere, so each of its invariants holds again after a  *)
(* restart because it holds at the start.                                  *)
(***************************************************************************)
EXTENDS OtaRecorder, FlightRecorder_proofs

OtaProofs == INSTANCE OtaService_proofs WITH deviceIdle <- DeviceIdleForOta

-----------------------------------------------------------------------------
(* The update service on the device.                                       *)

\* A step of the recorder is, for the service, a change of the flag that begin
\* asks for, or nothing.
LEMMA RecorderStepForOta ==
  ASSUME UNCHANGED otaVars
  PROVE  [Ota!Next]_Ota!vars
<1>1. UNCHANGED Ota!otaVars
  BY DEF otaVars, Ota!otaVars, Ota!sessionVars, Ota!imageVars, Ota!hostVars, Ota!loopVars
<1>2. CASE DeviceIdleForOta' = DeviceIdleForOta
  BY <1>1, <1>2 DEF Ota!vars
<1>3. CASE DeviceIdleForOta' # DeviceIdleForOta
  <2>1. DeviceIdleForOta' \in BOOLEAN
    BY DEF DeviceIdleForOta
  <2>2. Ota!DeviceChanges
    BY <1>1, <1>3, <2>1 DEF Ota!DeviceChanges
  <2>3. QED
    BY <2>2 DEF Ota!Next
<1>4. QED
  BY <1>2, <1>3

\* A step of the service leaves the flag alone.
LEMMA IdleKept ==
  ASSUME UNCHANGED vars
  PROVE  UNCHANGED DeviceIdleForOta
BY DEF vars, DeviceIdleForOta

\* Every step of the device is one of the service or a stutter.
LEMMA DeviceStepForOta == [DeviceNext]_deviceVars => [Ota!Next]_Ota!vars
<1> SUFFICES ASSUME [DeviceNext]_deviceVars PROVE [Ota!Next]_Ota!vars
  OBVIOUS
<1>1. CASE UNCHANGED otaVars
  BY <1>1, RecorderStepForOta
<1>2. CASE (Ota!Dashboard \/ Ota!HostStep \/ Ota!LoopsStep) /\ UNCHANGED vars
  BY <1>2, IdleKept DEF Ota!Next
<1>3. CASE UpdateRestarts \/ DeviceFails
  BY <1>3 DEF UpdateRestarts, DeviceFails, Ota!Next
<1>4. QED
  BY <1>1, <1>2, <1>3 DEF DeviceNext, deviceVars

\* The device implements the update service: on it the flag is deviceIdleForOta()
\* of the recorder, a restart finds it set, and a loss of power hits both.
THEOREM DeviceImplementsOta == DeviceSpec => Ota!Spec
<1>1. DeviceInit => Ota!Init
  BY DEF DeviceInit, DeviceIdleForOta, Ota!Init
<1>2. QED
  BY <1>1, DeviceStepForOta, PTL DEF DeviceSpec, Ota!Spec

\* The instance of the service in the model and the one its theorems come with
\* are the same specification.
LEMMA SameService == Ota!Spec => OtaProofs!Spec
<1> USE DEF Ota!sessionVars, Ota!imageVars, Ota!hostVars, Ota!loopVars, Ota!otaVars,
            Ota!NoReboot, Ota!Spoiled, Ota!NoRequest, Ota!OldestAge, Ota!OtaInit,
            Ota!Extended, Ota!Release, Ota!Forget, Ota!ResetOtaState, Ota!HostIdle,
            Ota!ToHostPc, Ota!ControlRefused, Ota!Abort, Ota!Begin, Ota!BeginRest,
            Ota!DigestMatches, Ota!Finish, Ota!FinishEnd, Ota!FinishRest, Ota!InOrder,
            Ota!Data, Ota!DataRest, Ota!LoopGoes, Ota!LoopNow, Ota!IdleExpired,
            Ota!LoopCheck, Ota!LoopRelease, Ota!LoopForget, Ota!RebootDue, Ota!LoopNoReboot,
            Ota!StartsOver, Ota!Restart, Ota!PowerLoss, Ota!LoopStep, Ota!Tick, Ota!Writes,
            Ota!Dashboard, Ota!HostStep, Ota!LoopsStep, Ota!DeviceChanges,
            OtaProofs!sessionVars, OtaProofs!imageVars, OtaProofs!hostVars,
            OtaProofs!loopVars, OtaProofs!otaVars, OtaProofs!NoReboot, OtaProofs!Spoiled,
            OtaProofs!NoRequest, OtaProofs!OldestAge, OtaProofs!OtaInit, OtaProofs!Extended,
            OtaProofs!Release, OtaProofs!Forget, OtaProofs!ResetOtaState,
            OtaProofs!HostIdle, OtaProofs!ToHostPc, OtaProofs!ControlRefused,
            OtaProofs!Abort, OtaProofs!Begin, OtaProofs!BeginRest, OtaProofs!DigestMatches,
            OtaProofs!Finish, OtaProofs!FinishEnd, OtaProofs!FinishRest, OtaProofs!InOrder,
            OtaProofs!Data, OtaProofs!DataRest, OtaProofs!LoopGoes, OtaProofs!LoopNow,
            OtaProofs!IdleExpired, OtaProofs!LoopCheck, OtaProofs!LoopRelease,
            OtaProofs!LoopForget, OtaProofs!RebootDue, OtaProofs!LoopNoReboot,
            OtaProofs!StartsOver, OtaProofs!Restart, OtaProofs!PowerLoss,
            OtaProofs!LoopStep, OtaProofs!Tick, OtaProofs!Writes, OtaProofs!Dashboard,
            OtaProofs!HostStep, OtaProofs!LoopsStep, OtaProofs!DeviceChanges
<1>1. Ota!Init => OtaProofs!Init
  BY DEF Ota!Init, OtaProofs!Init
<1>2. [Ota!Next]_Ota!vars => [OtaProofs!Next]_OtaProofs!vars
  BY DEF Ota!Next, OtaProofs!Next, Ota!vars, OtaProofs!vars
<1>3. QED
  BY <1>1, <1>2, PTL DEF Ota!Spec, OtaProofs!Spec

\* What OtaService assumes of its constants.
ServiceConstants ==
  /\ NoConn \notin Conns
  /\ Size \in Nat \ {0} /\ ManifestSizes \subseteq 1 .. Size
  /\ OtaIdleTimeout \in Nat /\ OtaRebootDelay \in Nat /\ MaxLag \in Nat

\* README, "SHA-256 verified", on the device: whatever the recorder does during
\* an update, and wherever a restart or a loss of power cuts it off, the
\* bootloader is only pointed to a verified image and "complete" is true.
THEOREM DeviceUpdatesSafely ==
  ASSUME ServiceConstants
  PROVE  DeviceSpec => [](Ota!ImageVerified /\ Ota!CompleteIsTrue)
<1>1. OtaProofs!Spec => [](OtaProofs!ImageVerified /\ OtaProofs!CompleteIsTrue)
  BY OtaProofs!OtaSafe
     DEF ServiceConstants, OtaProofs!ConnAssumption, OtaProofs!SizeAssumption,
         OtaProofs!TimeAssumption
<1>2. OtaProofs!ImageVerified => Ota!ImageVerified
  BY DEF OtaProofs!ImageVerified, Ota!ImageVerified
<1>3. OtaProofs!CompleteIsTrue => Ota!CompleteIsTrue
  BY DEF OtaProofs!CompleteIsTrue, Ota!CompleteIsTrue, OtaProofs!NoReboot, Ota!NoReboot
<1>4. QED
  BY <1>1, <1>2, <1>3, DeviceImplementsOta, SameService, PTL

\* The service keeps its types on the device.
LEMMA DeviceOtaTypes ==
  ASSUME ServiceConstants
  PROVE  DeviceSpec => []Ota!TypeOK
<1>1. OtaProofs!Spec => []OtaProofs!TypeOK
  BY OtaProofs!TypeCorrect
     DEF ServiceConstants, OtaProofs!ConnAssumption, OtaProofs!SizeAssumption,
         OtaProofs!TimeAssumption
<1>2. OtaProofs!TypeOK => Ota!TypeOK
  BY DEF OtaProofs!TypeOK, Ota!TypeOK, OtaProofs!NoReboot, Ota!NoReboot,
         OtaProofs!Spoiled, Ota!Spoiled, OtaProofs!OldestAge, Ota!OldestAge
<1>3. QED
  BY <1>1, <1>2, DeviceImplementsOta, SameService, PTL

\* The deferred restart only ever happens for a verified image, for any images,
\* timeouts and interleavings: a task that finds it due finds it scheduled.
THEOREM DeviceRestartsForVerified ==
  ASSUME ServiceConstants
  PROVE  DeviceSpec => RestartsForVerified
<1>1. Ota!TypeOK /\ Ota!CompleteIsTrue => [UpdateRestarts => bootImage = "verified"]_deviceVars
  <2> SUFFICES ASSUME Ota!TypeOK, Ota!CompleteIsTrue, NEW l \in LoopTasks, Ota!RebootDue(l)
               PROVE  bootImage = "verified"
    BY DEF UpdateRestarts, Ota!Restart
  <2>1. lag[l] \in 0 .. MaxLag /\ rebootIn <= -lag[l]
    BY DEF Ota!TypeOK, Ota!RebootDue
  <2>2. rebootIn # Ota!NoReboot
    BY <2>1 DEF ServiceConstants, Ota!NoReboot
  <2>3. QED
    BY <2>2 DEF Ota!CompleteIsTrue
<1>2. QED
  BY <1>1, DeviceUpdatesSafely, DeviceOtaTypes, PTL DEF RestartsForVerified

-----------------------------------------------------------------------------
(* The recorder on the device.                                             *)

\* A restart or a loss of power leaves the recorder as it was after boot, in the
\* middle of whatever the storage task was doing.
LEMMA StartsOverAtInit == RecorderStartsOver => Init'
BY DEF RecorderStartsOver, Init, FsmInit

\* For the recorder every step of the device is one of its own, a stutter, or a
\* start from the beginning.
LEMMA DeviceStepForRecorder == [DeviceNext]_deviceVars => [Next]_vars \/ Init'
BY StartsOverAtInit DEF DeviceNext, deviceVars, UpdateRestarts, DeviceFails

\* Nothing the service does disturbs the flight: label, flag, countdown, link and
\* the two phases agree on the device too, across its restarts.
THEOREM DeviceFlightSafe ==
  /\ DeviceSpec => [](TypeOK /\ LiftoffLatched /\ CountdownHasInstant /\ ConnectedMeansLink)
  /\ DeviceSpec => PhasesAgree
<1>1. DeviceSpec => [](TypeOK /\ FlightInv /\ PhaseInv)
  BY TypeInit, TypeStep, FlightInit, FlightStep, PhaseInit, PhaseStep,
     DeviceStepForRecorder, PTL DEF DeviceSpec, DeviceInit
<1>2. PhaseInv => (MissionInFlight(mission) => PhaseInFlight(detected) /\ phase = detected)
  BY DEF PhaseInv
<1>3. TypeOK /\ FlightInv /\ PhaseInv /\ [DeviceNext]_deviceVars =>
        [~FlightUnseen /\ FlightUnseen' => CmdReset(TRUE, "ACK") \/ forced']_vars
  <2>1. Init' => ~FlightUnseen'
    BY DEF Init, FlightUnseen, PhaseInFlight
  <2>2. QED
    BY <2>1, PhaseStep, DeviceStepForRecorder DEF KeepsSight
<1>4. QED
  BY <1>1, <1>2, <1>3, PTL DEF DeviceSpec, PhasesAgree, FlightInv

\* Nor does it disturb the recording: the window after a landing is timed and
\* ends, a running recording has its session, a stop that shows is served.
THEOREM DeviceRecordingSafe ==
  DeviceSpec => [](PostLandingIsTimed /\ RecordingHasSession /\ StoppingIsServed
                   /\ PostLandingEnds)
<1>1. DeviceSpec => [](TypeOK /\ RecordingInv /\ WindowInv)
  BY TypeInit, TypeStep, FlightInit, FlightStep, RecordingInit, RecordingStep, WindowInit,
     WindowStep, DeviceStepForRecorder, PTL DEF DeviceSpec, DeviceInit
<1>2. QED
  BY <1>1, WindowOver, PTL DEF RecordingInv

\* The safety cap holds on the device as it does on the recorder, and a restart
\* leaves no session that nobody watches.
THEOREM DeviceSessionCapped ==
  DeviceSpec => [](NoOrphanSession /\ PreparingIsServed /\ SessionIsCapped)
<1>1. DeviceSpec => [](TypeOK /\ SessionInv /\ StartKnown /\ CapInv)
  BY TypeInit, TypeStep, FlightInit, FlightStep, RecordingInit, RecordingStep, SessionInit,
     SessionStep, StartKnownStep, CapInit, CapStep, DeviceStepForRecorder, PTL
     DEF DeviceSpec, DeviceInit
<1>2. QED
  BY <1>1, CapHolds, PTL DEF SessionInv

\* A flight is only forgotten by a forced reset or with the whole device.
THEOREM DeviceFlightKept == DeviceSpec => FlightLostOnlyTo
<1>1. TypeOK /\ FlightInv /\ [DeviceNext]_deviceVars =>
        [MissionInFlight(mission) =>
           \/ MissionPostLiftoff(mission')
           \/ CmdReset(TRUE, "ACK")
           \/ RecorderStartsOver]_deviceVars
  <2> SUFFICES ASSUME TypeOK, FlightInv, [DeviceNext]_deviceVars, MissionInFlight(mission),
                      ~CmdReset(TRUE, "ACK"), ~RecorderStartsOver
               PROVE  MissionPostLiftoff(mission')
    OBVIOUS
  <2>1. [Next]_vars
    BY DEF DeviceNext, deviceVars, UpdateRestarts, DeviceFails
  <2>2. Life = "flight"
    BY DEF Life
  <2>3. Life' \in {"flight", "landed"}
    BY <2>1, <2>2, StepLife
  <2>4. QED
    BY <2>3 DEF Life, MissionPostLiftoff
<1>2. DeviceSpec => [](TypeOK /\ FlightInv)
  BY TypeInit, TypeStep, FlightInit, FlightStep, DeviceStepForRecorder, PTL
     DEF DeviceSpec, DeviceInit
<1>3. QED
  BY <1>1, <1>2, PTL DEF DeviceSpec, FlightLostOnlyTo

=============================================================================
