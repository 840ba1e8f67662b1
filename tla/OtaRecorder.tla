---------------------------- MODULE OtaRecorder ----------------------------
(***************************************************************************)
(* The recorder and the update service on one device.  They meet in two    *)
(* places: begin asks deviceIdleForOta(), and the restart at the end of an *)
(* update takes the recorder down with everything it was doing.  So does a *)
(* loss of power, which takes both down together.                          *)
(***************************************************************************)
EXTENDS FlightRecorder

CONSTANTS Conns, NoConn, LoopTasks, Size, ManifestSizes, OtaIdleTimeout,
          OtaRebootDelay, MaxLag

VARIABLES otaActive, otaState, otaExpected, otaReceived, otaOwner, idleAge, rebootIn,
          shaOn, digest, updating, flash, bootImage, hostPc, request, loopPc, lag

\* deviceIdleForOta()
DeviceIdleForOta ==
  /\ ~RecordingActive(recording)
  /\ ~liftedOff
  /\ ~MissionInFlight(mission)
  /\ mission \notin {"COUNTDOWN", "IGNITION_EXPECTED"}

Ota == INSTANCE OtaService WITH deviceIdle <- DeviceIdleForOta

otaVars == <<otaActive, otaState, otaExpected, otaReceived, otaOwner, idleAge, rebootIn,
             shaOn, digest, updating, flash, bootImage, hostPc, request, loopPc, lag>>

deviceVars == <<vars, otaVars>>

DeviceInit == Init /\ Ota!OtaInit

\* Every task and all the memory of the recorder start over.
RecorderStartsOver ==
  /\ mission' = "SELF_TEST" /\ recording' = "IDLE" /\ phase' = "PRELAUNCH"
  /\ owner' = NoSid /\ ignitionIn' = Never /\ countdownOn' = FALSE
  /\ liftedOff' = FALSE /\ landedAge' = Unset /\ recordingAge' = Unset
  /\ bleConnected' = FALSE /\ requestStart' = FALSE /\ requestStop' = FALSE
  /\ starting' = "no"
  /\ detected' = "PRELAUNCH" /\ forced' = FALSE
  /\ storagePc' = "start" /\ sessionOpen' = FALSE /\ due' = {}
  /\ overtaken' = FALSE /\ stranded' = "no"

\* ESP.restart() at the end of an update, whatever the recorder is doing.
UpdateRestarts == RecorderStartsOver /\ \E l \in LoopTasks : Ota!Restart(l)

\* A brownout, a panic or the watchdog.
DeviceFails == RecorderStartsOver /\ Ota!PowerLoss

\* The dashboard writes over the link; loop() is called once setup() is over.
\* The two models keep time apart: no deadline of one meets one of the other.
DeviceNext ==
  \/ Next /\ UNCHANGED otaVars
  \/ bleConnected /\ Ota!Dashboard /\ UNCHANGED vars
  \/ Ota!HostStep /\ UNCHANGED vars
  \/ Booted /\ Ota!LoopsStep /\ UNCHANGED vars
  \/ UpdateRestarts
  \/ DeviceFails

DeviceSpec == DeviceInit /\ [][DeviceNext]_deviceVars

\* Only a verified image ever makes the service restart the device, also when
\* the device lost its power while the image was written.
RestartsForVerified == [][UpdateRestarts => bootImage = "verified"]_deviceVars

\* Nothing the service does for an update makes the recorder forget a flight,
\* short of taking the whole device down with it.
FlightLostOnlyTo ==
  [][MissionInFlight(mission) =>
       \/ MissionPostLiftoff(mission')
       \/ CmdReset(TRUE, "ACK")
       \/ RecorderStartsOver]_deviceVars

\* README, OTA: "Blocked while recording or in flight".  An update does not take
\* the device away from a recording or a flight.
BlockedWhileRecording == [][UpdateRestarts => DeviceIdleForOta]_deviceVars
=============================================================================
