--------------------------- MODULE FlightRecorder ---------------------------
(***************************************************************************)
(* The flight recorder: the mission state machine composed with the tasks  *)
(* that drive it (src/main.cpp).                                           *)
(*                                                                         *)
(*   missionTask   drains the BLE command queue and calls tick();          *)
(*   sensorTask    runs the flight detector and reports phase changes;     *)
(*   storageTask   serves the start and stop requests, opening and         *)
(*                 closing the session on the SD card;                     *)
(*   NimBLE host   reports connects and disconnects;                       *)
(*   setup()       ends the self test and only then creates the tasks.     *)
(*                                                                         *)
(* A handler runs as one step, except for cmdStartRecording(): between its *)
(* request and the PREPARING that follows, the storage task may serve the  *)
(* request.  The storage task is split where another task can run in       *)
(* between: openSession and closeSession take hundreds of milliseconds,    *)
(* and the mark that follows overwrites whatever state the handlers        *)
(* reached meanwhile.                                                      *)
(*                                                                         *)
(* The detector is reduced to the phase it last reported; when a sample    *)
(* moves it is left open here.  FlightDevice has the detector itself and   *)
(* shows that it moves only along these steps.                             *)
(***************************************************************************)
EXTENDS MissionFsm

CONSTANTS
  Commands,        \* the commands the dashboard uses
  IgnitionTimes,   \* the distances a dashboard gives for the ignition
  SdOutcomes       \* what openSession may return

ASSUME IgnitionTimesAssumption == IgnitionTimes \subseteq IgnitionDistance \cup {Never}
ASSUME SdAssumption == SdOutcomes \subseteq BOOLEAN

VARIABLES
  detected,     \* FlightDetect::current, as sensorTask last passed it on
  forced,       \* FlightDetect::forced_phase
  storagePc,    \* what storageTask does next
  sessionOpen,  \* Storage::session_open
  due           \* the tasks that have not yet run in this unit of time

\* History variables, no state of the program.
VARIABLES
  overtaken,  \* storageTask has taken the request of the start that is under way
  stranded    \* what has last written a PREPARING that nothing watches, "start" or
              \* "prepare"; "no" once a session is opened or closed

vars == <<mission, recording, phase, owner, ignitionIn, countdownOn, liftedOff,
          landedAge, recordingAge, bleConnected, requestStart, requestStop, starting,
          detected, forced, storagePc, sessionOpen, due, overtaken, stranded>>

StoragePc == {"start", "markActive", "markFailed", "stop", "markStopped"}

\* The type of every variable, of the state machine and of the tasks around it.
TypeOK ==
  /\ FsmTypeOK
  /\ detected \in FlightPhase
  /\ forced \in BOOLEAN
  /\ storagePc \in StoragePc
  /\ sessionOpen \in BOOLEAN
  /\ due \subseteq {"mission", "storage"}
  /\ overtaken \in BOOLEAN
  /\ stranded \in {"no", "start", "prepare"}

Init ==
  /\ FsmInit
  /\ detected = "PRELAUNCH"
  /\ forced = FALSE
  /\ storagePc = "start"
  /\ sessionOpen = FALSE
  /\ due = {}
  /\ overtaken = FALSE
  /\ stranded = "no"

\* setup() creates the tasks after advanceSelfTestOk().
Booted == mission # "SELF_TEST"

taskVars == <<detected, forced, storagePc, sessionOpen, due, overtaken, stranded>>

\* The start that a PREPARING waits for: its request, or the mark that answers it.
StartAhead == requestStart \/ storagePc \in {"markActive", "markFailed"}

\* PREPARING written now stays: no start answers it, or it takes a running
\* recording out of sight of tick().
Unanswered == ~StartAhead \/ Running(recording)

-----------------------------------------------------------------------------
(* setup() and the NimBLE host task.                                       *)

SelfTestDone == AdvanceSelfTestOk /\ UNCHANGED taskVars

\* One central at a time: advertising restarts only after a disconnect.
Connect == ~bleConnected /\ BleConnect /\ UNCHANGED taskVars

Disconnect == bleConnected /\ BleDisconnect /\ UNCHANGED taskVars

-----------------------------------------------------------------------------
(* missionTask.                                                            *)

\* A command of the dashboard, dispatched by CommandHandler::handleJson.
Dispatch(c, r) ==
  \/ c = "arm" /\ \E s \in Sids \cup {NoSid} : CmdArm(s, r)
  \/ c = "disarm" /\ \E s \in Sids \cup {NoSid} : CmdDisarm(s, r)
  \/ c = "prepare_recording" /\ CmdPrepareRecording(r)
  \/ c = "start_recording" /\ CmdStartRecording(r)
  \/ c = "stop_recording" /\ CmdStopRecording(r)
  \/ c = "start_countdown" /\ \E d \in IgnitionTimes \ {Never} : CmdStartCountdown(d, r)
  \/ c = "update_countdown" /\ \E d \in IgnitionTimes : CmdUpdateCountdown(d, r)
  \/ c = "set_expected_ignition" /\ \E d \in IgnitionTimes : CmdSetExpectedIgnition(d, r)
  \/ c = "cancel_countdown" /\ CmdCancelCountdown(r)
  \/ c = "abort" /\ CmdAbort(r)
  \/ c = "reset" /\ CmdReset(FALSE, r)
  \/ c = "reset_force" /\ CmdReset(TRUE, r)

\* missionTask is not inside cmdStartRecording().
MissionTaskFree == Booted /\ starting = "no"

Command ==
  /\ MissionTaskFree
  /\ \E c \in Commands, r \in CmdResult :
       /\ Dispatch(c, r)
       /\ stranded' = IF c = "prepare_recording" /\ r = "ACK" /\ Unanswered
                        THEN "prepare" ELSE stranded
  /\ UNCHANGED <<detected, forced, storagePc, sessionOpen, due, overtaken>>

\* ground_test: the injected phase freezes the detector for good.
GroundTest(p) ==
  /\ MissionTaskFree
  /\ "ground_test" \in Commands
  /\ detected' = p
  /\ forced' = TRUE
  /\ SetFlightPhase(p)
  /\ UNCHANGED <<storagePc, sessionOpen, due, overtaken, stranded>>

\* missionTask calls tick(), which may begin a start.
MissionTick ==
  /\ MissionTaskFree
  /\ \E exact \in BOOLEAN :
       \/ LeadStart(exact) /\ UNCHANGED due
       \/ Tick(exact) /\ due' = due \ {"mission"}
  /\ UNCHANGED <<detected, forced, storagePc, sessionOpen, overtaken, stranded>>

\* The second half of a start, which storageTask may have overtaken.
MissionStarts ==
  /\ FinishStart
  /\ overtaken' = FALSE
  /\ stranded' = IF (overtaken /\ ~StartAhead) \/ Running(recording)
                   THEN "start" ELSE stranded
  /\ due' = IF starting = "tick" THEN due \ {"mission"} ELSE due
  /\ UNCHANGED <<detected, forced, storagePc, sessionOpen>>

-----------------------------------------------------------------------------
(* sensorTask.                                                             *)

\* A sample on which FlightDetect::update() left its phase for p.  The care
\* flag it needs was read earlier, and may have fallen since.
Detect(p) ==
  /\ Booted
  /\ ~forced
  /\ p \in Successors[detected]
  /\ detected' = p
  /\ SetFlightPhase(p)
  /\ UNCHANGED <<forced, storagePc, sessionOpen, due, overtaken, stranded>>

\* A ground test ran between update() and setFlightPhase(): the sample passes
\* the injected phase on once more.
ReportAgain(p) ==
  /\ Booted
  /\ forced /\ detected = p
  /\ SetFlightPhase(p)
  /\ UNCHANGED taskVars

-----------------------------------------------------------------------------
(* storageTask: one pass is start, (mark), stop, (mark).                   *)

StorageStart_FailureSilent ==
  /\ Booted
  /\ storagePc = "start"
  /\ ConsumeStart
  /\ \E ok \in SdOutcomes :
       /\ sessionOpen' = (sessionOpen \/ ok)
       /\ storagePc' = IF sessionOpen' THEN "markActive" ELSE "stop"
  /\ stranded' = IF sessionOpen THEN stranded ELSE "no"
  /\ overtaken' = (starting # "no")
  /\ UNCHANGED <<detected, forced, due>>

StorageStart_FailureIgnored ==
  /\ Booted
  /\ storagePc = "start"
  /\ ConsumeStart
  /\ \E ok \in SdOutcomes : sessionOpen' = (sessionOpen \/ ok)
  /\ storagePc' = "markActive"
  /\ stranded' = IF sessionOpen THEN stranded ELSE "no"
  /\ overtaken' = (starting # "no")
  /\ UNCHANGED <<detected, forced, due>>

\* consumeStartRecording() and openSession(), which an open session skips.
StorageStart ==
  /\ Booted
  /\ storagePc = "start"
  /\ ConsumeStart
  /\ \E ok \in SdOutcomes :
       /\ sessionOpen' = (sessionOpen \/ ok)
       /\ storagePc' = IF sessionOpen' THEN "markActive" ELSE "markFailed"
  /\ stranded' = IF sessionOpen THEN stranded ELSE "no"
  /\ overtaken' = (starting # "no")
  /\ UNCHANGED <<detected, forced, due>>

StorageNoStart ==
  /\ Booted
  /\ storagePc = "start"
  /\ ~requestStart
  /\ storagePc' = "stop"
  /\ UNCHANGED fsmVars
  /\ UNCHANGED <<detected, forced, sessionOpen, due, overtaken, stranded>>

StorageMarkActive ==
  /\ storagePc = "markActive"
  /\ storagePc' = "stop"
  /\ MarkRecordingActive
  /\ UNCHANGED <<detected, forced, sessionOpen, due, overtaken, stranded>>

StorageMarkFailed ==
  /\ storagePc = "markFailed"
  /\ storagePc' = "stop"
  /\ MarkRecordingFailed
  /\ UNCHANGED <<detected, forced, sessionOpen, due, overtaken, stranded>>

\* consumeStopRecording(), CameraRecorder::stop() and closeSession().
StorageStop ==
  /\ storagePc = "stop"
  /\ ConsumeStop
  /\ sessionOpen' = FALSE
  /\ storagePc' = "markStopped"
  /\ UNCHANGED <<detected, forced, due, overtaken, stranded>>

\* No stop requested: the pass ends.
StorageNoStop ==
  /\ storagePc = "stop"
  /\ ~requestStop
  /\ storagePc' = "start"
  /\ due' = due \ {"storage"}
  /\ UNCHANGED fsmVars
  /\ UNCHANGED <<detected, forced, sessionOpen, overtaken, stranded>>

StorageMarkStopped ==
  /\ storagePc = "markStopped"
  /\ storagePc' = "start"
  /\ due' = due \ {"storage"}
  /\ MarkRecordingStopped
  /\ stranded' = "no"
  /\ UNCHANGED <<detected, forced, sessionOpen, overtaken>>

StorageStep ==
  \/ StorageStart \/ StorageNoStart \/ StorageMarkActive \/ StorageMarkFailed
  \/ StorageStop \/ StorageNoStop \/ StorageMarkStopped

-----------------------------------------------------------------------------
(* Time.  A unit is longer than the watchdog allows a task to go without   *)
(* completing a pass: time passes only when both tasks have run.           *)

ClockAdvance ==
  /\ Booted
  /\ due = {}
  /\ due' = {"mission", "storage"}
  /\ TimePasses
  /\ UNCHANGED <<detected, forced, storagePc, sessionOpen, overtaken, stranded>>

Next ==
  \/ SelfTestDone
  \/ Connect
  \/ Disconnect
  \/ Command
  \/ \E p \in {"LIFTOFF", "LANDED"} : GroundTest(p) \/ ReportAgain(p)
  \/ \E p \in FlightPhase : Detect(p)
  \/ MissionTick
  \/ MissionStarts
  \/ StorageStep
  \/ ClockAdvance

Spec == Init /\ [][Next]_vars

\* The scheduler and the watchdog keep missionTask and storageTask running,
\* and time does not stop.  missionTask calls tick() in every pass, and the watchdog
\* ends a pass that commands keep from getting there; a command may be in the middle
\* of a start, so tick() is off and on.  Nothing is assumed of dashboards, samples
\* or BLE.
Fairness ==
  /\ WF_vars(SelfTestDone)
  /\ WF_vars(MissionStarts)
  /\ SF_vars(MissionTick /\ "mission" \in due)
  /\ WF_vars(StorageStep)
  /\ WF_vars(ClockAdvance)

FairSpec == Spec /\ Fairness

-----------------------------------------------------------------------------
(* Safety: the flight.                                                     *)

\* The lifted_off flag, the mission label and the command guards that read one
\* or the other agree: once the self test is over the flag is set exactly in
\* the flight states and LANDED, whatever order detector and commands ran in.
LiftoffLatched == liftedOff <=> MissionPostLiftoff(mission)

\* No step but a forced reset takes a mission in flight to a state that
\* says it never launched (abort, cancel, disarm, BLE loss, tick, marks).
FlightNotForgotten ==
  [][MissionInFlight(mission) => MissionPostLiftoff(mission') \/ CmdReset(TRUE, "ACK")]_vars

\* The flight cycle of FlightLifecycle, as the mission state shows it.
Life == IF MissionInFlight(mission) THEN "flight"
        ELSE IF mission = "LANDED" THEN "landed" ELSE "ground"

Lifecycle == INSTANCE FlightLifecycle
  WITH life <- Life, ForcedResets <- "reset_force" \in Commands

\* The recorder implements FlightLifecycle: no interleaving skips the flight,
\* repeats it or returns from it, and without forced resets the only way back
\* to the ground is a reset after the landing.
ImplementsLifecycle == Lifecycle!Spec

\* While the mission or the phase says that the rocket flies, nothing asks the
\* storage task to stop, except the safety cap of tick() and a forced reset; and,
\* when only the phase says so, a disarm, which does not ask it, and the window
\* of a landing before.
FlightKeepsRecording ==
  [][(MissionInFlight(mission) \/ PhaseInFlight(phase)) /\ ~requestStop /\ requestStop' =>
       \/ recordingAge >= MaxMissionRecord
       \/ CmdReset(TRUE, "ACK")
       \/ /\ ~MissionInFlight(mission)
          /\ PostLandingOver \/ \E s \in Sids \cup {NoSid} : CmdDisarm(s, "ACK")]_vars

\* A flight the detector sees and the mission does not: types.h, phaseInFlight,
\* has the mission at ARMED while the phase reads DESCENT.
FlightUnseen == PhaseInFlight(detected) /\ ~MissionInFlight(mission)

\* The mission and the detector keep a phase each, and cmdDisarm, cmdAbort and
\* cmdReset do not ask the same one.  A mission in flight shows the detector's own
\* phase; and the mission loses sight of a flight, the case that types.h has the
\* guards consult both for, by a forced reset or a ground test and by nothing else:
\* no order of samples, commands and reports makes it miss a liftoff.
PhasesAgree ==
  /\ [](MissionInFlight(mission) => PhaseInFlight(detected) /\ phase = detected)
  /\ [][~FlightUnseen /\ FlightUnseen' => CmdReset(TRUE, "ACK") \/ forced']_vars

\* A countdown state has a running countdown with an instant to wait for, so
\* tick() can always leave COUNTDOWN for IGNITION_EXPECTED.
CountdownHasInstant ==
  mission \in {"COUNTDOWN", "IGNITION_EXPECTED"} => countdownOn /\ ignitionIn # Never

\* A BLE connection that is lost never shows as CONNECTED, even when connect,
\* self test, reset and disarm interleave.
ConnectedMeansLink == mission = "CONNECTED" => bleConnected

-----------------------------------------------------------------------------
(* Safety: the recording and its session.                                  *)

\* The post-landing window exists only after a landing that is timed, so that
\* tick() can end it.
PostLandingIsTimed ==
  recording = "POST_LANDING" => mission = "LANDED" /\ landedAge # Unset

\* A recording reported as running has its files open, up to the instant
\* between closeSession() and markRecordingStopped(), and has a start time
\* for the safety cap.
RecordingHasSession ==
  recording \in {"ACTIVE", "POST_LANDING"} =>
    /\ sessionOpen \/ storagePc = "markStopped"
    /\ recordingAge # Unset

\* A recording that is STOPPING has its stop request pending or just being
\* served: it cannot hang there.
StoppingIsServed ==
  recording = "STOPPING" => requestStop \/ storagePc = "markStopped"

\* An open session that nobody has asked to stop shows as a running recording,
\* which tick() watches, unless a late or a prepared PREPARING was written over it.
NoOrphanSession ==
  sessionOpen /\ ~requestStop /\ storagePc # "markActive" =>
    Running(recording) \/ (recording = "PREPARING" /\ stranded # "no")

\* PREPARING has a start request, or the mark that ends it, ahead: a recording
\* hangs there only when prepare_recording wrote it, which requests nothing, or a
\* start that the storage task had answered before it came to write it.
PreparingIsServed == recording = "PREPARING" => StartAhead \/ stranded # "no"

\* No session outlives the cap by more than the unit the tasks need to notice it
\* and close the files, unless PREPARING was written over its running recording.
SessionIsCapped ==
  sessionOpen /\ stranded = "no" => recordingAge <= MaxMissionRecord + 1

\* config.h, "10 min hard safety cap": a session whose starts ran in order is
\* closed by then, whatever else the dashboard sends.
HardSafetyCap ==
  sessionOpen /\ stranded # "start" => recordingAge <= MaxMissionRecord + 1

\* The recording after a landing stops when its window is over, whatever the
\* dashboard does.
PostLandingEnds == recording = "POST_LANDING" => landedAge <= PostLandingRecord

\* A device that a dashboard can count down has a detector that can still see
\* the liftoff.
ArmedDetectsLiftoff == mission \in PadStates => detected = "PRELAUNCH"

-----------------------------------------------------------------------------
(* Liveness, under FairSpec.                                               *)

\* Every session is closed in the end, by a stop, by the window after the landing
\* or by the safety cap, unless PREPARING is written over its running recording.
SessionsClose == sessionOpen /\ stranded = "no" ~> ~sessionOpen \/ stranded # "no"

\* Every accepted start is answered: PREPARING is left for an open session or a
\* failure, unless the answer came before PREPARING was written.
StartsAreServed ==
  recording = "PREPARING" /\ stranded = "no" ~> recording # "PREPARING" \/ stranded # "no"

\* A countdown whose instant has come leaves COUNTDOWN, unless a dashboard
\* moves the instant again.
IgnitionIsReached ==
  mission = "COUNTDOWN" /\ ignitionIn <= 0 ~> mission # "COUNTDOWN" \/ ignitionIn > 0

=============================================================================
