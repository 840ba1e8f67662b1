----------------------------- MODULE MissionFsm -----------------------------
(***************************************************************************)
(* src/mission_fsm.cpp: the mission state machine and its handlers.        *)
(*                                                                         *)
(* The module defines the state and one action per handler; it has no Next *)
(* of its own, because the handlers are called by other tasks: module      *)
(* FlightRecorder composes them with the sensor and storage tasks.         *)
(*                                                                         *)
(* A command action takes the CmdResult r that the handler returns, so     *)
(* that a refused command is visible as such.                              *)
(*                                                                         *)
(* A handler is one step, except for cmdStartRecording(): it raises the    *)
(* request that storageTask polls on the other core, copies a string, logs *)
(* an event and only then writes PREPARING.  StartRecording is the part up *)
(* to the request, FinishStart the rest with what its caller has left.     *)
(*                                                                         *)
(* Time.  Absolute timestamps are kept as distances in whole units, so     *)
(* that no clock ever runs out: ignitionIn counts down to the expected     *)
(* ignition, landedAge and recordingAge count up from landing and from the *)
(* start of the recording.  An instant is rounded down to the start of its *)
(* unit.  The countdown start, the countdown duration, the liftoff instant *)
(* and the reason strings only go into metadata.json and are left out.     *)
(*                                                                         *)
(* A definition named X_Fault is a variant of X with a plausible bug.  No  *)
(* other definition uses it: a run of the model with X_Fault in the place  *)
(* of X must break the property that guards against that bug.              *)
(***************************************************************************)
EXTENDS Integers, MissionTypes

CONSTANTS
  Sids,                   \* dashboard session ids
  NoSid,                  \* the empty session id
  Horizon,                \* largest distance to an expected ignition
  RecordingLeadBeforeIgn, \* RECORDING_LEAD_BEFORE_IGN_MS
  PostLandingRecord,      \* POST_LANDING_RECORD_MS
  MaxMissionRecord        \* MAX_MISSION_RECORD_MS

ASSUME SidAssumption == NoSid \notin Sids
ASSUME HorizonAssumption == Horizon \in Nat
ASSUME LeadAssumption == RecordingLeadBeforeIgn \in Nat
ASSUME PostLandingAssumption == PostLandingRecord \in Nat \ {0}
ASSUME MaxRecordAssumption == MaxMissionRecord \in Nat \ {0}

VARIABLES
  mission,       \* mission
  recording,     \* recording
  phase,         \* phase: the flight phase last accepted by setFlightPhase
  owner,         \* owner: sid of the dashboard that armed the device
  ignitionIn,    \* expected_ign_mono_ms as a distance from now
  countdownOn,   \* countdown_on
  liftedOff,     \* lifted_off
  landedAge,     \* landed_at_mono_ms as an age
  recordingAge,  \* recording_started_mono_ms as an age
  bleConnected,  \* ble_connected
  requestStart,  \* request_start_recording
  requestStop,   \* request_stop_recording
  starting       \* the caller of a cmdStartRecording() that is past its request

fsmVars == <<mission, recording, phase, owner, ignitionIn, countdownOn, liftedOff,
             landedAge, recordingAge, bleConnected, requestStart, requestStop, starting>>

Never == Horizon + 1   \* expected_ign_mono_ms = -1: no ignition is expected
Past == -1             \* the expected ignition lies in an earlier unit
Unset == -1            \* landed_at_mono_ms, recording_started_mono_ms = -1

IgnitionDistance == Past .. Horizon

FsmTypeOK ==
  /\ mission \in MissionState
  /\ recording \in RecordingState
  /\ phase \in FlightPhase
  /\ owner \in Sids \cup {NoSid}
  /\ ignitionIn \in Past .. Never
  /\ landedAge \in Unset .. PostLandingRecord + 1
  /\ recordingAge \in Unset .. MaxMissionRecord + 2
  /\ countdownOn \in BOOLEAN
  /\ liftedOff \in BOOLEAN
  /\ bleConnected \in BOOLEAN
  /\ requestStart \in BOOLEAN
  /\ requestStop \in BOOLEAN
  /\ starting \in {"no", "command", "tick"}

\* begin() followed by advanceFromBoot(), before BleServer::begin().
FsmInit ==
  /\ mission = "SELF_TEST"
  /\ recording = "IDLE"
  /\ phase = "PRELAUNCH"
  /\ owner = NoSid
  /\ ignitionIn = Never
  /\ countdownOn = FALSE
  /\ liftedOff = FALSE
  /\ landedAge = Unset
  /\ recordingAge = Unset
  /\ bleConnected = FALSE
  /\ requestStart = FALSE
  /\ requestStop = FALSE
  /\ starting = "no"

-----------------------------------------------------------------------------
(* Helpers shared by the handlers.                                         *)

RecordingActive_NotPostLanding(rec) == rec \in {"ACTIVE", "PREPARING"}

\* recordingActive()
RecordingActive(rec) == rec \in {"ACTIVE", "POST_LANDING", "PREPARING"}

Running_NotActive(rec) == rec = "POST_LANDING"

\* The recordings cmdStartRecording() leaves alone.
Running(rec) == rec \in {"ACTIVE", "POST_LANDING"}

\* The state disarm and reset return to.
GroundState == IF bleConnected THEN "CONNECTED" ELSE "IDLE"

\* setOwner(): an empty sid leaves the owner alone.
SetOwner(s) == owner' = IF s = NoSid THEN owner ELSE s

\* The mission state after cmdStartRecording() is accepted in state m.
MissionAfterStart(m) ==
  IF m \in {"ARMED", "CONNECTED", "IDLE", "ABORTED"} THEN "RECORDING" ELSE m

StartRecording_NoRequest(m) ==
  /\ mission' = m
  /\ starting' = IF Running(recording) THEN starting ELSE "command"
  /\ UNCHANGED <<recording, requestStart>>

\* cmdStartRecording() up to its request, called by a command with the mission
\* in state m.
StartRecording(m) ==
  /\ mission' = m
  /\ IF Running(recording)
       THEN UNCHANGED <<requestStart, starting>>
       ELSE requestStart' = TRUE /\ starting' = "command"
  /\ UNCHANGED recording

RequestStop_NoFlag ==
  /\ recording' = "STOPPING"
  /\ UNCHANGED requestStop

\* The stop that disarm, stop, reset and the two timeouts request.
RequestStop ==
  /\ recording' = "STOPPING"
  /\ requestStop' = TRUE

-----------------------------------------------------------------------------
(* Events from the other tasks.                                            *)

\* advanceSelfTestOk()
AdvanceSelfTestOk ==
  /\ mission = "SELF_TEST"
  /\ mission' = "IDLE"
  /\ UNCHANGED <<recording, phase, owner, ignitionIn, countdownOn, liftedOff,
                 landedAge, recordingAge, bleConnected, requestStart, requestStop,
                 starting>>

\* setBluetoothConnected(TRUE)
BleConnect ==
  /\ bleConnected' = TRUE
  /\ mission' = IF mission = "IDLE" THEN "CONNECTED" ELSE mission
  /\ UNCHANGED <<recording, phase, owner, ignitionIn, countdownOn, liftedOff,
                 landedAge, recordingAge, requestStart, requestStop, starting>>

MissionAfterDisconnect_Kept == mission

\* The mission state after setBluetoothConnected(FALSE).
MissionAfterDisconnect == IF mission = "CONNECTED" THEN "IDLE" ELSE mission

\* setBluetoothConnected(FALSE)
BleDisconnect ==
  /\ bleConnected' = FALSE
  /\ mission' = MissionAfterDisconnect
  /\ UNCHANGED <<recording, phase, owner, ignitionIn, countdownOn, liftedOff,
                 landedAge, recordingAge, requestStart, requestStop, starting>>

PhaseLabel_NoImpact(p) ==
  IF p \in {"LIFTOFF", "POWERED_ASCENT"} THEN "ASCENT" ELSE p

MissionFollows_NotAborted(p) ==
  CASE p \in {"LIFTOFF", "POWERED_ASCENT"} -> mission \in PadStates
    [] p = "LANDED"                        -> MissionPostLiftoff(mission)
    [] OTHER                               -> MissionInFlight(mission)

MissionFollows_AnyLanding(p) ==
  CASE p \in {"LIFTOFF", "POWERED_ASCENT"} -> ~MissionPostLiftoff(mission)
    [] p = "LANDED"                        -> TRUE
    [] OTHER                               -> MissionInFlight(mission)

\* The mission state setFlightPhase() gives a phase, and whether it applies.
PhaseLabel(p) ==
  CASE p \in {"LIFTOFF", "POWERED_ASCENT"} -> "ASCENT"
    [] p \in {"DESCENT", "IMPACT"}         -> "DESCENT"
    [] OTHER                               -> p

MissionFollows(p) ==
  CASE p \in {"LIFTOFF", "POWERED_ASCENT"} -> ~MissionPostLiftoff(mission)
    [] p = "LANDED"                        -> MissionPostLiftoff(mission)
    [] OTHER                               -> MissionInFlight(mission)

\* The recording after a landing: only an ACTIVE one gets the final window.
RecordingAfterLanding(rec) == IF rec = "ACTIVE" THEN "POST_LANDING" ELSE rec

\* setFlightPhase(p) for the phases its callers pass (never PRELAUNCH).
SetFlightPhase(p) ==
  /\ phase' = p
  /\ IF p = phase
       THEN UNCHANGED <<mission, recording, liftedOff, landedAge>>
       ELSE /\ mission' = IF MissionFollows(p) THEN PhaseLabel(p) ELSE mission
            /\ liftedOff' = (liftedOff \/ p \in {"LIFTOFF", "POWERED_ASCENT"})
            /\ IF p = "LANDED" /\ MissionFollows(p)
                 THEN /\ landedAge' = 0
                      /\ recording' = RecordingAfterLanding(recording)
                 ELSE UNCHANGED <<landedAge, recording>>
  /\ UNCHANGED <<owner, ignitionIn, countdownOn, recordingAge, bleConnected,
                 requestStart, requestStop, starting>>

-----------------------------------------------------------------------------
(* Commands, called from CommandHandler::handleJson.                       *)

\* cmdArm(s)
CmdArm(s, r) ==
  \/ /\ r = "REJECTED"
     /\ mission \notin PadStates \cup {"IDLE", "CONNECTED", "ABORTED"}
     /\ UNCHANGED fsmVars
  \/ /\ r = "IGNORED"
     /\ mission \in PadStates
     /\ SetOwner(s)
     /\ UNCHANGED <<mission, recording, phase, ignitionIn, countdownOn, liftedOff,
                    landedAge, recordingAge, bleConnected, requestStart, requestStop,
                 starting>>
  \/ /\ r = "ACK"
     /\ mission \in {"IDLE", "CONNECTED", "ABORTED"}
     /\ SetOwner(s)
     /\ StartRecording("ARMED")
     /\ UNCHANGED <<phase, ignitionIn, countdownOn, liftedOff, landedAge,
                    recordingAge, bleConnected, requestStop>>

DisarmRefused_AfterLanding(s) ==
  \/ mission = "LANDED"
  \/ owner # NoSid /\ owner # s

\* The guard that opens cmdDisarm(s).
DisarmRefused(s) ==
  \/ MissionPostLiftoff(mission)
  \/ owner # NoSid /\ owner # s

\* cmdDisarm(s)
CmdDisarm(s, r) ==
  \/ /\ r = "REJECTED"
     /\ DisarmRefused(s)
     /\ UNCHANGED fsmVars
  \/ /\ r = "IGNORED"
     /\ ~DisarmRefused(s)
     /\ mission \in {"IDLE", "CONNECTED"}
     /\ UNCHANGED fsmVars
  \/ /\ r = "ACK"
     /\ ~DisarmRefused(s)
     /\ mission \notin {"IDLE", "CONNECTED"}
     /\ IF RecordingActive(recording)
          THEN RequestStop
          ELSE UNCHANGED <<recording, requestStop>>
     /\ mission' = GroundState
     /\ owner' = NoSid
     /\ ignitionIn' = Never
     /\ countdownOn' = FALSE
     /\ UNCHANGED <<phase, liftedOff, landedAge, recordingAge, bleConnected,
                    requestStart, starting>>

\* cmdPrepareRecording(): no request flag is raised.
CmdPrepareRecording(r) ==
  \/ /\ r = "IGNORED"
     /\ recording \in {"ACTIVE", "PREPARING"}
     /\ UNCHANGED fsmVars
  \/ /\ r = "REJECTED"
     /\ recording \notin {"ACTIVE", "PREPARING"}
     /\ MissionInFlight(mission)
     /\ UNCHANGED fsmVars
  \/ /\ r = "ACK"
     /\ recording \notin {"ACTIVE", "PREPARING"}
     /\ ~MissionInFlight(mission)
     /\ recording' = "PREPARING"
     /\ UNCHANGED <<mission, phase, owner, ignitionIn, countdownOn, liftedOff,
                    landedAge, recordingAge, bleConnected, requestStart, requestStop,
                 starting>>

\* cmdStartRecording()
CmdStartRecording(r) ==
  /\ r = IF Running(recording) THEN "IGNORED" ELSE "ACK"
  /\ StartRecording(mission)
  /\ UNCHANGED <<phase, owner, ignitionIn, countdownOn, liftedOff, landedAge,
                 recordingAge, bleConnected, requestStop>>

StopRefused_MissionOnly == MissionInFlight(mission)

\* The guard that opens cmdStopRecording(); its force argument is never TRUE.
StopRefused == MissionInFlight(mission) \/ PhaseInFlight(phase)

\* cmdStopRecording()
CmdStopRecording(r) ==
  \/ /\ r = "REJECTED"
     /\ StopRefused
     /\ UNCHANGED fsmVars
  \/ /\ r = "IGNORED"
     /\ ~StopRefused
     /\ recording \in {"IDLE", "STOPPED"}
     /\ UNCHANGED fsmVars
  \/ /\ r = "ACK"
     /\ ~StopRefused
     /\ recording \notin {"IDLE", "STOPPED"}
     /\ RequestStop
     /\ UNCHANGED <<mission, phase, owner, ignitionIn, countdownOn, liftedOff,
                    landedAge, recordingAge, bleConnected, requestStart, starting>>

CountdownRefused ==
  MissionPostLiftoff(mission) \/ mission \in {"IDLE", "CONNECTED"}

\* cmdStartCountdown() for an ignition d units away.  The handler compares
\* milliseconds to tell a duplicate: the same unit may be either.
CmdStartCountdown(d, r) ==
  \/ /\ r = "REJECTED"
     /\ CountdownRefused
     /\ UNCHANGED fsmVars
  \/ /\ r = "IGNORED"
     /\ ~CountdownRefused
     /\ countdownOn /\ ignitionIn = d
     /\ UNCHANGED fsmVars
  \/ /\ r = "ACK"
     /\ ~CountdownRefused
     /\ countdownOn' = TRUE
     /\ ignitionIn' = d
     /\ IF RecordingActive(recording)
          THEN /\ mission' = "COUNTDOWN"
               /\ UNCHANGED <<recording, requestStart, starting>>
          ELSE StartRecording("COUNTDOWN")
     /\ UNCHANGED <<phase, owner, liftedOff, landedAge, recordingAge, bleConnected,
                    requestStop>>

NoCountdown == ~countdownOn /\ mission \notin {"COUNTDOWN", "IGNITION_EXPECTED"}

\* cmdUpdateCountdown(): d = Never stands for "no usable argument".
CmdUpdateCountdown(d, r) ==
  \/ /\ r = "REJECTED"
     /\ NoCountdown
     /\ UNCHANGED fsmVars
  \/ /\ r = "ACK"
     /\ ~NoCountdown
     /\ ignitionIn' = IF d = Never THEN ignitionIn ELSE d
     /\ UNCHANGED <<mission, recording, phase, owner, countdownOn, liftedOff, landedAge,
                    recordingAge, bleConnected, requestStart, requestStop, starting>>

\* cmdSetExpectedIgnition(): d = Never stands for a negative argument.
CmdSetExpectedIgnition(d, r) ==
  /\ r = IF d = Never THEN "NACK" ELSE "ACK"
  /\ ignitionIn' = IF d = Never THEN ignitionIn ELSE d
  /\ UNCHANGED <<mission, recording, phase, owner, countdownOn, liftedOff, landedAge,
                 recordingAge, bleConnected, requestStart, requestStop, starting>>

MissionAfterCancel_Kept == mission

\* The mission state cmdCancelCountdown() leaves behind.
MissionAfterCancel ==
  IF mission \notin {"COUNTDOWN", "IGNITION_EXPECTED"} THEN mission
  ELSE IF recording = "ACTIVE" THEN "RECORDING" ELSE "ARMED"

\* cmdCancelCountdown(): the expected ignition is kept.
CmdCancelCountdown(r) ==
  \/ /\ r = "IGNORED"
     /\ NoCountdown \/ MissionInFlight(mission)
     /\ UNCHANGED fsmVars
  \/ /\ r = "ACK"
     /\ ~NoCountdown
     /\ ~MissionInFlight(mission)
     /\ countdownOn' = FALSE
     /\ mission' = MissionAfterCancel
     /\ UNCHANGED <<recording, phase, owner, ignitionIn, liftedOff, landedAge,
                    recordingAge, bleConnected, requestStart, requestStop, starting>>

AbortMoves_AfterLiftoff == mission \notin {"SELF_TEST", "IDLE", "CONNECTED"}

\* The missions an abort takes to ABORTED.
AbortMoves ==
  /\ ~liftedOff
  /\ ~MissionPostLiftoff(mission)
  /\ mission \notin {"SELF_TEST", "IDLE", "CONNECTED"}

\* cmdAbort(): always acknowledged, advisory after liftoff.
CmdAbort(r) ==
  /\ r = "ACK"
  /\ countdownOn' = FALSE
  /\ mission' = IF AbortMoves THEN "ABORTED" ELSE mission
  /\ UNCHANGED <<recording, phase, owner, ignitionIn, liftedOff, landedAge,
                 recordingAge, bleConnected, requestStart, requestStop, starting>>

ResetRefused ==
  MissionInFlight(mission) \/ PhaseInFlight(phase) \/ Running(recording)

\* cmdReset(force): recordingAge is kept, and FlightDetect is not told.
CmdReset(force, r) ==
  \/ /\ r = "REJECTED"
     /\ ~force /\ ResetRefused
     /\ UNCHANGED fsmVars
  \/ /\ r = "ACK"
     /\ force \/ ~ResetRefused
     /\ IF RecordingActive(recording) \/ recording = "STOPPING"
          THEN RequestStop
          ELSE UNCHANGED <<recording, requestStop>>
     /\ mission' = GroundState
     /\ phase' = "PRELAUNCH"
     /\ owner' = NoSid
     /\ ignitionIn' = Never
     /\ countdownOn' = FALSE
     /\ liftedOff' = FALSE
     /\ landedAge' = Unset
     /\ UNCHANGED <<recordingAge, bleConnected, requestStart, starting>>

-----------------------------------------------------------------------------
(* The mission task's tick() and the clock.                                *)

\* ensureRecordingLead(): exact says whether this tick reads the very
\* millisecond of the expected ignition, the last one that still counts.
LeadDue(exact) ==
  /\ ~RecordingActive(recording)
  /\ ignitionIn \in 1 .. RecordingLeadBeforeIgn \/ (exact /\ ignitionIn = 0)

IgnitionReached_NotCounting(m) ==
  /\ countdownOn
  /\ ignitionIn <= 0
  /\ ~liftedOff
  /\ m \in {"RECORDING", "ARMED"}

\* The ignition instant is reached with the mission in state m.
IgnitionReached(m) ==
  /\ countdownOn
  /\ ignitionIn <= 0
  /\ ~liftedOff
  /\ m \in {"COUNTDOWN", "RECORDING", "ARMED"}

PostLandingOver_Late ==
  /\ recording = "POST_LANDING"
  /\ landedAge # Unset
  /\ landedAge > PostLandingRecord

PostLandingOver ==
  /\ recording = "POST_LANDING"
  /\ landedAge # Unset
  /\ landedAge >= PostLandingRecord

CapReached_Late ==
  /\ Running(recording)
  /\ recordingAge # Unset
  /\ recordingAge > MaxMissionRecord

CapReached_NotLanded ==
  /\ mission # "LANDED"
  /\ Running(recording)
  /\ recordingAge # Unset
  /\ recordingAge >= MaxMissionRecord

CapReached ==
  /\ Running(recording)
  /\ recordingAge # Unset
  /\ recordingAge >= MaxMissionRecord

\* ensureRecordingLead(), called by tick(), starts the recording.
LeadStart(exact) ==
  /\ LeadDue(exact)
  /\ requestStart' = TRUE
  /\ starting' = "tick"
  /\ UNCHANGED <<mission, recording, phase, owner, ignitionIn, countdownOn, liftedOff,
                 landedAge, recordingAge, bleConnected, requestStop>>

\* tick() when ensureRecordingLead() has nothing to start.
Tick(exact) ==
  /\ ~LeadDue(exact)
  /\ mission' = IF IgnitionReached(mission) THEN "IGNITION_EXPECTED" ELSE mission
  /\ IF PostLandingOver \/ CapReached
       THEN RequestStop
       ELSE UNCHANGED <<recording, requestStop>>
  /\ UNCHANGED <<phase, owner, ignitionIn, countdownOn, liftedOff, landedAge,
                 recordingAge, bleConnected, requestStart, starting>>

\* The rest of cmdStartRecording(), and of the tick() that called it: neither
\* its window nor its cap applies to a recording that is PREPARING.
FinishStart ==
  LET m == MissionAfterStart(mission)
  IN  /\ starting # "no"
      /\ starting' = "no"
      /\ recording' = "PREPARING"
      /\ mission' = IF starting = "tick" /\ IgnitionReached(m)
                      THEN "IGNITION_EXPECTED" ELSE m
      /\ UNCHANGED <<phase, owner, ignitionIn, countdownOn, liftedOff, landedAge,
                     recordingAge, bleConnected, requestStart, requestStop>>

\* An age one unit later, saturating at top.
Older(age, top) == IF age = Unset \/ age = top THEN age ELSE age + 1

\* The unit that passes on every distance the handlers read.
TimePasses ==
  /\ ignitionIn' = IF ignitionIn \in {Never, Past} THEN ignitionIn ELSE ignitionIn - 1
  /\ landedAge' = Older(landedAge, PostLandingRecord + 1)
  /\ recordingAge' = Older(recordingAge, MaxMissionRecord + 2)
  /\ UNCHANGED <<mission, recording, phase, owner, countdownOn, liftedOff,
                 bleConnected, requestStart, requestStop, starting>>

-----------------------------------------------------------------------------
(* The storage task's side.                                                *)

\* consumeStartRecording() finding the request.
ConsumeStart ==
  /\ requestStart
  /\ requestStart' = FALSE
  /\ UNCHANGED <<mission, recording, phase, owner, ignitionIn, countdownOn, liftedOff,
                 landedAge, recordingAge, bleConnected, requestStop, starting>>

\* consumeStopRecording() finding the request.
ConsumeStop ==
  /\ requestStop
  /\ requestStop' = FALSE
  /\ UNCHANGED <<mission, recording, phase, owner, ignitionIn, countdownOn, liftedOff,
                 landedAge, recordingAge, bleConnected, requestStart, starting>>

\* markRecordingActive()
MarkRecordingActive ==
  /\ recording' = "ACTIVE"
  /\ recordingAge' = IF recordingAge = Unset THEN 0 ELSE recordingAge
  /\ mission' = IF mission \in {"ARMED", "IDLE", "CONNECTED"} THEN "RECORDING" ELSE mission
  /\ UNCHANGED <<phase, owner, ignitionIn, countdownOn, liftedOff, landedAge,
                 bleConnected, requestStart, requestStop, starting>>

\* markRecordingStopped()
MarkRecordingStopped ==
  /\ recording' = "STOPPED"
  /\ recordingAge' = Unset
  /\ UNCHANGED <<mission, phase, owner, ignitionIn, countdownOn, liftedOff, landedAge,
                 bleConnected, requestStart, requestStop, starting>>

\* markRecordingFailed()
MarkRecordingFailed ==
  /\ recording' = "FAILED"
  /\ UNCHANGED <<mission, phase, owner, ignitionIn, countdownOn, liftedOff, landedAge,
                 recordingAge, bleConnected, requestStart, requestStop, starting>>
=============================================================================
