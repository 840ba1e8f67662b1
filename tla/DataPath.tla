------------------------------ MODULE DataPath ------------------------------
(***************************************************************************)
(* What is recorded on its way to the card: telemetry of sensorTask,       *)
(* frames of cameraTask and event lines of every task, each through a      *)
(* bounded queue to storageTask (storage.cpp, event_log.cpp), and the      *)
(* camera that starts and stops with the session (camera_recorder.cpp).    *)
(*                                                                         *)
(* cameraTask runs on the other core, so its service() is split wherever   *)
(* it meets storageTask.  sensorTask preempts storageTask on the same      *)
(* core: its question for the session and the send are one step.           *)
(*                                                                         *)
(* When a session is asked for, or its end, is left open here, and so is   *)
(* whether the card takes it; FlightRecorder and StorageSession have that. *)
(* Of a frame it is kept whether it was taken before the session that is   *)
(* open, of telemetry and events only how many there are.                  *)
(***************************************************************************)
EXTENDS Integers, Sequences

CONSTANTS
  TelemetryQueueLen,  \* TELEMETRY_RING_SAMPLES
  FrameQueueLen,      \* FRAME_QUEUE_LEN
  EventQueueLen,      \* EVENT_QUEUE_LEN
  LastProfile         \* of kProfiles, counted from 0

ASSUME LengthAssumption ==
  /\ TelemetryQueueLen \in Nat \ {0} /\ FrameQueueLen \in Nat \ {0}
  /\ EventQueueLen \in Nat \ {0}
ASSUME ProfileAssumption == LastProfile \in Nat

VARIABLES
  storagePc,    \* what storageTask does next
  sessionOpen,  \* session_open
  telemetry,    \* how many records telem_q holds
  frameQ,       \* frame_q, as whether each frame is "old" or "new"
  copies,       \* the copies of frames that are allocated in PSRAM
  events,       \* how many lines the queue of the event log holds
  camPc,        \* where cameraTask is in service() and fallbackProfile()
  camState,     \* cam_state
  camRecording, \* recording
  profile,      \* profile
  was,          \* was, of fallbackProfile()
  hand,         \* the frame cameraTask has in hand: "old" or "new"
  stale,        \* history: old frames written to the video since the last stop()
  granted,      \* history: start() found a camera for this session
  revived,      \* history: the last stop() fell into a change of profile
  drained,      \* history: this session has seen a whole taskLoop()
  burst         \* history: lines emitted since taskLoop() last drained them

camVars == <<camPc, camState, camRecording, profile, was>>
frameVars == <<frameQ, copies, hand, stale>>
eventVars == <<events, drained, burst>>
vars == <<storagePc, sessionOpen, telemetry, frameVars, eventVars, camVars,
          granted, revived>>

InFallback == camPc \in {"was", "init", "restart"}

TypeOK ==
  /\ storagePc \in {"start", "opening", "camStart", "stop", "closing", "close",
                    "telemetry", "frames", "events"}
  /\ sessionOpen \in BOOLEAN
  /\ telemetry \in 0 .. TelemetryQueueLen
  /\ frameQ \in Seq({"old", "new"}) /\ Len(frameQ) <= FrameQueueLen
  /\ copies \in 0 .. FrameQueueLen + 1
  /\ events \in 0 .. EventQueueLen /\ burst \in 0 .. EventQueueLen
  /\ camPc \in {"idle", "grab", "copied", "fallback", "was", "init", "restart"}
  /\ camState \in {"READY", "RECORDING", "FALLBACK", "FAILED"}
  /\ profile \in 0 .. LastProfile
  /\ hand \in {"old", "new"}
  /\ stale \in 0 .. FrameQueueLen + 2
  /\ {camRecording, was, granted, revived, drained} \subseteq BOOLEAN

\* begin() takes the first profile the camera accepts.
Init ==
  /\ storagePc = "start" /\ sessionOpen = FALSE
  /\ telemetry = 0 /\ frameQ = <<>> /\ copies = 0 /\ events = 0
  /\ camPc = "idle" /\ camRecording = FALSE /\ was = FALSE /\ hand = "new"
  /\ \/ camState = "READY" /\ profile = 0
     \/ camState = "FALLBACK" /\ profile \in 1 .. LastProfile
     \/ camState = "FAILED" /\ profile = 0
  /\ stale = 0 /\ granted = FALSE /\ revived = FALSE /\ drained = FALSE /\ burst = 0

-----------------------------------------------------------------------------
(* The event log.                                                          *)

AtMost(n, bound) == IF n < bound THEN n ELSE bound

\* emit(), n times: a line that finds the queue full is dropped.
Emits(n) ==
  /\ events' = AtMost(events + n, EventQueueLen)
  /\ burst' = AtMost(burst + n, EventQueueLen)

MayEmit == Emits(1) \/ UNCHANGED <<events, burst>>

\* Something else than the steps below logs a line.
Emit ==
  /\ Emits(1)
  /\ UNCHANGED <<storagePc, sessionOpen, telemetry, frameVars, camVars, granted,
                 revived, drained>>

LinesLeft_OnePerPass == AtMost(events, events - 1)

\* pop() until the queue is empty
LinesLeft == 0

\* serviceEvents(): without a session the lines wait for the next one.
ServiceEvents ==
  /\ events' = IF sessionOpen THEN LinesLeft ELSE events
  /\ burst' = IF sessionOpen THEN 0 ELSE burst

-----------------------------------------------------------------------------
(* The camera: start() and stop(), which both tasks call.                  *)

CameraStart ==
  IF camState = "FAILED"
    THEN UNCHANGED <<camRecording, camState>>
    ELSE camRecording' = TRUE /\ camState' = "RECORDING"

CameraStop ==
  /\ camRecording' = FALSE
  /\ camState' = IF camState # "RECORDING" THEN camState
                 ELSE IF profile = 0 THEN "READY" ELSE "FALLBACK"

-----------------------------------------------------------------------------
(* sensorTask.                                                             *)

\* isSessionOpen() and enqueueTelemetry(): a full queue drops the newest record.
Sampled == IF sessionOpen THEN AtMost(telemetry + 1, TelemetryQueueLen) ELSE telemetry

Sample ==
  /\ telemetry' = Sampled
  /\ UNCHANGED <<storagePc, sessionOpen, frameVars, eventVars, camVars, granted, revived>>

-----------------------------------------------------------------------------
(* storageTask: one pass.                                                  *)

StorageGoes(from, to) == storagePc = from /\ storagePc' = to

\* No start is asked for, or a session is open already.
NoStart ==
  /\ StorageGoes("start", "stop")
  /\ UNCHANGED <<sessionOpen, telemetry, frameVars, eventVars, camVars, granted, revived>>

\* openSession() fails and logs it, and storageTask does, too.
OpenFails ==
  /\ StorageGoes("start", "stop")
  /\ ~sessionOpen
  /\ \E n \in 1 .. 2 : Emits(n)
  /\ UNCHANGED <<sessionOpen, telemetry, frameVars, camVars, granted, revived, drained>>

\* openSession() creates the directory and its files.
OpenFiles ==
  /\ StorageGoes("start", "opening")
  /\ ~sessionOpen
  /\ UNCHANGED <<sessionOpen, telemetry, frameVars, eventVars, camVars, granted, revived>>

\* The end of openSession().  The frames on their way belong to no session, or
\* to an earlier one.
SetOpen ==
  /\ StorageGoes("opening", "camStart")
  /\ sessionOpen' = TRUE
  /\ frameQ' = [i \in DOMAIN frameQ |-> "old"]
  /\ hand' = "old"
  /\ drained' = FALSE
  /\ Emits(1)
  /\ UNCHANGED <<telemetry, copies, stale, camVars, granted, revived>>

\* CameraRecorder::start() of storageTask; nobody looks at what it returns.
StartCamera ==
  /\ StorageGoes("camStart", "stop")
  /\ CameraStart
  /\ granted' = (camState # "FAILED")
  /\ UNCHANGED <<sessionOpen, telemetry, frameVars, eventVars, camPc, profile, was, revived>>

NoStop ==
  /\ StorageGoes("stop", "telemetry")
  /\ UNCHANGED <<sessionOpen, telemetry, frameVars, eventVars, camVars, granted, revived>>

\* CameraRecorder::stop() of storageTask, with or without a session.
StopCamera ==
  /\ StorageGoes("stop", IF sessionOpen THEN "closing" ELSE "telemetry")
  /\ CameraStop
  /\ revived' = (InFallback /\ was)
  /\ stale' = 0
  /\ UNCHANGED <<sessionOpen, telemetry, frameQ, copies, hand, eventVars, camPc, profile,
                 was, granted>>

\* closeSession(): serviceEvents(), and then the files are flushed.
CloseFlush ==
  /\ StorageGoes("closing", "close")
  /\ ServiceEvents
  /\ UNCHANGED <<sessionOpen, telemetry, frameVars, camVars, granted, revived, drained>>

SetClosed ==
  /\ StorageGoes("close", "telemetry")
  /\ sessionOpen' = FALSE
  /\ Emits(1)
  /\ UNCHANGED <<telemetry, frameVars, camVars, granted, revived, drained>>

TelemetryLeft_Session == IF sessionOpen THEN 0 ELSE telemetry

\* taskLoop() empties the queue also when there is no file to write it to.
TelemetryLeft == 0

DrainTelemetry ==
  /\ StorageGoes("telemetry", "frames")
  /\ telemetry' = TelemetryLeft
  /\ UNCHANGED <<sessionOpen, frameVars, eventVars, camVars, granted, revived>>

\* taskLoop(): a frame is written, if there is a session, and freed.
DrainFrame ==
  /\ storagePc = "frames"
  /\ frameQ # <<>>
  /\ stale' = IF sessionOpen /\ Head(frameQ) = "old"
                THEN AtMost(stale + 1, FrameQueueLen + 2) ELSE stale
  /\ frameQ' = Tail(frameQ)
  /\ copies' = copies - 1
  /\ UNCHANGED <<storagePc, sessionOpen, telemetry, hand, eventVars, camVars, granted, revived>>

MoreFrames_Session == frameQ # <<>> /\ sessionOpen

MoreFrames == frameQ # <<>>

DrainedFrames ==
  /\ StorageGoes("frames", "events")
  /\ ~MoreFrames
  /\ UNCHANGED <<sessionOpen, telemetry, frameVars, eventVars, camVars, granted, revived>>

DrainEvents ==
  /\ StorageGoes("events", "start")
  /\ ServiceEvents
  /\ drained' = (drained \/ sessionOpen)
  /\ UNCHANGED <<sessionOpen, telemetry, frameVars, camVars, granted, revived>>

StorageStep ==
  \/ NoStart \/ OpenFails \/ OpenFiles \/ SetOpen \/ StartCamera
  \/ NoStop \/ StopCamera \/ CloseFlush \/ SetClosed
  \/ DrainTelemetry \/ DrainFrame \/ DrainedFrames \/ DrainEvents

-----------------------------------------------------------------------------
(* cameraTask: service() and fallbackProfile().                            *)

CamGoes(from, to) == camPc = from /\ camPc' = to

CameraLooks ==
  /\ CamGoes("idle", "grab")
  /\ camRecording
  /\ UNCHANGED <<storagePc, sessionOpen, telemetry, frameVars, eventVars, camState,
                 camRecording, profile, was, granted, revived>>

\* No frame, or no memory for its copy.  After 30 times without a frame, which is
\* logged, or with too few in a second the next profile is tried.
NoFrame ==
  /\ CamGoes("grab", "idle") \/ CamGoes("grab", "fallback")
  /\ MayEmit
  /\ UNCHANGED <<storagePc, sessionOpen, telemetry, frameVars, camState, camRecording,
                 profile, was, granted, revived, drained>>

\* A frame, and a copy of it in PSRAM; the first one's size may call for a warning.
Grab ==
  /\ CamGoes("grab", "copied")
  /\ camState # "FAILED"
  /\ hand' = "new"
  /\ copies' = copies + 1
  /\ MayEmit
  /\ UNCHANGED <<storagePc, sessionOpen, telemetry, frameQ, stale, camState,
                 camRecording, profile, was, granted, revived, drained>>

\* Once a second the frame rate is looked at.
WindowEnds == \/ CamGoes("copied", "idle") \/ CamGoes("copied", "fallback")

CopiesLeft_FullKept == copies

\* A copy that finds the queue full is freed again.
CopiesLeft == IF Len(frameQ) < FrameQueueLen THEN copies ELSE copies - 1

SendFrame ==
  /\ WindowEnds
  /\ frameQ' = IF Len(frameQ) < FrameQueueLen THEN Append(frameQ, hand) ELSE frameQ
  /\ copies' = CopiesLeft
  /\ UNCHANGED <<storagePc, sessionOpen, telemetry, hand, stale, eventVars, camState,
                 camRecording, profile, was, granted, revived>>

HasNextProfile_OffByOne == profile <= LastProfile

HasNextProfile == profile < LastProfile

NoFallback ==
  /\ CamGoes("fallback", "idle")
  /\ ~HasNextProfile
  /\ UNCHANGED <<storagePc, sessionOpen, telemetry, frameVars, eventVars, camState,
                 camRecording, profile, was, granted, revived>>

FallbackReads ==
  /\ CamGoes("fallback", "was")
  /\ HasNextProfile
  /\ was' = camRecording
  /\ UNCHANGED <<storagePc, sessionOpen, telemetry, frameVars, eventVars, camState,
                 camRecording, profile, granted, revived>>

FallbackStops ==
  /\ CamGoes("was", "init")
  /\ IF was THEN CameraStop ELSE UNCHANGED <<camRecording, camState>>
  /\ UNCHANGED <<storagePc, sessionOpen, telemetry, frameVars, eventVars, profile, was,
                 granted, revived>>

\* initCamera() takes the next profile, perhaps with a warning, or fails and logs it.
FallbackInits ==
  /\ \/ /\ CamGoes("init", "restart")
        /\ profile' = profile + 1
        /\ camState' = "FALLBACK"
        /\ MayEmit
     \/ /\ CamGoes("init", "idle")
        /\ camState' = "FAILED"
        /\ Emits(1)
        /\ UNCHANGED profile
  /\ UNCHANGED <<storagePc, sessionOpen, telemetry, frameVars, camRecording, was,
                 granted, revived, drained>>

Restarts_StillRecording == camRecording

\* What was recording before goes on.
Restarts == was

FallbackRestarts ==
  /\ CamGoes("restart", "idle")
  /\ IF Restarts THEN CameraStart ELSE UNCHANGED <<camRecording, camState>>
  /\ UNCHANGED <<storagePc, sessionOpen, telemetry, frameVars, eventVars, profile, was,
                 granted, revived>>

CameraStep ==
  \/ CameraLooks \/ NoFrame \/ Grab \/ SendFrame
  \/ NoFallback \/ FallbackReads \/ FallbackStops \/ FallbackInits \/ FallbackRestarts

Next == Emit \/ Sample \/ StorageStep \/ CameraStep

Spec == Init /\ [][Next]_vars

-----------------------------------------------------------------------------
\* Telemetry is written to the session it was sampled in: when a session opens,
\* nothing of an earlier one is waiting, however late sensorTask asked.
TelemetryBelongs == storagePc = "opening" => telemetry = 0

\* Of the frames taken before a session, one may get into its video: the one
\* cameraTask had in hand.  A profile change that restarts the camera behind a
\* stop() fills the queue with more, but with no more than it holds.
VideoBelongs == stale <= IF revived THEN FrameQueueLen + 1 ELSE 1

\* The camera follows the session although two tasks start and stop it: once
\* start() found a camera, a session is filmed as long as that has not failed
\* and is not changing its profile; and without a session nothing is filmed,
\* unless the stop() fell into such a change.
VideoFollowsSession ==
  /\ sessionOpen /\ granted /\ storagePc \in {"start", "stop", "telemetry", "frames", "events"}
       => camRecording \/ camState = "FAILED" \/ InFallback
  /\ camRecording /\ storagePc \in {"start", "opening"} => sessionOpen \/ revived

\* Every copy of a frame is in the queue or in cameraTask's hand: none is leaked
\* when the queue is full or the session is closed, for as long as the device runs.
NoFrameLeak == copies = Len(frameQ) + (IF camPc = "copied" THEN 1 ELSE 0)

\* The lines that piled up without a session cost a flight no lines after its
\* first pass: from then on one is dropped only when EventQueueLen lines come
\* within a single pass.
FlightLinesFit == sessionOpen /\ drained => events <= burst
=============================================================================
