# NL-1 Pioneer flight recorder: TLA+ specifications and proofs

This directory holds the formal models of the firmware under
`src/electronics/firmware/` (ESP32-S3, Arduino/FreeRTOS): TLA+ modules, the TLC
configurations that check them, and TLAPS proofs. File and line references are to that
directory unless they say otherwise. Everything else in the repository (KiCad, Gerber and
STL files, host scripts) is data or tooling and has no behaviour to model.

- [1. The system](#1-the-system)
- [2. Modules, and how they correspond to the code](#2-modules-and-how-they-correspond-to-the-code)
- [3. Runs, bounds and fairness](#3-runs-bounds-and-fairness)
- [4. What is proved](#4-what-is-proved)
- [5. Disagreements between the code and its documents](#5-disagreements-between-the-code-and-its-documents)
- [6. What is not modelled](#6-what-is-not-modelled)
- [7. Plan](#7-plan)

## 1. The system

A rocket carries the device. A dashboard arms it over Bluetooth, it records telemetry and
video to an SD card, detects the phases of the flight, and closes the recording after the
landing. It never ignites anything. Five FreeRTOS tasks run the program (`src/main.cpp`):

| Task | Where | Does |
|---|---|---|
| `sensorTask` (core 1, prio 5) | main.cpp:145 | samples, feeds the flight detector, reports its phase |
| `storageTask` (core 1, prio 4) | main.cpp:186 | serves the start and stop requests, writes the files |
| `cameraTask` (core 0, prio 3) | main.cpp:216 | takes frames, changes the camera profile |
| `missionTask` (core 0, prio 3) | main.cpp:227 | runs dashboard commands, `OtaService::loop()`, `MissionFsm::tick()`, status |
| NimBLE host, `loopTask` | ble_server.cpp, ota_service.cpp, main.cpp:316 | connections, OTA writes; `loop()` once more |

There is a task watchdog of 10 s and hardly a lock: the tasks share the file-level
variables of the modules below.

### Components

**Mission state machine** (`mission_fsm.cpp`). State: `mission`, `recording`, `phase`, the
owner session id, the expected ignition, whether a countdown runs, `lifted_off`, the
landing and recording-start instants, the two request flags, whether BLE is connected.
Operations: the dashboard commands (arm, disarm, prepare/start/stop recording, start,
update and cancel countdown, set expected ignition, abort, reset), `tick()` every 20 ms,
`setFlightPhase()` from `sensorTask`, BLE events, and the marks of `storageTask`. Hard:
three tasks call into it without a lock, and two flags without an order are all that
`storageTask` sees. Correct when: a flight is never forgotten or invented, the recording
state never drifts from the session on the card, every start and stop is served, every
session ends.

**Recorder tasks** (`main.cpp`). State: the points at which the tasks stand between two
calls. Hard: `storageTask` consumes a request, spends seconds on the card, and then writes a
mark over whatever the other tasks have decided meanwhile.

**Flight detector** (`flight_detect.cpp`). State: the phase, the timers of the phase and of
the conditions, the quiet time, the altitude baseline and extremes. Operations: `update()`
per valid sample, `injectPhase()` for ground tests. Hard: durations are measured between
valid samples, so a failed sensor counts as time; a failed barometer changes what the other
conditions mean. Correct when: phases keep their order, a liftoff and a landing rest on
enough evidence, timed phases end.

**OTA update service** (`ota_service.cpp`). State: the session, its owner and counters, the
hash context, the updater, the pending restart. Operations: begin, abort, finish, data,
timeout, restart. Hard: handlers run on the NimBLE host task, `loop()` on two other tasks,
with nothing in between. Correct when: only an image that matches the announced SHA-256 is
started, "complete" is the truth, every session ends, a finished update restarts.

**Storage sessions and export** (`storage.cpp`). State: the card, the open session, the file
being read. Operations: `openSession()`, `closeSession()`, the drain of the queues, list,
read and delete. Hard: a power loss between any two calls to the card (power is cut at the
end of every flight), and `missionTask` deleting while `storageTask` opens. Correct when: a
flight that looks complete is complete, old flights survive, an export is stable.

**Command handler** (`command_handler.cpp`). State: a ring of the last 32 message ids.
Operations: `handleJson()`, which recognises repeated critical commands, calls the state
machine or the storage and remembers what was accepted. Hard: answers get lost, dashboards
repeat. Correct when: a repeated command is carried out once, and a refused one can be repeated.

**BLE server** (`ble_server.cpp`). State: the links, a queue of 16 commands that drops the 17th.
Hard: the host task writes while `missionTask` reads. Correct when: what found room is answered.

**Camera recorder** (`camera_recorder.cpp`). State: profile, camera state, whether it records.
Operations: `start()` and `stop()` from `storageTask`, `service()` on `cameraTask`, which may
change the profile in the middle of a recording: stop, initialise, start. Hard: both tasks
start and stop it. Correct when: it follows the session.

**Event log** (`event_log.cpp`): a bounded queue filled by every task, drained by
`storageTask` while a session is open. The same holds for the **telemetry and frame queues** of
`storage.cpp`, which `taskLoop()` drains also without a session. Correct when: records get into
their own session, and no frame buffer is lost.

**Time manager**, **sensors**, **CRC**: clocks, drivers and arithmetic.

How they interact: BLE writes go to the queue; `missionTask` takes commands from it into the
command handler, which calls the state machine, storage and OTA. The state machine talks to
`storageTask` only by the two request flags, and back by three marks. `sensorTask` moves the
state machine by phase. The OTA service asks the state machine once, at begin, whether the
device is idle. A restart by OTA, by the watchdog or by the battery resets all of it and
leaves the card.

The hazards of this code, each at its line and with the properties that watch it, are listed
in `PROJECT.json`.

## 2. Modules, and how they correspond to the code

```
MissionTypes            types.h
  MissionFsm            mission_fsm.cpp: the handlers, as actions on its variables
    FlightRecorder      main.cpp: the tasks that call them, the session, the detector, time
      RecorderIntent      + history: the last accepted request
      OtaRecorder         + OtaService (INSTANCE), the whole device restarting
      FlightDevice        + DetectEvidence (INSTANCE), sensorTask between the two
      FlightRecorder_proofs
        OtaRecorder_proofs, FlightDevice_proofs
FlightLifecycle         abstract: ground, flight, landed   (implemented by FlightRecorder)
FlightDetect            flight_detect.cpp
  DetectEvidence          + history: the samples behind a decision
  FlightDetect_proofs     (extends DetectEvidence)
CommandPromise          abstract: what a repeated command may do  (implemented by CommandLink)
CommandLink             ble_server.cpp, command_handler.cpp: queue, message ids
  CommandLink_proofs
DataPath                storage.cpp, event_log.cpp, camera_recorder.cpp: queues, camera
  DataPath_proofs
OtaService              ota_service.cpp
  OtaService_proofs
StorageSession          storage.cpp: the card, through power losses
  StorageSession_proofs
MC...                   the instances for TLC
```

Operators keep the names of the C++ functions with a capital (`cmdArm` is `CmdArm`);
variables keep theirs in camel case. An operator whose name ends in `_Something` is not used:
it is a mistake somebody could make in the definition after it, kept so that each property
can be shown to notice one.

**MissionFsm** has one action per command, with the answer as a parameter: `CmdArm(sid, "ACK")` is
the path on which the handler accepts. A refused or ignored command changes nothing. A handler is split where
another task polls what it has written and calls lie before its next write. That is `cmdStartRecording()`
alone: `StartRecording` raises the request (mission_fsm.cpp:219), and after a copy and one or two events
`FinishStart` writes `PREPARING` (:227) and does what is left for the caller that `starting` names.
`storageTask` may have answered by then. Every other handler is one step: a guard and the write
after it, or a flag and the store next to it, with nothing between them that takes time. That is still an
abstraction on two cores; section 6 says what it leaves out.

Time is counted in units of 30 s, and as distances instead of instants: `ignitionIn` (from
`Past` to `Never`), `landedAge`, `recordingAge`. A unit is longer than two watchdog periods,
so within each one `missionTask` and `storageTask` complete a pass: `ClockAdvance` waits until
`due` is empty. Two instants within one unit may still be ordered either way, and `Tick`
leaves that open. `BOOT` is over before any other task exists, and `ERROR`
is only entered by `setError()`, which nothing calls; neither is modelled.
`setRecordingState()` is not called either.

**FlightRecorder** composes the state machine with `storageTask` (program counter `storagePc`:
`start`, `markActive`, `markFailed`, `stop`, `markStopped`), the second half of a start (`MissionStarts`,
before which `missionTask` does nothing else), the phase that `sensorTask` reports
(`Detect`, along `Successors`, and `ReportAgain`, when a ground test has replaced the phase between
`update()` and the report), ground tests, the link, and time. Two history variables let the
properties name the starts that go wrong: `overtaken`, that `storageTask` took the request of the start
under way, and `stranded`, what has last written a `PREPARING` that nobody will answer (`prepare_recording`,
or such a start) since a session was opened or closed.

**FlightDevice** puts the real detector in the place of `Detect`. `sensorTask` becomes three steps:
it reads its care flag (`Look`), calls `update()` with it (`Update`, or `Skip` when the sample is
not valid or a ground test has stopped the detector), and passes `phase()` on if `update()` said
so (`Report`). Commands and ticks of `missionTask`, which runs on the other core, come in
between, so the flag may be stale when it is used and the phase may have changed when it is
reported. A ground test is one step, as any other handler; that it falls into the middle of
`update()` is left out. The care flag of the model is that of `sensorTask` or `near_ign` of `update()`,
since the detector only asks for the two together.

**FlightDetect** takes a sample as the set of bands its thresholds tell apart (hot,
thrusting, quiet, impact; climbing, falling, still; barometer failed) and the gap since the
last valid one. Baseline and extremes are reduced to the comparisons the code makes with
them. `DetectEvidence` counts the samples behind a decision beside it, and keeps the longest gap before
one of them (`hotGap`, `quietGap`).

**OtaService** splits the handlers where another task can be seen: `Begin`/`BeginRest`,
`Data`/`DataRest`, `Finish`/`FinishEnd`/`FinishRest`, and `loop()` into the read of the clock, the
check and the two halves of `resetOtaState()`. Each task in `LoopTasks` has its own copy of the
clock reading, up to `MaxLag` units old, so that the unsigned subtraction can wrap. An image is the
number of its bytes in order that arrived, or `Spoiled`. The flash, the updater and SHA-256 are
external and modelled by how they are used; the hash is taken to be free of collisions. `PowerLoss`
may come between any two steps.

**OtaRecorder** runs recorder and service on one device. `begin` asks the recorder whether the device is
idle (`DeviceIdleForOta`), and the recorder starts over with the service, by the restart that follows an
update (`UpdateRestarts`) or by a loss of power at any moment (`DeviceFails`).

**StorageSession** makes each call to the card a step, with its failure, and puts a
`PowerLoss` between any two. A flight is a directory with data files (`cut`: not everything
written has reached the card; `whole`), metadata and flag. A name is a base (the second or
the boot counter, which both come again) and an optional suffix. `NewName` is what `openSession()`
checks: a base that is taken gets a suffix, and nobody asks whether that one is taken as well. If it is,
`FilesOpened` truncates the files of the older flight, and the history field `retaken` says so
(`Overwritten`). `missionTask` is one thread: while it is inside `removeTree()` it does nothing else.

**CommandLink** has the way of a command: `Write` on the host task puts it into a bounded queue
or drops it, `Serve` on `missionTask` takes the oldest, decides whether it is a duplicate and
remembers it if it was accepted. What the command does, and so whether it is accepted, is any of
the answers of `CmdResult`; MissionFsm has the rest. The abstract `CommandPromise` knows no ring:
for each request it counts the acceptances since its own, and says when it may be performed,
refused or called a duplicate. `Since` reads that count off the ring. That critical commands
have ids of their own is the assumption `UniqueIds`; the firmware cannot check it.

**DataPath** has what is recorded on its way to the card. `cameraTask` is split at every point
at which it meets `storageTask` (`camPc`: a frame in hand, the read of `recording`, the stop, the
initialisation and the start of `fallbackProfile()`); `sensorTask` preempts `storageTask` on the
same core, so its question for the session and its send are one step. Of a frame it is kept
whether it was taken before the session that is open (`SetOpen` makes every frame on its way an
old one), of telemetry and lines how many there are. When a session opens, ends or fails to open
is left free, which allows for more than the recorder does.

## 3. Runs, bounds and fairness

Each run asks one question. States are the distinct ones TLC finds.

| Run | Instance | States | Question |
|---|---|---|---|
| `recorder_commands` | 11 commands, times 1–2, cap 1, card fails or not | 1,136,115 | does any order of commands, samples, ticks and marks make the state machine and the session disagree, or lose a flight? |
| `recorder_timed` | 6 commands incl. ground tests and `prepare_recording`, cap 3, fairness | 235,928 | are sessions bounded, is the recorder a `FlightLifecycle`; do sessions close, starts get an answer, countdowns reach ignition? |
| `command_link` | 6 requests, queue and ring of 2, fairness | 79,790 | is a repeated command carried out once, and only then called a duplicate; is what found room answered? |
| `data_path` | queues of 2, 4 and 3, 3 profiles | 181,456 | do samples, frames and lines get into their session, and does the camera follow it? |
| `detect` | thresholds of 2–4 ticks, gaps of 1–4 | 5,245 | do liftoff and landing rest on evidence, do phases keep order and end? |
| `ota` | 2 connections, 2 `loop()` tasks, images of 2 bytes | 163,322 | is only a verified image started; does every session end? |
| `storage` | 2 names, unbounded sessions and power losses | 1,776,680 | are complete flights whole, kept, and stable while exported? |
| `lost_start`, `second_flight`, `prepared_cap`, `ota_blocked`, `orphan` | small | | the disagreements of section 5 |

What the properties say stands above each of them in its module. Some notes on why the bounds suffice:

- *Recorder.* Lead time and post-landing window are 30 s, that is one unit, as in
  `config.h`; the cap of 20 units is shortened. In `recorder_timed`, which has the properties about
  it, it is 3, longer than the window and with a unit in which nothing is due. In `recorder_commands` it is
  1, so that it comes into as many flights as possible. `recordingAge` saturates one unit after
  the last claim about it. Both have no session ids (everyone is the owner), since an owner only ever
  makes a handler refuse; `lost_start` and `prepared_cap` have one. The proofs of section 4 cover
  every cap, window, owner and set of commands.
- *Commands.* Two slots let an id be remembered, overwritten by a third and forgotten; three
  critical requests with ids are enough to overwrite one; a queue of two is full, empty, and has
  one before another. The proofs cover every size.
- *Data.* The frame queue has its real length, so that its bound counts; three profiles are what
  the camera has. The other queues only have to be empty, in between and full.
- *Detector.* Each threshold is a few ticks in the order of `FlightDetectConfig`; a gap can be a
  fraction of it, or cover it: 4 ticks are more than `liftoffMinMs` and all of `landedConfirmMs`, so that
  one sample can decide. The counters saturate above all thresholds.
- *Second flight.* The card always fails: the recording plays no part in it.
- *OTA.* Two bytes allow a chunk to be first, last, repeated, lost or too long. Two `loop()` tasks
  and two connections are what the device has.
- *Storage.* Two names: a base that is taken, and the one with a suffix, which may come again as
  well. Everything else is unbounded, including the number of boots.

**Fairness.** The recorder and OTA tasks are periodic loops, the scheduler is preemptive and a task
that stops for 10 s restarts the device, so weak fairness is assumed of the self test, of
the rest of a start that has begun, of every step of `storageTask`, of the OTA host step that has begun,
of each `loop()`, of `serviceCommands()` while there are commands, and of time. `tick()` gets strong
fairness while it is due: a start by a command takes it off and on again, but a pass of `missionTask`
calls `tick()` once the queue is empty, and one that finds commands for 10 s on end restarts the device.
Nothing is assumed
of dashboards, BLE or the card. `detect` assumes that valid samples keep coming (`WF` of
`AnySample`), of any content; without it no timer of the detector is looked at.

Each property has a mutant in `PROJECT.json`: a plausible mistake in the definition it
guards, under which TLC finds the property violated in the same instance.

## 4. What is proved

The eight modules `..._proofs` hold for every value of the constants under the assumptions that
the modules name: times, thresholds and sizes are naturals, the window, the cap, the image, the
queues and the ring are not empty, the ignition times are distances, critical commands have ids of
their own, and the values that stand for "none" are not among the others. There is no bound on
commands, owners, connections, tasks, names, samples, sessions or power losses. Every invariant and every
action property of the passing runs is proved, and so is every refinement: `FlightRecorder` implements
`FlightLifecycle`, `CommandLink` implements `CommandPromise`, `OtaRecorder` implements `OtaService`, and
`FlightDevice` implements both `FlightRecorder` and the detector.

| Theorem | Says |
|---|---|
| `TypeCorrect` | every variable keeps its type |
| `FlightSafe` | `LiftoffLatched`; with it `CountdownReal` (`CountdownHasInstant`) and `ConnectedReal` (`ConnectedMeansLink`) |
| `FlightPhasesAgree` | `PhasesAgree` |
| `LifecycleRefinement` | `Spec` implements `FlightLifecycle` |
| `FlightKept` | `FlightNotForgotten` |
| `RecordingSafe` | `RecordingHasSession`; with it `WindowTimed` (`PostLandingIsTimed`) and `StopServed` (`StoppingIsServed`) |
| `FlightRecorded` | `FlightKeepsRecording` |
| `WindowEnds` | `PostLandingEnds` |
| `SessionSafe`, `StartServed`, `SessionCapped` | `NoOrphanSession`; `PreparingIsServed`; `SessionIsCapped` |
| `OtaService_proofs!TypeCorrect` | counters and buffers of an update stay within the image |
| `OtaSafe`, `CompleteTrue` | `ImageVerified`; `CompleteIsTrue` |
| `StorageSession_proofs!TypeCorrect` | the card and the variables of storage.cpp keep their types |
| `CompleteWhole`, `OldFlights`, `ExportStable` | `CompleteIsWhole`, `OldFlightsKept`, `ExportIsStable` |
| `PhasesOrdered`, `TurnBaselined` | `OrderedPhases`, `TurnNeedsBaseline` of the detector |
| `LiftoffProven`, `LandingProven` | `LiftoffEvidence`, `LandingEvidence`, for any thresholds and gaps |
| `OwedQueued`, `PromiseKept` | `OwedIsQueued`; `CommandLink` implements `CommandPromise` |
| `FramesAccounted`, `TelemetryKept`, `LinesKept` | `NoFrameLeak`, `TelemetryBelongs`, `FlightLinesFit` |
| `CameraFollows`, `VideoKept` | `VideoFollowsSession`, `VideoBelongs` |
| `DetectorTypes`, `TypeCorrect` of the others | the types, for the arithmetic of the rest |
| `DeviceImplementsOta` | `OtaRecorder` implements `OtaService` |
| `DeviceUpdatesSafely`, `DeviceRestartsForVerified` | `ImageVerified` and `CompleteIsTrue` on the whole device; the service only restarts it for a verified image |
| `DeviceFlightSafe`, `DeviceRecordingSafe`, `DeviceSessionCapped` | the invariants of the recorder on a device that updates, restarts and loses power |
| `DeviceFlightKept` | there a flight is only forgotten by a forced reset or with the whole device |
| `DeviceImplementsDetector`, `DeviceImplementsRecorder` | `FlightDevice` implements `DetectEvidence` and `FlightRecorder` |
| `LandingReal`, `FlightSeen` | the window after a landing, and the takeoff of a mission, rest on samples that span their times at their gaps |

*The recorder.* `LiftoffLatched` is inductive together with `CountdownHasInstant`,
`ConnectedMeansLink` and `LandedIsTimed` (`FlightInv`): an abort leaves the label of a flight alone
because the flag agrees with it.
`RecordingInv` adds where `storageTask` may stand for each recording state
(`MarksMatchSession`: it marks active only with an open session, and failed or stopped only
without one). `WindowInv` adds what `due` allows: once a post-landing window is over,
`missionTask` is still due, so time cannot pass. `CapInv` does the same for the cap, first with
`missionTask` due to ask for the stop and then with `storageTask` due to serve it. It rests on
`SessionInv`, that an open session is running or about to be stopped, and a `PREPARING` is about to be
answered. Two things break that in the code, and `stranded` tells which: `prepare_recording`, which
requests nothing and overwrites a running recording, and a start that `storageTask` has answered before
`PREPARING` is written. `StartKnown` makes the history variable trustworthy: the request of a start
under way is raised until `storageTask` has taken it, so a start that finds no request ahead
knows that it was overtaken. `prepared_cap` and the second list of section 5 show that the
exception cannot be dropped. The refinement maps
`mission` to `ground`, `flight` or `landed`, one lemma per action.

`PhasesAgree` is inductive with `PhaseInv`: nothing but a sample moves a mission into or along its flight,
and it moves the detector, too. Its other half is about what types.h:117-121 has the guards ask both
for: a flight that the detector sees and the mission does not. The lemma of the step (`KeepsSight`) shows
that the mission loses sight of a flight only by a forced reset or a ground test. `SightInv` is what that
gives over many steps: without either of them, never.

*The detector.* `EvidenceInv` bounds its timers by the samples: as long as a condition holds, the
age of it is covered by the samples counted since, each standing for the longest gap among them at most
(`Covers`), and one more sample covers one more gap (`OneMore`). The decision then carries the
bound over into the phase it enters. What the properties say is therefore what the code has: samples
that span the confirmation time at the gaps they came with, not a number of samples. After a gap as
long as that time it is one sample (section 5).

*The commands.* `RingInv` says that an id stands in one slot at most, since only what is not
there is remembered. The slots are overwritten in the order in which they were written, so the
distance of an id's slot to the next one is the number of acceptances since (`SinceBound`), and
remembering an id ages every other by one (`RememberPerforms`), which is `Perform` of the promise.

*The data path.* The types need `NoFrameLeak` and the other way round. `TelemetryInv`: without a
session nothing is queued and `taskLoop()` has emptied the queue since. `QuietInv`: between a
`stop()` that fell into no change of profile and the next session nothing is left that could start
the camera; `FilmedInv`: in a session that found a camera, either it runs, or `cameraTask` is about
to start it, or it failed. `LateInv` gives the one frame that may still be on its way when a session
opens, and `OldInv` orders the old frames before the new ones: an old frame at place `i` leaves room
for `i` more.

*The update.* `ImageInv` says that as long as there is a hash context it is that of the bytes
in the flash, or one chunk behind while the host is inside `onDataWrite()`
(`HashIsOfFlash`), and that a verdict once passed stays true of the flash up to the switch and
of the image after it (`VerdictHolds`), whatever `loop()` tears down in between. Without these
two `ImageVerified` is not inductive.

*The card.* `StorageInv` says that a session whose name has no suffix has a fresh one until its files
are created (`NameIsFresh`), that there are files from then on and whole ones after the flush
(`FilesFollow`), that `session_open` is set last and cleared last (`SessionOpenIsLate`), and that a
deletion only touches flights that are doomed and not being read (`DeletionsAreKnown`).
`CompleteIsWhole` is part of it; the two action properties follow from `DataStays`, that whole data is
only ever taken away by `removeTree()` or by a session that draws the suffix of the older flight. The
three theorems exempt the flights so overwritten, and no others: those without a suffix never are.

*Recorder and update.* For the service the recorder is a flag that may change at any moment
(`DeviceChanges`), so a step of the recorder is that or a stutter, and the device implements
`OtaService`. For the recorder the service is nothing but restarts out of nowhere: they lead back to
`Init`, so every invariant holds again after one because it holds at the start
(`DeviceStepForRecorder`). The invariants of `FlightRecorder_proofs` are therefore stated as two
lemmas each, one of the start and one of a step. `ServiceConstants` are the assumptions of
`OtaService`, written out as a hypothesis. That an update spares a recording
(`BlockedWhileRecording`) is what the `ota_blocked` run refutes.

*Recorder and detector.* `SensorInv` relates the phase reported last to that of the detector: they
agree, or the report of one step along `Successors` is still to come, or a ground test set both. A
liftoff that is to be reported was seen with care. So each report is a `Detect` or a `ReportAgain`
of the recorder (`ReportIsStep`), and the device implements it. For the detector, the device is a
source of care flags. What is proved of either alone then holds on the device, and the two meet in
`LandingReal` and `FlightSeen`: the post-landing window is only open after a flight and quiet samples
that span `landedConfirmMs` at their gaps, and a mission takes off only on hot samples taken with care
that span `liftoffMinMs` at theirs, whatever commands, marks and ticks come between the samples and the
report. The two exceptions are in the properties: ground tests, and forced resets, after which the
next phase of the detector takes the mission off again. Both properties and `ImplementsRecorder`
were explored with TLC with all thresholds 1 and the commands arm and ground_test (144,678 states)
before they were proved; they are in no run, and `second_flight` runs on the same module.

Only model-checked is liveness, which the prover does not reach: `SessionsClose`,
`StartsAreServed`, `IgnitionIsReached`, `SessionEnds`, `RebootsAfterFinish`, `TimedPhasesEnd`,
`OwedIsAnswered`.

## 5. Disagreements between the code and its documents

Each is a run in which TLC finds the documented property violated; `PROJECT.json` quotes the lines.

1. `lost_start`: disarm and arm within one pass of `storageTask` leave the device armed
   without a recording: the pass serves the start first and then the older stop.
2. `second_flight`: a reset sets the phase of the state machine back, but not that of the
   detector. Armed again, the device never sees a second liftoff.
3. `prepared_cap`: `prepare_recording` after the landing puts an open session into `PREPARING`,
   which neither the window nor the 10 minute cap ends.
4. `ota_blocked`: an update that began on an idle device restarts it in the middle of a
   recording that was started since.
5. `orphan`: the flag that marks a session incomplete is created after its files, and recovery
   marks nothing, so a power loss in between leaves a cut-off flight that is listed as complete.

The models show more that a document or a comment has otherwise. Here the code is followed, and the
property that passes names the case:

- *Flights overwritten.* storage.cpp:406 says "Avoid collisions", but only the base name is checked. The
  suffix is `mono_us % 10000`, and the files are opened with `FILE_WRITE`: a session that draws
  the suffix of an older flight with the same base cuts its files (1 in 10,000 for each such flight), beside
  metadata that still say complete until its own are written (`Overwritten`). Without that exemption TLC
  finds an old flight lost within 20 steps.
- *One sample decides.* flight_detect.cpp:189 says "never single accel sample", and
  test_mission_and_protocol.cpp:192 that a single spike should not lift off at once. The detector adds
  up the time between valid samples, so after reads that failed for `landedConfirmMs` (2.5 s, config.h:100) or
  `liftoffMinMs` (80 ms, config.h:87) one sample is enough. The spike of that very test, 110 ms
  after the last quiet sample, does lift off; the test does not look at the phase there. `LiftoffEvidence` and
  `LandingEvidence` count the gap.
- *Flights out of sight.* types.h:117-121 explains the two guards with a missed liftoff that leaves the
  mission at `ARMED` while the phase reads `DESCENT`. In the model no order of samples, commands and reports
  misses a liftoff; what gets there is a reset forced in flight, and a ground test
  (`PhasesAgree`). And not every guard asks both: `cmdDisarm()` (mission_fsm.cpp:184) asks the mission only,
  so after a forced reset in flight and an arm it stops the recording of a flight that the phase shows
  (`FlightKeepsRecording`).
- *Starts overtaken.* `cmdStartRecording()` raises its request before it writes `PREPARING`
  (mission_fsm.cpp:219, 227). When `storageTask` takes it in between and the card fails at once, the `FAILED` is
  overwritten: the recording shows `PREPARING` without a start ahead, and `ensureRecordingLead()`
  does not try again at the lead time. When the session does open, `PREPARING` covers a running recording, which
  then has no window and no cap (`stranded` = "start" in `PreparingIsServed`, `NoOrphanSession`,
  `SessionIsCapped` and the two liveness properties about them). config.h:57 promises the cap.

What they show besides, and no document speaks about:

- Message ids are recognised whoever sends them (command_handler.cpp:98). A second dashboard, or
  one that numbers from 1 again, is told IGNORED "duplicate" of a command that was never carried
  out, an abort included. `UniqueIds` assumes this away.
- A countdown that is cancelled or aborted keeps its ignition instant (mission_fsm.cpp:58), and
  `ensureRecordingLead()` asks nothing but that instant: a recording that was stopped less than
  30 s before it starts again. The safety cap bounds it.
- A `stop()` that falls into a change of profile is undone by it (camera_recorder.cpp:191): the camera
  then runs without a session until the next `stop()`, and up to five of its frames open the next video
  (`revived`). A session that opens while a change of profile fails may go unfilmed, and every one that
  opens after that does: the result of `CameraRecorder::start()` is not looked at (main.cpp:194).
- The event line of a recording's end is emitted after its file is closed (storage.cpp:509) and
  opens the events of the next session.

## 6. What is not modelled

- Wall time and drift, sensor drivers and calibration, CRC, JSON scanning, status and
  telemetry packets: I/O, numerics and text, no state that the properties depend on.
- Command texts that are cut off at 255 bytes by `onWrite()`, and a failed allocation of a queue
  in `begin()`.
- Interleavings inside a handler of the state machine other than `cmdStartRecording()`, a few
  instructions wide each. A liftoff reported between the guard of `cmdAbort()` (mission_fsm.cpp:316) and its
  transition (:330) leaves `ABORTED` with `lifted_off` set; a phase reported between the guard of
  `cmdReset()` (:335) and its assignments (:352-355) is lost, as a liftoff between those of `cmdDisarm()`
  (:184, :201); a link that goes between the read of `ble_connected` and the transition leaves
  `CONNECTED` without one; and a stop consumed between the two stores of a request (:239-240,
  :197-198, :342-343) leaves `STOPPING` without it. `LiftoffLatched`, `FlightNotForgotten`,
  `FlightKeepsRecording`, `PhasesAgree`, `ConnectedMeansLink` and `StoppingIsServed` hold up to these.
- Interleavings inside `update()`, and torn reads of 64-bit instants between the cores.
- Mount attempts, free space other than as a choice, and the contents of files. A write or a
  flush that fails after the files were opened is noticed nowhere in `storage.cpp`; in the model
  none does, so `CompleteIsWhole` is about power losses and the order of the calls.

## 7. Plan

Done: MissionFsm and FlightRecorder, FlightLifecycle, FlightDetect with evidence, FlightDevice,
OtaService and OtaRecorder, StorageSession, CommandLink and CommandPromise, DataPath, with their
proofs.

What is left to do:

1. DataPath with the recorder's own starts and stops instead of any, to see how far the recorder
   can get into the two camera cases of section 5.
2. The clock of `time_manager.cpp` with its synchronisation, if anything comes to depend on it.
