--------------------------- MODULE DataPath_proofs ---------------------------
(***************************************************************************)
(* Proofs about DataPath, for queues of any length and any number of       *)
(* profiles.                                                               *)
(***************************************************************************)
EXTENDS DataPath, TLAPS

-----------------------------------------------------------------------------
(* Types, and the copies of frames.  Neither is inductive alone: a copy    *)
(* that is freed was counted, and one more fits the bound, because all of  *)
(* them are in the queue or in hand.                                       *)

\* fallbackProfile() only moves on while there is a profile to move on to.
ProfileInv == camPc \in {"was", "init"} => profile < LastProfile

FrameInv == TypeOK /\ NoFrameLeak /\ ProfileInv

\* A log line changes nothing but two counters, and these within their bounds.
LEMMA EmitsType ==
  ASSUME TypeOK, NEW n \in Nat, Emits(n)
  PROVE  events' \in 0 .. EventQueueLen /\ burst' \in 0 .. EventQueueLen
<1>1. events \in Nat /\ burst \in Nat /\ EventQueueLen \in Nat
  BY LengthAssumption DEF TypeOK
<1>2. QED
  BY <1>1 DEF Emits, AtMost

LEMMA MayEmitType ==
  ASSUME TypeOK, MayEmit
  PROVE  events' \in 0 .. EventQueueLen /\ burst' \in 0 .. EventQueueLen
BY EmitsType DEF MayEmit, TypeOK

\* What serviceEvents() leaves is in bounds.
LEMMA ServiceType ==
  ASSUME TypeOK, ServiceEvents
  PROVE  events' \in 0 .. EventQueueLen /\ burst' \in 0 .. EventQueueLen
BY LengthAssumption DEF TypeOK, ServiceEvents, LinesLeft

LEMMA EmitKeepsFrames ==
  ASSUME FrameInv, Emit \/ Sample
  PROVE  FrameInv'
<1>1. CASE Emit
  <2>1. events' \in 0 .. EventQueueLen /\ burst' \in 0 .. EventQueueLen
    BY <1>1, EmitsType DEF Emit, FrameInv
  <2>2. QED
    BY <1>1, <2>1
    DEF Emit, FrameInv, TypeOK, NoFrameLeak, ProfileInv, frameVars, camVars
<1>2. CASE Sample
  <2>1. telemetry' \in 0 .. TelemetryQueueLen
    <3>1. telemetry \in 0 .. TelemetryQueueLen /\ TelemetryQueueLen \in Nat
      BY LengthAssumption DEF FrameInv, TypeOK
    <3>2. QED
      BY <1>2, <3>1 DEF Sample, Sampled, AtMost
  <2>2. QED
    BY <1>2, <2>1
    DEF Sample, FrameInv, TypeOK, NoFrameLeak, ProfileInv, frameVars, camVars, eventVars
<1>3. QED
  BY <1>1, <1>2

LEMMA StorageKeepsFrames ==
  ASSUME FrameInv, StorageStep
  PROVE  FrameInv'
<1> USE DEF FrameInv, NoFrameLeak, ProfileInv, StorageGoes, frameVars, camVars, eventVars
<1>1. CASE NoStart \/ OpenFiles \/ NoStop \/ DrainedFrames
  BY <1>1 DEF NoStart, OpenFiles, NoStop, DrainedFrames, TypeOK
<1>2. CASE OpenFails
  <2>1. events' \in 0 .. EventQueueLen /\ burst' \in 0 .. EventQueueLen
    BY <1>2, EmitsType DEF OpenFails
  <2>2. QED
    BY <1>2, <2>1 DEF OpenFails, TypeOK
<1>3. CASE SetOpen
  <2>1. events' \in 0 .. EventQueueLen /\ burst' \in 0 .. EventQueueLen
    BY <1>3, EmitsType DEF SetOpen
  <2>2. frameQ' \in Seq({"old", "new"}) /\ Len(frameQ') = Len(frameQ)
    BY <1>3 DEF SetOpen, TypeOK
  <2>3. QED
    BY <1>3, <2>1, <2>2 DEF SetOpen, TypeOK
<1>4. CASE StartCamera
  BY <1>4 DEF StartCamera, CameraStart, TypeOK
<1>5. CASE StopCamera
  <2>1. camState' \in {"READY", "RECORDING", "FALLBACK", "FAILED"} /\ camRecording' \in BOOLEAN
    BY <1>5 DEF StopCamera, CameraStop, TypeOK
  <2>2. stale' \in 0 .. FrameQueueLen + 2
    BY <1>5, LengthAssumption DEF StopCamera
  <2>3. revived' \in BOOLEAN
    BY <1>5 DEF StopCamera, InFallback, TypeOK
  <2>4. storagePc' \in {"closing", "telemetry"}
    BY <1>5 DEF StopCamera
  <2>5. QED
    BY <1>5, <2>1, <2>2, <2>3, <2>4 DEF StopCamera, TypeOK
<1>6. CASE CloseFlush \/ DrainEvents
  <2>1. events' \in 0 .. EventQueueLen /\ burst' \in 0 .. EventQueueLen
    BY <1>6, ServiceType DEF CloseFlush, DrainEvents
  <2>2. QED
    BY <1>6, <2>1 DEF CloseFlush, DrainEvents, TypeOK
<1>7. CASE SetClosed
  <2>1. events' \in 0 .. EventQueueLen /\ burst' \in 0 .. EventQueueLen
    BY <1>7, EmitsType DEF SetClosed
  <2>2. QED
    BY <1>7, <2>1 DEF SetClosed, TypeOK
<1>8. CASE DrainTelemetry
  BY <1>8, LengthAssumption DEF DrainTelemetry, TelemetryLeft, TypeOK
<1>9. CASE DrainFrame
  <2>1. frameQ' \in Seq({"old", "new"}) /\ Len(frameQ') = Len(frameQ) - 1 /\ Len(frameQ) > 0
    BY <1>9 DEF DrainFrame, TypeOK
  <2>2. stale' \in 0 .. FrameQueueLen + 2
    <3>1. stale \in 0 .. FrameQueueLen + 2 /\ FrameQueueLen \in Nat
      BY LengthAssumption DEF TypeOK
    <3>2. QED
      BY <1>9, <3>1 DEF DrainFrame, AtMost
  <2>3. copies' \in 0 .. FrameQueueLen + 1
    <3>1. copies \in Nat /\ copies <= FrameQueueLen + 1 /\ FrameQueueLen \in Nat
      BY LengthAssumption DEF TypeOK
    <3>2. copies > 0
      BY <2>1 DEF TypeOK
    <3>3. copies' = copies - 1
      BY <1>9 DEF DrainFrame
    <3>4. QED
      BY <3>1, <3>2, <3>3
  <2>4. NoFrameLeak'
    <3>1. camPc' = camPc /\ copies' = copies - 1 /\ Len(frameQ) \in Nat
      BY <1>9 DEF DrainFrame, TypeOK
    <3>2. QED
      BY <2>1, <3>1
  <2>5. Len(frameQ') <= FrameQueueLen
    BY <2>1, LengthAssumption DEF TypeOK
  <2>6. TypeOK'
    BY <1>9, <2>1, <2>2, <2>3, <2>5 DEF DrainFrame, TypeOK
  <2>7. QED
    BY <1>9, <2>4, <2>6 DEF DrainFrame
<1>10. QED
  BY <1>1, <1>2, <1>3, <1>4, <1>5, <1>6, <1>7, <1>8, <1>9 DEF StorageStep

LEMMA CameraKeepsFrames ==
  ASSUME FrameInv, CameraStep
  PROVE  FrameInv'
<1> USE DEF FrameInv, NoFrameLeak, ProfileInv, CamGoes, frameVars, camVars, eventVars
<1>1. CASE CameraLooks \/ NoFallback
  BY <1>1 DEF CameraLooks, NoFallback, TypeOK
<1>2. CASE NoFrame
  <2>1. events' \in 0 .. EventQueueLen /\ burst' \in 0 .. EventQueueLen
    BY <1>2, MayEmitType DEF NoFrame
  <2>2. QED
    BY <1>2, <2>1 DEF NoFrame, TypeOK
<1>3. CASE Grab
  <2>1. copies' \in 0 .. FrameQueueLen + 1 /\ copies' = Len(frameQ) + 1
    BY <1>3, LengthAssumption DEF Grab, TypeOK
  <2>2. events' \in 0 .. EventQueueLen /\ burst' \in 0 .. EventQueueLen
    BY <1>3, MayEmitType DEF Grab
  <2>3. QED
    BY <1>3, <2>1, <2>2 DEF Grab, TypeOK
<1>4. CASE SendFrame
  <2>1. frameQ' \in Seq({"old", "new"}) /\ Len(frameQ') <= FrameQueueLen
    BY <1>4, LengthAssumption DEF SendFrame, TypeOK
  <2>2. copies' = Len(frameQ')
    <3>1. copies = Len(frameQ) + 1 /\ Len(frameQ) \in Nat /\ FrameQueueLen \in Nat
      BY <1>4, LengthAssumption DEF SendFrame, WindowEnds, TypeOK
    <3>2. CASE Len(frameQ) < FrameQueueLen
      BY <1>4, <3>1, <3>2 DEF SendFrame, CopiesLeft, TypeOK
    <3>3. CASE ~(Len(frameQ) < FrameQueueLen)
      BY <1>4, <3>1, <3>3 DEF SendFrame, CopiesLeft
    <3>4. QED
      BY <3>2, <3>3
  <2>3. copies' \in 0 .. FrameQueueLen + 1
    BY <2>1, <2>2, LengthAssumption
  <2>4. NoFrameLeak'
    <3>1. camPc' # "copied" /\ Len(frameQ') \in Nat
      BY <1>4, <2>1 DEF SendFrame, WindowEnds
    <3>2. QED
      BY <2>2, <3>1
  <2>5. TypeOK'
    BY <1>4, <2>1, <2>3 DEF SendFrame, WindowEnds, TypeOK
  <2>6. QED
    BY <1>4, <2>4, <2>5 DEF SendFrame, WindowEnds
<1>5. CASE FallbackReads
  BY <1>5 DEF FallbackReads, HasNextProfile, TypeOK
<1>6. CASE FallbackStops
  BY <1>6 DEF FallbackStops, CameraStop, TypeOK
<1>7. CASE FallbackInits
  <2>1. events' \in 0 .. EventQueueLen /\ burst' \in 0 .. EventQueueLen
    BY <1>7, EmitsType, MayEmitType DEF FallbackInits
  <2>2. profile' \in 0 .. LastProfile
    BY <1>7, ProfileAssumption DEF FallbackInits, TypeOK
  <2>3. QED
    BY <1>7, <2>1, <2>2 DEF FallbackInits, TypeOK
<1>8. CASE FallbackRestarts
  BY <1>8 DEF FallbackRestarts, CameraStart, TypeOK
<1>9. QED
  BY <1>1, <1>2, <1>3, <1>4, <1>5, <1>6, <1>7, <1>8 DEF CameraStep

\* The invariant of this part, in one place for those below.
LEMMA FramesKept == Spec => []FrameInv
<1>1. Init => FrameInv
  <2> SUFFICES ASSUME Init PROVE FrameInv
    OBVIOUS
  <2>1. frameQ \in Seq({"old", "new"}) /\ Len(frameQ) = 0
    BY DEF Init
  <2>2. profile \in 0 .. LastProfile
    BY ProfileAssumption DEF Init
  <2>3. /\ 0 \in 0 .. TelemetryQueueLen /\ 0 \in 0 .. EventQueueLen
        /\ 0 \in 0 .. FrameQueueLen + 1 /\ 0 \in 0 .. FrameQueueLen + 2
        /\ 0 <= FrameQueueLen
    BY LengthAssumption
  <2>4. TypeOK
    BY <2>1, <2>2, <2>3 DEF Init, TypeOK
  <2>5. QED
    BY <2>1, <2>4 DEF Init, FrameInv, NoFrameLeak, ProfileInv
<1>2. FrameInv /\ [Next]_vars => FrameInv'
  <2>1. FrameInv /\ UNCHANGED vars => FrameInv'
    BY DEF FrameInv, TypeOK, NoFrameLeak, ProfileInv, vars, frameVars, camVars, eventVars
  <2>2. QED
    BY <2>1, EmitKeepsFrames, StorageKeepsFrames, CameraKeepsFrames DEF Next
<1>3. QED
  BY <1>1, <1>2, PTL DEF Spec

\* Queues, profiles and states stay what they are.
THEOREM TypeCorrect == Spec => []TypeOK
BY FramesKept, PTL DEF FrameInv

\* No copy of a frame is ever leaked, or freed twice.
THEOREM FramesAccounted == Spec => []NoFrameLeak
BY FramesKept, PTL DEF FrameInv

-----------------------------------------------------------------------------
(* Telemetry.                                                              *)

\* storageTask opens and closes a session only where it is not, and is, open.
PcInv ==
  /\ storagePc = "opening" => ~sessionOpen
  /\ storagePc \in {"camStart", "closing", "close"} => sessionOpen

\* Without a session nothing comes in, and taskLoop() has emptied the queue.
TelemetryInv ==
  ~sessionOpen /\ storagePc \in {"frames", "events", "start", "opening"} => telemetry = 0

\* No record of an earlier session, or of none, is left when one opens.
THEOREM TelemetryKept == Spec => []TelemetryBelongs
<1> DEFINE Inv == PcInv /\ TelemetryInv
<1>1. Init => Inv
  BY DEF Init, PcInv, TelemetryInv
<1>2. Inv /\ [Next]_vars => Inv'
  <2> SUFFICES ASSUME Inv, [Next]_vars PROVE Inv'
    OBVIOUS
  <2> USE DEF PcInv, TelemetryInv, StorageGoes
  <2>1. CASE Emit \/ CameraStep \/ UNCHANGED vars
    <3>1. UNCHANGED <<storagePc, sessionOpen, telemetry>>
      BY <2>1 DEF Emit, CameraStep, CameraLooks, NoFrame, Grab, SendFrame, NoFallback,
                  FallbackReads, FallbackStops, FallbackInits, FallbackRestarts, vars
    <3>2. QED
      BY <3>1
  <2>2. CASE Sample
    BY <2>2 DEF Sample, Sampled
  <2>3. CASE NoStart \/ OpenFails \/ OpenFiles \/ SetOpen \/ StartCamera
    BY <2>3 DEF NoStart, OpenFails, OpenFiles, SetOpen, StartCamera
  <2>4. CASE NoStop \/ StopCamera \/ CloseFlush \/ SetClosed
    BY <2>4 DEF NoStop, StopCamera, CloseFlush, SetClosed
  <2>5. CASE DrainTelemetry \/ DrainFrame \/ DrainedFrames \/ DrainEvents
    BY <2>5 DEF DrainTelemetry, TelemetryLeft, DrainFrame, DrainedFrames, DrainEvents
  <2>6. QED
    BY <2>1, <2>2, <2>3, <2>4, <2>5 DEF Next, StorageStep
<1>3. Inv => TelemetryBelongs
  BY DEF PcInv, TelemetryInv, TelemetryBelongs
<1>4. QED
  BY <1>1, <1>2, <1>3, PTL DEF Spec

-----------------------------------------------------------------------------
(* Event lines.                                                            *)

\* Two counters that are cut at the same bound keep their order.
LEMMA BurstCounts ==
  ASSUME TypeOK, NEW n \in Nat, Emits(n), events <= burst
  PROVE  events' <= burst'
<1>1. events \in Nat /\ burst \in Nat /\ EventQueueLen \in Nat
  BY LengthAssumption DEF TypeOK
<1>2. QED
  BY <1>1 DEF Emits, AtMost

\* From the second pass of a session on, only what one pass brings can be too much.
THEOREM LinesKept == Spec => []FlightLinesFit
<1>1. Init => FlightLinesFit
  BY DEF Init, FlightLinesFit
<1>2. TypeOK /\ FlightLinesFit /\ [Next]_vars => FlightLinesFit'
  <2> SUFFICES ASSUME TypeOK, FlightLinesFit, [Next]_vars PROVE FlightLinesFit'
    OBVIOUS
  <2> USE DEF FlightLinesFit
  <2>1. CASE Emit \/ OpenFails \/ NoFrame \/ Grab \/ FallbackInits
    <3>1. sessionOpen' = sessionOpen /\ drained' = drained
      BY <2>1 DEF Emit, OpenFails, NoFrame, Grab, FallbackInits
    <3>2. (\E n \in 1 .. 2 : Emits(n)) \/ UNCHANGED <<events, burst>>
      BY <2>1 DEF Emit, OpenFails, NoFrame, Grab, FallbackInits, MayEmit
    <3>3. ASSUME NEW n \in 1 .. 2, Emits(n), events <= burst PROVE events' <= burst'
      <4>1. n \in Nat
        OBVIOUS
      <4>2. QED
        BY <3>3, <4>1, BurstCounts
    <3>4. events <= burst => events' <= burst'
      <4>1. CASE \E n \in 1 .. 2 : Emits(n)
        BY <3>3, <4>1
      <4>2. CASE UNCHANGED <<events, burst>>
        BY <4>2
      <4>3. QED
        BY <3>2, <4>1, <4>2
    <3>5. QED
      BY <3>1, <3>4
  <2>2. CASE SetOpen \/ SetClosed
    BY <2>2 DEF SetOpen, SetClosed
  <2>3. CASE CloseFlush \/ DrainEvents
    <3>1. sessionOpen' = sessionOpen
      BY <2>3 DEF CloseFlush, DrainEvents
    <3>2. CASE sessionOpen
      <4>1. events' = 0 /\ burst' = 0
        BY <2>3, <3>2 DEF CloseFlush, DrainEvents, ServiceEvents, LinesLeft
      <4>2. QED
        BY <4>1
    <3>3. CASE ~sessionOpen
      BY <3>1, <3>3
    <3>4. QED
      BY <3>2, <3>3
  <2>4. CASE \/ NoStart \/ OpenFiles \/ StartCamera \/ NoStop \/ StopCamera \/ Sample
             \/ DrainTelemetry \/ DrainFrame \/ DrainedFrames \/ UNCHANGED vars
    BY <2>4 DEF NoStart, OpenFiles, StartCamera, NoStop, StopCamera, Sample, DrainTelemetry,
                DrainFrame, DrainedFrames, eventVars, vars
  <2>5. CASE \/ CameraLooks \/ SendFrame \/ NoFallback \/ FallbackReads
             \/ FallbackStops \/ FallbackRestarts
    BY <2>5 DEF CameraLooks, SendFrame, NoFallback, FallbackReads, FallbackStops,
                FallbackRestarts, eventVars
  <2>6. QED
    BY <2>1, <2>2, <2>3, <2>4, <2>5 DEF Next, StorageStep, CameraStep
<1>3. QED
  BY <1>1, <1>2, TypeCorrect, PTL DEF Spec

-----------------------------------------------------------------------------
(* The camera and the session.                                             *)

\* After a stop() that fell into no change of profile, and until a session opens
\* again, nothing is left that could start the camera.
QuietInv ==
  (~sessionOpen \/ storagePc \in {"closing", "close"}) /\ ~revived
    => ~camRecording /\ ~(InFallback /\ was)

\* A session that found a camera is filmed, or cameraTask is about to start it
\* again, or could not.
FilmedInv ==
  sessionOpen /\ granted /\ storagePc \in {"start", "stop", "telemetry", "frames", "events"}
    => camRecording \/ (InFallback /\ was) \/ (camState = "FAILED" /\ camPc = "idle")

\* A profile that was initialised can be started.
ReadyInv == camPc = "restart" => camState # "FAILED"

CamInv == PcInv /\ QuietInv /\ FilmedInv /\ ReadyInv

LEMMA StorageKeepsCamera ==
  ASSUME CamInv, StorageStep
  PROVE  CamInv'
<1> USE DEF CamInv, PcInv, QuietInv, FilmedInv, ReadyInv, InFallback, StorageGoes, camVars
<1>1. CASE NoStart \/ OpenFails \/ OpenFiles \/ SetOpen
  BY <1>1 DEF NoStart, OpenFails, OpenFiles, SetOpen
<1>2. CASE StartCamera
  BY <1>2 DEF StartCamera, CameraStart
<1>3. CASE StopCamera
  BY <1>3 DEF StopCamera, CameraStop
<1>4. CASE NoStop \/ CloseFlush \/ SetClosed
  BY <1>4 DEF NoStop, CloseFlush, SetClosed
<1>5. CASE DrainTelemetry \/ DrainFrame \/ DrainedFrames \/ DrainEvents
  BY <1>5 DEF DrainTelemetry, DrainFrame, DrainedFrames, DrainEvents
<1>6. QED
  BY <1>1, <1>2, <1>3, <1>4, <1>5 DEF StorageStep

LEMMA CameraKeepsCamera ==
  ASSUME TypeOK, CamInv, CameraStep
  PROVE  CamInv'
<1> USE DEF CamInv, PcInv, QuietInv, FilmedInv, ReadyInv, InFallback, CamGoes
<1>1. CASE CameraLooks \/ NoFrame \/ Grab \/ SendFrame \/ NoFallback
  BY <1>1 DEF CameraLooks, NoFrame, Grab, SendFrame, WindowEnds, NoFallback
<1>2. CASE FallbackReads
  BY <1>2 DEF FallbackReads, TypeOK
<1>3. CASE FallbackStops
  BY <1>3 DEF FallbackStops, CameraStop
<1>4. CASE FallbackInits
  BY <1>4 DEF FallbackInits
<1>5. CASE FallbackRestarts
  BY <1>5 DEF FallbackRestarts, Restarts, CameraStart
<1>6. QED
  BY <1>1, <1>2, <1>3, <1>4, <1>5 DEF CameraStep

LEMMA CameraKept == Spec => []CamInv
<1>1. Init => CamInv
  BY DEF Init, CamInv, PcInv, QuietInv, FilmedInv, ReadyInv, InFallback
<1>2. TypeOK /\ CamInv /\ [Next]_vars => CamInv'
  <2>1. CamInv /\ (Emit \/ Sample \/ UNCHANGED vars) => CamInv'
    BY DEF Emit, Sample, vars, camVars, CamInv, PcInv, QuietInv, FilmedInv, ReadyInv, InFallback
  <2>2. QED
    BY <2>1, StorageKeepsCamera, CameraKeepsCamera DEF Next
<1>3. QED
  BY <1>1, <1>2, TypeCorrect, PTL DEF Spec

\* The camera films the session and nothing else, but for a change of profile.
THEOREM CameraFollows == Spec => []VideoFollowsSession
<1>1. CamInv => VideoFollowsSession
  BY DEF CamInv, QuietInv, FilmedInv, VideoFollowsSession
<1>2. QED
  BY <1>1, CameraKept, PTL

-----------------------------------------------------------------------------
(* The frames of the video.                                                *)

\* While frames are written to a video.
Filming == sessionOpen /\ storagePc \notin {"closing", "close"}

\* What the queue and a look at an idle camera may still bring.
Late == Len(frameQ) + (IF camPc \in {"grab", "copied"} THEN 1 ELSE 0)

OldBound == IF revived THEN FrameQueueLen + 1 ELSE 1

\* Once the queue was emptied behind a session, at most one frame is on its way.
LateInv ==
  ~sessionOpen /\ ~revived /\ storagePc \in {"events", "start", "opening"} => Late <= 1

\* An old frame leaves the bound room for all that are written before it.
OldInv ==
  IF Filming
    THEN /\ stale <= OldBound
         /\ \A i \in 1 .. Len(frameQ) : frameQ[i] = "old" => stale + i <= OldBound
         /\ camPc = "copied" /\ hand = "old" => stale + Len(frameQ) + 1 <= OldBound
    ELSE stale = 0

LEMMA LateKept == Spec => []LateInv
<1>1. Init => LateInv
  BY DEF Init, LateInv, Late
<1>2. TypeOK /\ CamInv /\ LateInv /\ [Next]_vars => LateInv'
  <2> SUFFICES ASSUME TypeOK, CamInv, LateInv, [Next]_vars,
                      ~sessionOpen', ~revived', storagePc' \in {"events", "start", "opening"}
               PROVE  Late' <= 1
    BY DEF LateInv
  <2> USE DEF LateInv, Late
  <2>0. Len(frameQ) \in Nat
    BY DEF TypeOK
  <2>1. CASE Emit \/ Sample \/ UNCHANGED vars
    BY <2>1 DEF Emit, Sample, vars, camVars, frameVars
  <2>2. CASE StorageStep
    <3>1. CASE DrainedFrames
      <4>1. frameQ' = <<>> /\ camPc' = camPc
        BY <3>1 DEF DrainedFrames, MoreFrames, frameVars, camVars
      <4>2. QED
        BY <4>1
    <3>2. CASE OpenFiles \/ DrainEvents
      BY <3>2 DEF OpenFiles, DrainEvents, StorageGoes, frameVars, camVars
    <3>3. CASE \/ NoStart \/ OpenFails \/ SetOpen \/ StartCamera \/ NoStop \/ StopCamera
               \/ CloseFlush \/ SetClosed \/ DrainTelemetry \/ DrainFrame
      BY <3>3 DEF NoStart, OpenFails, SetOpen, StartCamera, NoStop, StopCamera, CloseFlush,
                  SetClosed, DrainTelemetry, DrainFrame, StorageGoes, CamInv, PcInv
    <3>4. QED
      BY <2>2, <3>1, <3>2, <3>3 DEF StorageStep
  <2>3. CASE CameraStep
    <3>1. UNCHANGED <<storagePc, sessionOpen, revived>>
      BY <2>3 DEF CameraStep, CameraLooks, NoFrame, Grab, SendFrame, NoFallback,
                  FallbackReads, FallbackStops, FallbackInits, FallbackRestarts
    <3>2. Late <= 1 /\ ~camRecording
      BY <3>1 DEF CamInv, QuietInv
    <3>3. CASE SendFrame
      <4>1. camPc = "copied" /\ camPc' \notin {"grab", "copied"}
        BY <3>3 DEF SendFrame, WindowEnds, CamGoes
      <4>2. Len(frameQ') <= Len(frameQ) + 1 /\ Len(frameQ') \in Nat
        BY <3>3 DEF SendFrame, TypeOK
      <4>3. QED
        BY <2>0, <3>2, <4>1, <4>2
    <3>4. CASE ~SendFrame
      <4>1. frameQ' = frameQ
        BY <2>3, <3>4 DEF CameraStep, CameraLooks, NoFrame, Grab, NoFallback, FallbackReads,
                          FallbackStops, FallbackInits, FallbackRestarts, frameVars
      <4>2. camPc' \in {"grab", "copied"} => camPc \in {"grab", "copied"}
        BY <2>3, <3>2, <3>4
        DEF CameraStep, CameraLooks, NoFrame, Grab, NoFallback, FallbackReads,
            FallbackStops, FallbackInits, FallbackRestarts, CamGoes
      <4>3. QED
        BY <2>0, <3>2, <4>1, <4>2
    <3>5. QED
      BY <3>3, <3>4
  <2>4. QED
    BY <2>1, <2>2, <2>3 DEF Next
<1>3. QED
  BY <1>1, <1>2, TypeCorrect, CameraKept, PTL DEF Spec

\* Written frames are counted in, and the older they are the earlier they are written.
LEMMA OldKept == Spec => []OldInv
<1>1. Init => OldInv
  BY DEF Init, OldInv, Filming, OldBound
<1>2. TypeOK /\ CamInv /\ LateInv /\ OldInv /\ [Next]_vars => OldInv'
  <2> SUFFICES ASSUME TypeOK, CamInv, LateInv, OldInv, [Next]_vars PROVE OldInv'
    OBVIOUS
  <2>0. /\ FrameQueueLen \in Nat \ {0} /\ Len(frameQ) \in Nat
        /\ stale \in 0 .. FrameQueueLen + 2 /\ OldBound \in 1 .. FrameQueueLen + 1
    BY LengthAssumption DEF TypeOK, OldBound
  <2>1. CASE UNCHANGED <<stale, frameQ, camPc, hand, revived>> /\ Filming' = Filming
    BY <2>1 DEF OldInv, OldBound
  <2>2. CASE SetOpen
    <3>1. ~sessionOpen /\ storagePc = "opening"
      BY <2>2 DEF SetOpen, StorageGoes, CamInv, PcInv
    <3>2. stale = 0 /\ stale' = 0 /\ Filming' /\ OldBound' = OldBound /\ camPc' = camPc
      BY <2>2, <3>1 DEF SetOpen, StorageGoes, OldInv, Filming, OldBound, camVars
    <3>3. Len(frameQ') = Len(frameQ)
      BY <2>2 DEF SetOpen, TypeOK
    <3>4. Len(frameQ) + (IF camPc = "copied" THEN 1 ELSE 0) <= OldBound
      <4>1. CASE revived
        BY <2>0, <4>1 DEF OldBound, TypeOK
      <4>2. CASE ~revived
        BY <2>0, <3>1, <4>2 DEF OldBound, LateInv, Late
      <4>3. QED
        BY <4>1, <4>2
    <3>5. QED
      BY <2>0, <3>2, <3>3, <3>4 DEF OldInv
  <2>3. CASE StopCamera
    BY <2>3 DEF StopCamera, StorageGoes, OldInv, Filming
  <2>4. CASE DrainFrame
    <3>1. /\ frameQ' = Tail(frameQ) /\ frameQ # <<>> /\ Filming' = Filming
          /\ UNCHANGED <<camPc, hand>> /\ OldBound' = OldBound
          /\ storagePc = "frames"
      BY <2>4 DEF DrainFrame, Filming, OldBound, camVars
    <3>2. /\ Len(frameQ') = Len(frameQ) - 1 /\ Head(frameQ) = frameQ[1]
          /\ \A i \in 1 .. Len(frameQ) - 1 : frameQ'[i] = frameQ[i + 1]
          /\ Len(frameQ) > 0
      BY <3>1 DEF TypeOK
    <3>3. CASE ~Filming
      BY <2>4, <3>1, <3>3 DEF DrainFrame, OldInv, Filming
    <3>4. CASE Filming /\ frameQ[1] = "old"
      <4>1. stale + 1 <= OldBound
        BY <2>0, <3>2, <3>4 DEF OldInv
      <4>2. stale' = stale + 1
        BY <2>0, <2>4, <3>2, <3>4, <4>1 DEF DrainFrame, AtMost, Filming
      <4>3. ASSUME NEW i \in 1 .. Len(frameQ'), frameQ'[i] = "old"
            PROVE  stale' + i <= OldBound
        <5>1. i + 1 \in 1 .. Len(frameQ) /\ frameQ[i + 1] = "old"
          BY <2>0, <3>2, <4>3
        <5>2. QED
          BY <2>0, <3>4, <4>2, <5>1 DEF OldInv
      <4>4. camPc = "copied" /\ hand = "old" => stale' + Len(frameQ') + 1 <= OldBound
        BY <2>0, <3>2, <3>4, <4>2 DEF OldInv
      <4>5. QED
        BY <3>1, <3>4, <4>1, <4>2, <4>3, <4>4 DEF OldInv
    <3>5. CASE Filming /\ frameQ[1] # "old"
      <4>1. stale' = stale /\ stale <= OldBound
        BY <2>4, <3>2, <3>5 DEF DrainFrame, OldInv
      <4>2. ASSUME NEW i \in 1 .. Len(frameQ'), frameQ'[i] = "old"
            PROVE  stale' + i <= OldBound
        <5>1. i + 1 \in 1 .. Len(frameQ) /\ frameQ[i + 1] = "old"
          BY <2>0, <3>2, <4>2
        <5>2. QED
          BY <2>0, <3>5, <4>1, <5>1 DEF OldInv
      <4>3. camPc = "copied" /\ hand = "old" => stale' + Len(frameQ') + 1 <= OldBound
        BY <2>0, <3>2, <3>5, <4>1 DEF OldInv
      <4>4. QED
        BY <3>1, <3>5, <4>1, <4>2, <4>3 DEF OldInv
    <3>6. QED
      BY <3>3, <3>4, <3>5
  <2>5. CASE SendFrame
    <3>1. /\ camPc = "copied" /\ camPc' # "copied" /\ UNCHANGED stale
          /\ Filming' = Filming /\ OldBound' = OldBound
      BY <2>5 DEF SendFrame, WindowEnds, CamGoes, Filming, OldBound, frameVars
    <3>2. ASSUME NEW i \in 1 .. Len(frameQ'), frameQ'[i] = "old"
          PROVE  \/ i \in 1 .. Len(frameQ) /\ frameQ[i] = "old"
                 \/ i = Len(frameQ) + 1 /\ hand = "old"
      BY <2>0, <2>5, <3>2 DEF SendFrame, TypeOK
    <3>3. QED
      BY <2>0, <3>1, <3>2 DEF OldInv
  <2>6. CASE Grab
    BY <2>6 DEF Grab, OldInv, Filming, OldBound
  <2>7. CASE \/ Emit \/ Sample \/ UNCHANGED vars
             \/ NoStart \/ OpenFails \/ OpenFiles \/ StartCamera \/ NoStop
    BY <2>1, <2>7
    DEF Emit, Sample, vars, NoStart, OpenFails, OpenFiles, StartCamera, NoStop, StorageGoes,
        Filming, frameVars, camVars
  <2>8. CASE CloseFlush \/ SetClosed \/ DrainTelemetry \/ DrainedFrames \/ DrainEvents
    BY <2>1, <2>8
    DEF CloseFlush, SetClosed, DrainTelemetry, DrainedFrames, DrainEvents, StorageGoes,
        Filming, frameVars, camVars
  <2>9. CASE \/ CameraLooks \/ NoFrame \/ NoFallback \/ FallbackReads \/ FallbackStops
             \/ FallbackInits \/ FallbackRestarts
    <3>1. UNCHANGED <<stale, frameQ, hand, revived, storagePc, sessionOpen>>
      BY <2>9 DEF CameraLooks, NoFrame, NoFallback, FallbackReads, FallbackStops,
                  FallbackInits, FallbackRestarts, frameVars
    <3>2. camPc' # "copied"
      BY <2>9 DEF CameraLooks, NoFrame, NoFallback, FallbackReads, FallbackStops,
                  FallbackInits, FallbackRestarts, CamGoes
    <3>3. QED
      BY <3>1, <3>2 DEF OldInv, Filming, OldBound
  <2>10. QED
    BY <2>2, <2>3, <2>4, <2>5, <2>6, <2>7, <2>8, <2>9 DEF Next, StorageStep, CameraStep
<1>3. QED
  BY <1>1, <1>2, TypeCorrect, CameraKept, LateKept, PTL DEF Spec

\* One frame of before may be in a video, and no more than the queue and the hand
\* hold when a change of profile restarted the camera behind a stop().
THEOREM VideoKept == Spec => []VideoBelongs
<1>1. TypeOK /\ OldInv => VideoBelongs
  BY LengthAssumption DEF TypeOK, OldInv, OldBound, VideoBelongs
<1>2. QED
  BY <1>1, OldKept, TypeCorrect, PTL
=============================================================================
