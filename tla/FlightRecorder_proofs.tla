------------------------ MODULE FlightRecorder_proofs ------------------------
(***************************************************************************)
(* Proofs about FlightRecorder, for any session ids, timing constants,     *)
(* commands, ignition times and SD card outcomes.                          *)
(***************************************************************************)
EXTENDS FlightRecorder, TLAPS

-----------------------------------------------------------------------------
(* Type correctness, handler by handler.                                   *)

\* update() never goes back to PRELAUNCH, the one phase setFlightPhase() has
\* no mission label for.
LEMMA SuccessorType ==
  ASSUME NEW d \in FlightPhase, NEW p \in Successors[d]
  PROVE  p \in FlightPhase \ {"PRELAUNCH"}
BY DEF Successors, FlightPhase

\* setFlightPhase() keeps the types for every phase its callers pass.
LEMMA SetFlightPhaseType ==
  ASSUME FsmTypeOK, NEW p \in FlightPhase \ {"PRELAUNCH"}, SetFlightPhase(p)
  PROVE  FsmTypeOK'
<1>1. mission' \in MissionState
  BY DEF FsmTypeOK, SetFlightPhase, MissionFollows, MissionPostLiftoff, MissionInFlight,
         PhaseLabel, MissionState, PadStates, InFlightStates, FlightPhase
<1>2. recording' \in RecordingState
  BY DEF FsmTypeOK, SetFlightPhase, RecordingAfterLanding, RecordingState
<1>3. landedAge' \in Unset .. PostLandingRecord + 1
  BY PostLandingAssumption DEF FsmTypeOK, SetFlightPhase, Unset
<1>4. QED
  BY <1>1, <1>2, <1>3 DEF FsmTypeOK, SetFlightPhase

\* cmdStartRecording(), from whatever state its caller moved the mission to.
LEMMA StartRecordingType ==
  ASSUME FsmTypeOK, NEW m \in MissionState, StartRecording(m)
  PROVE  /\ mission' \in MissionState
         /\ recording' \in RecordingState
         /\ requestStart' \in BOOLEAN
         /\ starting' \in {"no", "command", "tick"}
BY DEF StartRecording, FsmTypeOK

\* Every command keeps the types.
LEMMA CommandType ==
  ASSUME FsmTypeOK, NEW c, NEW r \in CmdResult, Dispatch(c, r)
  PROVE  FsmTypeOK'
<1>0. CASE UNCHANGED fsmVars
  BY <1>0 DEF FsmTypeOK, fsmVars
<1>1. ASSUME NEW s \in Sids \cup {NoSid}, CmdArm(s, r), ~UNCHANGED fsmVars
      PROVE  FsmTypeOK'
  <2>1. owner' \in Sids \cup {NoSid}
    BY <1>1 DEF CmdArm, SetOwner, FsmTypeOK
  <2>2. CASE r = "IGNORED"
    BY <1>1, <2>1, <2>2 DEF CmdArm, FsmTypeOK
  <2>3. CASE r = "ACK"
    <3>1. "ARMED" \in MissionState
      BY DEF MissionState, PadStates
    <3>2. StartRecording("ARMED")
      BY <1>1, <2>3 DEF CmdArm
    <3>3. QED
      BY <1>1, <2>1, <2>3, <3>1, <3>2, StartRecordingType DEF CmdArm, FsmTypeOK
  <2>4. QED
    BY <1>1, <2>2, <2>3 DEF CmdArm
<1>2. ASSUME NEW s \in Sids \cup {NoSid}, CmdDisarm(s, r), ~UNCHANGED fsmVars
      PROVE  FsmTypeOK'
  <2>1. mission' \in MissionState /\ recording' \in RecordingState
    BY <1>2 DEF CmdDisarm, RequestStop, GroundState, FsmTypeOK, MissionState, RecordingState
  <2>2. requestStop' \in BOOLEAN
    BY <1>2 DEF CmdDisarm, RequestStop, FsmTypeOK
  <2>3. ignitionIn' \in Past .. Never
    BY <1>2, HorizonAssumption DEF CmdDisarm, Never, Past
  <2>4. QED
    BY <1>2, <2>1, <2>2, <2>3 DEF CmdDisarm, FsmTypeOK
<1>3. CASE CmdPrepareRecording(r)
  BY <1>0, <1>3 DEF CmdPrepareRecording, FsmTypeOK, RecordingState
<1>4. CASE CmdStartRecording(r)
  <2>1. mission \in MissionState /\ StartRecording(mission)
    BY <1>4 DEF CmdStartRecording, FsmTypeOK
  <2>2. QED
    BY <1>4, <2>1, StartRecordingType DEF CmdStartRecording, FsmTypeOK
<1>5. CASE CmdStopRecording(r)
  BY <1>0, <1>5 DEF CmdStopRecording, RequestStop, FsmTypeOK, RecordingState
<1>6. ASSUME NEW d \in IgnitionTimes \ {Never}, CmdStartCountdown(d, r), ~UNCHANGED fsmVars
      PROVE  FsmTypeOK'
  <2>1. d \in Past .. Never
    BY HorizonAssumption, IgnitionTimesAssumption DEF IgnitionDistance, Never, Past
  <2>2. "COUNTDOWN" \in MissionState
    BY DEF MissionState, PadStates
  <2>3. /\ mission' \in MissionState
        /\ recording' \in RecordingState
        /\ requestStart' \in BOOLEAN
        /\ starting' \in {"no", "command", "tick"}
    <3>1. CASE RecordingActive(recording)
      BY <1>6, <2>2, <3>1 DEF CmdStartCountdown, FsmTypeOK
    <3>2. CASE ~RecordingActive(recording)
      <4>1. StartRecording("COUNTDOWN")
        BY <1>6, <3>2 DEF CmdStartCountdown
      <4>2. QED
        BY <2>2, <4>1, StartRecordingType
    <3>3. QED
      BY <3>1, <3>2
  <2>4. QED
    BY <1>6, <2>1, <2>3 DEF CmdStartCountdown, FsmTypeOK
<1>7. ASSUME NEW d \in IgnitionTimes,
             CmdUpdateCountdown(d, r) \/ CmdSetExpectedIgnition(d, r), ~UNCHANGED fsmVars
      PROVE  FsmTypeOK'
  <2>1. d \in Past .. Never
    BY HorizonAssumption, IgnitionTimesAssumption DEF IgnitionDistance, Never, Past
  <2>2. QED
    BY <1>7, <2>1 DEF CmdUpdateCountdown, CmdSetExpectedIgnition, FsmTypeOK
<1>8. CASE CmdCancelCountdown(r)
  <2>1. CASE r = "ACK"
    <3>1. mission' \in MissionState
      BY <1>8, <2>1 DEF CmdCancelCountdown, MissionAfterCancel, FsmTypeOK, MissionState,
                        PadStates
    <3>2. QED
      BY <1>8, <2>1, <3>1 DEF CmdCancelCountdown, FsmTypeOK
  <2>2. QED
    BY <1>0, <1>8, <2>1 DEF CmdCancelCountdown
<1>9. CASE CmdAbort(r)
  BY <1>9 DEF CmdAbort, FsmTypeOK, MissionState
<1>10. ASSUME NEW force \in BOOLEAN, CmdReset(force, r), ~UNCHANGED fsmVars
       PROVE  FsmTypeOK'
  <2>1. mission' \in MissionState /\ recording' \in RecordingState /\ phase' \in FlightPhase
    BY <1>10 DEF CmdReset, RequestStop, GroundState, FsmTypeOK, MissionState, RecordingState,
                 FlightPhase
  <2>2. requestStop' \in BOOLEAN
    BY <1>10 DEF CmdReset, RequestStop, FsmTypeOK
  <2>3. /\ ignitionIn' \in Past .. Never
        /\ landedAge' \in Unset .. PostLandingRecord + 1
    BY <1>10, HorizonAssumption, PostLandingAssumption DEF CmdReset, Never, Past, Unset
  <2>4. QED
    BY <1>10, <2>1, <2>2, <2>3 DEF CmdReset, FsmTypeOK
<1>11. QED
  BY <1>0, <1>1, <1>2, <1>3, <1>4, <1>5, <1>6, <1>7, <1>8, <1>9, <1>10 DEF Dispatch

\* tick() keeps the types.
LEMMA TickType ==
  ASSUME FsmTypeOK, NEW exact \in BOOLEAN, Tick(exact) \/ LeadStart(exact)
  PROVE  FsmTypeOK'
BY DEF FsmTypeOK, Tick, LeadStart, RequestStop, MissionState, PadStates, RecordingState

\* So does the second half of a start.
LEMMA FinishStartType ==
  ASSUME FsmTypeOK, FinishStart
  PROVE  FsmTypeOK'
<1>1. MissionAfterStart(mission) \in MissionState /\ "IGNITION_EXPECTED" \in MissionState
  BY DEF FsmTypeOK, MissionAfterStart, MissionState, PadStates
<1>2. "PREPARING" \in RecordingState
  BY DEF RecordingState
<1>3. QED
  BY <1>1, <1>2 DEF FsmTypeOK, FinishStart

\* The clock keeps the distances within their bounds.
LEMMA TimePassesType ==
  ASSUME FsmTypeOK, TimePasses
  PROVE  FsmTypeOK'
<1>1. ignitionIn' \in Past .. Never
  BY HorizonAssumption DEF FsmTypeOK, TimePasses, Past, Never
<1>2. landedAge' \in Unset .. PostLandingRecord + 1
  BY PostLandingAssumption DEF FsmTypeOK, TimePasses, Older, Unset
<1>3. recordingAge' \in Unset .. MaxMissionRecord + 2
  BY MaxRecordAssumption DEF FsmTypeOK, TimePasses, Older, Unset
<1>4. QED
  BY <1>1, <1>2, <1>3 DEF FsmTypeOK, TimePasses

\* The state after boot has the types.
LEMMA TypeInit == Init => TypeOK
<1> SUFFICES ASSUME Init PROVE TypeOK
  OBVIOUS
<1> USE DEF Init, FsmInit
<1>1. mission \in MissionState /\ recording \in RecordingState /\ phase \in FlightPhase
  BY DEF MissionState, RecordingState, FlightPhase
<1>2. ignitionIn \in Past .. Never
  BY HorizonAssumption DEF Past, Never
<1>3. landedAge \in Unset .. PostLandingRecord + 1
  BY PostLandingAssumption DEF Unset
<1>4. recordingAge \in Unset .. MaxMissionRecord + 2
  BY MaxRecordAssumption DEF Unset
<1>5. QED
  BY <1>1, <1>2, <1>3, <1>4 DEF TypeOK, FsmTypeOK, FlightPhase, StoragePc

\* Every step of every task keeps the types.
LEMMA TypeStep ==
  TypeOK /\ [Next]_vars => TypeOK'
<1> SUFFICES ASSUME TypeOK, [Next]_vars PROVE TypeOK'
  OBVIOUS
<1> USE DEF TypeOK
<1>1. CASE SelfTestDone
  BY <1>1 DEF SelfTestDone, AdvanceSelfTestOk, taskVars, FsmTypeOK, MissionState
<1>2. CASE Connect
  BY <1>2 DEF Connect, BleConnect, taskVars, FsmTypeOK, MissionState
<1>3. CASE Disconnect
  BY <1>3 DEF Disconnect, BleDisconnect, MissionAfterDisconnect, taskVars, FsmTypeOK,
              MissionState
<1>4. CASE Command
  BY <1>4, CommandType DEF Command, taskVars
<1>5. ASSUME NEW p \in {"LIFTOFF", "LANDED"}, GroundTest(p) \/ ReportAgain(p)
      PROVE  TypeOK'
  <2>1. p \in FlightPhase \ {"PRELAUNCH"}
    BY <1>5 DEF FlightPhase
  <2>2. QED
    BY <1>5, <2>1, SetFlightPhaseType DEF GroundTest, ReportAgain, taskVars
<1>6. ASSUME NEW p \in FlightPhase, Detect(p) PROVE TypeOK'
  <2>1. p \in FlightPhase \ {"PRELAUNCH"}
    BY <1>6, SuccessorType DEF Detect
  <2>2. QED
    BY <1>6, <2>1, SetFlightPhaseType DEF Detect
<1>7. CASE MissionTick \/ MissionStarts
  BY <1>7, TickType, FinishStartType DEF MissionTick, MissionStarts
<1>8. CASE StorageStep
  <2> USE DEF FsmTypeOK, StoragePc
  <2>1. CASE StorageStart
    BY <2>1 DEF StorageStart, ConsumeStart
  <2>2. CASE StorageNoStart
    BY <2>2 DEF StorageNoStart, fsmVars
  <2>3. CASE StorageMarkActive
    BY <2>3, MaxRecordAssumption
       DEF StorageMarkActive, MarkRecordingActive, RecordingState, MissionState,
                PadStates, Unset
  <2>4. CASE StorageMarkFailed
    BY <2>4 DEF StorageMarkFailed, MarkRecordingFailed, RecordingState
  <2>5. CASE StorageStop
    BY <2>5 DEF StorageStop, ConsumeStop
  <2>6. CASE StorageNoStop
    BY <2>6 DEF StorageNoStop, fsmVars
  <2>7. CASE StorageMarkStopped
    BY <2>7, MaxRecordAssumption
       DEF StorageMarkStopped, MarkRecordingStopped, RecordingState, Unset
  <2>8. QED
    BY <1>8, <2>1, <2>2, <2>3, <2>4, <2>5, <2>6, <2>7 DEF StorageStep
<1>9. CASE ClockAdvance
  BY <1>9, TimePassesType DEF ClockAdvance
<1>10. CASE UNCHANGED vars
  BY <1>10 DEF vars, FsmTypeOK
<1>11. QED
  BY <1>1, <1>2, <1>3, <1>4, <1>5, <1>6, <1>7, <1>8, <1>9, <1>10 DEF Next

\* Every variable keeps its type: the enumerations of types.h, the saturating
\* distances and the storage task's program counter.
THEOREM TypeCorrect == Spec => []TypeOK
BY TypeInit, TypeStep, PTL DEF Spec

-----------------------------------------------------------------------------
(* The flight: mission label, liftoff flag, countdown and link.            *)

\* LANDED is always timed: the strengthening PostLandingIsTimed rests on.
LandedIsTimed == mission = "LANDED" => landedAge # Unset

\* The four are inductive together: an abort of a counting mission leaves
\* COUNTDOWN only because LiftoffLatched says the flag is still down.
FlightInv == LiftoffLatched /\ LandedIsTimed /\ CountdownHasInstant /\ ConnectedMeansLink

\* setFlightPhase() keeps label, flag, landing time and countdown together.
LEMMA SetFlightPhaseFlight ==
  ASSUME TypeOK, FlightInv, NEW p \in FlightPhase \ {"PRELAUNCH"}, SetFlightPhase(p)
  PROVE  FlightInv'
<1> USE DEF MissionPostLiftoff, MissionInFlight, InFlightStates
<1>1. LiftoffLatched'
  BY DEF FlightInv, LiftoffLatched, SetFlightPhase, MissionFollows, PhaseLabel, FlightPhase
<1>2. LandedIsTimed'
  BY DEF FlightInv, LandedIsTimed, SetFlightPhase, MissionFollows, PhaseLabel, FlightPhase,
         Unset
<1>3. CountdownHasInstant'
  BY DEF FlightInv, CountdownHasInstant, SetFlightPhase, PhaseLabel, FlightPhase
<1>4. ConnectedMeansLink'
  BY DEF FlightInv, ConnectedMeansLink, SetFlightPhase, PhaseLabel, FlightPhase
<1>5. QED
  BY <1>1, <1>2, <1>3, <1>4 DEF FlightInv

\* A step that leaves the flight variables alone keeps FlightInv.
LEMMA FlightFrame ==
  ASSUME FlightInv,
         UNCHANGED <<mission, ignitionIn, countdownOn, liftedOff, landedAge, bleConnected>>
  PROVE  FlightInv'
BY DEF FlightInv, LiftoffLatched, LandedIsTimed, CountdownHasInstant, ConnectedMeansLink

\* A start that ends moves the mission at most to RECORDING, from a state before
\* liftoff, or to IGNITION_EXPECTED in a tick() whose ignition is reached.
LEMMA FinishStartMission ==
  ASSUME FinishStart
  PROVE  \/ mission' = mission
         \/ /\ mission \in {"ARMED", "CONNECTED", "IDLE", "ABORTED"}
            /\ mission' = "RECORDING"
         \/ /\ mission' = "IGNITION_EXPECTED" /\ countdownOn /\ ignitionIn <= 0 /\ ~liftedOff
            /\ mission \in {"ARMED", "CONNECTED", "IDLE", "ABORTED", "COUNTDOWN", "RECORDING"}
BY DEF FinishStart, MissionAfterStart, IgnitionReached

\* Every command keeps FlightInv.
LEMMA CommandFlight ==
  ASSUME TypeOK, FlightInv, NEW c, NEW r \in CmdResult, Dispatch(c, r)
  PROVE  FlightInv'
<1> USE DEF FlightInv, LiftoffLatched, LandedIsTimed, CountdownHasInstant, ConnectedMeansLink,
            MissionPostLiftoff, MissionInFlight, InFlightStates
<1>0. CASE UNCHANGED fsmVars
  BY <1>0, FlightFrame DEF fsmVars
<1>1. ASSUME NEW s, CmdArm(s, r), ~UNCHANGED fsmVars PROVE FlightInv'
  <2>1. CASE r = "IGNORED"
    BY <1>1, <2>1, FlightFrame DEF CmdArm
  <2>2. CASE r = "ACK"
    <3>1. mission' = "ARMED"
      BY <1>1, <2>2 DEF CmdArm, StartRecording
    <3>2. QED
      BY <1>1, <2>2, <3>1 DEF CmdArm
  <2>3. QED
    BY <1>1, <2>1, <2>2 DEF CmdArm
<1>2. ASSUME NEW s, CmdDisarm(s, r), ~UNCHANGED fsmVars PROVE FlightInv'
  BY <1>2 DEF CmdDisarm, DisarmRefused, GroundState
<1>3. CASE CmdPrepareRecording(r)
  BY <1>0, <1>3, FlightFrame DEF CmdPrepareRecording
<1>4. CASE CmdStartRecording(r)
  BY <1>4, FlightFrame DEF CmdStartRecording, StartRecording
<1>5. CASE CmdStopRecording(r)
  BY <1>0, <1>5, FlightFrame DEF CmdStopRecording
<1>6. ASSUME NEW d \in IgnitionTimes \ {Never}, CmdStartCountdown(d, r), ~UNCHANGED fsmVars
      PROVE  FlightInv'
  <2>1. mission' = "COUNTDOWN"
    BY <1>6 DEF CmdStartCountdown, StartRecording
  <2>2. QED
    BY <1>6, <2>1 DEF CmdStartCountdown, CountdownRefused
<1>7. ASSUME NEW d, CmdUpdateCountdown(d, r) \/ CmdSetExpectedIgnition(d, r),
             ~UNCHANGED fsmVars
      PROVE  FlightInv'
  BY <1>7 DEF CmdUpdateCountdown, CmdSetExpectedIgnition
<1>8. CASE CmdCancelCountdown(r)
  BY <1>0, <1>8 DEF CmdCancelCountdown, MissionAfterCancel
<1>9. CASE CmdAbort(r)
  BY <1>9 DEF CmdAbort, AbortMoves
<1>10. ASSUME NEW force, CmdReset(force, r), ~UNCHANGED fsmVars PROVE FlightInv'
  BY <1>10 DEF CmdReset, GroundState
<1>11. QED
  BY <1>0, <1>1, <1>2, <1>3, <1>4, <1>5, <1>6, <1>7, <1>8, <1>9, <1>10 DEF Dispatch

\* A device that has booted is on the ground.
LEMMA FlightInit == Init => FlightInv
BY DEF Init, FsmInit, FlightInv, LiftoffLatched, LandedIsTimed, CountdownHasInstant,
       ConnectedMeansLink, MissionPostLiftoff, MissionInFlight, InFlightStates

\* Every step keeps FlightInv.
LEMMA FlightStep ==
  TypeOK /\ FlightInv /\ [Next]_vars => FlightInv'
<1> SUFFICES ASSUME TypeOK, FlightInv, [Next]_vars PROVE FlightInv'
  OBVIOUS
<1> USE DEF FlightInv, LiftoffLatched, LandedIsTimed, CountdownHasInstant,
            ConnectedMeansLink, MissionPostLiftoff, MissionInFlight, InFlightStates
<1>1. CASE SelfTestDone
  BY <1>1 DEF SelfTestDone, AdvanceSelfTestOk
<1>2. CASE Connect
  BY <1>2 DEF Connect, BleConnect
<1>3. CASE Disconnect
  BY <1>3 DEF Disconnect, BleDisconnect, MissionAfterDisconnect
<1>4. CASE Command
  BY <1>4, CommandFlight DEF Command
<1>5. ASSUME NEW p \in {"LIFTOFF", "LANDED"}, GroundTest(p) \/ ReportAgain(p)
      PROVE  FlightInv'
  <2>1. p \in FlightPhase \ {"PRELAUNCH"}
    BY <1>5 DEF FlightPhase
  <2>2. QED
    BY <1>5, <2>1, SetFlightPhaseFlight DEF GroundTest, ReportAgain
<1>6. ASSUME NEW p \in FlightPhase, Detect(p) PROVE FlightInv'
  <2>1. p \in FlightPhase \ {"PRELAUNCH"}
    BY <1>6, SuccessorType DEF Detect, TypeOK
  <2>2. QED
    BY <1>6, <2>1, SetFlightPhaseFlight DEF Detect
<1>7. CASE MissionTick \/ MissionStarts
  <2>1. \/ mission' = mission
        \/ mission' = "RECORDING" /\ ~MissionPostLiftoff(mission)
        \/ mission' = "IGNITION_EXPECTED" /\ countdownOn /\ ignitionIn <= 0 /\ ~liftedOff
    BY <1>7, FinishStartMission DEF MissionTick, MissionStarts, Tick, LeadStart,
       IgnitionReached
  <2>2. UNCHANGED <<ignitionIn, countdownOn, liftedOff, landedAge, bleConnected>>
    BY <1>7 DEF MissionTick, MissionStarts, Tick, LeadStart, FinishStart
  <2>3. ignitionIn <= 0 => ignitionIn # Never
    BY HorizonAssumption DEF Never
  <2>4. QED
    BY <2>1, <2>2, <2>3
<1>8. CASE StorageStep
  BY <1>8, FlightFrame DEF StorageStep, StorageStart, ConsumeStart, StorageNoStart,
     StorageMarkActive, MarkRecordingActive, StorageMarkFailed, MarkRecordingFailed,
     StorageStop, ConsumeStop, StorageNoStop, StorageMarkStopped, MarkRecordingStopped,
     fsmVars
<1>9. CASE ClockAdvance
  <2>1. ignitionIn # Never => ignitionIn' # Never
    BY <1>9, HorizonAssumption
       DEF ClockAdvance, TimePasses, TypeOK, FsmTypeOK, Never, Past
  <2>2. landedAge # Unset => landedAge' # Unset
    BY <1>9, PostLandingAssumption
       DEF ClockAdvance, TimePasses, Older, TypeOK, FsmTypeOK, Unset
  <2>3. QED
    BY <1>9, <2>1, <2>2 DEF ClockAdvance, TimePasses
<1>10. CASE UNCHANGED vars
  BY <1>10, FlightFrame DEF vars
<1>11. QED
  BY <1>1, <1>2, <1>3, <1>4, <1>5, <1>6, <1>7, <1>8, <1>9, <1>10 DEF Next

\* FlightInv is an invariant of the recorder.
LEMMA FlightInvariant == Spec => []FlightInv
BY FlightInit, FlightStep, TypeCorrect, PTL DEF Spec

\* Whatever order detector, commands and BLE events run in: the liftoff flag and
\* the mission label agree, a countdown has an instant, CONNECTED has a link.
THEOREM FlightSafe == Spec => [](LiftoffLatched /\ CountdownHasInstant /\ ConnectedMeansLink)
BY FlightInvariant, PTL DEF FlightInv

\* A countdown state always has a running countdown with an instant.
THEOREM CountdownReal == Spec => []CountdownHasInstant
BY FlightInvariant, PTL DEF FlightInv

\* The device never shows CONNECTED without a link.
THEOREM ConnectedReal == Spec => []ConnectedMeansLink
BY FlightInvariant, PTL DEF FlightInv

-----------------------------------------------------------------------------
(* The flight cycle: the recorder implements FlightLifecycle.              *)

\* A command moves the flight cycle only by a reset: after the landing, or in
\* flight when it is forced.
LEMMA CommandLife ==
  ASSUME TypeOK, FlightInv, NEW c \in Commands, NEW r \in CmdResult, Dispatch(c, r)
  PROVE  \/ Life' = Life
         \/ Life = "landed" /\ Life' = "ground"
         \/ /\ "reset_force" \in Commands
            /\ CmdReset(TRUE, "ACK")
            /\ Life = "flight" /\ Life' = "ground"
<1> USE DEF Life, MissionPostLiftoff, MissionInFlight, InFlightStates
<1>0. CASE mission' = mission
  BY <1>0
<1>1. ASSUME NEW s, CmdArm(s, r), mission' # mission PROVE Life' = Life
  <2>1. mission \in {"IDLE", "CONNECTED", "ABORTED"} /\ StartRecording("ARMED")
    BY <1>1 DEF CmdArm, fsmVars
  <2>2. QED
    BY <2>1 DEF StartRecording
<1>2. ASSUME NEW s, CmdDisarm(s, r), mission' # mission PROVE Life' = Life
  BY <1>2 DEF CmdDisarm, DisarmRefused, GroundState, fsmVars
<1>3. CASE CmdStartRecording(r)
  BY <1>3 DEF CmdStartRecording, StartRecording
<1>4. ASSUME NEW d, CmdStartCountdown(d, r), mission' # mission PROVE Life' = Life
  <2>1. ~CountdownRefused /\ mission' = "COUNTDOWN"
    BY <1>4 DEF CmdStartCountdown, StartRecording, fsmVars
  <2>2. QED
    BY <2>1 DEF CountdownRefused
<1>5. CASE CmdCancelCountdown(r) /\ mission' # mission
  BY <1>5 DEF CmdCancelCountdown, MissionAfterCancel, fsmVars
<1>6. CASE CmdAbort(r)
  BY <1>6 DEF CmdAbort, AbortMoves
<1>7. CASE CmdReset(FALSE, r) /\ mission' # mission
  BY <1>7 DEF CmdReset, ResetRefused, GroundState, fsmVars
<1>8. CASE c = "reset_force" /\ CmdReset(TRUE, r) /\ mission' # mission
  BY <1>8 DEF CmdReset, GroundState, fsmVars
<1>9. QED
  BY <1>0, <1>1, <1>2, <1>3, <1>4, <1>5, <1>6, <1>7, <1>8
     DEF Dispatch, CmdPrepareRecording, CmdStopRecording, CmdUpdateCountdown,
         CmdSetExpectedIgnition, fsmVars

\* setFlightPhase() launches from the ground, lands from flight, or neither.
LEMMA SetFlightPhaseLife ==
  ASSUME TypeOK, NEW p \in FlightPhase \ {"PRELAUNCH"}, SetFlightPhase(p)
  PROVE  \/ Life' = Life
         \/ Life = "ground" /\ Life' = "flight"
         \/ Life = "flight" /\ Life' = "landed"
BY DEF SetFlightPhase, MissionFollows, PhaseLabel, FlightPhase, Life, MissionPostLiftoff,
       MissionInFlight, InFlightStates

\* What any step does to the flight cycle.
LEMMA StepLife ==
  ASSUME TypeOK, FlightInv, [Next]_vars
  PROVE  \/ Life' = Life
         \/ Life = "ground" /\ Life' = "flight"
         \/ Life = "flight" /\ Life' = "landed"
         \/ Life = "landed" /\ Life' = "ground"
         \/ /\ "reset_force" \in Commands
            /\ CmdReset(TRUE, "ACK")
            /\ Life = "flight" /\ Life' = "ground"
<1> USE DEF Life, MissionInFlight, InFlightStates
<1>1. CASE SelfTestDone
  BY <1>1 DEF SelfTestDone, AdvanceSelfTestOk
<1>2. CASE Connect
  BY <1>2 DEF Connect, BleConnect
<1>3. CASE Disconnect
  BY <1>3 DEF Disconnect, BleDisconnect, MissionAfterDisconnect
<1>4. CASE Command
  BY <1>4, CommandLife DEF Command
<1>5. ASSUME NEW p \in {"LIFTOFF", "LANDED"}, GroundTest(p) \/ ReportAgain(p)
      PROVE  \/ Life' = Life
             \/ Life = "ground" /\ Life' = "flight"
             \/ Life = "flight" /\ Life' = "landed"
  <2>1. p \in FlightPhase \ {"PRELAUNCH"}
    BY <1>5 DEF FlightPhase
  <2>2. QED
    BY <1>5, <2>1, SetFlightPhaseLife DEF GroundTest, ReportAgain
<1>6. ASSUME NEW p \in FlightPhase, Detect(p)
      PROVE  \/ Life' = Life
             \/ Life = "ground" /\ Life' = "flight"
             \/ Life = "flight" /\ Life' = "landed"
  <2>1. p \in FlightPhase \ {"PRELAUNCH"}
    BY <1>6, SuccessorType DEF Detect, TypeOK
  <2>2. QED
    BY <1>6, <2>1, SetFlightPhaseLife DEF Detect
<1>7. CASE MissionTick \/ MissionStarts
  BY <1>7, FinishStartMission DEF MissionTick, MissionStarts, Tick, LeadStart,
     IgnitionReached
<1>8. CASE StorageStep
  BY <1>8 DEF StorageStep, StorageStart, ConsumeStart, StorageNoStart, StorageMarkActive,
     MarkRecordingActive, StorageMarkFailed, MarkRecordingFailed, StorageStop, ConsumeStop,
     StorageNoStop, StorageMarkStopped, MarkRecordingStopped, fsmVars
<1>9. CASE ClockAdvance
  BY <1>9 DEF ClockAdvance, TimePasses
<1>10. CASE UNCHANGED vars
  BY <1>10 DEF vars
<1>11. QED
  BY <1>1, <1>2, <1>3, <1>4, <1>5, <1>6, <1>7, <1>8, <1>9, <1>10 DEF Next

\* The recorder implements FlightLifecycle: initial states map to the ground,
\* and every step of any task maps to a step of the cycle or to a stutter.
THEOREM LifecycleRefinement == Spec => ImplementsLifecycle
<1>1. Init => Lifecycle!Init
  BY DEF Init, FsmInit, Life, MissionInFlight, InFlightStates, Lifecycle!Init
<1>2. TypeOK /\ FlightInv /\ [Next]_vars => [Lifecycle!Next]_Life
  BY StepLife DEF Lifecycle!Next, Lifecycle!Launch, Lifecycle!Land, Lifecycle!Recover,
     Lifecycle!Forget
<1>3. QED
  BY <1>1, <1>2, TypeCorrect, FlightInvariant, PTL DEF Spec, ImplementsLifecycle, Lifecycle!Spec

\* A mission in flight stays after liftoff until a forced reset.
THEOREM FlightKept == Spec => FlightNotForgotten
<1>1. TypeOK /\ FlightInv /\ [Next]_vars =>
        [MissionInFlight(mission) => MissionPostLiftoff(mission') \/ CmdReset(TRUE, "ACK")]_vars
  <2> SUFFICES ASSUME TypeOK, FlightInv, [Next]_vars, MissionInFlight(mission),
                      ~CmdReset(TRUE, "ACK")
               PROVE  MissionPostLiftoff(mission')
    OBVIOUS
  <2>1. Life = "flight"
    BY DEF Life
  <2>2. Life' \in {"flight", "landed"}
    BY <2>1, StepLife
  <2>3. QED
    BY <2>2 DEF Life, MissionPostLiftoff
<1>2. QED
  BY <1>1, TypeCorrect, FlightInvariant, PTL DEF Spec, FlightNotForgotten

-----------------------------------------------------------------------------
(* The two phases: mission and detector agree about a flight.              *)

\* A mission in flight shows the detector's phase; otherwise the mission's phase
\* may have been set back by a reset.  A landed mission has a landed detector, so
\* that a liftoff always finds the mission on the ground.
PhaseInv ==
  /\ MissionInFlight(mission) => PhaseInFlight(detected) /\ phase = detected
  /\ phase \in {detected, "PRELAUNCH"}
  /\ mission = "LANDED" => detected = "LANDED" \/ forced

\* The step loses sight of no flight, or for one of the two reasons.
KeepsSight ==
  FlightUnseen' =>
    \/ FlightUnseen
    \/ "reset_force" \in Commands /\ CmdReset(TRUE, "ACK")
    \/ forced'

\* A step that moves neither phase nor the flight cycle keeps both.
LEMMA PhaseFrame ==
  ASSUME PhaseInv, UNCHANGED <<detected, forced, phase>>, Life' = Life
  PROVE  PhaseInv' /\ KeepsSight
BY DEF PhaseInv, KeepsSight, FlightUnseen, Life, MissionInFlight, InFlightStates

\* A command sets the mission's phase back only where it leaves the mission on
\* the ground.
LEMMA CommandPhase ==
  ASSUME NEW c, NEW r, Dispatch(c, r)
  PROVE  phase' = phase \/ (phase' = "PRELAUNCH" /\ Life' = "ground")
<1>1. ASSUME NEW f, CmdReset(f, r)
      PROVE  phase' = phase \/ (phase' = "PRELAUNCH" /\ Life' = "ground")
  BY <1>1 DEF CmdReset, GroundState, Life, MissionInFlight, InFlightStates, fsmVars
<1>2. QED
  BY <1>1 DEF Dispatch, CmdArm, CmdDisarm, CmdPrepareRecording, CmdStartRecording,
     CmdStopRecording, CmdStartCountdown, CmdUpdateCountdown, CmdSetExpectedIgnition,
     CmdCancelCountdown, CmdAbort, fsmVars

\* Every command keeps PhaseInv; in flight only a forced reset loses the mission.
LEMMA CommandKeepsPhases ==
  ASSUME TypeOK, FlightInv, PhaseInv, Command
  PROVE  PhaseInv' /\ KeepsSight
<1>1. PICK c \in Commands, r \in CmdResult : Dispatch(c, r)
  BY DEF Command
<1>2. UNCHANGED <<detected, forced>>
  BY DEF Command
<1>3. CASE phase' = phase /\ Life' = Life
  BY <1>2, <1>3, PhaseFrame
<1>4. CASE Life' = "ground"
  <2>1. phase' \in {detected', "PRELAUNCH"}
    BY <1>1, <1>2, CommandPhase DEF PhaseInv
  <2>2. ~MissionInFlight(mission') /\ mission' # "LANDED"
    BY <1>4 DEF Life, MissionInFlight
  <2>3. KeepsSight
    <3>1. CASE Life = "flight"
      BY <1>1, <1>4, <3>1, CommandLife DEF KeepsSight
    <3>2. CASE Life # "flight"
      BY <1>2, <3>2 DEF KeepsSight, FlightUnseen, Life
    <3>3. QED
      BY <3>1, <3>2
  <2>4. QED
    BY <2>1, <2>2, <2>3 DEF PhaseInv
<1>5. QED
  BY <1>1, <1>3, <1>4, CommandPhase, CommandLife

\* A ground test gives the detector and the mission the same phase, and a
\* sample that passes it on again changes nothing in that.
LEMMA GroundTestKeepsPhases ==
  ASSUME TypeOK, PhaseInv, NEW p \in {"LIFTOFF", "LANDED"},
         GroundTest(p) \/ ReportAgain(p)
  PROVE  PhaseInv' /\ KeepsSight
<1>1. forced'
  BY DEF GroundTest, ReportAgain, taskVars
<1>2. PhaseInv'
  BY DEF GroundTest, ReportAgain, taskVars, SetFlightPhase, MissionFollows, PhaseLabel,
         PhaseInv, MissionPostLiftoff, MissionInFlight, InFlightStates, PhaseInFlight
<1>3. QED
  BY <1>1, <1>2 DEF KeepsSight

\* So does a sample that moves the detector: at liftoff the mission is on the
\* ground and follows, and later it goes along.
LEMMA DetectKeepsPhases ==
  ASSUME TypeOK, PhaseInv, NEW p \in FlightPhase, Detect(p)
  PROVE  PhaseInv' /\ KeepsSight
<1> USE DEF PhaseInv, KeepsSight, FlightUnseen, PhaseInFlight, MissionInFlight,
            MissionPostLiftoff, InFlightStates
<1>1. p # "PRELAUNCH" /\ p # detected /\ (p = "LIFTOFF" <=> detected = "PRELAUNCH")
        /\ detected # "LANDED"
  BY DEF Detect, TypeOK, FlightPhase, Successors
<1>2. /\ detected' = p /\ phase' = p /\ forced' = forced /\ ~forced
      /\ mission' = IF MissionFollows(p) THEN PhaseLabel(p) ELSE mission
  BY <1>1 DEF Detect, SetFlightPhase
<1>3. PhaseLabel(p) = IF p \in {"LIFTOFF", "POWERED_ASCENT"} THEN "ASCENT"
                      ELSE IF p \in {"DESCENT", "IMPACT"} THEN "DESCENT" ELSE p
  BY DEF PhaseLabel
<1>4. MissionFollows(p) <=> IF p \in {"LIFTOFF", "POWERED_ASCENT"} THEN ~MissionPostLiftoff(mission)
                            ELSE IF p = "LANDED" THEN MissionPostLiftoff(mission)
                            ELSE MissionInFlight(mission)
  BY DEF MissionFollows
<1>5. QED
  BY <1>1, <1>2, <1>3, <1>4 DEF FlightPhase

\* After boot both phases are PRELAUNCH.
LEMMA PhaseInit == Init => PhaseInv
BY DEF Init, FsmInit, PhaseInv, PhaseInFlight, MissionInFlight, InFlightStates

\* Every step keeps PhaseInv, and the mission's sight of the flight.
LEMMA PhaseStep ==
  TypeOK /\ FlightInv /\ PhaseInv /\ [Next]_vars => PhaseInv' /\ KeepsSight
<1> SUFFICES ASSUME TypeOK, FlightInv, PhaseInv, [Next]_vars PROVE PhaseInv' /\ KeepsSight
  OBVIOUS
<1>1. CASE Command
  BY <1>1, CommandKeepsPhases
<1>2. ASSUME NEW p \in {"LIFTOFF", "LANDED"}, GroundTest(p) \/ ReportAgain(p)
      PROVE  PhaseInv' /\ KeepsSight
  BY <1>2, GroundTestKeepsPhases
<1>3. ASSUME NEW p \in FlightPhase, Detect(p) PROVE PhaseInv' /\ KeepsSight
  BY <1>3, DetectKeepsPhases
<1>4. CASE SelfTestDone \/ Connect \/ Disconnect
  BY <1>4, PhaseFrame DEF SelfTestDone, AdvanceSelfTestOk, Connect, BleConnect, Disconnect,
     BleDisconnect, MissionAfterDisconnect, taskVars, Life, MissionInFlight, InFlightStates
<1>5. CASE MissionTick \/ MissionStarts
  <2>1. Life' = Life
    BY <1>5, FinishStartMission DEF MissionTick, MissionStarts, Tick, LeadStart,
       IgnitionReached, Life, MissionInFlight, InFlightStates
  <2>2. UNCHANGED <<phase, detected, forced>>
    BY <1>5 DEF MissionTick, MissionStarts, Tick, LeadStart, FinishStart
  <2>3. QED
    BY <2>1, <2>2, PhaseFrame
<1>6. CASE StorageStep
  <2>1. Life' = Life
    BY <1>6 DEF StorageStep, StorageStart, ConsumeStart, StorageNoStart,
       StorageMarkActive, MarkRecordingActive, StorageMarkFailed, MarkRecordingFailed,
       StorageStop, ConsumeStop, StorageNoStop, StorageMarkStopped, MarkRecordingStopped,
       fsmVars, Life, MissionInFlight, InFlightStates
  <2>2. UNCHANGED <<phase, detected, forced>>
    BY <1>6 DEF StorageStep, StorageStart, ConsumeStart, StorageNoStart,
       StorageMarkActive, MarkRecordingActive, StorageMarkFailed, MarkRecordingFailed,
       StorageStop, ConsumeStop, StorageNoStop, StorageMarkStopped, MarkRecordingStopped,
       fsmVars
  <2>3. QED
    BY <2>1, <2>2, PhaseFrame
<1>7. CASE ClockAdvance \/ UNCHANGED vars
  BY <1>7, PhaseFrame DEF ClockAdvance, TimePasses, vars, Life
<1>8. QED
  BY <1>1, <1>2, <1>3, <1>4, <1>5, <1>6, <1>7 DEF Next

\* Without forced resets and ground tests no flight is out of sight.
SightInv == FlightUnseen => forced \/ "reset_force" \in Commands

\* Every step keeps SightInv: an injected phase is never taken back.
LEMMA SightStep ==
  TypeOK /\ FlightInv /\ PhaseInv /\ SightInv /\ [Next]_vars => SightInv'
<1> SUFFICES ASSUME TypeOK, FlightInv, PhaseInv, SightInv, [Next]_vars PROVE SightInv'
  OBVIOUS
<1>1. forced => forced'
  BY DEF Next, SelfTestDone, Connect, Disconnect, Command, GroundTest, ReportAgain, Detect,
     MissionTick, MissionStarts, StorageStep, StorageStart, StorageNoStart,
     StorageMarkActive, StorageMarkFailed, StorageStop, StorageNoStop, StorageMarkStopped,
     ClockAdvance, taskVars, vars
<1>2. QED
  BY <1>1, PhaseStep DEF SightInv, KeepsSight

\* After boot there is no flight.
LEMMA SightInit == Init => SightInv
BY DEF Init, SightInv, FlightUnseen, PhaseInFlight

\* For any commands and times: a mission in flight shows the detector's phase, and
\* the mission misses no liftoff and loses no flight but by a forced reset or an
\* injected phase.
THEOREM FlightPhasesAgree == Spec => PhasesAgree
<1>1. Spec => []PhaseInv
  BY PhaseInit, PhaseStep, TypeCorrect, FlightInvariant, PTL DEF Spec
<1>2. PhaseInv => (MissionInFlight(mission) => PhaseInFlight(detected) /\ phase = detected)
  BY DEF PhaseInv
<1>3. TypeOK /\ FlightInv /\ PhaseInv /\ [Next]_vars =>
        [~FlightUnseen /\ FlightUnseen' => CmdReset(TRUE, "ACK") \/ forced']_vars
  BY PhaseStep DEF KeepsSight
<1>4. QED
  BY <1>1, <1>2, <1>3, TypeCorrect, FlightInvariant, PTL DEF Spec, PhasesAgree

-----------------------------------------------------------------------------
(* The recording: its state, the two requests and the session.             *)

\* What the marks rest on: the storage task marks a recording active with its
\* session open, failed or stopped with no session.
MarksMatchSession ==
  /\ storagePc = "markActive" => sessionOpen
  /\ storagePc \in {"markFailed", "markStopped"} => ~sessionOpen

RecordingInv ==
  PostLandingIsTimed /\ RecordingHasSession /\ StoppingIsServed /\ MarksMatchSession

\* A step outside the storage task keeps RecordingInv when it leaves the
\* recording alone, or starts or stops it by the rules.
LEMMA RecordingKept ==
  ASSUME RecordingInv, UNCHANGED <<storagePc, sessionOpen>>,
         recordingAge # Unset => recordingAge' # Unset,
         \/ /\ UNCHANGED recording
            /\ requestStop => requestStop'
            /\ recording = "POST_LANDING" => mission' = mission
            /\ recording = "POST_LANDING" /\ landedAge # Unset => landedAge' # Unset
         \/ recording' = "PREPARING"
         \/ RequestStop
  PROVE  RecordingInv'
BY DEF RecordingInv, PostLandingIsTimed, RecordingHasSession, StoppingIsServed,
       MarksMatchSession, RequestStop

\* No command moves a mission that is LANDED, except a reset, which stops a
\* recording that is still in its window.
LEMMA CommandRecording ==
  ASSUME TypeOK, RecordingInv, NEW c, NEW r \in CmdResult, Dispatch(c, r),
         UNCHANGED <<storagePc, sessionOpen>>
  PROVE  RecordingInv'
<1>1. UNCHANGED <<storagePc, sessionOpen, recordingAge>>
  BY DEF Dispatch, CmdArm, CmdDisarm, CmdPrepareRecording, CmdStartRecording,
     CmdStopRecording, CmdStartCountdown, CmdUpdateCountdown, CmdSetExpectedIgnition,
     CmdCancelCountdown, CmdAbort, CmdReset, fsmVars
<1>2. recording = "POST_LANDING" => mission = "LANDED"
  BY DEF RecordingInv, PostLandingIsTimed
<1> DEFINE ByTheRules ==
      \/ /\ UNCHANGED recording
         /\ requestStop => requestStop'
         /\ recording = "POST_LANDING" => mission' = mission /\ landedAge' = landedAge
      \/ recording' = "PREPARING"
      \/ RequestStop
<1>3. ASSUME UNCHANGED fsmVars PROVE ByTheRules
  BY <1>3 DEF fsmVars
<1>4. ASSUME NEW s, CmdArm(s, r) PROVE ByTheRules
  BY <1>2, <1>3, <1>4 DEF CmdArm, StartRecording, PadStates
<1>5. ASSUME NEW s, CmdDisarm(s, r) PROVE ByTheRules
  BY <1>2, <1>3, <1>5 DEF CmdDisarm, DisarmRefused, MissionPostLiftoff, RecordingActive
<1>6. ASSUME CmdPrepareRecording(r) \/ CmdStopRecording(r) PROVE ByTheRules
  BY <1>3, <1>6 DEF CmdPrepareRecording, CmdStopRecording
<1>7. ASSUME CmdStartRecording(r) PROVE ByTheRules
  BY <1>7 DEF CmdStartRecording, StartRecording
<1>8. ASSUME NEW d, CmdStartCountdown(d, r) PROVE ByTheRules
  BY <1>2, <1>3, <1>8
     DEF CmdStartCountdown, CountdownRefused, MissionPostLiftoff, StartRecording
<1>9. ASSUME NEW d, CmdUpdateCountdown(d, r) \/ CmdSetExpectedIgnition(d, r)
      PROVE  ByTheRules
  BY <1>3, <1>9 DEF CmdUpdateCountdown, CmdSetExpectedIgnition
<1>10. ASSUME CmdCancelCountdown(r) PROVE ByTheRules
  BY <1>2, <1>3, <1>10 DEF CmdCancelCountdown, MissionAfterCancel
<1>11. ASSUME CmdAbort(r) PROVE ByTheRules
  BY <1>2, <1>11 DEF CmdAbort, AbortMoves, MissionPostLiftoff
<1>12. ASSUME NEW force, CmdReset(force, r) PROVE ByTheRules
  BY <1>3, <1>12 DEF CmdReset, RecordingActive
<1>13. ByTheRules
  BY <1>4, <1>5, <1>6, <1>7, <1>8, <1>9, <1>10, <1>11, <1>12 DEF Dispatch
<1>14. QED
  BY <1>1, <1>13, RecordingKept

\* setFlightPhase() opens the window only together with the landing.
LEMMA SetFlightPhaseRecording ==
  ASSUME RecordingInv, SetFlightPhase(phase'), UNCHANGED <<storagePc, sessionOpen>>
  PROVE  RecordingInv'
<1> USE DEF RecordingInv, PostLandingIsTimed, RecordingHasSession, StoppingIsServed,
            MarksMatchSession
<1>1. CASE UNCHANGED recording
  <2>1. recording = "POST_LANDING" => mission' = mission
    BY DEF SetFlightPhase, MissionFollows, PhaseLabel, MissionPostLiftoff, MissionInFlight,
           InFlightStates
  <2>2. landedAge # Unset => landedAge' # Unset
    BY DEF SetFlightPhase, Unset
  <2>3. QED
    BY <1>1, <2>1, <2>2 DEF SetFlightPhase
<1>2. CASE ~UNCHANGED recording
  <2>1. recording = "ACTIVE" /\ recording' = "POST_LANDING" /\ mission' = "LANDED"
    BY <1>2 DEF SetFlightPhase, RecordingAfterLanding, PhaseLabel
  <2>2. landedAge' # Unset
    BY <1>2 DEF SetFlightPhase, Unset
  <2>3. QED
    BY <2>1, <2>2 DEF SetFlightPhase
<1>3. QED
  BY <1>1, <1>2

\* markRecordingActive() starts the clock of the safety cap.
LEMMA MarkSetsAge ==
  ASSUME MarkRecordingActive
  PROVE  recordingAge' # Unset
BY DEF MarkRecordingActive, Unset

\* After boot nothing is recorded and nothing requested.
LEMMA RecordingInit == Init => RecordingInv
BY DEF Init, FsmInit, RecordingInv, PostLandingIsTimed, RecordingHasSession,
       StoppingIsServed, MarksMatchSession

\* Every step keeps RecordingInv.
LEMMA RecordingStep ==
  TypeOK /\ FlightInv /\ RecordingInv /\ [Next]_vars => RecordingInv'
<1> SUFFICES ASSUME TypeOK, FlightInv, RecordingInv, [Next]_vars PROVE RecordingInv'
  OBVIOUS
<1> USE DEF RecordingInv, PostLandingIsTimed, RecordingHasSession, StoppingIsServed,
            MarksMatchSession
<1>1. CASE SelfTestDone
  BY <1>1 DEF SelfTestDone, AdvanceSelfTestOk, taskVars
<1>2. CASE Connect
  BY <1>2 DEF Connect, BleConnect, taskVars
<1>3. CASE Disconnect
  BY <1>3 DEF Disconnect, BleDisconnect, MissionAfterDisconnect, taskVars
<1>4. CASE Command
  BY <1>4, CommandRecording DEF Command
<1>5. ASSUME NEW p, GroundTest(p) \/ ReportAgain(p) \/ Detect(p)
      PROVE  RecordingInv'
  <2>1. SetFlightPhase(phase')
    BY <1>5 DEF GroundTest, ReportAgain, Detect, SetFlightPhase
  <2>2. QED
    BY <1>5, <2>1, SetFlightPhaseRecording DEF GroundTest, ReportAgain, Detect, taskVars
<1>6. CASE MissionTick \/ MissionStarts
  <2>1. /\ UNCHANGED <<storagePc, sessionOpen, recordingAge, landedAge>>
        /\ requestStop => requestStop'
    BY <1>6 DEF MissionTick, MissionStarts, Tick, LeadStart, FinishStart, RequestStop
  <2>2. CASE recording' = "PREPARING" \/ RequestStop
    BY <2>1, <2>2, RecordingKept
  <2>3. CASE ~(recording' = "PREPARING" \/ RequestStop)
    <3>1. UNCHANGED recording
      BY <1>6, <2>3 DEF MissionTick, MissionStarts, Tick, LeadStart, FinishStart
    <3>2. mission = "LANDED" => mission' = mission
      BY <1>6, <2>3 DEF MissionTick, MissionStarts, Tick, LeadStart, FinishStart,
         IgnitionReached
    <3>3. QED
      BY <2>1, <3>1, <3>2
  <2>4. QED
    BY <2>2, <2>3
<1>7. CASE StorageStart \/ StorageNoStart
  BY <1>7 DEF StorageStart, ConsumeStart, StorageNoStart, fsmVars
<1>8. CASE StorageMarkActive
  BY <1>8, MarkSetsAge DEF StorageMarkActive, MarkRecordingActive
<1>9. CASE StorageMarkFailed \/ StorageMarkStopped
  BY <1>9 DEF StorageMarkFailed, MarkRecordingFailed, StorageMarkStopped,
     MarkRecordingStopped
<1>10. CASE StorageStop \/ StorageNoStop
  BY <1>10 DEF StorageStop, ConsumeStop, StorageNoStop, fsmVars
<1>11. CASE ClockAdvance
  <2>1. landedAge # Unset => landedAge' # Unset
    BY <1>11, PostLandingAssumption
       DEF ClockAdvance, TimePasses, Older, TypeOK, FsmTypeOK, Unset
  <2>2. recordingAge # Unset => recordingAge' # Unset
    BY <1>11, MaxRecordAssumption
       DEF ClockAdvance, TimePasses, Older, TypeOK, FsmTypeOK, Unset
  <2>3. QED
    BY <1>11, <2>1, <2>2 DEF ClockAdvance, TimePasses
<1>12. CASE UNCHANGED vars
  BY <1>12 DEF vars
<1>13. QED
  BY <1>1, <1>2, <1>3, <1>4, <1>5, <1>6, <1>7, <1>8, <1>9, <1>10, <1>11, <1>12
     DEF Next, StorageStep

\* RecordingInv is an invariant of the recorder.
LEMMA RecordingInvariant == Spec => []RecordingInv
BY RecordingInit, RecordingStep, TypeCorrect, FlightInvariant, PTL DEF Spec

\* Whatever the storage task interleaves with: the window follows a timed
\* landing, a running recording has its session, a stop that shows is served.
THEOREM RecordingSafe ==
  Spec => [](PostLandingIsTimed /\ RecordingHasSession /\ StoppingIsServed)
BY RecordingInvariant, PTL DEF RecordingInv

\* The window after a landing is timed.
THEOREM WindowTimed == Spec => []PostLandingIsTimed
BY RecordingInvariant, PTL DEF RecordingInv

\* A recording that is STOPPING is being stopped.
THEOREM StopServed == Spec => []StoppingIsServed
BY RecordingInvariant, PTL DEF RecordingInv

\* While the mission or the phase is in flight only the safety cap of tick() or a
\* forced reset asks for a stop, unless the mission has lost sight of the flight:
\* a recording in its window is LANDED, and the commands but disarm ask for both.
THEOREM FlightRecorded == Spec => FlightKeepsRecording
<1> DEFINE Flies == MissionInFlight(mission) \/ PhaseInFlight(phase)
           Excused ==
             \/ recordingAge >= MaxMissionRecord
             \/ CmdReset(TRUE, "ACK")
             \/ /\ ~MissionInFlight(mission)
                /\ PostLandingOver \/ \E s \in Sids \cup {NoSid} : CmdDisarm(s, "ACK")
<1>1. TypeOK /\ RecordingInv /\ [Next]_vars =>
        [Flies /\ ~requestStop /\ requestStop' => Excused]_vars
  <2> SUFFICES ASSUME TypeOK, RecordingInv, [Next]_vars, Flies, ~requestStop, requestStop'
               PROVE  Excused
    OBVIOUS
  <2>1. CASE Command
    <3>1. PICK c \in Commands, r \in CmdResult : Dispatch(c, r)
      BY <2>1 DEF Command
    <3> USE DEF fsmVars
    <3>2. ASSUME NEW s \in Sids \cup {NoSid}, CmdDisarm(s, r) PROVE Excused
      <4>1. r = "ACK" /\ ~MissionInFlight(mission)
        BY <3>2 DEF CmdDisarm, DisarmRefused, MissionPostLiftoff
      <4>2. QED
        BY <3>2, <4>1
    <3>3. ASSUME NEW s PROVE ~CmdArm(s, r)
      BY DEF CmdArm, StartRecording
    <3>4. ~CmdPrepareRecording(r) /\ ~CmdStartRecording(r) /\ ~CmdStopRecording(r)
      BY DEF CmdPrepareRecording, CmdStartRecording, StartRecording, CmdStopRecording,
             StopRefused
    <3>5. ASSUME NEW d
          PROVE  /\ ~CmdStartCountdown(d, r) /\ ~CmdUpdateCountdown(d, r)
                 /\ ~CmdSetExpectedIgnition(d, r)
      BY DEF CmdStartCountdown, StartRecording, CmdUpdateCountdown, CmdSetExpectedIgnition
    <3>6. ~CmdCancelCountdown(r) /\ ~CmdAbort(r)
      BY DEF CmdCancelCountdown, CmdAbort
    <3>7. ~CmdReset(FALSE, r)
      BY DEF CmdReset, ResetRefused
    <3>8. CmdReset(TRUE, r) => r = "ACK"
      BY DEF CmdReset
    <3>9. QED
      BY <3>1, <3>2, <3>3, <3>4, <3>5, <3>6, <3>7, <3>8 DEF Dispatch
  <2>2. CASE MissionTick
    <3>1. recording = "POST_LANDING" => ~MissionInFlight(mission)
      BY DEF RecordingInv, PostLandingIsTimed, MissionInFlight, InFlightStates
    <3>2. PostLandingOver \/ CapReached
      BY <2>2 DEF MissionTick, Tick, LeadStart
    <3>3. QED
      BY <3>1, <3>2 DEF CapReached, PostLandingOver
  <2>3. Command \/ MissionTick
    BY DEF Next, vars, fsmVars, SelfTestDone, AdvanceSelfTestOk, Connect, BleConnect,
       Disconnect, BleDisconnect, GroundTest, ReportAgain, Detect, SetFlightPhase,
       MissionStarts, FinishStart, StorageStep, StorageStart, ConsumeStart, StorageNoStart,
       StorageMarkActive, MarkRecordingActive, StorageMarkFailed, MarkRecordingFailed,
       StorageStop, ConsumeStop, StorageNoStop, StorageMarkStopped, MarkRecordingStopped,
       ClockAdvance, TimePasses
  <2>4. QED
    BY <2>1, <2>2, <2>3
<1>2. QED
  BY <1>1, TypeCorrect, RecordingInvariant, PTL DEF Spec, FlightKeepsRecording

-----------------------------------------------------------------------------
(* The window after the landing ends.                                      *)

\* A window that is full is noticed before time passes: tick() is still due.
WindowInv ==
  recording = "POST_LANDING" =>
    \/ landedAge < PostLandingRecord
    \/ landedAge = PostLandingRecord /\ "mission" \in due

\* After boot there is no window.
LEMMA WindowInit == Init => WindowInv
BY DEF Init, FsmInit, WindowInv

\* Every step keeps WindowInv.
LEMMA WindowStep ==
  TypeOK /\ RecordingInv /\ WindowInv /\ [Next]_vars => WindowInv'
<1> SUFFICES ASSUME TypeOK, RecordingInv, WindowInv, [Next]_vars,
                    recording' = "POST_LANDING"
             PROVE  \/ landedAge' < PostLandingRecord
                    \/ landedAge' = PostLandingRecord /\ "mission" \in due'
  BY DEF WindowInv
<1>1. CASE UNCHANGED <<recording, landedAge, due>>
  BY <1>1 DEF WindowInv
<1>2. ASSUME NEW p, GroundTest(p) \/ ReportAgain(p) \/ Detect(p),
             ~UNCHANGED <<recording, landedAge>>
      PROVE  landedAge' = 0
  BY <1>2 DEF GroundTest, ReportAgain, Detect, SetFlightPhase
<1>3. CASE MissionTick \/ MissionStarts
  <2>1. recording = "POST_LANDING" /\ ~PostLandingOver /\ landedAge' = landedAge
    BY <1>3 DEF MissionTick, MissionStarts, FinishStart, LeadStart, LeadDue,
       RecordingActive, Tick, RequestStop
  <2>2. landedAge # Unset
    BY <2>1 DEF RecordingInv, PostLandingIsTimed
  <2>3. QED
    BY <2>1, <2>2, PostLandingAssumption DEF PostLandingOver, TypeOK, FsmTypeOK, Unset
<1>4. CASE ClockAdvance
  <2>1. recording = "POST_LANDING" /\ due = {} /\ "mission" \in due'
    BY <1>4 DEF ClockAdvance, TimePasses
  <2>2. landedAge < PostLandingRecord
    BY <2>1 DEF WindowInv
  <2>3. landedAge # Unset
    BY <2>1 DEF RecordingInv, PostLandingIsTimed
  <2>4. landedAge' = landedAge + 1
    BY <1>4, <2>2, <2>3, PostLandingAssumption DEF ClockAdvance, TimePasses, Older
  <2>5. landedAge' < PostLandingRecord \/ landedAge' = PostLandingRecord
    BY <2>2, <2>4, PostLandingAssumption DEF TypeOK, FsmTypeOK, Unset
  <2>6. QED
    BY <2>1, <2>5
<1>5. CASE Command
  <2>1. recording = "POST_LANDING" /\ ~CmdReset(TRUE, "ACK") /\ ~CmdReset(FALSE, "ACK")
    BY <1>5 DEF Command, Dispatch, CmdArm, CmdDisarm, CmdPrepareRecording,
       CmdStartRecording, StartRecording, CmdStopRecording, RequestStop,
       CmdStartCountdown, CmdUpdateCountdown, CmdSetExpectedIgnition,
       CmdCancelCountdown, CmdAbort, CmdReset, RecordingActive, fsmVars
  <2>2. UNCHANGED <<landedAge, due>>
    BY <1>5, <2>1 DEF Command, Dispatch, CmdArm, CmdDisarm, CmdPrepareRecording,
       CmdStartRecording, CmdStopRecording, CmdStartCountdown, CmdUpdateCountdown,
       CmdSetExpectedIgnition, CmdCancelCountdown, CmdAbort, CmdReset, CmdResult,
       taskVars, fsmVars
  <2>3. QED
    BY <1>1, <1>5, <2>1, <2>2
<1>6. CASE StorageStep
  <2>1. /\ recording = "POST_LANDING" /\ landedAge' = landedAge
        /\ "mission" \in due => "mission" \in due'
    BY <1>6 DEF StorageStep, StorageStart, ConsumeStart, StorageNoStart,
       StorageMarkActive, MarkRecordingActive, StorageMarkFailed, MarkRecordingFailed,
       StorageStop, ConsumeStop, StorageNoStop, StorageMarkStopped,
       MarkRecordingStopped, fsmVars
  <2>2. QED
    BY <2>1 DEF WindowInv
<1>7. CASE SelfTestDone \/ Connect \/ Disconnect \/ UNCHANGED vars
  BY <1>1, <1>7 DEF SelfTestDone, AdvanceSelfTestOk, Connect, BleConnect, Disconnect,
     BleDisconnect, taskVars, vars
<1>8. ASSUME NEW p, GroundTest(p) \/ ReportAgain(p) \/ Detect(p)
      PROVE  \/ landedAge' < PostLandingRecord
             \/ landedAge' = PostLandingRecord /\ "mission" \in due'
  <2>1. due' = due
    BY <1>8 DEF GroundTest, ReportAgain, Detect, taskVars
  <2>2. CASE UNCHANGED <<recording, landedAge>>
    BY <1>1, <2>1, <2>2
  <2>3. CASE ~UNCHANGED <<recording, landedAge>>
    BY <1>2, <1>8, <2>3, PostLandingAssumption
  <2>4. QED
    BY <2>2, <2>3
<1>9. QED
  BY <1>3, <1>4, <1>5, <1>6, <1>7, <1>8 DEF Next

\* Within the bounds of its types, WindowInv is the window ending in time.
LEMMA WindowOver == TypeOK /\ WindowInv => PostLandingEnds
BY PostLandingAssumption DEF TypeOK, FsmTypeOK, WindowInv, PostLandingEnds, Unset

\* The recording after a landing is stopped when its window is over, for every
\* set of commands: each tick of missionTask sees the window before it is late.
THEOREM WindowEnds == Spec => []PostLandingEnds
BY WindowInit, WindowStep, WindowOver, TypeCorrect, RecordingInvariant, PTL DEF Spec

-----------------------------------------------------------------------------
(* Sessions and the starts that are to be served.                          *)

SessionInv == NoOrphanSession /\ PreparingIsServed

\* The request of a start that is under way is raised, until storageTask takes it.
StartKnown == starting # "no" => requestStart \/ overtaken

\* A stop that is requested is requested.
LEMMA StopRaised == RequestStop => requestStop' /\ recording' = "STOPPING"
BY DEF RequestStop

\* Handlers that keep SessionInv: the recording stays, or its stop is requested;
\* no request is withdrawn.
LEMMA SessionKept ==
  ASSUME SessionInv, UNCHANGED <<storagePc, sessionOpen, stranded>>,
         requestStart => requestStart', requestStop => requestStop',
         UNCHANGED recording \/ RequestStop
  PROVE  SessionInv'
BY DEF SessionInv, NoOrphanSession, PreparingIsServed, StartAhead, RequestStop, Running

\* So does a PREPARING that is answered later, and one whose step records that it
\* is not.
LEMMA PreparingKept ==
  ASSUME SessionInv, UNCHANGED <<storagePc, sessionOpen, requestStart, requestStop>>,
         recording' = "PREPARING",
         IF Unanswered THEN stranded' # "no" ELSE UNCHANGED stranded
  PROVE  SessionInv'
BY DEF SessionInv, NoOrphanSession, PreparingIsServed, Unanswered, StartAhead, Running

\* What every command but an accepted prepare_recording leaves of the recording.
LEMMA CommandRecords ==
  ASSUME NEW c, NEW r \in CmdResult, Dispatch(c, r),
         ~(c = "prepare_recording" /\ r = "ACK")
  PROVE  /\ UNCHANGED recordingAge
         /\ requestStart => requestStart'
         /\ starting' = starting \/ requestStart'
         /\ requestStop => requestStop'
         /\ UNCHANGED recording \/ RequestStop
<1> DEFINE Kept ==
      /\ UNCHANGED recordingAge
      /\ requestStart => requestStart'
      /\ starting' = starting \/ requestStart'
      /\ requestStop => requestStop'
      /\ UNCHANGED recording \/ RequestStop
<1>1. ASSUME UNCHANGED fsmVars PROVE Kept
  BY <1>1 DEF fsmVars
<1>2. ASSUME NEW s, CmdArm(s, r) PROVE Kept
  BY <1>1, <1>2 DEF CmdArm, StartRecording
<1>3. ASSUME NEW s, CmdDisarm(s, r) PROVE Kept
  BY <1>1, <1>3, StopRaised DEF CmdDisarm
<1>4. ASSUME CmdStopRecording(r) PROVE Kept
  BY <1>1, <1>4, StopRaised DEF CmdStopRecording
<1>5. ASSUME CmdStartRecording(r) PROVE Kept
  BY <1>5 DEF CmdStartRecording, StartRecording
<1>6. ASSUME NEW d, CmdStartCountdown(d, r) PROVE Kept
  BY <1>1, <1>6 DEF CmdStartCountdown, StartRecording
<1>7. ASSUME NEW d, CmdUpdateCountdown(d, r) \/ CmdSetExpectedIgnition(d, r) PROVE Kept
  BY <1>1, <1>7 DEF CmdUpdateCountdown, CmdSetExpectedIgnition
<1>8. ASSUME CmdCancelCountdown(r) \/ CmdAbort(r) PROVE Kept
  BY <1>1, <1>8 DEF CmdCancelCountdown, CmdAbort
<1>9. ASSUME NEW force, CmdReset(force, r) PROVE Kept
  BY <1>1, <1>9, StopRaised DEF CmdReset
<1>10. ASSUME c = "prepare_recording", CmdPrepareRecording(r) PROVE Kept
  BY <1>1, <1>10 DEF CmdPrepareRecording
<1>11. QED
  BY <1>2, <1>3, <1>4, <1>5, <1>6, <1>7, <1>8, <1>9, <1>10 DEF Dispatch

\* A command either leaves the recording so, or it prepares one.
LEMMA CommandCases ==
  ASSUME Command
  PROVE  \/ /\ UNCHANGED <<recordingAge, storagePc, sessionOpen, due, stranded>>
            /\ requestStart => requestStart'
            /\ starting' = starting \/ requestStart'
            /\ requestStop => requestStop'
            /\ UNCHANGED recording \/ RequestStop
         \/ /\ UNCHANGED <<recordingAge, storagePc, sessionOpen, due, requestStart, requestStop,
                           starting>>
            /\ recording' = "PREPARING"
            /\ IF Unanswered THEN stranded' = "prepare" ELSE UNCHANGED stranded
<1>1. PICK c \in Commands, r \in CmdResult :
        /\ Dispatch(c, r)
        /\ stranded' = IF c = "prepare_recording" /\ r = "ACK" /\ Unanswered
                         THEN "prepare" ELSE stranded
  BY DEF Command
<1>2. UNCHANGED <<storagePc, sessionOpen, due>>
  BY DEF Command
<1>3. CASE c = "prepare_recording" /\ r = "ACK"
  <2>1. CmdPrepareRecording("ACK")
    BY <1>1, <1>3 DEF Dispatch
  <2>2. QED
    BY <1>1, <1>2, <1>3, <2>1 DEF CmdPrepareRecording
<1>4. CASE ~(c = "prepare_recording" /\ r = "ACK")
  BY <1>1, <1>2, <1>4, CommandRecords
<1>5. QED
  BY <1>3, <1>4

\* After boot no session is open and no start is under way.
LEMMA SessionInit == Init => SessionInv /\ StartKnown
BY DEF Init, FsmInit, SessionInv, NoOrphanSession, PreparingIsServed, StartKnown

\* Whoever begins a start raises its request, and only storageTask takes it.
LEMMA StartKnownStep == StartKnown /\ [Next]_vars => StartKnown'
<1> SUFFICES ASSUME StartKnown, [Next]_vars PROVE StartKnown'
  OBVIOUS
<1> USE DEF StartKnown
<1>1. CASE SelfTestDone \/ Connect \/ Disconnect \/ ClockAdvance \/ UNCHANGED vars
  BY <1>1 DEF SelfTestDone, AdvanceSelfTestOk, Connect, BleConnect, Disconnect, BleDisconnect,
     ClockAdvance, TimePasses, taskVars, vars
<1>2. CASE Command
  <2>1. starting = "no"
    BY <1>2 DEF Command, MissionTaskFree
  <2>2. QED
    BY <1>2, <2>1, CommandCases
<1>3. ASSUME NEW p, GroundTest(p) \/ ReportAgain(p) \/ Detect(p) PROVE StartKnown'
  BY <1>3 DEF GroundTest, ReportAgain, Detect, taskVars, SetFlightPhase
<1>4. CASE MissionTick \/ MissionStarts
  BY <1>4 DEF MissionTick, Tick, LeadStart, MissionTaskFree, MissionStarts, FinishStart
<1>5. CASE StorageStart \/ StorageNoStart
  BY <1>5 DEF StorageStart, ConsumeStart, StorageNoStart, fsmVars
<1>6. CASE StorageMarkActive \/ StorageMarkFailed \/ StorageMarkStopped
  BY <1>6 DEF StorageMarkActive, MarkRecordingActive, StorageMarkFailed, MarkRecordingFailed,
     StorageMarkStopped, MarkRecordingStopped
<1>7. CASE StorageStop \/ StorageNoStop
  BY <1>7 DEF StorageStop, ConsumeStop, StorageNoStop, fsmVars
<1>8. QED
  BY <1>1, <1>2, <1>3, <1>4, <1>5, <1>6, <1>7 DEF Next, StorageStep

\* Every step keeps SessionInv.
LEMMA SessionStep ==
  TypeOK /\ RecordingInv /\ SessionInv /\ StartKnown /\ [Next]_vars => SessionInv'
<1> SUFFICES ASSUME TypeOK, RecordingInv, SessionInv, StartKnown, [Next]_vars PROVE SessionInv'
  OBVIOUS
<1>1. CASE SelfTestDone \/ Connect \/ Disconnect \/ ClockAdvance \/ UNCHANGED vars
  BY <1>1, SessionKept DEF SelfTestDone, AdvanceSelfTestOk, Connect, BleConnect,
     Disconnect, BleDisconnect, ClockAdvance, TimePasses, taskVars, vars
<1>2. CASE Command
  BY <1>2, CommandCases, SessionKept, PreparingKept
<1>3. ASSUME NEW p, GroundTest(p) \/ ReportAgain(p) \/ Detect(p) PROVE SessionInv'
  <2>1. /\ UNCHANGED <<storagePc, sessionOpen, stranded, requestStart, requestStop>>
        /\ recording' \in {recording, RecordingAfterLanding(recording)}
    BY <1>3 DEF GroundTest, ReportAgain, Detect, taskVars, SetFlightPhase
  <2>2. QED
    BY <2>1 DEF SessionInv, NoOrphanSession, PreparingIsServed, StartAhead,
       RecordingAfterLanding, Running
<1>4. CASE MissionTick
  BY <1>4, SessionKept, StopRaised DEF MissionTick, Tick, LeadStart
<1>5. CASE MissionStarts
  <2>1. IF Unanswered THEN stranded' # "no" ELSE UNCHANGED stranded
    BY <1>5 DEF MissionStarts, FinishStart, Unanswered, StartAhead, StartKnown
  <2>2. QED
    BY <1>5, <2>1, PreparingKept DEF MissionStarts, FinishStart
<1> USE DEF SessionInv, NoOrphanSession, PreparingIsServed, StartAhead
<1>6. CASE StorageStart \/ StorageNoStart
  BY <1>6 DEF StorageStart, ConsumeStart, StorageNoStart, fsmVars
<1>7. CASE StorageMarkActive
  BY <1>7 DEF StorageMarkActive, MarkRecordingActive, Running
<1>8. CASE StorageMarkFailed \/ StorageMarkStopped
  BY <1>8 DEF StorageMarkFailed, MarkRecordingFailed, StorageMarkStopped,
     MarkRecordingStopped, RecordingInv, MarksMatchSession
<1>9. CASE StorageStop \/ StorageNoStop
  BY <1>9 DEF StorageStop, ConsumeStop, StorageNoStop, fsmVars
<1>10. QED
  BY <1>1, <1>2, <1>3, <1>4, <1>5, <1>6, <1>7, <1>8, <1>9 DEF Next, StorageStep

\* For every set of commands: an open session shows as a running recording until
\* its stop is asked for, unless PREPARING was written over that recording.
THEOREM SessionSafe == Spec => []NoOrphanSession
BY SessionInit, SessionStep, StartKnownStep, TypeCorrect, RecordingInvariant, PTL
   DEF Spec, SessionInv

\* PREPARING has a start ahead of it, unless prepare_recording wrote it or the
\* storage task had served the start before it was written: even for a start that
\* the other core overtakes there is no third way to hang in PREPARING.
THEOREM StartServed == Spec => []PreparingIsServed
BY SessionInit, SessionStep, StartKnownStep, TypeCorrect, RecordingInvariant, PTL
   DEF Spec, SessionInv

-----------------------------------------------------------------------------
(* The safety cap.                                                         *)

\* The age of a recording belongs to its session; and unless PREPARING was written
\* over it, a session that has an age is watched by tick(), and one at or over the
\* cap has its stop in hand.
CapInv ==
  /\ ~sessionOpen /\ storagePc # "markStopped" => recordingAge = Unset
  /\ sessionOpen /\ stranded = "no" =>
       /\ recordingAge # Unset => requestStop \/ Running(recording)
       /\ recordingAge = MaxMissionRecord => requestStop \/ "mission" \in due
       /\ recordingAge > MaxMissionRecord =>
            /\ recordingAge = MaxMissionRecord + 1
            /\ requestStop
            /\ "storage" \in due

\* A step that leaves age and session alone keeps CapInv when it withdraws no
\* stop, stops the recording only by request and takes no task off the list.
LEMMA CapKept ==
  ASSUME CapInv, UNCHANGED <<recordingAge, sessionOpen, due>>,
         stranded' = "no" => stranded = "no",
         storagePc' = "markStopped" <=> storagePc = "markStopped",
         requestStop => requestStop',
         stranded' = "no" /\ Running(recording) => requestStop' \/ Running(recording')
  PROVE  CapInv'
BY DEF CapInv

\* Commands stop a running recording by request, or strand it.
LEMMA CommandCap ==
  ASSUME CapInv, Command
  PROVE  CapInv'
<1>1. CASE UNCHANGED stranded /\ (UNCHANGED recording \/ RequestStop)
             /\ (requestStop => requestStop')
  BY <1>1, CommandCases, CapKept, StopRaised
<1>2. CASE UNCHANGED requestStop /\ IF Unanswered THEN stranded' = "prepare"
                                                 ELSE UNCHANGED stranded
  BY <1>2, CommandCases, CapKept DEF Unanswered
<1>3. QED
  BY <1>1, <1>2, CommandCases

\* tick() asks for the stop of a session that has reached the cap.
LEMMA TickCap ==
  ASSUME TypeOK, CapInv, MissionTick
  PROVE  CapInv'
<1>1. /\ UNCHANGED <<recordingAge, sessionOpen, storagePc, stranded>>
      /\ requestStop => requestStop'
      /\ Running(recording) => requestStop' \/ Running(recording')
  BY DEF MissionTick, Tick, LeadStart, RequestStop, Running
<1>2. CASE UNCHANGED due
  BY <1>1, <1>2, CapKept
<1>3. CASE ~UNCHANGED due
  <2>1. sessionOpen /\ stranded = "no" /\ recordingAge = MaxMissionRecord => requestStop'
    <3> SUFFICES ASSUME sessionOpen, stranded = "no", recordingAge = MaxMissionRecord,
                        ~requestStop
                 PROVE  requestStop'
      BY <1>1
    <3>1. recordingAge # Unset /\ recordingAge >= MaxMissionRecord
      BY MaxRecordAssumption DEF Unset
    <3>2. Running(recording)
      BY <3>1 DEF CapInv
    <3>3. QED
      BY <1>3, <3>1, <3>2 DEF MissionTick, Tick, CapReached, RequestStop
  <2>2. "storage" \in due => "storage" \in due'
    BY DEF MissionTick
  <2>3. QED
    BY <1>1, <2>1, <2>2 DEF CapInv
<1>4. QED
  BY <1>2, <1>3

\* The end of a start ends a pass of missionTask that did not look at the cap: it
\* found no running recording, or it strands the one that now runs.
LEMMA StartCap ==
  ASSUME TypeOK, CapInv, MissionStarts
  PROVE  CapInv'
<1>1. /\ UNCHANGED <<recordingAge, sessionOpen, storagePc, requestStop>>
      /\ "storage" \in due => "storage" \in due'
  BY DEF MissionStarts, FinishStart
<1>2. stranded' = "no" => stranded = "no" /\ ~Running(recording)
  BY DEF MissionStarts
<1>3. recordingAge = MaxMissionRecord => recordingAge # Unset
  BY MaxRecordAssumption DEF Unset
<1>4. QED
  BY <1>1, <1>2, <1>3 DEF CapInv

\* Time passes only when no task is due, so a session at the cap has its stop
\* requested by then and one over the cap is closed.
LEMMA ClockCap ==
  ASSUME TypeOK, CapInv, ClockAdvance
  PROVE  CapInv'
<1>1. /\ UNCHANGED <<recording, sessionOpen, storagePc, requestStop, stranded>>
      /\ due = {} /\ "mission" \in due' /\ "storage" \in due'
  BY DEF ClockAdvance, TimePasses
<1>2. recordingAge' = Older(recordingAge, MaxMissionRecord + 2)
  BY DEF ClockAdvance, TimePasses
<1>3. recordingAge = Unset <=> recordingAge' = Unset
  BY <1>2, MaxRecordAssumption DEF Older, TypeOK, FsmTypeOK, Unset
<1>4. ASSUME sessionOpen, stranded = "no", recordingAge' > MaxMissionRecord
      PROVE  /\ recordingAge' = MaxMissionRecord + 1
             /\ recordingAge = MaxMissionRecord
  <2>1. ~(recordingAge > MaxMissionRecord)
    BY <1>1, <1>4 DEF CapInv
  <2>2. QED
    BY <1>2, <1>4, <2>1, MaxRecordAssumption DEF Older, TypeOK, FsmTypeOK, Unset
<1>5. QED
  BY <1>1, <1>3, <1>4 DEF CapInv

\* storageTask finishes a pass only with no stop left to serve, closes the session
\* before it takes the age away, and opens one that has no age yet.
LEMMA StorageCap ==
  ASSUME TypeOK, RecordingInv, SessionInv, CapInv, StorageStep
  PROVE  CapInv'
<1> USE DEF RecordingInv, MarksMatchSession
<1>0. ~(Unset = MaxMissionRecord) /\ ~(Unset > MaxMissionRecord)
  BY MaxRecordAssumption DEF Unset
<1>1. CASE StorageStart \/ StorageNoStart
  <2>1. /\ UNCHANGED <<recording, recordingAge, requestStop, due>>
        /\ storagePc # "markStopped" /\ storagePc' # "markStopped"
    BY <1>1 DEF StorageStart, ConsumeStart, StorageNoStart, fsmVars
  <2>2. /\ sessionOpen => sessionOpen' /\ UNCHANGED stranded
        /\ ~sessionOpen => recordingAge = Unset
    BY <1>1, <2>1 DEF StorageStart, StorageNoStart, CapInv
  <2>3. QED
    BY <1>0, <2>1, <2>2 DEF CapInv
<1>2. CASE StorageMarkActive
  <2>1. /\ UNCHANGED <<sessionOpen, requestStop, due, stranded>> /\ sessionOpen
        /\ recording' = "ACTIVE" /\ recordingAge' \in {0, recordingAge}
    BY <1>2 DEF StorageMarkActive, MarkRecordingActive
  <2>2. ~(0 = MaxMissionRecord) /\ ~(0 > MaxMissionRecord)
    BY MaxRecordAssumption
  <2>3. QED
    BY <2>1, <2>2 DEF CapInv, Running
<1>3. CASE StorageMarkFailed
  BY <1>3 DEF CapInv, StorageMarkFailed, MarkRecordingFailed
<1>4. CASE StorageStop
  BY <1>4 DEF CapInv, StorageStop, ConsumeStop
<1>5. CASE StorageNoStop
  <2>1. ~requestStop /\ "mission" \in due => "mission" \in due'
    BY <1>5 DEF StorageNoStop
  <2>2. QED
    BY <1>5, <2>1 DEF CapInv, StorageNoStop, fsmVars
<1>6. CASE StorageMarkStopped
  <2>1. ~sessionOpen' /\ recordingAge' = Unset
    BY <1>6 DEF StorageMarkStopped, MarkRecordingStopped
  <2>2. QED
    BY <2>1 DEF CapInv
<1>7. QED
  BY <1>1, <1>2, <1>3, <1>4, <1>5, <1>6 DEF StorageStep

\* After boot no session has an age.
LEMMA CapInit == Init => CapInv
BY DEF Init, FsmInit, CapInv

\* Every step keeps CapInv.
LEMMA CapStep ==
  TypeOK /\ RecordingInv /\ SessionInv /\ CapInv /\ [Next]_vars => CapInv'
<1> SUFFICES ASSUME TypeOK, RecordingInv, SessionInv, CapInv, [Next]_vars PROVE CapInv'
  OBVIOUS
<1>1. CASE SelfTestDone \/ Connect \/ Disconnect \/ UNCHANGED vars
  BY <1>1, CapKept DEF SelfTestDone, AdvanceSelfTestOk, Connect, BleConnect, Disconnect,
     BleDisconnect, taskVars, vars
<1>2. ASSUME NEW p, GroundTest(p) \/ ReportAgain(p) \/ Detect(p) PROVE CapInv'
  <2>1. /\ UNCHANGED <<recordingAge, sessionOpen, due, storagePc, requestStop, stranded>>
        /\ Running(recording) => Running(recording')
    BY <1>2 DEF GroundTest, ReportAgain, Detect, taskVars, SetFlightPhase,
       RecordingAfterLanding, Running
  <2>2. QED
    BY <2>1, CapKept
<1>3. QED
  BY <1>1, <1>2, CommandCap, TickCap, StartCap, StorageCap, ClockCap DEF Next

\* Within the bounds of its types, CapInv is the cap.
LEMMA CapHolds == TypeOK /\ CapInv => SessionIsCapped
<1>1. ASSUME TypeOK, ~(recordingAge > MaxMissionRecord)
      PROVE  recordingAge <= MaxMissionRecord + 1
  BY <1>1, MaxRecordAssumption DEF TypeOK, FsmTypeOK, Unset
<1>2. MaxMissionRecord + 1 <= MaxMissionRecord + 1
  BY MaxRecordAssumption
<1>3. QED
  BY <1>1, <1>2 DEF CapInv, SessionIsCapped

\* The hard safety cap, for every set of commands: a session over whose recording
\* no PREPARING was written is open for no longer than the cap and the one unit the
\* two tasks need to notice and to close it.
THEOREM SessionCapped == Spec => []SessionIsCapped
BY CapInit, CapStep, CapHolds, SessionInit, SessionStep, StartKnownStep, TypeCorrect,
   RecordingInvariant, PTL DEF Spec

=============================================================================
