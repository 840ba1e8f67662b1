-------------------------- MODULE OtaService_proofs --------------------------
(***************************************************************************)
(* Proofs about OtaService, for any connections, any number of tasks that  *)
(* call loop(), any image and manifest sizes and any timeouts.             *)
(***************************************************************************)
EXTENDS OtaService, TLAPS

-----------------------------------------------------------------------------
(* Type correctness.                                                       *)

\* A write that has reached the flash fits the image: also when a timeout sets
\* the counters back before the host task adds its chunk to them.
RequestFits ==
  hostPc = "wrote" => /\ request.at + request.n <= Size
                      /\ otaReceived + request.n <= Size

Requests == [conn : Conns \cup {NoConn}, at : 0 .. Size, n : 0 .. Size, right : BOOLEAN]

\* The values the variables start from and are set back to are of their types.
LEMMA Ranges ==
  /\ 0 \in 0 .. Size /\ 0 \in 0 .. Spoiled /\ Spoiled \in 0 .. Spoiled
  /\ 0 \in 0 .. OldestAge /\ OldestAge \in 0 .. OldestAge
  /\ 0 \in 0 .. MaxLag
  /\ NoReboot \in -MaxLag .. NoReboot /\ OtaRebootDelay \in -MaxLag .. NoReboot
  /\ NoRequest \in Requests
<1>1. NoRequest \in Requests
  BY SizeAssumption DEF NoRequest, Requests
<1>2. QED
  BY <1>1, SizeAssumption, TimeAssumption DEF Spoiled, OldestAge, NoReboot

\* The prefix a fitting write leaves is a prefix of the image or Spoiled.
LEMMA ExtendedType ==
  ASSUME NEW prefix, NEW w, w.at \in Nat, w.n \in Nat, w.at + w.n <= Size
  PROVE  Extended(prefix, w) \in 0 .. Spoiled
<1>1. w.at + w.n \in 0 .. Spoiled /\ Spoiled \in 0 .. Spoiled
  BY SizeAssumption DEF Spoiled
<1>2. Extended(prefix, w) = w.at + w.n \/ Extended(prefix, w) = Spoiled
  BY Zenon DEF Extended
<1>3. QED
  BY <1>1, <1>2

\* A reset between two writes keeps the types.
LEMMA ResetType ==
  ASSUME TypeOK, NEW state \in {"error", "aborted"}, ResetOtaState(state),
         hostPc' = "idle", request' = request \/ request' = NoRequest,
         UNCHANGED loopVars
  PROVE  TypeOK' /\ RequestFits'
<1>1. request' \in Requests
  BY Ranges DEF TypeOK, Requests
<1>2. QED
  BY <1>1, Ranges, Zenon
     DEF TypeOK, RequestFits, ResetOtaState, Release, Forget, loopVars, Requests

\* What the dashboard can write keeps the types.
LEMMA DashboardType ==
  ASSUME TypeOK, RequestFits, Dashboard
  PROVE  TypeOK' /\ RequestFits'
<1> USE SizeAssumption DEF TypeOK, RequestFits
<1>1. CASE ControlRefused
  BY <1>1 DEF ControlRefused, imageVars, hostVars, loopVars
<1>2. ASSUME NEW c \in Conns, Abort(c) PROVE TypeOK' /\ RequestFits'
  BY <1>2, ResetType DEF Abort, HostIdle, hostVars
<1>3. ASSUME NEW c \in Conns, Finish(c) PROVE TypeOK' /\ RequestFits'
  <2>1. CASE ResetOtaState("error") /\ UNCHANGED hostVars
    BY <1>3, <2>1, ResetType DEF Finish, HostIdle, hostVars
  <2>2. CASE hostPc' = "checked"
    <3>1. UNCHANGED <<sessionVars, digest, updating, flash, bootImage, rebootIn, loopVars>>
            /\ shaOn' \in BOOLEAN /\ request' = NoRequest
      BY <1>3, <2>2 DEF Finish, HostIdle, ToHostPc, hostVars
    <3>2. QED
      BY <2>2, <3>1, Ranges, Zenon DEF sessionVars, loopVars, Requests
  <2>3. QED
    BY <1>3, <2>1, <2>2 DEF Finish, ToHostPc
<1>4. ASSUME NEW c \in Conns, NEW size \in ManifestSizes, Begin(c, size)
      PROVE  TypeOK' /\ RequestFits'
  <2>1. request' = [conn |-> c, at |-> 0, n |-> size, right |-> FALSE]
    BY <1>4 DEF Begin, ToHostPc, NoRequest
  <2>2. size \in 0 .. Size
    OBVIOUS
  <2>3. QED
    BY <1>4, <2>1, <2>2 DEF Begin, ToHostPc, loopVars, Spoiled
<1>5. ASSUME NEW w \in Writes, Data(w) PROVE TypeOK' /\ RequestFits'
  <2>1. w.conn \in Conns /\ w.at \in 0 .. Size - 1 /\ w.n \in 1 .. Size
          /\ w.right \in BOOLEAN
    BY <1>5 DEF Writes
  <2>2. CASE ResetOtaState("error") /\ UNCHANGED hostVars
    BY <1>5, <2>2, ResetType DEF Data, HostIdle, hostVars
  <2>3. CASE InOrder(w) /\ flash' = Extended(flash, w) /\ ToHostPc("wrote", w)
               /\ UNCHANGED <<sessionVars, shaOn, digest, updating, bootImage, rebootIn>>
    <3>1. w.at + w.n <= Size /\ otaReceived + w.n <= Size
      BY <2>1, <2>3 DEF InOrder
    <3>2. flash' \in 0 .. Spoiled
      BY <2>1, <2>3, <3>1, ExtendedType
    <3>3. request' = w /\ hostPc' = "wrote" /\ w \in [conn : Conns \cup {NoConn},
                at : 0 .. Size, n : 0 .. Size, right : BOOLEAN]
      BY <2>1, <2>3 DEF ToHostPc, Writes
    <3>4. QED
      BY <1>5, <2>3, <3>1, <3>2, <3>3 DEF Data, sessionVars, loopVars
  <2>4. QED
    BY <1>5, <2>2, <2>3 DEF Data
<1>6. QED
  BY <1>1, <1>2, <1>3, <1>4, <1>5 DEF Dashboard

\* What the host task does at the end of its handlers keeps the types.
LEMMA HostType ==
  ASSUME TypeOK, RequestFits, HostStep
  PROVE  TypeOK' /\ RequestFits'
<1> USE SizeAssumption, TimeAssumption DEF TypeOK, RequestFits
<1>1. CASE BeginRest
  BY <1>1 DEF BeginRest, ToHostPc, NoRequest, imageVars, loopVars, OldestAge
<1>2. CASE DataRest
  <2>1. hostPc' = "idle" /\ request' = NoRequest /\ UNCHANGED loopVars
    BY <1>2 DEF DataRest, ToHostPc
  <2>2. CASE ResetOtaState("error")
    BY <1>2, <2>1, <2>2, ResetType DEF NoRequest
  <2>3. CASE /\ digest' = IF shaOn THEN Extended(digest, request) ELSE Spoiled
             /\ otaReceived' = otaReceived + request.n
             /\ idleAge' = 0
             /\ otaState' = "receiving"
             /\ UNCHANGED <<otaActive, otaExpected, otaOwner, rebootIn, shaOn, updating, flash,
                            bootImage>>
    <3>1. digest' \in 0 .. Spoiled
      <4>1. Spoiled \in 0 .. Spoiled
        BY DEF Spoiled
      <4>2. Extended(digest, request) \in 0 .. Spoiled
        BY <1>2, ExtendedType DEF DataRest
      <4>3. QED
        BY <2>3, <4>1, <4>2
    <3>2. otaReceived' \in 0 .. Size /\ idleAge' \in 0 .. OldestAge
      BY <1>2, <2>3 DEF DataRest, OldestAge
    <3>3. QED
      BY <2>1, <2>3, <3>1, <3>2 DEF NoRequest, loopVars
  <2>4. QED
    BY <1>2, <2>2, <2>3 DEF DataRest
<1>3. CASE FinishEnd
  <2>1. hostPc' \in {"idle", "switched"} /\ request' = NoRequest /\ UNCHANGED loopVars
    BY <1>3 DEF FinishEnd, ToHostPc
  <2>2. CASE ResetOtaState("error") /\ ToHostPc("idle", NoRequest)
    BY <2>1, <2>2, ResetType DEF ToHostPc
  <2>3. CASE ToHostPc("switched", NoRequest)
    <3>1. updating' \in BOOLEAN /\ bootImage' \in {"running", "verified", "wrong"}
            /\ hostPc' = "switched" /\ UNCHANGED <<sessionVars, shaOn, digest, flash, rebootIn>>
      BY <1>3, <2>3 DEF FinishEnd, ToHostPc
    <3>2. QED
      BY <2>1, <3>1, Ranges, Zenon DEF sessionVars, loopVars, Requests
  <2>4. QED
    BY <1>3, <2>2, <2>3 DEF FinishEnd
<1>4. CASE FinishRest
  BY <1>4, Ranges, Zenon DEF FinishRest, ToHostPc, imageVars, loopVars, Requests
<1>5. QED
  BY <1>1, <1>2, <1>3, <1>4 DEF HostStep

\* loop() and time keep the types.
LEMMA LoopsType ==
  ASSUME TypeOK, RequestFits, LoopsStep
  PROVE  TypeOK' /\ RequestFits'
<1> USE SizeAssumption, TimeAssumption DEF TypeOK, RequestFits
<1>1. ASSUME NEW l \in LoopTasks, LoopStep(l) PROVE TypeOK' /\ RequestFits'
  <2> USE DEF LoopGoes
  <2>1. CASE LoopNow(l)
    BY <1>1, <2>1 DEF LoopNow, sessionVars, imageVars, hostVars
  <2>2. CASE LoopCheck(l) \/ LoopNoReboot(l)
    BY <1>1, <2>2 DEF LoopCheck, LoopNoReboot, sessionVars, imageVars, hostVars
  <2>3. CASE LoopRelease(l)
    BY <1>1, <2>3 DEF LoopRelease, Release, hostVars
  <2>4. CASE LoopForget(l)
    BY <1>1, <2>4 DEF LoopForget, Forget, imageVars, hostVars
  <2>5. QED
    BY <1>1, <2>1, <2>2, <2>3, <2>4 DEF LoopStep
<1>2. CASE Tick
  <2>1. lag' \in [LoopTasks -> 0 .. MaxLag]
    BY <1>2 DEF Tick
  <2>2. idleAge' \in 0 .. OldestAge
    BY <1>2 DEF Tick, OldestAge
  <2>3. rebootIn' \in -MaxLag .. NoReboot
    BY <1>2 DEF Tick, NoReboot
  <2>4. QED
    BY <1>2, <2>1, <2>2, <2>3 DEF Tick, imageVars, hostVars
<1>3. QED
  BY <1>1, <1>2 DEF LoopsStep

\* A device that has just started has the types.
LEMMA OtaInitType == OtaInit => TypeOK /\ RequestFits
<1> SUFFICES ASSUME OtaInit PROVE TypeOK /\ RequestFits
  OBVIOUS
<1>1. /\ loopPc \in [LoopTasks -> {"idle", "now", "expired", "reset", "reboot"}]
      /\ lag \in [LoopTasks -> 0 .. MaxLag]
  BY Ranges DEF OtaInit
<1>2. QED
  BY <1>1, Ranges, ZenonT(30) DEF OtaInit, TypeOK, RequestFits, Requests

\* A restart or a power loss, at any point of any handler, leaves the service
\* where it started.
LEMMA StartsOverIsInit == StartsOver => OtaInit'
BY DEF StartsOver, OtaInit

\* So it keeps the types ...
LEMMA StartsOverType == StartsOver => TypeOK' /\ RequestFits'
BY StartsOverIsInit, OtaInitType, PTL

\* Every variable keeps its type; in particular the counters stay within the
\* image whatever the dashboard writes and whenever the device goes down.
THEOREM TypeCorrect == Spec => []TypeOK
<1>1. Init => TypeOK /\ RequestFits
  BY OtaInitType DEF Init
<1>2. TypeOK /\ RequestFits /\ [Next]_vars => TypeOK' /\ RequestFits'
  <2> SUFFICES ASSUME TypeOK, RequestFits, [Next]_vars PROVE TypeOK' /\ RequestFits'
    OBVIOUS
  <2>1. ASSUME NEW l \in LoopTasks, Restart(l) PROVE TypeOK' /\ RequestFits'
    BY <2>1, StartsOverType DEF Restart
  <2>2. CASE UNCHANGED otaVars
    BY <2>2 DEF TypeOK, RequestFits, otaVars, sessionVars, imageVars, hostVars, loopVars
  <2>3. QED
    BY <2>1, <2>2, StartsOverType, DashboardType, HostType, LoopsType
       DEF Next, PowerLoss, vars, DeviceChanges
<1>3. QED
  BY <1>1, <1>2, PTL DEF Spec

-----------------------------------------------------------------------------
(* The image that is started.                                              *)

\* As long as there is a hash it is the hash of what is in the flash, but for
\* the chunk the host task is about to hash: no reset by a timeout separates the
\* two, because it always takes the hash away.
HashIsOfFlash ==
  shaOn => IF hostPc = "wrote" THEN flash = Extended(digest, request)
           ELSE digest = flash

\* Between the comparison of the digests and the switch, and from the switch to
\* the restart, the image stays the verified one.
VerdictHolds ==
  /\ hostPc = "checked" => flash = Size
  /\ hostPc = "switched" => bootImage = "verified"

ImageInv == HashIsOfFlash /\ VerdictHolds /\ ImageVerified /\ CompleteIsTrue

USE DEF ImageInv, HashIsOfFlash, VerdictHolds, ImageVerified, CompleteIsTrue

\* What the dashboard writes keeps the invariant: finish only passes with the
\* hash of a whole image.
LEMMA DashboardImage ==
  ASSUME ImageInv, Dashboard
  PROVE  ImageInv'
<1> USE DEF HostIdle, ToHostPc, ResetOtaState, Release, Forget
<1>1. CASE ControlRefused
  BY <1>1 DEF ControlRefused, imageVars, hostVars
<1>2. ASSUME NEW c \in Conns, Abort(c) PROVE ImageInv'
  BY <1>2 DEF Abort, hostVars
<1>3. ASSUME NEW c \in Conns, Finish(c) PROVE ImageInv'
  <2>1. CASE ResetOtaState("error") /\ UNCHANGED hostVars
    BY <1>3, <2>1 DEF Finish, hostVars
  <2>2. CASE otaReceived = otaExpected /\ DigestMatches
    BY <1>3, <2>2 DEF Finish, DigestMatches, sessionVars
  <2>3. QED
    BY <1>3, <2>1, <2>2 DEF Finish
<1>4. ASSUME NEW c \in Conns, NEW size \in ManifestSizes, Begin(c, size) PROVE ImageInv'
  BY <1>4 DEF Begin
<1>5. ASSUME NEW w \in Writes, Data(w) PROVE ImageInv'
  <2>1. CASE ResetOtaState("error") /\ UNCHANGED hostVars
    BY <1>5, <2>1 DEF Data, hostVars
  <2>2. CASE /\ flash' = Extended(flash, w) /\ ToHostPc("wrote", w)
             /\ UNCHANGED <<sessionVars, shaOn, digest, updating, bootImage, rebootIn>>
    BY <1>5, <2>2 DEF Data, sessionVars, Extended
  <2>3. QED
    BY <1>5, <2>1, <2>2 DEF Data
<1>6. QED
  BY <1>1, <1>2, <1>3, <1>4, <1>5 DEF Dashboard

\* The ends of the host task's handlers keep the invariant: what they finish was
\* not changed behind them, or they notice.
LEMMA HostImage ==
  ASSUME ImageInv, HostStep
  PROVE  ImageInv'
<1> USE DEF ToHostPc
<1>1. CASE BeginRest
  BY <1>1 DEF BeginRest, imageVars
<1>2. CASE DataRest
  BY <1>2 DEF DataRest, ResetOtaState, Release, Forget
<1>3. CASE FinishEnd
  BY <1>3 DEF FinishEnd, ResetOtaState, Release, Forget, sessionVars
<1>4. CASE FinishRest
  BY <1>4, TimeAssumption DEF FinishRest, imageVars, NoReboot
<1>5. QED
  BY <1>1, <1>2, <1>3, <1>4 DEF HostStep

\* loop() and time keep the invariant: a timeout can hit any handler.
LEMMA LoopsImage ==
  ASSUME TypeOK, ImageInv, LoopsStep
  PROVE  ImageInv'
<1>1. ASSUME NEW l \in LoopTasks, LoopStep(l) PROVE ImageInv'
  BY <1>1 DEF LoopStep, LoopNow, LoopCheck, LoopRelease, LoopForget, LoopNoReboot,
     Release, Forget, sessionVars, imageVars, hostVars, Extended
<1>2. CASE Tick
  <2>1. rebootIn' = NoReboot <=> rebootIn = NoReboot
    BY <1>2, TimeAssumption DEF Tick, TypeOK, NoReboot
  <2>2. QED
    BY <1>2, <2>1 DEF Tick, imageVars, hostVars, Extended
<1>3. QED
  BY <1>1, <1>2 DEF LoopsStep

\* A service that has just started has no image in hand.
LEMMA OtaInitImage == OtaInit => ImageInv
BY DEF OtaInit

\* ... and drops whatever image it had in hand.
LEMMA StartsOverImage == StartsOver => ImageInv'
BY StartsOverIsInit, OtaInitImage, PTL

\* README, "SHA-256 verified": for any writes of any connections, a timeout
\* or a loss of power at any point of any handler, only a verified image is ever made the next to
\* start, and "complete" is only reported for one that is about to be started.
THEOREM OtaSafe == Spec => [](ImageVerified /\ CompleteIsTrue)
<1>1. Init => ImageInv
  BY OtaInitImage DEF Init
<1>2. TypeOK /\ ImageInv /\ [Next]_vars => ImageInv'
  <2> SUFFICES ASSUME TypeOK, ImageInv, [Next]_vars PROVE ImageInv'
    OBVIOUS
  <2>1. ASSUME NEW l \in LoopTasks, Restart(l) PROVE ImageInv'
    BY <2>1, StartsOverImage DEF Restart
  <2>2. CASE UNCHANGED otaVars
    BY <2>2 DEF otaVars, sessionVars, imageVars, hostVars, Extended
  <2>3. QED
    BY <2>1, <2>2, StartsOverImage, DashboardImage, HostImage, LoopsImage
       DEF Next, PowerLoss, vars, DeviceChanges
<1>3. ImageInv => ImageVerified /\ CompleteIsTrue
  OBVIOUS
<1>4. QED
  BY <1>1, <1>2, <1>3, TypeCorrect, PTL DEF Spec

\* "complete" is only reported for an image that matches what was announced.
THEOREM CompleteTrue == Spec => []CompleteIsTrue
BY OtaSafe, PTL

=============================================================================
