----------------------------- MODULE OtaService -----------------------------
(***************************************************************************)
(* src/ota_service.cpp: a firmware update over BLE.                        *)
(*                                                                         *)
(* Three tasks share its state without a lock: the NimBLE host runs        *)
(* onControlWrite() and onDataWrite(), and both missionTask and loopTask   *)
(* call loop() for the idle timeout and the deferred restart.  The         *)
(* handlers of the host task and loop() are split where the others can see *)
(* or destroy what they are working on.                                    *)
(*                                                                         *)
(* An image is Size chunks.  What has been written to flash, or hashed, is *)
(* the length of the image's prefix it equals, or Spoiled.  Instants are   *)
(* kept as distances from now; the now of a loop() pass may be up to       *)
(* MaxLag units old when it is used.                                       *)
(*                                                                         *)
(* A loss of power may come between any two steps.                         *)
(*                                                                         *)
(* Left out: the otaError text, the progress notifications and the event   *)
(* log; the one millisecond in 49 days at which otaRebootAt would be 0.    *)
(***************************************************************************)
EXTENDS Integers

CONSTANTS
  Conns,             \* BLE connection handles
  NoConn,            \* otaConnectionHandle = 0xFFFF
  LoopTasks,         \* the tasks that call loop()
  Size,              \* chunks of the image the sha256 of the manifest is of
  ManifestSizes,     \* the sizes a dashboard announces
  OtaIdleTimeout,    \* OTA_IDLE_TIMEOUT_MS
  OtaRebootDelay,    \* OTA_REBOOT_DELAY_MS
  MaxLag             \* how long a loop() pass can take, by the task watchdog

ASSUME ConnAssumption == NoConn \notin Conns
ASSUME SizeAssumption == Size \in Nat \ {0} /\ ManifestSizes \subseteq 1 .. Size
ASSUME TimeAssumption ==
  OtaIdleTimeout \in Nat /\ OtaRebootDelay \in Nat /\ MaxLag \in Nat

VARIABLES
  otaActive,    \* otaActive
  otaState,     \* otaState, as the dashboard is told
  otaExpected,  \* otaExpectedSize
  otaReceived,  \* otaReceived
  otaOwner,     \* otaConnectionHandle
  idleAge,      \* otaLastActivityAt as an age
  rebootIn,     \* otaRebootAt as a distance, or NoReboot
  shaOn,        \* otaShaInitialized
  digest,       \* what otaShaContext has hashed
  updating,     \* Update.isRunning()
  flash,        \* what Update has written
  bootImage,    \* the image the bootloader starts next
  hostPc,       \* where the host task is in its handler
  request,      \* the write that handler is working on
  loopPc,       \* where each task is in loop()
  lag,          \* the age of the now of that pass
  deviceIdle    \* deviceIdleForOta()

sessionVars == <<otaActive, otaState, otaExpected, otaReceived, otaOwner, idleAge>>
imageVars == <<shaOn, digest, updating, flash, bootImage>>
hostVars == <<hostPc, request>>
loopVars == <<loopPc, lag>>
otaVars == <<sessionVars, imageVars, hostVars, loopVars, rebootIn>>
vars == <<otaVars, deviceIdle>>

NoReboot == OtaRebootDelay + 1
Spoiled == Size + 1
NoRequest == [conn |-> NoConn, at |-> 0, n |-> 0, right |-> FALSE]
OldestAge == OtaIdleTimeout + MaxLag + 1

TypeOK ==
  /\ otaActive \in BOOLEAN
  /\ otaState \in {"idle", "ready", "receiving", "complete", "error", "aborted"}
  /\ otaExpected \in 0 .. Size
  /\ otaReceived \in 0 .. Size
  /\ otaOwner \in Conns \cup {NoConn}
  /\ idleAge \in 0 .. OldestAge
  /\ rebootIn \in -MaxLag .. NoReboot
  /\ shaOn \in BOOLEAN
  /\ digest \in 0 .. Spoiled
  /\ updating \in BOOLEAN
  /\ flash \in 0 .. Spoiled
  /\ bootImage \in {"running", "verified", "wrong"}
  /\ hostPc \in {"idle", "begun", "wrote", "checked", "switched"}
  /\ request \in [conn : Conns \cup {NoConn}, at : 0 .. Size, n : 0 .. Size,
                  right : BOOLEAN]
  /\ loopPc \in [LoopTasks -> {"idle", "now", "expired", "reset", "reboot"}]
  /\ lag \in [LoopTasks -> 0 .. MaxLag]

\* attachToService() after a start of the device; the ages of a first session
\* are those of a millis() that has run for a while.
OtaInit ==
  /\ otaActive = FALSE
  /\ otaState = "idle"
  /\ otaExpected = 0
  /\ otaReceived = 0
  /\ otaOwner = NoConn
  /\ idleAge = OldestAge
  /\ rebootIn = NoReboot
  /\ shaOn = FALSE
  /\ digest = 0
  /\ updating = FALSE
  /\ flash = 0
  /\ bootImage = "running"
  /\ hostPc = "idle"
  /\ request = NoRequest
  /\ loopPc = [l \in LoopTasks |-> "idle"]
  /\ lag = [l \in LoopTasks |-> 0]

-----------------------------------------------------------------------------
(* Helpers.                                                                *)

\* What a prefix of the image becomes when w is appended to it.
Extended(prefix, w) == IF w.right /\ prefix = w.at THEN w.at + w.n ELSE Spoiled

\* resetOtaState(), up to otaActive = false ...
Release ==
  /\ otaActive' = FALSE
  /\ updating' = FALSE
  /\ shaOn' = FALSE

\* ... and the rest of it.
Forget(state) ==
  /\ otaExpected' = 0
  /\ otaReceived' = 0
  /\ otaOwner' = NoConn
  /\ otaState' = state

\* resetOtaState() by the host task, between two of its writes.
ResetOtaState(state) ==
  /\ Release
  /\ Forget(state)
  /\ UNCHANGED <<idleAge, digest, flash, bootImage, rebootIn>>

HostIdle == hostPc = "idle"

ToHostPc(pc, w) == hostPc' = pc /\ request' = w

-----------------------------------------------------------------------------
(* onControlWrite().                                                       *)

\* A control write that only reports an error: begin while a session is active,
\* the device is busy, the manifest is bad or flash or sha cannot start; finish
\* without a session or by another connection; an unknown command.
ControlRefused ==
  /\ HostIdle
  /\ rebootIn = NoReboot
  /\ otaState' = "error"
  /\ UNCHANGED <<otaActive, otaExpected, otaReceived, otaOwner, idleAge, rebootIn,
                 imageVars, hostVars, loopVars>>

\* abort, also without a session.
Abort(c) ==
  /\ HostIdle
  /\ rebootIn = NoReboot
  /\ otaActive => c = otaOwner
  /\ ResetOtaState("aborted")
  /\ UNCHANGED <<hostVars, loopVars>>

\* begin, up to otaActive = true.
Begin(c, size) ==
  /\ HostIdle
  /\ rebootIn = NoReboot
  /\ ~otaActive
  /\ deviceIdle
  /\ ~updating
  /\ updating' = TRUE
  /\ flash' = 0
  /\ shaOn' = TRUE
  /\ digest' = 0
  /\ otaActive' = TRUE
  /\ ToHostPc("begun", [conn |-> c, at |-> 0, n |-> size, right |-> FALSE])
  /\ UNCHANGED <<otaState, otaExpected, otaReceived, otaOwner, idleAge, rebootIn,
                 bootImage, loopVars>>

BeginRest ==
  /\ hostPc = "begun"
  /\ otaExpected' = request.n
  /\ otaReceived' = 0
  /\ idleAge' = 0
  /\ otaOwner' = request.conn
  /\ otaState' = "ready"
  /\ ToHostPc("idle", NoRequest)
  /\ UNCHANGED <<otaActive, rebootIn, imageVars, loopVars>>

DigestMatches_Unchecked == TRUE

\* The digest of what was hashed is the one of the manifest.
DigestMatches == shaOn /\ digest = Size

\* finish, up to the comparison of the digests.
Finish(c) ==
  /\ HostIdle
  /\ rebootIn = NoReboot
  /\ otaActive /\ c = otaOwner
  /\ IF otaReceived = otaExpected /\ DigestMatches
       THEN /\ shaOn' = FALSE
            /\ ToHostPc("checked", NoRequest)
            /\ UNCHANGED <<sessionVars, digest, updating, flash, bootImage, rebootIn>>
       ELSE ResetOtaState("error") /\ UNCHANGED hostVars
  /\ UNCHANGED loopVars

FinishEnd_ResultIgnored ==
  /\ hostPc = "checked"
  /\ updating' = FALSE
  /\ bootImage' = IF ~updating THEN bootImage
                  ELSE IF flash = Size THEN "verified" ELSE "wrong"
  /\ ToHostPc("switched", NoRequest)
  /\ UNCHANGED <<sessionVars, shaOn, digest, flash, rebootIn, loopVars>>

\* Update.end(), which fails if the update was aborted meanwhile.
FinishEnd ==
  /\ hostPc = "checked"
  /\ \/ /\ updating
        /\ updating' = FALSE
        /\ bootImage' = IF flash = Size THEN "verified" ELSE "wrong"
        /\ ToHostPc("switched", NoRequest)
        /\ UNCHANGED <<sessionVars, shaOn, digest, flash, rebootIn>>
     \/ ResetOtaState("error") /\ ToHostPc("idle", NoRequest)
  /\ UNCHANGED loopVars

FinishRest ==
  /\ hostPc = "switched"
  /\ otaActive' = FALSE
  /\ otaState' = "complete"
  /\ rebootIn' = OtaRebootDelay
  /\ ToHostPc("idle", NoRequest)
  /\ UNCHANGED <<otaExpected, otaReceived, otaOwner, idleAge, imageVars, loopVars>>

-----------------------------------------------------------------------------
(* onDataWrite().                                                          *)

InOrder_NoSizeCheck(w) == w.at = otaReceived

\* The write neither leaves a gap nor runs over the announced size.
InOrder(w) == w.at = otaReceived /\ otaReceived + w.n <= otaExpected

\* A write of the owner, up to Update.write(); a repeated one is ignored.
Data(w) ==
  /\ HostIdle
  /\ otaActive /\ w.conn = otaOwner
  /\ w.at >= otaReceived
  /\ \/ /\ InOrder(w) /\ updating
        /\ flash' = Extended(flash, w)
        /\ ToHostPc("wrote", w)
        /\ UNCHANGED <<sessionVars, shaOn, digest, updating, bootImage, rebootIn>>
     \/ ResetOtaState("error") /\ UNCHANGED hostVars
  /\ UNCHANGED loopVars

\* The hash, which may fail, and the counters; a context that was freed meanwhile
\* hashes garbage.
DataRest ==
  /\ hostPc = "wrote"
  /\ \/ /\ digest' = IF shaOn THEN Extended(digest, request) ELSE Spoiled
        /\ otaReceived' = otaReceived + request.n
        /\ idleAge' = 0
        /\ otaState' = "receiving"
        /\ UNCHANGED <<otaActive, otaExpected, otaOwner, rebootIn, shaOn, updating, flash,
                       bootImage>>
     \/ ResetOtaState("error")
  /\ ToHostPc("idle", NoRequest)
  /\ UNCHANGED loopVars

-----------------------------------------------------------------------------
(* loop(), in each of the two tasks that call it.                          *)

LoopGoes(l, from, to) ==
  /\ loopPc[l] = from
  /\ loopPc' = [loopPc EXCEPT ![l] = to]

LoopNow(l) ==
  /\ LoopGoes(l, "idle", "now")
  /\ lag' = [lag EXCEPT ![l] = 0]
  /\ UNCHANGED <<sessionVars, imageVars, hostVars, rebootIn>>

\* now - otaLastActivityAt is unsigned: an activity after now reads as a huge
\* idle time.
IdleExpired_NoSession(l) == FALSE

IdleExpired(l) ==
  otaActive /\ (idleAge < lag[l] \/ idleAge - lag[l] > OtaIdleTimeout)

LoopCheck(l) ==
  /\ LoopGoes(l, "now", IF IdleExpired(l) THEN "expired" ELSE "reboot")
  /\ UNCHANGED <<sessionVars, imageVars, hostVars, lag, rebootIn>>

\* failOta("timeout"), the first part ...
LoopRelease(l) ==
  /\ LoopGoes(l, "expired", "reset")
  /\ Release
  /\ UNCHANGED <<otaState, otaExpected, otaReceived, otaOwner, idleAge, digest, flash,
                 bootImage, hostVars, lag, rebootIn>>

\* ... and the rest of it.
LoopForget(l) ==
  /\ LoopGoes(l, "reset", "reboot")
  /\ Forget("error")
  /\ UNCHANGED <<otaActive, idleAge, imageVars, hostVars, lag, rebootIn>>

RebootDue_Exactly(l) == rebootIn = -lag[l]

\* now - otaRebootAt, signed, is not negative.
RebootDue(l) == rebootIn <= -lag[l]

LoopNoReboot(l) ==
  /\ LoopGoes(l, "reboot", "idle")
  /\ ~RebootDue(l)
  /\ UNCHANGED <<sessionVars, imageVars, hostVars, lag, rebootIn>>

\* The device comes up again with what the bootloader starts, and is idle.
StartsOver ==
  /\ otaActive' = FALSE /\ otaState' = "idle" /\ otaExpected' = 0 /\ otaReceived' = 0
  /\ otaOwner' = NoConn /\ idleAge' = OldestAge /\ rebootIn' = NoReboot
  /\ shaOn' = FALSE /\ digest' = 0 /\ updating' = FALSE /\ flash' = 0
  /\ bootImage' = "running" /\ hostPc' = "idle" /\ request' = NoRequest
  /\ loopPc' = [t \in LoopTasks |-> "idle"] /\ lag' = [t \in LoopTasks |-> 0]
  /\ deviceIdle' = TRUE

\* ESP.restart()
Restart(l) ==
  /\ loopPc[l] = "reboot"
  /\ RebootDue(l)
  /\ StartsOver

\* A brownout, a panic or the watchdog, at any point of any handler.
PowerLoss == StartsOver

LoopStep(l) ==
  LoopNow(l) \/ LoopCheck(l) \/ LoopRelease(l) \/ LoopForget(l) \/ LoopNoReboot(l)

-----------------------------------------------------------------------------
(* Time passes; a task finishes its pass before the watchdog bites.        *)

Tick ==
  /\ \A l \in LoopTasks : loopPc[l] # "idle" => lag[l] < MaxLag
  /\ lag' = [l \in LoopTasks |-> IF loopPc[l] = "idle" THEN 0 ELSE lag[l] + 1]
  /\ idleAge' = IF idleAge = OldestAge THEN idleAge ELSE idleAge + 1
  /\ rebootIn' = IF rebootIn \in {NoReboot, -MaxLag} THEN rebootIn ELSE rebootIn - 1
  /\ UNCHANGED <<otaActive, otaState, otaExpected, otaReceived, otaOwner, imageVars,
                 hostVars, loopPc>>

Writes == [conn : Conns, at : 0 .. Size - 1, n : 1 .. Size, right : BOOLEAN]

Dashboard ==
  \/ ControlRefused
  \/ \E c \in Conns : Abort(c) \/ Finish(c) \/ \E size \in ManifestSizes : Begin(c, size)
  \/ \E w \in Writes : Data(w)

HostStep == BeginRest \/ DataRest \/ FinishEnd \/ FinishRest

LoopsStep == (\E l \in LoopTasks : LoopStep(l)) \/ Tick

\* The rest of the device, as far as begin asks for it.
DeviceChanges == deviceIdle' \in BOOLEAN \ {deviceIdle} /\ UNCHANGED otaVars

Init == OtaInit /\ deviceIdle \in BOOLEAN

Next ==
  \/ Dashboard /\ UNCHANGED deviceIdle
  \/ HostStep /\ UNCHANGED deviceIdle
  \/ LoopsStep /\ UNCHANGED deviceIdle
  \/ \E l \in LoopTasks : Restart(l)
  \/ PowerLoss
  \/ DeviceChanges

Spec == Init /\ [][Next]_vars

\* The scheduler runs the host task to the end of its handler and the two loops
\* for ever, and time does not stop.  Nothing is assumed of the dashboard.
Fairness ==
  /\ WF_vars(HostStep /\ UNCHANGED deviceIdle)
  /\ WF_vars(Tick /\ UNCHANGED deviceIdle)
  /\ \A l \in LoopTasks : WF_vars((LoopStep(l) /\ UNCHANGED deviceIdle) \/ Restart(l))

FairSpec == Spec /\ Fairness

-----------------------------------------------------------------------------
\* README, "SHA-256 verified": whatever is lost, repeated, reordered or spoiled
\* on the way, and whenever a timeout hits, the bootloader is never pointed to
\* an image that is not the one of the manifest.
ImageVerified == bootImage # "wrong"

\* A dashboard that is told "complete" has its image in place and the restart
\* ahead, and a restart is only ever ahead for a verified image.
CompleteIsTrue ==
  /\ otaState = "complete" => rebootIn # NoReboot
  /\ rebootIn # NoReboot => bootImage = "verified"

\* A session ends, by finish, by an error or by the idle timeout, even if the
\* dashboard goes silent or keeps repeating itself.
SessionEnds == otaActive ~> ~otaActive

\* README, "device reboots after finish": no later command or timeout keeps the
\* device from it.
RebootsAfterFinish == rebootIn # NoReboot ~> rebootIn = NoReboot
=============================================================================
