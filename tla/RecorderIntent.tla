--------------------------- MODULE RecorderIntent ---------------------------
(***************************************************************************)
(* FlightRecorder with a history variable: what the last accepted request  *)
(* to the recorder was.  The two request flags of mission_fsm.cpp carry no *)
(* order, and storageTask serves the start before the stop.                *)
(***************************************************************************)
EXTENDS FlightRecorder

VARIABLE intent

intentVars == <<vars, intent>>

IntentInit == Init /\ intent = "none"

\* A start raises its request before it writes PREPARING; a stop writes STOPPING.
IntentNext ==
  /\ Next
  /\ intent' = CASE starting' # "no"         -> "record"
                 [] recording' = "STOPPING" -> "stop"
                 [] OTHER                   -> intent

IntentSpec == IntentInit /\ [][IntentNext]_intentVars

\* storageTask is between two passes and has nothing left to serve, and no start
\* is under way or has been overtaken.
Quiescent ==
  /\ storagePc = "start" /\ ~requestStart /\ ~requestStop
  /\ starting = "no" /\ stranded # "start"

\* mission_fsm.cpp, cmdArm: "Recording begins on arm (requirement)".  When the
\* storage task has nothing left to do after a start, the session is open or
\* the card has failed, whatever stops preceded it.
StartNeverLost == Quiescent /\ intent = "record" => sessionOpen \/ recording = "FAILED"
=============================================================================
