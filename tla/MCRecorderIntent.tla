-------------------------- MODULE MCRecorderIntent --------------------------
(***************************************************************************)
(* Instances of RecorderIntent for TLC; units as in MCFlightRecorder.      *)
(***************************************************************************)
EXTENDS RecorderIntent

ArmCommands == {"arm", "disarm"}
=============================================================================
