--------------------------- MODULE MCOtaRecorder ---------------------------
(***************************************************************************)
(* Instances of OtaRecorder for TLC; units as in MCFlightRecorder.         *)
(***************************************************************************)
EXTENDS OtaRecorder

ArmCommands == {"arm"}
=============================================================================
