--------------------------- MODULE MCFlightDevice ---------------------------
(***************************************************************************)
(* Instances of FlightDevice for TLC; units as in MCFlightRecorder.        *)
(***************************************************************************)
EXTENDS FlightDevice

FlyCommands == {"arm", "reset"}
=============================================================================
