-------------------------- MODULE MCFlightRecorder --------------------------
(***************************************************************************)
(* Instances of FlightRecorder for TLC.  One unit of time is 30 s, so the  *)
(* lead time and the post-landing window are one unit each; the 10 minute  *)
(* cap is shortened to a few.                                              *)
(***************************************************************************)
EXTENDS FlightRecorder

\* Every way to plan, record, call off or force a flight.
PlanCommands ==
  {"arm", "disarm", "start_recording", "stop_recording", "start_countdown",
   "update_countdown", "set_expected_ignition", "cancel_countdown", "abort",
   "reset", "reset_force"}

\* A flight with its recording, which the dashboard may also prepare, and the
\* injected phases of a ground test.
TimedCommands ==
  {"arm", "disarm", "prepare_recording", "start_countdown", "reset", "ground_test"}

PrepareCommands == {"arm", "prepare_recording"}
=============================================================================
