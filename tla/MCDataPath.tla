----------------------------- MODULE MCDataPath -----------------------------
(***************************************************************************)
(* DataPath for TLC: short queues, and three profiles as the camera has.   *)
(***************************************************************************)
EXTENDS DataPath
=============================================================================
