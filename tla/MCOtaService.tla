---------------------------- MODULE MCOtaService ----------------------------
(***************************************************************************)
(* Instances of OtaService for TLC.  One unit of time is 5 s: the idle     *)
(* timeout is 3 units, cut to 2; the restart delay is rounded up to 1.     *)
(***************************************************************************)
EXTENDS OtaService
=============================================================================
