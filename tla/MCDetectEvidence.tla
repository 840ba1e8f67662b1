-------------------------- MODULE MCDetectEvidence --------------------------
(***************************************************************************)
(* DetectEvidence on a short clock.  A tick stands for no fixed time: each *)
(* threshold of the detector is a few ticks, so that gaps in the samples   *)
(* can reach some of them at once and others only together.                *)
(***************************************************************************)
EXTENDS DetectEvidence
=============================================================================
