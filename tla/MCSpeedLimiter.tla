-------------------------- MODULE MCSpeedLimiter --------------------------
(***************************************************************************)
(* SpeedLimiter for TLC.                                                   *)
(***************************************************************************)
EXTENDS SpeedLimiter
=============================================================================
