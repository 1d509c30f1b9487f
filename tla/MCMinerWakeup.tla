---------------------------- MODULE MCMinerWakeup ----------------------------
(* The instances of MinerWakeup that TLC checks. *)
EXTENDS MinerWakeup

CONSTANTS me, p
=============================================================================
