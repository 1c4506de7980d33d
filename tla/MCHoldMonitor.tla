---------------------------- MODULE MCHoldMonitor ----------------------------
(***************************************************************************)
(* Instances of HoldMonitor for TLC.                                       *)
(***************************************************************************)
EXTENDS HoldMonitor

NoPolicies == {}
=============================================================================
