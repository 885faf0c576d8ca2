---------------------------- MODULE SensingClaims ---------------------------
(***************************************************************************)
(* What the README says of sensors that fail and the code does not do.     *)
(***************************************************************************)
EXTENDS MCSensing

(* README.md:13-14, "In case of sensor failure a message will be sent by   *)
(* temperature and light tasks to main task": a cycle that finds its       *)
(* sensor gone raises the failure that is then sent.                       *)
FailureReported ==
  /\ tempCycle.ran /\ ~tmp.plugged => temp_failure
  /\ lightCycle.ran /\ ~apds.plugged => light_failure
=============================================================================
