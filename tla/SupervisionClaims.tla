-------------------------- MODULE SupervisionClaims -------------------------
(***************************************************************************)
(* What the README and the comments of src/src/message.c say about the     *)
(* supervision of the tasks and the code does not do.  Each claim is       *)
(* checked by a run of its own, and each is violated.                      *)
(***************************************************************************)
EXTENDS Supervision

(* README.md:29, "Press CTRL + C to exit": a SIGINT ends the process.      *)
ExitsOnSigint == signals > 0 ~> exited

(* message.c:1100, "If no message is received for 10 consecutive seconds   *)
(* it sends a message to log_taks to kill temp thread": the light task is  *)
(* not cancelled while its own sensor and its own messages are in order.   *)
LightSpared ==
  "light" \in canceled =>
    failure["light"] \/ life["light"] >= LifeLimit \/ signals > 0
=============================================================================
