------------------------------- MODULE Restart ------------------------------
(***************************************************************************)
(* Supervision over several runs of the program.  The message queues       *)
(* belong to the kernel and outlive a process that is killed, crashes or   *)
(* exits without its SIGINT handler.  The close_queues() with which main() *)
(* starts closes descriptors that are not open yet (they are 0), fails at  *)
(* its third call and leaves the queues to main as they are; open_queues() *)
(* then opens them with what they hold.  The user LEDs stay as they are,   *)
(* too.  Everything else starts anew.                                      *)
(***************************************************************************)
EXTENDS Supervision

CONSTANT MaxStarts   \* bound on the number of restarts

ASSUME RestartAssumption == MaxStarts \in Nat

VARIABLES
  starts,    \* restarts so far
  leftover   \* tasks the queues bore ill news of when this process started

restartVars == <<vars, starts, leftover>>

RestartInit == Init /\ starts = 0 /\ leftover = {}

(* The tasks that a message in a queue would have terminated. *)
IllNews ==
  {t \in Sensors :
     \/ \E i \in DOMAIN mainToLog : mainToLog[i].task = t
     \/ \E i \in DOMAIN toMain[t] : toMain[t][i] = "FAILURE"}

(* close_queues(), which fails before it has unlinked any of these queues, *)
(* and open_queues().                                                      *)
QueuesAsTheyWere == queuesOpen' = Workers /\ UNCHANGED <<toMain, mainToLog>>

(* The process ends, at any point and for any reason, if it has not ended  *)
(* yet, and is started again.                                              *)
Restart ==
  /\ starts < MaxStarts
  /\ starts' = starts + 1
  /\ leftover' = IllNews
  /\ pc' = [t \in Workers |-> "start"]
  /\ canceled' = {}
  /\ mutex' = "none"
  /\ exited' = FALSE
  /\ failure' = [t \in Sensors |-> FALSE]
  /\ alive' = [t \in Workers |-> 0]
  /\ file' = "absent"
  /\ inHand' = NoReport
  /\ mainPc' = "loop"
  /\ watched' = "light"
  /\ life' = [t \in Sensors |-> 0]
  /\ handler' = "idle"
  /\ caught_signal' = 0
  /\ signals' = 0
  /\ QueuesAsTheyWere
  /\ UNCHANGED led

RestartNext == Restart \/ (Next /\ UNCHANGED <<starts, leftover>>)

RestartSpec == RestartInit /\ [][RestartNext]_restartVars
-----------------------------------------------------------------------------
(* A task is cancelled for a cause of its own process, or on ill news the  *)
(* queues carried over from the one before: a message survives the restart *)
(* of its sender, but no message costs a task its life that did not name   *)
(* it, and the log task has nothing to fear but a SIGINT.                  *)
CauseOrLeftover ==
  /\ "temp" \in canceled => failure["temp"] \/ signals > 0 \/ "temp" \in leftover
  /\ "light" \in canceled =>
       \/ failure["light"] \/ signals > 0 \/ "light" \in leftover
       \/ \E t \in Sensors : life[t] >= LifeLimit
  /\ "log" \in canceled => signals > 0

(* A process that was shut down leaves no ill news to the next one: once   *)
(* the handler has set its flags (message.c:74-77) neither main nor a      *)
(* thread that still runs sends any, however long the process takes to     *)
(* end.                                                                    *)
ShutdownIsClean == [][starts' # starts /\ caught_signal = 1 => leftover' = {}]_restartVars
=============================================================================
