--------------------------- MODULE SilenceHistory ---------------------------
(***************************************************************************)
(* Supervision with a history of the polls of main: how many in a row have *)
(* found nothing, which is what the comments of src/src/message.c say      *)
(* light_life and temp_life count.                                         *)
(***************************************************************************)
EXTENDS Supervision

VARIABLE streak   \* polls of main without a message since the last one

StreakType == streak \in [Sensors -> 0 .. LifeLimit + 1]

HistoryInit == Init /\ streak = [t \in Sensors |-> 0]

(* A poll is the step of main out of "recv". *)
Polled  == mainPc = "recv" /\ mainPc' # "recv"
Answers == toMain' # toMain

HistoryNext ==
  /\ Next
  /\ streak' =
       IF ~Polled THEN streak
       ELSE [streak EXCEPT ![watched] = IF Answers THEN 0 ELSE Bump(@)]

HistorySpec == HistoryInit /\ [][HistoryNext]_<<vars, streak>>

(* message.c:1062, "If no message is recievd for 10 consecutive seconds it *)
(* sends a message to log_taks to kill light thread" (message.c:1100 says  *)
(* the same of the temperature thread): where main is about to report a    *)
(* silent task, the silence was unbroken.                                  *)
ReportsConsecutiveSilence ==
  mainPc = "life" /\ life[watched] = LifeLimit => streak[watched] >= LifeLimit
=============================================================================
