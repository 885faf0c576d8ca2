------------------------------ MODULE MCSensing -----------------------------
(***************************************************************************)
(* Both sensors and the schedule of the temperature task for one run.  The *)
(* sensors share no state but the mutex, which each task holds for a whole *)
(* cycle, and the schedule depends on neither, so it is enough to let one  *)
(* of the three move while the others are at rest.                         *)
(***************************************************************************)
EXTENDS TempSensing, LightSensing, TempSchedule

(* Darkness, dim light, a lamp with no infrared in the low byte, the       *)
(* classes of the luminosity formula, bright daylight.                     *)
MCLights == {<<0, 0>>, <<40, 10>>, <<100, 65>>, <<300, 256>>, <<2815, 768>>}

ScheduleInit == Init
ScheduleNext == Next

SensingInit == TempInit /\ LightInit /\ ScheduleInit

SensingNext ==
  \/ LightInit /\ ScheduleInit /\ TempNext /\ UNCHANGED <<lightVars, vars>>
  \/ TempInit /\ ScheduleInit /\ LightSensingNext /\ UNCHANGED <<tempVars, vars>>
  \/ TempInit /\ LightInit /\ ScheduleNext /\ UNCHANGED <<tempVars, lightVars>>

SensingSpec == SensingInit /\ [][SensingNext]_<<tempVars, lightVars, vars>>
=============================================================================
