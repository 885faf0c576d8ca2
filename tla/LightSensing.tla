---------------------------- MODULE LightSensing ----------------------------
(***************************************************************************)
(* The light task's turn of the loop (src/src/message.c:656-880) with its  *)
(* driver and its chip: what a cycle reads, what sets light_failure, which *)
(* requests of the temperature task are answered as done, and what they    *)
(* leave in the chip.  The queues and alerts are in Dataflow.  A cycle     *)
(* holds the mutex throughout, so it is one step.                          *)
(***************************************************************************)
EXTENDS Apds9301

CONSTANT Lights   \* what the two channels of the sensor count

ASSUME LightSensingAssumption ==
  Lights \subseteq (0 .. UINT16_MAX) \X (0 .. UINT16_MAX)

VARIABLES
  LIBRARY_CHECKED,   \* the switch CHECK_LIBRARY of the build
  apds,              \* the chip
  light_failure,     \* TRUE for FAIL: never reset by the process
  gone,              \* the process has ended
  lightCycle         \* history: what the latest cycle came to, see NoLightCycle

lightVars == <<LIBRARY_CHECKED, apds, light_failure, gone, lightCycle>>

LightFd == 3   \* a descriptor that open() returns

Requests == {"LUMEN", "RW_ALL_REGS", "PRINT_ID", "ENABLE_INT"}

(* lumen: what get_luminosity() returned; clean: all transfers up to there *)
(* went well; answer: the request answered as done.  Kept until the sensor *)
(* moves, so that it can be compared with it.                              *)
NoLightCycle == [lumen |-> 0, clean |-> TRUE, answer |-> "none", ran |-> FALSE]

LightTypeOK ==
  /\ LIBRARY_CHECKED \in BOOLEAN
  /\ apds \in Apds9301Chip
  /\ light_failure \in BOOLEAN
  /\ gone \in BOOLEAN
  /\ lightCycle \in [lumen : FAIL * LumenScale .. 3040 * UINT16_MAX, clean : BOOLEAN,
                     answer : Requests \cup {"none"}, ran : BOOLEAN]

(* The chip when it gets power: off, nothing counted. *)
PoweredApds9301 ==
  [plugged |-> TRUE, select |-> control_reg, set |-> [r \in Writable |-> 0], count |-> <<0, 0>>]

LightInit ==
  /\ LIBRARY_CHECKED \in BOOLEAN
  /\ apds = PoweredApds9301
  /\ light_failure = FALSE
  /\ gone = FALSE
  /\ lightCycle = NoLightCycle
-----------------------------------------------------------------------------
(* The calls that if(CHECK_LIBRARY) adds. *)
ApdsChecks(fd, chip) ==
  Then(Then(Then(rw_allregs_apds(fd, chip),
                 LAMBDA c : write_interrupt_controlreg(fd, c, INT_ENABLE)),
            LAMBDA c : Peek(fd, c, {int_control_reg})),
       LAMBDA c : print_id(fd, c))

(* The luminosity of a cycle, with the chip after it. *)
LumenOutcomes ==
  LET checked == IF LIBRARY_CHECKED THEN ApdsChecks(LightFd, apds)
                 ELSE {Clean(apds, SUCCESS)}
  IN  {[chip |-> g.chip, lumen |-> g.res, clean |-> g.clean] :
       g \in Then(checked, LAMBDA c : get_luminosity(LightFd, c))}

(* A request served: it is answered only when the call returns SUCCESS.    *)
Serve(request, chip) ==
  LET called == CASE request = "RW_ALL_REGS" -> rw_allregs_apds(LightFd, chip)
                  [] request = "ENABLE_INT"  ->
                       write_interrupt_controlreg(LightFd, chip, INT_ENABLE)
                  [] request = "PRINT_ID"    -> print_id(LightFd, chip)
                  [] OTHER                   -> {Clean(chip, SUCCESS)}
  IN  {[chip |-> s.chip, answer |-> IF s.res = SUCCESS THEN request ELSE "none"] :
       s \in called}

(* sensor_init() ends the process when open() or ioctl() fails. *)
BusExit ==
  /\ ~gone
  /\ gone' = TRUE
  /\ UNCHANGED <<LIBRARY_CHECKED, apds, light_failure, lightCycle>>

(* A turn of the loop: a request that waits is served unless the sensor    *)
(* has failed.                                                             *)
LightTurn ==
  /\ ~gone
  /\ \E g \in LumenOutcomes :
       /\ light_failure' = (light_failure \/ g.lumen = FAIL * LumenScale)
       /\ \E request \in {"none"} \cup IF light_failure' THEN {} ELSE Requests :
          \E s \in Serve(request, g.chip) :
            /\ apds' = s.chip
            /\ lightCycle' = [lumen |-> g.lumen, clean |-> g.clean, answer |-> s.answer,
                              ran |-> TRUE]
  /\ UNCHANGED <<LIBRARY_CHECKED, gone>>

(* The chip counts on its own while it is powered up. *)
LightCounts ==
  /\ apds.plugged /\ apds.set[control_reg] = power_up
  /\ \E n \in Lights : apds' = [apds EXCEPT !.count = n]
  /\ lightCycle' = NoLightCycle
  /\ UNCHANGED <<LIBRARY_CHECKED, light_failure, gone>>

(* The connection is removed, and made again. *)
LightUnplugs ==
  /\ apds' = IF apds.plugged THEN [apds EXCEPT !.plugged = FALSE] ELSE PoweredApds9301
  /\ lightCycle' = NoLightCycle
  /\ UNCHANGED <<LIBRARY_CHECKED, light_failure, gone>>

(* The process ends, at any point, and is started again, as the same build *)
(* or the other one.  The chip keeps its registers; a turn that is cut     *)
(* short is one whose later transfers fail without an effect.              *)
LightStarts ==
  /\ LIBRARY_CHECKED' \in BOOLEAN
  /\ light_failure' = FALSE
  /\ gone' = FALSE
  /\ lightCycle' = NoLightCycle
  /\ UNCHANGED apds

LightSensingNext == LightTurn \/ BusExit \/ LightCounts \/ LightUnplugs \/ LightStarts

LightSpec == LightInit /\ [][LightSensingNext]_lightVars
-----------------------------------------------------------------------------
(* A luminosity is FAIL or not negative, in all classes of the formula and *)
(* also when one or both channels could not be read and count as 65535: no *)
(* reading that comes out as -1 is taken for a failure (message.c:681).    *)
LumenIsNotNegative == lightCycle.lumen >= 0 \/ lightCycle.lumen = FAIL * LumenScale

(* A cycle whose transfers went well finds the sensor failed               *)
(* (message.c:681) only when it counts no infrared light, as far as the    *)
(* low byte of channel 1 tells, the one that is read (apds9301.c:350-375): *)
(* the classes of the formula leave no other gap that ends in return FAIL. *)
CleanFailureIsDim ==
  lightCycle.lumen = FAIL * LumenScale => ~lightCycle.clean \/ apds.count[2] % 256 = 0

(* Transfers fail one by one and most results are ignored, yet no value    *)
(* ends in a register it is not meant for, also when the process ends      *)
(* between two of them and another one starts: a failed select always      *)
(* keeps the value from being sent (apds9301.c:94-107, 129-143, 265-277).  *)
MeantFor ==
  [r \in Writable |-> CASE r = control_reg     -> {0, power_up}
                        [] r = timing_reg      -> {0, timing}
                        [] r = int_control_reg -> {0, RW_INT, INT_ENABLE}
                        [] OTHER               -> {0}]
RegistersKept == \A r \in Writable : apds.set[r] \in MeantFor[r]

(* A command is answered as done only when its writes have reached the     *)
(* chip (message.c:753-757, 774-778), whatever failed before in the cycle. *)
AnswersEarned ==
  /\ lightCycle.answer = "ENABLE_INT" => apds.set[int_control_reg] = INT_ENABLE
  /\ lightCycle.answer = "RW_ALL_REGS" =>
       /\ apds.set[control_reg] = power_up
       /\ apds.set[timing_reg] = timing
       /\ apds.set[int_control_reg] = RW_INT
=============================================================================
