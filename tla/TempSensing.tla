---------------------------- MODULE TempSensing -----------------------------
(***************************************************************************)
(* The locked part of the temperature task (src/src/message.c:441-498)     *)
(* with its driver and its chip: what a cycle reads, what sets             *)
(* temp_failure, and which descriptors are left open.  A cycle holds the   *)
(* mutex throughout, so it is one step.  CHECK_LIBRARY is a switch of the  *)
(* build: both builds are modelled.                                        *)
(***************************************************************************)
EXTENDS Tmp102

CONSTANTS
  Temps,     \* what the sensor converts, as 12 bit
  MaxOpen    \* bound on the descriptors the process may hold on the bus

ASSUME TempSensingAssumption ==
  /\ Temps \subseteq 0 .. 4095
  /\ MaxOpen \in Nat \ {0}

VARIABLES
  CHECK_LIBRARY,
  tmp,            \* the chip
  temp_failure,   \* TRUE for FAIL: never reset by the process
  fds,            \* descriptors open between two cycles
  tempCycle       \* history: what the latest cycle came to, see NoTempCycle

tempVars == <<CHECK_LIBRARY, tmp, temp_failure, fds, tempCycle>>

FileFd == 3   \* a descriptor that open() returns

(* temp: what print_temperature() returned; clean: all calls of the cycle  *)
(* went well.  Kept until the sensor moves, to be compared with it.        *)
NoTempCycle == [temp |-> 0, clean |-> TRUE, ran |-> FALSE]

TempResults == -1 .. UINT16_MAX
TempCycles  == [temp : TempResults, clean : BOOLEAN, ran : BOOLEAN]

TempTypeOK ==
  /\ CHECK_LIBRARY \in BOOLEAN
  /\ tmp \in Tmp102Chip
  /\ temp_failure \in BOOLEAN
  /\ fds \in 0 .. MaxOpen
  /\ tempCycle \in TempCycles

(* The chip at power on. *)
PoweredTmp102 ==
  [plugged |-> TRUE, pointer |-> TEMPREG_ADDRESS, conf |-> Conf(CONFIG_DEFAULT), temp |-> 0]

TempInit ==
  /\ CHECK_LIBRARY \in BOOLEAN
  /\ tmp = PoweredTmp102
  /\ temp_failure = FALSE
  /\ fds = 0
  /\ tempCycle = NoTempCycle
-----------------------------------------------------------------------------
(* The calls that if(CHECK_LIBRARY) adds; no result of theirs is used.     *)
LibraryChecks(fd, chip) ==
  LET Show(c)   == print_temperature(fd, c, CONFIG_DEFAULT)
      Config(c) == read_configreg(fd, c)
      Sleep(c)  == shutdown_mode(fd, c, SHUTDOWN_MODE)
  IN  Then(Then(Then(Then(rw_allregs_tmp102(fd, chip), Show), Config), Sleep), Config)

(* The three tests that set temp_failure. *)
TempFailure(init, temp, temperature) ==
  init.fd = FAIL \/ temp = FAIL \/ temperature = FAIL * TempScale

(* MUTANT: close_tmp102() is forgotten. *)
LeftOpenAlways(init) == init.opened

(* Descriptors a cycle leaves open: close_tmp102() closes fd, if there is one. *)
LeftOpen(init) == IF init.fd = FAIL THEN init.opened ELSE 0

(* One turn of the loop under the mutex.  With no descriptor left open()   *)
(* fails.                                                                  *)
TempCycle ==
  \E init \in tmp102_init(FileFd), degree \in {CELSIUS, FAHRENHEIT, KELVIN} :
    /\ fds + init.opened <= MaxOpen
    /\ \E r \in print_temperature(init.fd, tmp, CONFIG_DEFAULT) :
       /\ \E l \in IF CHECK_LIBRARY THEN LibraryChecks(init.fd, r.chip) ELSE {r} :
            tmp' = l.chip
       /\ temp_failure' =
            (temp_failure \/ TempFailure(init, r.res, callibrate_temp(r.res, degree)))
       /\ tempCycle' = [temp |-> r.res, clean |-> init.fd # FAIL /\ r.clean, ran |-> TRUE]
    /\ fds' = fds + LeftOpen(init)
    /\ UNCHANGED CHECK_LIBRARY

(* The chip converts on its own unless it is shut down. *)
TempConverts ==
  /\ tmp.plugged /\ ~ShutDown(tmp)
  /\ \E t \in Temps : tmp' = [tmp EXCEPT !.temp = t]
  /\ tempCycle' = NoTempCycle
  /\ UNCHANGED <<CHECK_LIBRARY, temp_failure, fds>>

(* The connection is removed, and made again.                              *)
TempUnplugs ==
  /\ tmp' = IF tmp.plugged THEN [tmp EXCEPT !.plugged = FALSE] ELSE PoweredTmp102
  /\ tempCycle' = NoTempCycle
  /\ UNCHANGED <<CHECK_LIBRARY, temp_failure, fds>>

(* The process ends, at any point, and is started again, as the same build *)
(* or the other one.  The chip keeps its registers; a cycle that is cut    *)
(* short is one whose later transfers fail without an effect.              *)
TempStarts ==
  /\ CHECK_LIBRARY' \in BOOLEAN
  /\ temp_failure' = FALSE
  /\ fds' = 0
  /\ tempCycle' = NoTempCycle
  /\ UNCHANGED tmp

TempNext == TempCycle \/ TempConverts \/ TempUnplugs \/ TempStarts

TempSpec == TempInit /\ [][TempNext]_tempVars
-----------------------------------------------------------------------------
(* The configuration register read as a temperature: 96.375 C. *)
Misread == Decoded(Conf(CONFIG_DEFAULT))

(* A reading is less than a degree (16) off, because read_tempreg() fills  *)
(* the low bits from the high byte ...                                     *)
Near(temp, degrees) == temp \in degrees - 15 .. degrees + 15

(* ... and the register means a temperature with a sign. *)
Signed(reg) == IF reg >= 2048 THEN reg - 4096 ELSE reg

(* A cycle in which every transfer went well reads the temperature, less   *)
(* than a degree off; of a frost the bits may come without their sign      *)
(* (tmp102.c:123-126), 256 degrees too high.  After a failure that nobody  *)
(* checks (tmp102.c:86, 116, 209) the reading is garbage or the            *)
(* configuration - the one this cycle has written, never that of a sensor  *)
(* left in shutdown mode by CHECK_LIBRARY, in this process or the one      *)
(* before - and nothing else.                                              *)
ReadingsAreHonest ==
  tempCycle.ran =>
    \/ Near(tempCycle.temp, Signed(tmp.temp))
    \/ Signed(tmp.temp) < 0 /\ Near(tempCycle.temp, Signed(tmp.temp) + 4096)
    \/ ~tempCycle.clean /\ tempCycle.temp \in Garbage \cup {FAIL, Misread}

(* A sensor that is gone is noticed in the first cycle that finds it gone, *)
(* although only the write of the configuration is checked.                *)
RemovalIsNoticed == tempCycle.ran /\ ~tmp.plugged => temp_failure

(* A cycle whose transfers went well never raises the failure: neither a   *)
(* reading nor a temperature in any unit is taken for FAIL (message.c:450, *)
(* 477 compare floats with -1).                                            *)
NoFalseAlarm ==
  [][temp_failure' /\ ~temp_failure => ~tempCycle'.clean]_tempVars

(* Descriptors leak only in company of a failure that is reported; whether *)
(* main has the task cancelled before they run out (tmp102.c:36-39) is a   *)
(* matter of Supervision and of time.                                      *)
LeaksAreReported == fds > 0 => temp_failure
=============================================================================
