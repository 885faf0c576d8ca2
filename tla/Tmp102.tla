------------------------------- MODULE Tmp102 -------------------------------
(***************************************************************************)
(* src/src/tmp102.c, the driver of the temperature sensor: transfers on    *)
(* the I2C bus that may fail one by one, the registers they reach, and     *)
(* what a function returns when they do.                                   *)
(*                                                                         *)
(* A function of the driver is the set of its outcomes: the chip after it, *)
(* the result it returns, and whether every transfer it made was clean.    *)
(* Text, and convert_temp() which only prints, are left out.               *)
(***************************************************************************)
EXTENDS Integers

UINT16_MAX == 65535

CONSTANT Garbage   \* what a fresh malloc(sizeof(uint16_t)) may hold

ASSUME GarbageAssumption == Garbage \subseteq 0 .. UINT16_MAX

SUCCESS == 0
FAIL    == -1

TEMPREG_ADDRESS == 0
CONFREG_ADDRESS == 1
CONFIG_DEFAULT  == 41056   \* 0xA060
SHUTDOWN_MODE   == 1
CELSIUS    == 0
FAHRENHEIT == 1
KELVIN     == 2
-----------------------------------------------------------------------------
(* Transfers.  A descriptor of FAIL, or a chip that is not there, answers  *)
(* none; a write that fails may have reached the chip all the same.        *)

Answers(fd, chip) == fd # FAIL /\ chip.plugged

Clean(chip, res)  == [chip |-> chip, res |-> res, clean |-> TRUE]
Failed(chip, res) == [chip |-> chip, res |-> res, clean |-> FALSE]

(* write() of bytes that turn the chip into after. *)
Write(fd, chip, after) ==
  {Failed(chip, FAIL)} \cup
    IF Answers(fd, chip) THEN {Clean(after, SUCCESS), Failed(after, FAIL)} ELSE {}

(* read() of what the chip presents as value. *)
Read(fd, chip, value) ==
  {Failed(chip, FAIL)} \cup IF Answers(fd, chip) THEN {Clean(chip, value)} ELSE {}

(* The outcomes S of a call that comes after outcome w. *)
After(w, S) == {[s EXCEPT !.clean = @ /\ w.clean] : s \in S}

(* Calls whose result is ignored, one after the other. *)
Then(S, Call(_)) == UNION {After(w, Call(w.chip)) : w \in S}

(* A call that is made only if the one before it did not fail. *)
Checked(S, Call(_)) == UNION {IF w.res = FAIL THEN {w} ELSE After(w, Call(w.chip)) : w \in S}
-----------------------------------------------------------------------------
(* The two bytes of the configuration register, in the order they travel.  *)
(* The modes are bits that CONFIG_DEFAULT leaves clear.                    *)
Conf(config_val) ==
  LET val == IF config_val = CONFIG_DEFAULT THEN config_val ELSE CONFIG_DEFAULT + config_val
  IN  <<val % 256, val \div 256>>

(* The chip: is it on the bus, the register addressed, the configuration,  *)
(* the last conversion (12 bit, two's complement).                         *)
Tmp102Chip ==
  [plugged : BOOLEAN,
   pointer : {TEMPREG_ADDRESS, CONFREG_ADDRESS},
   conf    : {Conf(CONFIG_DEFAULT), Conf(SHUTDOWN_MODE)},
   temp    : 0 .. 4095]

ShutDown(chip) == chip.conf[1] % 2 = 1

(* Two bytes of the register addressed. *)
Presented(chip) ==
  IF chip.pointer = TEMPREG_ADDRESS
  THEN <<chip.temp \div 16, 16 * (chip.temp % 16)>>
  ELSE chip.conf

write_pointerreg(fd, chip, reg) == Write(fd, chip, [chip EXCEPT !.pointer = reg])

(* MUTANT: the bytes of the configuration travel in the wrong order. *)
WriteConfigSwapped(fd, chip, config_val) ==
  Write(fd, chip, [chip EXCEPT !.pointer = CONFREG_ADDRESS,
                               !.conf = <<Conf(config_val)[2], Conf(config_val)[1]>>])

(* The pointer register, ignoring the result, then pointer and both bytes. *)
write_configreg(fd, chip, config_val) ==
  Then(write_pointerreg(fd, chip, CONFREG_ADDRESS),
       LAMBDA c : Write(fd, c, [c EXCEPT !.pointer = CONFREG_ADDRESS,
                                         !.conf = Conf(config_val)]))

read_configreg(fd, chip) ==
  Then(write_pointerreg(fd, chip, CONFREG_ADDRESS), LAMBDA c : Read(fd, c, SUCCESS))

(* MUTANT: the two bytes are taken in the wrong order. *)
DecodedSwapped(buf) == 16 * buf[2] + buf[1] \div 16

(* (uint16_t)buf[0]<<4 | buf[0]>>4: the first byte twice. *)
Decoded(buf) == 16 * buf[1] + buf[1] \div 16

read_tempreg(fd, chip) ==
  Then(write_pointerreg(fd, chip, TEMPREG_ADDRESS),
       LAMBDA c : Read(fd, c, Decoded(Presented(c))))

(* What read_tempreg() leaves in *res: when it fails, what malloc put there. *)
Fetched(fd, chip) ==
  UNION {{[r EXCEPT !.res = v] : v \in IF r.res = FAIL THEN Garbage ELSE {r.res}} :
         r \in read_tempreg(fd, chip)}

(* MUTANT: the result of write_configreg() is not checked either. *)
PrintUnchecked(fd, chip, mode) ==
  Then(write_configreg(fd, chip, mode), LAMBDA c : Fetched(fd, c))

(* Of the three transfers only the write of the configuration is checked. *)
print_temperature(fd, chip, mode) ==
  Checked(write_configreg(fd, chip, mode), LAMBDA c : Fetched(fd, c))

shutdown_mode(fd, chip, mode) == write_configreg(fd, chip, mode)

rw_allregs_tmp102(fd, chip) ==
  Checked(Checked(write_configreg(fd, chip, CONFIG_DEFAULT), LAMBDA c : read_configreg(fd, c)),
          LAMBDA c : read_tempreg(fd, c))

(* A temperature in 1/10000 of a degree. *)
TempScale == 10000

(* MUTANT: a unit is forgotten. *)
CallibrateNoKelvin(temp, mode) ==
  CASE mode = CELSIUS    -> 625 * temp
    [] mode = FAHRENHEIT -> 1125 * temp + 32 * TempScale
    [] OTHER             -> FAIL * TempScale

(* 0.0625 of a degree Celsius a bit. *)
callibrate_temp(temp, mode) ==
  CASE mode = CELSIUS    -> 625 * temp
    [] mode = FAHRENHEIT -> 1125 * temp + 32 * TempScale
    [] mode = KELVIN     -> 625 * temp + 2731500
    [] OTHER             -> FAIL * TempScale

(* What tmp102_init() returns, and the descriptors it has opened: one that *)
(* ioctl() refuses is not closed.                                          *)
tmp102_init(file) ==
  {[fd |-> FAIL, opened |-> 0], [fd |-> FAIL, opened |-> 1], [fd |-> file, opened |-> 1]}
=============================================================================
