------------------------------ MODULE Apds9301 ------------------------------
(***************************************************************************)
(* src/src/apds9301.c, the driver of the light sensor, over the transfers  *)
(* of Tmp102 (apds9301.c includes tmp102.h for SUCCESS and FAIL).  The     *)
(* chip is modelled from how the driver uses it: a byte with the bit       *)
(* command_value selects a register, any other byte is written to the      *)
(* register selected.                                                      *)
(***************************************************************************)
EXTENDS Tmp102

command_value   == 128   \* 0x80
control_reg     == 0
timing_reg      == 1
int_control_reg == 6
id_reg          == 10
data0low_reg    == 12
data0high_reg   == 13
data1low_reg    == 14

power_up   == 3
timing     == 18         \* time_402ms|max_gain
INT_ENABLE == 16
RW_INT     == 15         \* what rw_allregs_apds() writes to int_control_reg

Writable    == control_reg .. int_control_reg
DataRegs    == data0low_reg .. 15

(* set: what was written to the registers; count: the two channels. *)
Apds9301Chip ==
  [plugged : BOOLEAN, select : Writable \cup {id_reg} \cup DataRegs,
   set : [Writable -> 0 .. 127], count : (0 .. UINT16_MAX) \X (0 .. UINT16_MAX)]

Contents(chip) ==
  CASE chip.select = data0low_reg  -> chip.count[1] % 256
    [] chip.select = data0high_reg -> chip.count[1] \div 256
    [] chip.select = data1low_reg  -> chip.count[2] % 256
    [] OTHER                       -> 0   \* printed at most

(* One byte. *)
Put(chip, byte) ==
  IF byte >= command_value THEN [chip EXCEPT !.select = byte - command_value]
  ELSE IF chip.select \in Writable THEN [chip EXCEPT !.set[chip.select] = byte]
  ELSE chip

PutByte(fd, chip, byte) == Write(fd, chip, Put(chip, byte))

(* MUTANT: the value is written though the register could not be selected. *)
WriteRegisterUnchecked(fd, chip, reg, val) ==
  Then(PutByte(fd, chip, command_value + reg), LAMBDA c : PutByte(fd, c, val))

(* write_controlreg() and its like: select, then the value, each checked.  *)
WriteRegister(fd, chip, reg, val) ==
  Checked(PutByte(fd, chip, command_value + reg), LAMBDA c : PutByte(fd, c, val))

write_controlreg(fd, chip, val)           == WriteRegister(fd, chip, control_reg, val)
write_timingreg(fd, chip, val)            == WriteRegister(fd, chip, timing_reg, val)
write_interrupt_controlreg(fd, chip, val) == WriteRegister(fd, chip, int_control_reg, val)

(* read_controlreg() and its like: select, then one byte, each checked.    *)
ReadRegister(fd, chip, reg) ==
  Checked(PutByte(fd, chip, command_value + reg), LAMBDA c : Read(fd, c, Contents(c)))

(* Reads of a uint8_t or uint16_t are compared with -1 and so never seen   *)
(* to fail: all they do is select registers.                               *)
Peek(fd, chip, regs) ==
  {Clean(chip, SUCCESS), Failed(chip, SUCCESS)}
    \cup IF Answers(fd, chip)
         THEN {[chip |-> [chip EXCEPT !.select = r], res |-> SUCCESS, clean |-> c] :
               r \in regs, c \in BOOLEAN}
         ELSE {}

(* The value of a uint16_t function that returns FAIL. *)
FAIL16 == UINT16_MAX

(* Low byte, high byte, each of them selected, read and checked. *)
ReadData(fd, chip, low, high) ==
  UNION {IF l.res = FAIL THEN {[l EXCEPT !.res = FAIL16]}
         ELSE {[h EXCEPT !.res = IF h.res = FAIL THEN FAIL16 ELSE 256 * h.res + l.res] :
               h \in After(l, ReadRegister(fd, l.chip, high))} :
         l \in ReadRegister(fd, chip, low)}

read_data0reg(fd, chip) == ReadData(fd, chip, data0low_reg, data0high_reg)

(* The high byte is that of channel 0. *)
read_data1reg(fd, chip) == ReadData(fd, chip, data1low_reg, data0high_reg)
-----------------------------------------------------------------------------
(* Luminosity in 1/100000 of a lumen, FAIL * LumenScale for FAIL.  adc is  *)
(* ch1/ch0 in float, which puts 0.61 and 0.80 into the next class and 0/0  *)
(* into none.  adc^1.4 (powf) lies between 0 and 0.758 * adc up to 0.5:    *)
(* either bound stands for it.                                             *)
LumenScale == 100000

(* MUTANTS: a class of the formula is skipped, in three ways; in one of    *)
(* them a sign is lost as well.                                            *)
LuminosityWide(ch0, ch1) ==
  CASE ch1 = 0                       -> {FAIL * LumenScale}
    [] ch1 > 0 /\ 2 * ch1 <= ch0     -> {3040 * ch0 - 4700 * ch1, 3040 * ch0}
    [] 2 * ch1 > ch0 /\ ch1 <= ch0   -> {2240 * ch0 - 3100 * ch1}
    [] ch1 > ch0                     -> {0}

LuminositySum(ch0, ch1) ==
  CASE ch1 = 0                       -> {FAIL * LumenScale}
    [] ch1 > 0 /\ 2 * ch1 <= ch0     -> {3040 * ch0 + 4700 * ch1}
    [] 2 * ch1 > ch0                 -> {0}

LuminosityGap(ch0, ch1) ==
  CASE ch1 > 0 /\ 2 * ch1 <= ch0                   -> {3040 * ch0 - 4700 * ch1, 3040 * ch0}
    [] 2 * ch1 > ch0 /\ 100 * ch1 < 61 * ch0       -> {2240 * ch0 - 3100 * ch1}
    [] ch1 > 0 /\ 10 * ch1 >= 8 * ch0 /\ 10 * ch1 <= 13 * ch0
                                                   -> {146 * ch0 - 112 * ch1}
    [] 10 * ch1 > 13 * ch0                         -> {0}
    [] OTHER                                       -> {FAIL * LumenScale}

Luminosity(ch0, ch1) ==
  CASE ch1 = 0                                     -> {FAIL * LumenScale}
    [] ch1 > 0 /\ 2 * ch1 <= ch0                   -> {3040 * ch0 - 4700 * ch1, 3040 * ch0}
    [] 2 * ch1 > ch0 /\ 100 * ch1 < 61 * ch0       -> {2240 * ch0 - 3100 * ch1}
    [] 100 * ch1 >= 61 * ch0 /\ 10 * ch1 < 8 * ch0 -> {1280 * ch0 - 1530 * ch1}
    [] ch1 > 0 /\ 10 * ch1 >= 8 * ch0 /\ 10 * ch1 <= 13 * ch0
                                                   -> {146 * ch0 - 112 * ch1}
    [] 10 * ch1 > 13 * ch0                         -> {0}

(* The results of the writes are ignored; FAIL16 is taken for a reading. *)
get_luminosity(fd, chip) ==
  LET Setup == Then(write_controlreg(fd, chip, power_up),
                    LAMBDA c : write_timingreg(fd, c, timing))
  IN  UNION {UNION {{[d1 EXCEPT !.res = l] : l \in Luminosity(d0.res, d1.res)} :
                    d1 \in After(d0, read_data1reg(fd, d0.chip))} :
             d0 \in Then(Setup, LAMBDA c : read_data0reg(fd, c))}

print_id(fd, chip) == Peek(fd, chip, {id_reg})

(* Four bytes, each selected, read and checked. *)
Thresholds == timing_reg + 1 .. int_control_reg - 1
read_interrupt_threshholdreg(fd, chip) ==
  {Failed(chip, FAIL)}
    \cup IF Answers(fd, chip)
         THEN {Clean([chip EXCEPT !.select = int_control_reg - 1], SUCCESS)}
                \cup {Failed([chip EXCEPT !.select = r], FAIL) : r \in Thresholds}
         ELSE {}

(* MUTANT: the status of the last write is not looked at. *)
RwAllRegsLax(fd, chip) ==
  LET control == write_controlreg(fd, chip, power_up)
      timings == Checked(control, LAMBDA c : write_timingreg(fd, c, timing))
      arr     == Checked(timings, LAMBDA c : read_interrupt_threshholdreg(fd, c))
  IN  Checked(arr, LAMBDA c : {[i EXCEPT !.res = SUCCESS] :
                               i \in write_interrupt_controlreg(fd, c, RW_INT)})

(* Ends at the first write, or threshold, that fails. *)
rw_allregs_apds(fd, chip) ==
  LET control == write_controlreg(fd, chip, power_up)
      read1   == Checked(control, LAMBDA c : Peek(fd, c, {control_reg}))
      timings == Checked(read1, LAMBDA c : write_timingreg(fd, c, timing))
      read2   == Checked(timings, LAMBDA c : Peek(fd, c, {timing_reg}))
      arr     == Checked(read2, LAMBDA c : read_interrupt_threshholdreg(fd, c))
      int     == Checked(arr, LAMBDA c : write_interrupt_controlreg(fd, c, RW_INT))
  IN  Checked(int, LAMBDA c : Peek(fd, c, {id_reg} \cup DataRegs))
=============================================================================
