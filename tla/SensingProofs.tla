---------------------------- MODULE SensingProofs ---------------------------
(***************************************************************************)
(* What TempSensing and LightSensing keep, for every value of Temps,       *)
(* Garbage, MaxOpen and Lights.  The drivers' functions are sets of        *)
(* outcomes, so the lemmas come first: what a transfer, a call after       *)
(* another one, and each function of the drivers may come to.  They give   *)
(* the steps of the two inductive invariants, TempInv and LightInv.        *)
(***************************************************************************)
EXTENDS TempSensing, LightSensing, TLAPS

(* Outcomes with a chip of C and a result of R. *)
Outcomes(C, R) == {Clean(c, x) : c \in C, x \in R} \cup {Failed(c, x) : c \in C, x \in R}

LEMMA Distinct ==
  ASSUME NEW c, NEW x, NEW d, NEW y
  PROVE  /\ Clean(c, x) = Clean(d, y) => c = d /\ x = y
         /\ Failed(c, x) = Failed(d, y) => c = d /\ x = y
         /\ Clean(c, x) # Failed(d, y)
  BY DEF Clean, Failed

LEMMA Joined ==
  ASSUME NEW c, NEW x, NEW d, NEW y
  PROVE  /\ [Clean(d, y)  EXCEPT !.clean = @ /\ Clean(c, x).clean]  = Clean(d, y)
         /\ [Failed(d, y) EXCEPT !.clean = @ /\ Clean(c, x).clean]  = Failed(d, y)
         /\ [Clean(d, y)  EXCEPT !.clean = @ /\ Failed(c, x).clean] = Failed(d, y)
         /\ [Failed(d, y) EXCEPT !.clean = @ /\ Failed(c, x).clean] = Failed(d, y)
<1>1. /\ (Clean(d, y).clean /\ Clean(c, x).clean) = TRUE
      /\ (Failed(d, y).clean /\ Clean(c, x).clean) = FALSE
      /\ (Clean(d, y).clean /\ Failed(c, x).clean) = FALSE
      /\ (Failed(d, y).clean /\ Failed(c, x).clean) = FALSE
  BY DEF Clean, Failed
<1>2. \A a, b : [[chip |-> d, res |-> y, clean |-> a] EXCEPT !.clean = b]
                  = [chip |-> d, res |-> y, clean |-> b]
  OBVIOUS
<1>3. /\ [Clean(d, y) EXCEPT !.clean = TRUE] = Clean(d, y)
      /\ [Failed(d, y) EXCEPT !.clean = FALSE] = Failed(d, y)
      /\ [Clean(d, y) EXCEPT !.clean = FALSE] = Failed(d, y)
  BY <1>2, Zenon DEF Clean, Failed
<1> QED BY <1>1, <1>3

(* A call after another one: clean only if both are. *)
LEMMA AfterOutcome ==
  ASSUME NEW C, NEW R, NEW D, NEW Q, NEW w \in Outcomes(C, R), NEW S \in SUBSET Outcomes(D, Q),
         NEW r \in After(w, S)
  PROVE  /\ r \in Outcomes(D, Q)
         /\ \E d \in D, y \in Q :
              \/ r = Clean(d, y) /\ r \in S /\ w = Clean(w.chip, w.res)
              \/ r = Failed(d, y) /\ r \in S
              \/ r = Failed(d, y) /\ Clean(d, y) \in S /\ w = Failed(w.chip, w.res)
<1>1. PICK s \in S : r = [s EXCEPT !.clean = @ /\ w.clean]
  BY DEF After
<1>2. PICK d \in D, y \in Q : s = Clean(d, y) \/ s = Failed(d, y)
  BY DEF Outcomes
<1>3. PICK c \in C, x \in R : w = Clean(c, x) \/ w = Failed(c, x)
  BY DEF Outcomes
<1>4. \/ r = Clean(d, y) /\ s = Clean(d, y) /\ w = Clean(c, x)
      \/ r = Failed(d, y) /\ s = Failed(d, y)
      \/ r = Failed(d, y) /\ s = Clean(d, y) /\ w = Failed(c, x)
  BY <1>1, <1>2, <1>3, Joined
<1>5. r \in Outcomes(D, Q)
  BY <1>2, <1>4 DEF Outcomes
<1>6. w = Clean(c, x) => w = Clean(w.chip, w.res)
  <2>1. Clean(c, x).chip = c /\ Clean(c, x).res = x
    BY DEF Clean
  <2> QED BY <2>1
<1>7. w = Failed(c, x) => w = Failed(w.chip, w.res)
  <2>1. Failed(c, x).chip = c /\ Failed(c, x).res = x
    BY DEF Failed
  <2> QED BY <2>1
<1> QED BY <1>2, <1>4, <1>5, <1>6, <1>7

LEMMA WriteOutcome ==
  ASSUME NEW fd, NEW chip, NEW after, NEW w \in Write(fd, chip, after)
  PROVE  \/ w = Failed(chip, FAIL)
         \/ Answers(fd, chip) /\ (w = Clean(after, SUCCESS) \/ w = Failed(after, FAIL))
  BY DEF Write

LEMMA ReadOutcome ==
  ASSUME NEW fd, NEW chip, NEW value, NEW r \in Read(fd, chip, value)
  PROVE  r = Failed(chip, FAIL) \/ (Answers(fd, chip) /\ r = Clean(chip, value))
  BY DEF Read
-----------------------------------------------------------------------------
(* The chips that a function of the driver may leave, and what the         *)
(* temperature register of such a chip is read as.                         *)
Reached(chip) == {c \in Tmp102Chip : c.plugged = chip.plugged /\ c.temp = chip.temp}

Reading(chip) == Decoded(Presented([chip EXCEPT !.pointer = TEMPREG_ADDRESS]))

LEMMA Int16 ==
  SUCCESS \in Int /\ FAIL \in Int /\ SUCCESS # FAIL /\ Garbage \subseteq Int
  BY GarbageAssumption DEF SUCCESS, FAIL

LEMMA ReachedFacts ==
  ASSUME NEW chip \in Tmp102Chip, NEW c \in Reached(chip)
  PROVE  /\ c \in Tmp102Chip
         /\ chip \in Reached(chip)
         /\ Reached(c) \subseteq Reached(chip)
         /\ \A fd : Answers(fd, c) <=> Answers(fd, chip)
  BY DEF Reached, Answers

LEMMA Addressed ==
  ASSUME NEW chip \in Tmp102Chip, NEW reg \in {TEMPREG_ADDRESS, CONFREG_ADDRESS}
  PROVE  /\ [chip EXCEPT !.pointer = reg] \in Reached(chip)
         /\ [chip EXCEPT !.pointer = reg].pointer = reg
  BY DEF Tmp102Chip, Reached

LEMMA Configured ==
  ASSUME NEW chip \in Tmp102Chip, NEW val \in {CONFIG_DEFAULT, SHUTDOWN_MODE}
  PROVE  /\ [chip EXCEPT !.pointer = CONFREG_ADDRESS, !.conf = Conf(val)] \in Reached(chip)
         /\ [chip EXCEPT !.pointer = CONFREG_ADDRESS, !.conf = Conf(val)].pointer = CONFREG_ADDRESS
         /\ [chip EXCEPT !.pointer = CONFREG_ADDRESS, !.conf = Conf(val)].conf = Conf(val)
<1>1. Conf(val) \in {Conf(CONFIG_DEFAULT), Conf(SHUTDOWN_MODE)}
  OBVIOUS
<1>2. ASSUME NEW c \in Tmp102Chip, NEW conf \in {Conf(CONFIG_DEFAULT), Conf(SHUTDOWN_MODE)}
      PROVE  [c EXCEPT !.conf = conf] \in Reached(c)
  BY DEF Tmp102Chip, Reached
<1>3. [chip EXCEPT !.pointer = CONFREG_ADDRESS] \in Reached(chip)
  BY Addressed
<1>4. [[chip EXCEPT !.pointer = CONFREG_ADDRESS] EXCEPT !.conf = Conf(val)] \in Reached(chip)
  BY <1>1, <1>2, <1>3 DEF Reached
<1>5. /\ [chip EXCEPT !.pointer = CONFREG_ADDRESS, !.conf = Conf(val)].pointer = CONFREG_ADDRESS
      /\ [chip EXCEPT !.pointer = CONFREG_ADDRESS, !.conf = Conf(val)].conf = Conf(val)
  BY DEF Tmp102Chip
<1> QED BY <1>4, <1>5

(* 16 * b + b \div 16 for a byte b: what read_tempreg() computes. *)
LEMMA Bytes ==
  ASSUME NEW chip \in Tmp102Chip
  PROVE  Decoded(Presented(chip)) \in 0 .. 4095
<1>1. /\ Conf(CONFIG_DEFAULT)[1] \in 0 .. 255
      /\ Conf(SHUTDOWN_MODE)[1] \in 0 .. 255
  BY DEF Conf, CONFIG_DEFAULT, SHUTDOWN_MODE
<1>2. chip.temp \in 0 .. 4095 /\ chip.conf[1] \in 0 .. 255
  BY <1>1 DEF Tmp102Chip
<1>3. \A b \in 0 .. 255 : 16 * b + b \div 16 \in 0 .. 4095
  OBVIOUS
<1>4. PICK b \in 0 .. 255 : Decoded(Presented(chip)) = 16 * b + b \div 16
  <2>1. CASE chip.pointer = TEMPREG_ADDRESS
    <3>1. Decoded(Presented(chip)) = 16 * (chip.temp \div 16) + (chip.temp \div 16) \div 16
      BY <2>1 DEF Presented, Decoded
    <3>2. PICK t \in 0 .. 4095 : t = chip.temp
      BY <1>2
    <3>3. t \div 16 \in 0 .. 255
      OBVIOUS
    <3> QED BY <3>1, <3>2, <3>3
  <2>2. CASE chip.pointer # TEMPREG_ADDRESS
    <3>1. Decoded(Presented(chip)) = 16 * chip.conf[1] + chip.conf[1] \div 16
      BY <2>2 DEF Presented, Decoded
    <3> QED BY <1>2, <3>1
  <2> QED BY <2>1, <2>2
<1>5. 16 * b + b \div 16 \in 0 .. 4095
  BY <1>3
<1> QED BY <1>4, <1>5
LEMMA WriteConfig ==
  ASSUME NEW fd, NEW chip \in Tmp102Chip, NEW val \in {CONFIG_DEFAULT, SHUTDOWN_MODE},
         NEW w \in write_configreg(fd, chip, val)
  PROVE  \E c \in Reached(chip) :
           \/ w = Failed(c, FAIL)
           \/ /\ Answers(fd, chip) /\ c.pointer = CONFREG_ADDRESS /\ c.conf = Conf(val)
              /\ w = Clean(c, SUCCESS) \/ w = Failed(c, SUCCESS)
<1> DEFINE addressed == [chip EXCEPT !.pointer = CONFREG_ADDRESS]
           written(c) == [c EXCEPT !.pointer = CONFREG_ADDRESS, !.conf = Conf(val)]
<1>1. PICK p \in Write(fd, chip, addressed) : w \in After(p, Write(fd, p.chip, written(p.chip)))
  BY DEF write_configreg, write_pointerreg, Then
<1>2. chip \in Reached(chip) /\ addressed \in Reached(chip)
  BY Addressed, ReachedFacts
<1>3. PICK c \in Reached(chip), x \in {SUCCESS, FAIL} : p = Clean(c, x) \/ p = Failed(c, x)
  BY <1>1, <1>2, WriteOutcome
<1>4. p.chip = c
  BY <1>3 DEF Clean, Failed
<1>5. /\ written(c) \in Reached(chip) /\ c \in Reached(chip)
      /\ written(c).pointer = CONFREG_ADDRESS /\ written(c).conf = Conf(val)
      /\ Answers(fd, c) <=> Answers(fd, chip)
  <2>1. c \in Tmp102Chip /\ Reached(c) \subseteq Reached(chip)
    BY ReachedFacts
  <2>2. written(c) \in Reached(c)
    BY <2>1, Configured
  <2>3. written(c).pointer = CONFREG_ADDRESS /\ written(c).conf = Conf(val)
    BY <2>1, Configured
  <2> QED BY <2>1, <2>2, <2>3, ReachedFacts
<1> HIDE DEF addressed, written
<1>6. \A s \in Write(fd, c, written(c)) :
         \/ s = Failed(c, FAIL)
         \/ Answers(fd, c) /\ (s = Clean(written(c), SUCCESS) \/ s = Failed(written(c), FAIL))
  BY WriteOutcome
<1>7. Write(fd, c, written(c)) \in SUBSET Outcomes(Reached(chip), {SUCCESS, FAIL})
  BY <1>5, <1>6 DEF Outcomes
<1>8. p \in Outcomes(Reached(chip), {SUCCESS, FAIL}) /\ w \in After(p, Write(fd, c, written(c)))
  BY <1>1, <1>3, <1>4 DEF Outcomes
<1>9. PICK d \in Reached(chip), y \in {SUCCESS, FAIL} :
         \/ w = Clean(d, y) /\ w \in Write(fd, c, written(c))
         \/ w = Failed(d, y) /\ \E s \in Write(fd, c, written(c)) : s = Clean(d, y) \/ s = Failed(d, y)
  BY <1>7, <1>8, AfterOutcome
<1>10. PICK s \in Write(fd, c, written(c)) :
         (w = Clean(d, y) /\ s = Clean(d, y)) \/ (w = Failed(d, y) /\ (s = Clean(d, y) \/ s = Failed(d, y)))
  BY <1>9
<1>11. CASE s = Failed(c, FAIL)
  <2>1. w = Failed(c, FAIL)
    BY <1>10, <1>11, Distinct
  <2> QED BY <1>5, <2>1
<1>12. CASE Answers(fd, c) /\ s = Clean(written(c), SUCCESS)
  <2>1. w = Clean(written(c), SUCCESS) \/ w = Failed(written(c), SUCCESS)
    BY <1>10, <1>12, Distinct
  <2> QED BY <1>5, <1>12, <2>1
<1>13. CASE Answers(fd, c) /\ s = Failed(written(c), FAIL)
  <2>1. w = Failed(written(c), FAIL)
    BY <1>10, <1>13, Distinct
  <2> QED BY <1>5, <2>1
<1> QED BY <1>6, <1>11, <1>12, <1>13

LEMMA WritePointer ==
  ASSUME NEW fd, NEW chip \in Tmp102Chip, NEW reg \in {TEMPREG_ADDRESS, CONFREG_ADDRESS},
         NEW w \in write_pointerreg(fd, chip, reg)
  PROVE  /\ w \in Outcomes(Reached(chip), {SUCCESS, FAIL})
         /\ \/ w = Failed(chip, FAIL)
            \/ w = Clean([chip EXCEPT !.pointer = reg], SUCCESS)
            \/ w = Failed([chip EXCEPT !.pointer = reg], FAIL)
<1> DEFINE addressed == [chip EXCEPT !.pointer = reg]
<1>1. chip \in Reached(chip) /\ addressed \in Reached(chip)
  BY Addressed, ReachedFacts
<1>2. \/ w = Failed(chip, FAIL)
      \/ w = Clean(addressed, SUCCESS) \/ w = Failed(addressed, FAIL)
  BY WriteOutcome DEF write_pointerreg
<1> HIDE DEF addressed
<1>3. w \in Outcomes(Reached(chip), {SUCCESS, FAIL})
  BY <1>1, <1>2 DEF Outcomes
<1> QED BY <1>2, <1>3 DEF addressed

LEMMA ReadTemp ==
  ASSUME NEW fd, NEW chip \in Tmp102Chip, NEW r \in read_tempreg(fd, chip)
  PROVE  \E c \in Reached(chip) :
           \/ r = Failed(c, FAIL)
           \/ /\ Answers(fd, chip)
              /\ \/ r = Clean(c, Reading(chip))
                 \/ r = Failed(c, Reading(chip))
                 \/ r = Failed(c, Decoded(Presented(chip)))
<1> DEFINE turned == [chip EXCEPT !.pointer = TEMPREG_ADDRESS]
           value(c) == Decoded(Presented(c))
<1>1. PICK p \in write_pointerreg(fd, chip, TEMPREG_ADDRESS) :
        r \in After(p, Read(fd, p.chip, value(p.chip)))
  BY DEF read_tempreg, Then
<1>2. /\ p \in Outcomes(Reached(chip), {SUCCESS, FAIL})
      /\ p = Failed(chip, FAIL) \/ p = Clean(turned, SUCCESS) \/ p = Failed(turned, FAIL)
  BY <1>1, WritePointer
<1>3. chip \in Reached(chip) /\ turned \in Reached(chip)
  BY Addressed, ReachedFacts
<1>4. Reading(chip) = value(turned)
  BY DEF Reading
<1> HIDE DEF value, turned
<1>5. PICK c \in {chip, turned} : p.chip = c /\ (p = Failed(c, FAIL) \/ (p = Clean(c, SUCCESS) /\ c = turned))
  BY <1>2 DEF Clean, Failed
<1>6. \A s \in Read(fd, c, value(c)) : s = Failed(c, FAIL) \/ (Answers(fd, c) /\ s = Clean(c, value(c)))
  BY ReadOutcome
<1>7. Read(fd, c, value(c)) \in SUBSET Outcomes(Reached(chip), {value(c), FAIL})
  BY <1>3, <1>6 DEF Outcomes
<1>8. PICK d \in Reached(chip), y \in {value(c), FAIL} :
         \/ r = Clean(d, y) /\ r \in Read(fd, c, value(c)) /\ p = Clean(p.chip, p.res)
         \/ r = Failed(d, y) /\ (Clean(d, y) \in Read(fd, c, value(c)) \/ Failed(d, y) \in Read(fd, c, value(c)))
  BY <1>1, <1>2, <1>5, <1>7, AfterOutcome
<1>9. c \in Reached(chip) /\ (Answers(fd, c) <=> Answers(fd, chip))
  BY <1>3, <1>5, ReachedFacts
<1>10. CASE r = Failed(d, y)
  <2>1. y = FAIL \/ (Answers(fd, c) /\ y = value(c))
    BY <1>6, <1>8, <1>10, Distinct
  <2>2. value(c) = value(turned) \/ value(c) = Decoded(Presented(chip))
    BY <1>5 DEF value
  <2> QED BY <1>4, <1>9, <1>10, <2>1, <2>2
<1>11. CASE r = Clean(d, y)
  <2>1. p = Clean(p.chip, p.res) /\ Answers(fd, c) /\ r = Clean(c, value(c))
    BY <1>6, <1>8, <1>11, Distinct
  <2>2. c = turned
    BY <1>5, <2>1, Distinct
  <2> QED BY <1>4, <1>9, <2>1, <2>2
<1> QED BY <1>8, <1>10, <1>11

LEMMA ReadingRange ==
  ASSUME NEW chip \in Tmp102Chip
  PROVE  Reading(chip) \in 0 .. 4095
<1> DEFINE turned == [chip EXCEPT !.pointer = TEMPREG_ADDRESS]
<1>1. turned \in Tmp102Chip
  BY DEF Tmp102Chip
<1> HIDE DEF turned
<1>2. Decoded(Presented(turned)) \in 0 .. 4095
  BY <1>1, Bytes
<1> QED BY <1>2 DEF Reading, turned

(* The reading of a sensor is that of its temperature register. *)
LEMMA ReadingFacts ==
  ASSUME NEW chip \in Tmp102Chip
  PROVE  /\ Reading(chip) \in 0 .. 4095
         /\ Near(Reading(chip), chip.temp)
         /\ \A c \in Reached(chip) : Reading(c) = Reading(chip)
<1>1. ASSUME NEW c \in Tmp102Chip
      PROVE  Reading(c) = 16 * (c.temp \div 16) + (c.temp \div 16) \div 16
  <2> DEFINE turned == [c EXCEPT !.pointer = TEMPREG_ADDRESS]
  <2>1. turned.pointer = TEMPREG_ADDRESS /\ turned.temp = c.temp
    BY DEF Tmp102Chip
  <2> HIDE DEF turned
  <2>2. Decoded(Presented(turned)) = 16 * (c.temp \div 16) + (c.temp \div 16) \div 16
    BY <2>1 DEF Presented, Decoded
  <2> QED BY <2>2 DEF Reading, turned
<1>2. PICK t \in 0 .. 4095 : t = chip.temp
  <2>1. chip.temp \in 0 .. 4095
    BY DEF Tmp102Chip
  <2> QED BY <2>1
<1>3. 16 * (t \div 16) + (t \div 16) \div 16 \in t - 15 .. t + 15
  OBVIOUS
<1>4. Reading(chip) \in 0 .. 4095
  BY ReadingRange
<1>5. \A c \in Reached(chip) : Reading(c) = Reading(chip)
  BY <1>1 DEF Reached
<1> QED BY <1>1, <1>2, <1>3, <1>4, <1>5 DEF Near

LEMMA MisreadFacts ==
  ASSUME NEW chip \in Tmp102Chip, chip.pointer = CONFREG_ADDRESS, chip.conf = Conf(CONFIG_DEFAULT)
  PROVE  Decoded(Presented(chip)) = Misread
<1>1. Presented(chip) = Conf(CONFIG_DEFAULT)
  BY DEF Presented, TEMPREG_ADDRESS, CONFREG_ADDRESS
<1> QED BY <1>1 DEF Misread

(* What *res holds: with the write of the configuration done, a reading,   *)
(* the configuration, or what malloc left.                                 *)
LEMMA FetchedOutcome ==
  ASSUME NEW fd, NEW chip \in Tmp102Chip, NEW r \in Fetched(fd, chip)
  PROVE  \E c \in Reached(chip) :
           \/ r = Clean(c, Reading(chip))
           \/ \E v \in Garbage \cup {Reading(chip), Decoded(Presented(chip))} : r = Failed(c, v)
<1>1. PICK q \in read_tempreg(fd, chip) :
        \E v \in IF q.res = FAIL THEN Garbage ELSE {q.res} : r = [q EXCEPT !.res = v]
  BY DEF Fetched
<1>2. PICK c \in Reached(chip) :
        \/ q = Failed(c, FAIL)
        \/ q = Clean(c, Reading(chip))
        \/ q = Failed(c, Reading(chip)) \/ q = Failed(c, Decoded(Presented(chip)))
  BY <1>1, ReadTemp
<1>3. ASSUME NEW x, NEW v
      PROVE  /\ [Failed(c, x) EXCEPT !.res = v] = Failed(c, v)
             /\ [Clean(c, x) EXCEPT !.res = v] = Clean(c, v)
  <2>1. \A b : [[chip |-> c, res |-> x, clean |-> b] EXCEPT !.res = v]
                = [chip |-> c, res |-> v, clean |-> b]
    OBVIOUS
  <2> QED BY <2>1, Zenon DEF Clean, Failed
<1>4. CASE q = Failed(c, FAIL)
  <2>1. q.res = FAIL
    BY <1>4 DEF Failed
  <2>2. PICK v \in Garbage : r = [q EXCEPT !.res = v]
    BY <1>1, <2>1
  <2> QED BY <1>3, <1>4, <2>2
<1>5. ASSUME NEW x \in {Reading(chip), Decoded(Presented(chip))}, q = Failed(c, x)
      PROVE  \E v \in Garbage \cup {x} : r = Failed(c, v)
  <2>1. q.res = x
    BY <1>5 DEF Failed
  <2>2. PICK v \in Garbage \cup {x} : r = [q EXCEPT !.res = v]
    BY <1>1, <2>1
  <2> QED BY <1>3, <1>5, <2>2
<1>6. CASE q = Clean(c, Reading(chip))
  <2>1. q.res = Reading(chip)
    BY <1>6 DEF Clean
  <2>2. Reading(chip) # FAIL
    <3>1. Reading(chip) \in 0 .. 4095
      BY ReadingFacts
    <3>2. \A n \in 0 .. 4095 : n # FAIL
      BY DEF FAIL
    <3> QED BY <3>1, <3>2
  <2>3. r = [q EXCEPT !.res = Reading(chip)]
    BY <1>1, <2>1, <2>2
  <2> QED BY <1>3, <1>6, <2>3
<1> QED BY <1>2, <1>4, <1>5, <1>6

(* print_temperature() with the mode the task gives it. *)
LEMMA PrintOutcome ==
  ASSUME NEW fd, NEW chip \in Tmp102Chip, NEW r \in print_temperature(fd, chip, CONFIG_DEFAULT)
  PROVE  \E c \in Reached(chip) :
           \/ r = Failed(c, FAIL)
           \/ /\ Answers(fd, chip)
              /\ \/ r = Clean(c, Reading(chip))
                 \/ \E v \in Garbage \cup {Reading(chip), Misread} : r = Failed(c, v)
<1>1. PICK w \in write_configreg(fd, chip, CONFIG_DEFAULT) :
        r \in IF w.res = FAIL THEN {w} ELSE After(w, Fetched(fd, w.chip))
  BY DEF print_temperature, Checked
<1>2. PICK c \in Reached(chip) :
        \/ w = Failed(c, FAIL)
        \/ /\ Answers(fd, chip) /\ c.pointer = CONFREG_ADDRESS /\ c.conf = Conf(CONFIG_DEFAULT)
           /\ w = Clean(c, SUCCESS) \/ w = Failed(c, SUCCESS)
  BY <1>1, WriteConfig
<1>3. CASE w = Failed(c, FAIL)
  <2>1. w.res = FAIL
    BY <1>3 DEF Failed
  <2> QED BY <1>1, <1>3, <2>1
<1>4. CASE w # Failed(c, FAIL)
  <2>1. w.res # FAIL /\ w.chip = c
    BY <1>2, <1>4, Int16 DEF Clean, Failed
  <2>2. r \in After(w, Fetched(fd, c))
    BY <1>1, <2>1
  <2>3. /\ c \in Tmp102Chip /\ Reached(c) \subseteq Reached(chip)
        /\ Reading(c) = Reading(chip) /\ Decoded(Presented(c)) = Misread
    BY <1>2, <1>4, ReachedFacts, ReadingFacts, MisreadFacts
  <2>4. \A s \in Fetched(fd, c) : \E d \in Reached(chip) :
           \/ s = Clean(d, Reading(chip))
           \/ \E v \in Garbage \cup {Reading(chip), Misread} : s = Failed(d, v)
    BY <2>3, FetchedOutcome
  <2> DEFINE V == Garbage \cup {Reading(chip), Misread}
  <2>5. Fetched(fd, c) \in SUBSET Outcomes(Reached(chip), V)
    BY <2>4 DEF Outcomes
  <2>6. w \in Outcomes(Reached(chip), {SUCCESS})
    BY <1>2, <1>4 DEF Outcomes
  <2>7. PICK d \in Reached(chip), y \in V :
           (r = Clean(d, y) /\ r \in Fetched(fd, c)) \/ r = Failed(d, y)
    BY <2>2, <2>5, <2>6, AfterOutcome
  <2>8. r = Clean(d, y) => y = Reading(chip)
    BY <2>4, <2>7, Distinct
  <2> QED BY <1>2, <1>4, <2>7, <2>8
<1> QED BY <1>3, <1>4
-----------------------------------------------------------------------------
(* The calls of a build with CHECK_LIBRARY: whatever they meet, the chip   *)
(* stays on the bus, or off it, and keeps its temperature.                 *)
LEMMA Reaches ==
  ASSUME NEW chip \in Tmp102Chip, NEW w \in Outcomes(Reached(chip), Int)
  PROVE  w.chip \in Reached(chip) /\ w.chip \in Tmp102Chip
<1>1. PICK c \in Reached(chip), x \in Int : w = Clean(c, x) \/ w = Failed(c, x)
  BY DEF Outcomes
<1>2. w.chip = c
  BY <1>1 DEF Clean, Failed
<1> QED BY <1>2, ReachedFacts

LEMMA StepReached ==
  ASSUME NEW chip \in Tmp102Chip, NEW w \in Outcomes(Reached(chip), Int),
         NEW T \in SUBSET Outcomes(Reached(w.chip), Int), NEW r \in After(w, T)
  PROVE  r \in Outcomes(Reached(chip), Int)
<1>1. r \in Outcomes(Reached(w.chip), Int)
  BY AfterOutcome
<1>2. Reached(w.chip) \subseteq Reached(chip)
  BY Reaches, ReachedFacts
<1> QED BY <1>1, <1>2 DEF Outcomes

LEMMA WriteConfigType ==
  ASSUME NEW fd, NEW chip \in Tmp102Chip, NEW val \in {CONFIG_DEFAULT, SHUTDOWN_MODE}
  PROVE  write_configreg(fd, chip, val) \in SUBSET Outcomes(Reached(chip), Int)
  BY WriteConfig, Int16 DEF Outcomes

LEMMA ReadTempType ==
  ASSUME NEW fd, NEW chip \in Tmp102Chip
  PROVE  read_tempreg(fd, chip) \in SUBSET Outcomes(Reached(chip), Int)
<1>1. Reading(chip) \in Int /\ Decoded(Presented(chip)) \in Int
  <2>1. PICK m \in 0 .. 4095 : m = Reading(chip)
    BY ReadingRange
  <2>2. PICK n \in 0 .. 4095 : n = Decoded(Presented(chip))
    BY Bytes
  <2>3. m \in Int /\ n \in Int
    OBVIOUS
  <2> QED BY <2>1, <2>2, <2>3
<1> QED BY <1>1, ReadTemp, Int16 DEF Outcomes

LEMMA PrintType ==
  ASSUME NEW fd, NEW chip \in Tmp102Chip
  PROVE  print_temperature(fd, chip, CONFIG_DEFAULT) \in SUBSET Outcomes(Reached(chip), Int)
<1>1. Misread \in Int
  BY DEF Misread, Decoded, Conf, CONFIG_DEFAULT
<1>2. Reading(chip) \in Int
  <2>1. PICK n \in 0 .. 4095 : n = Reading(chip)
    BY ReadingRange
  <2>2. n \in Int
    OBVIOUS
  <2> QED BY <2>1, <2>2
<1> QED BY <1>1, <1>2, PrintOutcome, Int16 DEF Outcomes

LEMMA ReadConfigType ==
  ASSUME NEW fd, NEW chip \in Tmp102Chip
  PROVE  read_configreg(fd, chip) \in SUBSET Outcomes(Reached(chip), Int)
<1> SUFFICES ASSUME NEW r \in read_configreg(fd, chip)
             PROVE  r \in Outcomes(Reached(chip), Int)
  OBVIOUS
<1>1. PICK p \in write_pointerreg(fd, chip, CONFREG_ADDRESS) : r \in After(p, Read(fd, p.chip, SUCCESS))
  BY DEF read_configreg, Then
<1>2. p \in Outcomes(Reached(chip), {SUCCESS, FAIL})
  BY <1>1, WritePointer
<1>3. p \in Outcomes(Reached(chip), Int)
  BY <1>2, Int16 DEF Outcomes
<1>4. p.chip \in Reached(p.chip)
  <2>1. p.chip \in Tmp102Chip
    BY <1>3, Reaches
  <2> QED BY <2>1 DEF Reached
<1>5. Read(fd, p.chip, SUCCESS) \in SUBSET Outcomes(Reached(p.chip), Int)
  BY <1>4, ReadOutcome, Int16 DEF Outcomes
<1> QED BY <1>1, <1>3, <1>5, StepReached

LEMMA AllRegsType ==
  ASSUME NEW fd, NEW chip \in Tmp102Chip
  PROVE  rw_allregs_tmp102(fd, chip) \in SUBSET Outcomes(Reached(chip), Int)
<1> SUFFICES ASSUME NEW r \in rw_allregs_tmp102(fd, chip)
             PROVE  r \in Outcomes(Reached(chip), Int)
  OBVIOUS
<1>1. PICK v \in Checked(write_configreg(fd, chip, CONFIG_DEFAULT), LAMBDA c : read_configreg(fd, c)) :
        r \in IF v.res = FAIL THEN {v} ELSE After(v, read_tempreg(fd, v.chip))
  BY DEF rw_allregs_tmp102, Checked
<1>2. PICK w \in write_configreg(fd, chip, CONFIG_DEFAULT) :
        v \in IF w.res = FAIL THEN {w} ELSE After(w, read_configreg(fd, w.chip))
  BY <1>1 DEF Checked
<1>3. w \in Outcomes(Reached(chip), Int)
  BY <1>2, WriteConfigType
<1>4. v \in Outcomes(Reached(chip), Int)
  BY <1>2, <1>3, Reaches, ReadConfigType, StepReached
<1> QED BY <1>1, <1>4, Reaches, ReadTempType, StepReached

LEMMA LibraryChecksKeep ==
  ASSUME NEW fd, NEW chip \in Tmp102Chip, NEW r \in LibraryChecks(fd, chip)
  PROVE  r.chip \in Reached(chip)
<1> DEFINE Show(c)   == print_temperature(fd, c, CONFIG_DEFAULT)
           Config(c) == read_configreg(fd, c)
           Sleep(c)  == shutdown_mode(fd, c, SHUTDOWN_MODE)
           a == rw_allregs_tmp102(fd, chip)
           b == Then(a, Show)
           d == Then(b, Config)
           e == Then(d, Sleep)
<1>1. a \in SUBSET Outcomes(Reached(chip), Int)
  BY AllRegsType
<1>2. b \in SUBSET Outcomes(Reached(chip), Int)
  <2>1. \A s \in b : \E w \in a : s \in After(w, print_temperature(fd, w.chip, CONFIG_DEFAULT))
    BY DEF Then
  <2> QED BY <1>1, <2>1, Reaches, PrintType, StepReached
<1>3. d \in SUBSET Outcomes(Reached(chip), Int)
  <2>1. \A s \in d : \E w \in b : s \in After(w, read_configreg(fd, w.chip))
    BY DEF Then
  <2> HIDE DEF b, d
  <2> QED BY <1>2, <2>1, Reaches, ReadConfigType, StepReached
<1>4. e \in SUBSET Outcomes(Reached(chip), Int)
  <2>1. \A s \in e : \E w \in d : s \in After(w, write_configreg(fd, w.chip, SHUTDOWN_MODE))
    BY DEF Then, shutdown_mode
  <2> HIDE DEF b, d, e
  <2> QED BY <1>3, <2>1, Reaches, WriteConfigType, StepReached
<1>5. PICK w \in e : r \in After(w, read_configreg(fd, w.chip))
  BY DEF LibraryChecks, Then
<1> HIDE DEF b, d, e
<1>6. r \in Outcomes(Reached(chip), Int)
  BY <1>4, <1>5, Reaches, ReadConfigType, StepReached
<1> QED BY <1>6, Reaches
-----------------------------------------------------------------------------
(* What the locked part of the temperature task makes of that. *)

(* The values that print_temperature() may return. *)
Values == Garbage \cup {FAIL, Misread, Reading(tmp)}

LEMMA CycleOutcome ==
  ASSUME TempTypeOK, TempCycle
  PROVE  /\ tmp' \in Reached(tmp)
         /\ UNCHANGED CHECK_LIBRARY
         /\ \E init \in tmp102_init(FileFd), degree \in {CELSIUS, FAHRENHEIT, KELVIN},
              v \in Values, clean \in BOOLEAN :
              /\ fds + init.opened <= MaxOpen
              /\ fds' = fds + LeftOpen(init)
              /\ temp_failure' = (temp_failure \/ TempFailure(init, v, callibrate_temp(v, degree)))
              /\ tempCycle' = [temp |-> v, clean |-> init.fd # FAIL /\ clean, ran |-> TRUE]
              /\ clean => v = Reading(tmp)
              /\ ~Answers(init.fd, tmp) => v = FAIL
<1>1. PICK init \in tmp102_init(FileFd), degree \in {CELSIUS, FAHRENHEIT, KELVIN} :
        /\ fds + init.opened <= MaxOpen
        /\ \E r \in print_temperature(init.fd, tmp, CONFIG_DEFAULT) :
           /\ \E l \in IF CHECK_LIBRARY THEN LibraryChecks(init.fd, r.chip) ELSE {r} :
                tmp' = l.chip
           /\ temp_failure' =
                (temp_failure \/ TempFailure(init, r.res, callibrate_temp(r.res, degree)))
           /\ tempCycle' = [temp |-> r.res, clean |-> init.fd # FAIL /\ r.clean, ran |-> TRUE]
        /\ fds' = fds + LeftOpen(init)
        /\ UNCHANGED CHECK_LIBRARY
  BY DEF TempCycle
<1>2. PICK r \in print_temperature(init.fd, tmp, CONFIG_DEFAULT) :
        /\ \E l \in IF CHECK_LIBRARY THEN LibraryChecks(init.fd, r.chip) ELSE {r} :
             tmp' = l.chip
        /\ temp_failure' =
             (temp_failure \/ TempFailure(init, r.res, callibrate_temp(r.res, degree)))
        /\ tempCycle' = [temp |-> r.res, clean |-> init.fd # FAIL /\ r.clean, ran |-> TRUE]
  BY <1>1
<1>3. tmp \in Tmp102Chip
  BY DEF TempTypeOK
<1>4. PICK c \in Reached(tmp) :
        \/ r = Failed(c, FAIL)
        \/ /\ Answers(init.fd, tmp)
           /\ \/ r = Clean(c, Reading(tmp))
              \/ \E v \in Garbage \cup {Reading(tmp), Misread} : r = Failed(c, v)
  BY <1>2, <1>3, PrintOutcome
<1>5. PICK v \in Values :
        \/ r = Clean(c, v) /\ v = Reading(tmp) /\ Answers(init.fd, tmp)
        \/ r = Failed(c, v) /\ (Answers(init.fd, tmp) \/ v = FAIL)
  BY <1>4 DEF Values
<1>6. r.res = v /\ r.chip = c /\ r.clean \in BOOLEAN /\ (r.clean => v = Reading(tmp))
  <2>1. CASE r = Clean(c, v) /\ v = Reading(tmp)
    <3>1. r.res = v /\ r.chip = c /\ r.clean = TRUE
      BY <2>1 DEF Clean
    <3> QED BY <2>1, <3>1
  <2>2. CASE r = Failed(c, v)
    <3>1. r.res = v /\ r.chip = c /\ r.clean = FALSE
      BY <2>2 DEF Failed
    <3> QED BY <3>1
  <2> QED BY <1>5, <2>1, <2>2
<1>7. tmp' \in Reached(tmp)
  <2>1. c \in Tmp102Chip /\ Reached(c) \subseteq Reached(tmp)
    BY <1>3, ReachedFacts
  <2>2. PICK l \in IF CHECK_LIBRARY THEN LibraryChecks(init.fd, c) ELSE {r} : tmp' = l.chip
    BY <1>2, <1>6
  <2>3. l.chip \in Reached(tmp)
    BY <1>6, <2>1, <2>2, LibraryChecksKeep
  <2> QED BY <2>2, <2>3
<1>8. ~Answers(init.fd, tmp) => v = FAIL
  BY <1>5
<1> QED BY <1>1, <1>2, <1>6, <1>7, <1>8

LEMMA Width == UINT16_MAX \in Nat /\ 4095 <= UINT16_MAX
  BY SMT DEF UINT16_MAX

LEMMA Ranges ==
  /\ \A g \in Garbage : g \in TempResults
  /\ 0 \in TempResults /\ FAIL \in TempResults /\ Misread \in TempResults
<1>1. \A g \in Garbage : g \in TempResults
  BY Width, GarbageAssumption, SMT DEF TempResults
<1>2. 0 \in TempResults /\ FAIL \in TempResults /\ Misread \in TempResults
  BY Width, SMT DEF TempResults, FAIL, Misread, Decoded, Conf, CONFIG_DEFAULT
<1> QED BY <1>1, <1>2

LEMMA ValueRange ==
  ASSUME tmp \in Tmp102Chip, NEW v \in Values
  PROVE  v \in TempResults
<1>1. CASE v = Reading(tmp)
  <2>1. PICK n \in 0 .. 4095 : n = Reading(tmp)
    BY ReadingRange
  <2>2. n \in TempResults
    BY Width, SMT DEF TempResults
  <2> QED BY <1>1, <2>1, <2>2
<1>2. CASE v # Reading(tmp)
  BY <1>2, Ranges DEF Values
<1> QED BY <1>1, <1>2

(* 0 to 255.9375 degrees in any unit are not -1 degree. *)
LEMMA NotMistaken ==
  ASSUME NEW chip \in Tmp102Chip, NEW degree \in {CELSIUS, FAHRENHEIT, KELVIN}
  PROVE  Reading(chip) # FAIL /\ callibrate_temp(Reading(chip), degree) # FAIL * TempScale
<1>1. PICK n \in 0 .. 4095 : n = Reading(chip)
  BY ReadingRange
<1> DEFINE t == callibrate_temp(n, degree)
<1>2. t = 625 * n \/ t = 1125 * n + 320000 \/ t = 625 * n + 2731500
  BY SMT DEF callibrate_temp, CELSIUS, FAHRENHEIT, KELVIN, TempScale
<1>3. FAIL = -1 /\ FAIL * TempScale = -10000
  BY SMT DEF FAIL, TempScale
<1> HIDE DEF t
<1>4. n # -1
  BY SMT
<1>5. t # -10000
  <2>1. CASE t = 625 * n
    BY <2>1, SMT
  <2>2. CASE t = 1125 * n + 320000
    BY <2>2, SMT
  <2>3. CASE t = 625 * n + 2731500
    BY <2>3, SMT
  <2> QED BY <1>2, <2>1, <2>2, <2>3, SMT
<1> QED BY <1>1, <1>3, <1>4, <1>5, SMT DEF t

LEMMA InitOutcome ==
  ASSUME NEW init \in tmp102_init(FileFd)
  PROVE  /\ init.opened \in {0, 1}
         /\ LeftOpen(init) \in {0, 1} /\ LeftOpen(init) <= init.opened
         /\ LeftOpen(init) # 0 => init.fd = FAIL
<1>1. init.opened \in {0, 1}
  BY DEF tmp102_init
<1> QED BY <1>1 DEF LeftOpen

TempInv == TempTypeOK /\ ReadingsAreHonest /\ RemovalIsNoticed /\ LeaksAreReported

LEMMA TempInvInit == TempInit => TempInv
<1> SUFFICES ASSUME TempInit PROVE TempInv
  OBVIOUS
<1> USE DEF TempInit, NoTempCycle
<1>1. tmp \in Tmp102Chip
  BY DEF PoweredTmp102, Tmp102Chip
<1>2. fds \in 0 .. MaxOpen
  BY TempSensingAssumption
<1>3. tempCycle \in TempCycles
  BY Ranges DEF TempCycles
<1>4. TempTypeOK
  BY <1>1, <1>2, <1>3 DEF TempTypeOK
<1>5. ~tempCycle.ran /\ ~(fds > 0)
  OBVIOUS
<1> QED BY <1>4, <1>5 DEF TempInv, ReadingsAreHonest, RemovalIsNoticed, LeaksAreReported

LEMMA TempInvStep == TempInv /\ [TempNext]_tempVars => TempInv'
<1> SUFFICES ASSUME TempInv, [TempNext]_tempVars PROVE TempInv'
  OBVIOUS
<1> USE DEF TempInv
<1>1. CASE TempCycle
  <2>1. tmp \in Tmp102Chip /\ tmp' \in Reached(tmp) /\ CHECK_LIBRARY' = CHECK_LIBRARY
    BY <1>1, CycleOutcome DEF TempTypeOK
  <2>2. PICK init \in tmp102_init(FileFd), degree \in {CELSIUS, FAHRENHEIT, KELVIN},
             v \in Values, clean \in BOOLEAN :
        /\ fds + init.opened <= MaxOpen
        /\ fds' = fds + LeftOpen(init)
        /\ temp_failure' = (temp_failure \/ TempFailure(init, v, callibrate_temp(v, degree)))
        /\ tempCycle' = [temp |-> v, clean |-> init.fd # FAIL /\ clean, ran |-> TRUE]
        /\ clean => v = Reading(tmp)
        /\ ~Answers(init.fd, tmp) => v = FAIL
    BY <1>1, CycleOutcome
  <2>3. /\ tempCycle'.temp = v /\ tempCycle'.ran = TRUE
        /\ tempCycle'.clean = (init.fd # FAIL /\ clean)
    BY <2>2
  <2>4. TempTypeOK'
    <3>1. tmp' \in Tmp102Chip
      BY <2>1, ReachedFacts
    <3>2. fds' \in 0 .. MaxOpen
      <4>1. /\ init.opened \in {0, 1} /\ LeftOpen(init) \in {0, 1}
            /\ LeftOpen(init) <= init.opened
        BY <2>2, InitOutcome
      <4>2. fds \in 0 .. MaxOpen /\ fds + init.opened <= MaxOpen /\ fds' = fds + LeftOpen(init)
        BY <2>2 DEF TempTypeOK
      <4> QED BY <4>1, <4>2, TempSensingAssumption
    <3>3. tempCycle' \in TempCycles
      <4>1. v \in TempResults
        BY <2>1, ValueRange
      <4>2. tempCycle' = [temp |-> v, clean |-> init.fd # FAIL /\ clean, ran |-> TRUE]
        BY <2>2
      <4> QED BY <4>1, <4>2 DEF TempCycles
    <3>4. temp_failure' \in BOOLEAN
      BY <2>2 DEF TempTypeOK
    <3> QED BY <2>1, <3>1, <3>2, <3>3, <3>4 DEF TempTypeOK
  <2>5. ReadingsAreHonest'
    <3>1. Near(Reading(tmp), tmp'.temp)
      BY <2>1, ReadingFacts DEF Reached
    <3>2. CASE v = Reading(tmp)
      <4>1. tmp'.temp \in 0 .. 4095
        BY <2>1, ReachedFacts DEF Tmp102Chip
      <4>2. Near(v, tmp'.temp)
        BY <3>1, <3>2
      <4>3. PICK reg \in 0 .. 4095 : reg = tmp'.temp
        BY <4>1
      <4>4. \/ Near(v, Signed(reg))
            \/ Signed(reg) < 0 /\ Near(v, Signed(reg) + 4096)
        <5>1. Near(v, reg)
          BY <4>2, <4>3
        <5>2. v \in Int
          BY <2>1, ValueRange DEF TempResults
        <5> QED BY <5>1, <5>2 DEF Near, Signed
      <4> QED BY <2>3, <4>3, <4>4 DEF ReadingsAreHonest, Near, Signed
    <3>3. CASE v # Reading(tmp)
      <4>1. tempCycle'.clean = FALSE /\ v \in Garbage \cup {FAIL, Misread}
        BY <2>2, <2>3, <3>3 DEF Values
      <4> QED BY <2>3, <4>1 DEF ReadingsAreHonest
    <3> QED BY <3>2, <3>3
  <2>6. RemovalIsNoticed'
    <3>1. ~tmp'.plugged => ~Answers(init.fd, tmp)
      BY <2>1 DEF Reached, Answers
    <3>2. ~tmp'.plugged => temp_failure'
      BY <2>2, <3>1 DEF TempFailure
    <3> QED BY <3>2 DEF RemovalIsNoticed
  <2>7. LeaksAreReported'
    <3>1. CASE init.fd = FAIL
      BY <2>2, <3>1 DEF TempFailure, LeaksAreReported
    <3>2. CASE init.fd # FAIL
      <4>1. fds' = fds
        BY <2>2, <3>2 DEF LeftOpen, TempTypeOK
      <4> QED BY <2>2, <4>1 DEF LeaksAreReported
    <3> QED BY <3>1, <3>2
  <2> QED BY <2>4, <2>5, <2>6, <2>7
<1>2. CASE TempConverts
  <2>1. tmp' \in Tmp102Chip
    BY <1>2, TempSensingAssumption DEF TempConverts, TempTypeOK, Tmp102Chip
  <2>2. NoTempCycle \in TempCycles
    BY Ranges DEF NoTempCycle, TempCycles
  <2> QED BY <1>2, <2>1, <2>2 DEF TempConverts, NoTempCycle, TempTypeOK,
             ReadingsAreHonest, RemovalIsNoticed, LeaksAreReported
<1>3. CASE TempUnplugs
  <2>1. tmp' \in Tmp102Chip
    <3>1. PoweredTmp102 \in Tmp102Chip
      BY DEF PoweredTmp102, Tmp102Chip
    <3>2. tmp \in Tmp102Chip
      BY DEF TempTypeOK
    <3>3. ASSUME NEW b \in BOOLEAN
          PROVE  [tmp EXCEPT !.plugged = b] \in Tmp102Chip
      BY <3>2 DEF Tmp102Chip
    <3> QED BY <1>3, <3>1, <3>2, <3>3 DEF TempUnplugs
  <2>2. NoTempCycle \in TempCycles
    BY Ranges DEF NoTempCycle, TempCycles
  <2> QED BY <1>3, <2>1, <2>2 DEF TempUnplugs, NoTempCycle, TempTypeOK,
             ReadingsAreHonest, RemovalIsNoticed, LeaksAreReported
<1>4. CASE TempStarts
  <2>1. NoTempCycle \in TempCycles
    BY Ranges DEF NoTempCycle, TempCycles
  <2>2. 0 \in 0 .. MaxOpen
    BY TempSensingAssumption
  <2>3. /\ CHECK_LIBRARY' \in BOOLEAN /\ temp_failure' = FALSE /\ fds' = 0
        /\ tempCycle' = NoTempCycle /\ tmp' = tmp
    BY <1>4 DEF TempStarts
  <2>4. TempTypeOK'
    BY <2>1, <2>2, <2>3 DEF TempTypeOK
  <2> QED BY <1>4, <2>4 DEF TempStarts, NoTempCycle, ReadingsAreHonest, RemovalIsNoticed, LeaksAreReported
<1>5. CASE UNCHANGED tempVars
  BY <1>5 DEF tempVars, TempTypeOK, ReadingsAreHonest, RemovalIsNoticed, LeaksAreReported
<1> QED BY <1>1, <1>2, <1>3, <1>4, <1>5 DEF TempNext

LEMMA TempInvariant == TempSpec => []TempInv
<1> QED BY TempInvInit, TempInvStep, PTL DEF TempSpec

(* The temperature task and its chip stay within their types.              *)
THEOREM TempTypeCorrect == TempSpec => []TempTypeOK
<1>1. TempInv => TempTypeOK
  BY DEF TempInv
<1> QED BY <1>1, TempInvariant, PTL

(* What a cycle reads is the temperature, less than a degree off but for   *)
(* the sign of a frost (tmp102.c:123-126), or, when a transfer failed      *)
(* unseen, garbage or the configuration (tmp102.c:209).                    *)
THEOREM ReadingIsHonest == TempSpec => []ReadingsAreHonest
<1>1. TempInv => ReadingsAreHonest
  BY DEF TempInv
<1> QED BY <1>1, TempInvariant, PTL

(* A cycle that finds the temperature sensor gone raises its failure.      *)
THEOREM RemovedSensorIsNoticed == TempSpec => []RemovalIsNoticed
<1>1. TempInv => RemovalIsNoticed
  BY DEF TempInv
<1> QED BY <1>1, TempInvariant, PTL

(* A descriptor is left open only with a failure raised (tmp102.c:36-39).  *)
THEOREM LeakIsReported == TempSpec => []LeaksAreReported
<1>1. TempInv => LeaksAreReported
  BY DEF TempInv
<1> QED BY <1>1, TempInvariant, PTL

LEMMA AlarmStep ==
  TempInv /\ [TempNext]_tempVars => (temp_failure' /\ ~temp_failure => ~tempCycle'.clean)
<1> SUFFICES ASSUME TempInv, [TempNext]_tempVars, temp_failure' /\ ~temp_failure
             PROVE  ~tempCycle'.clean
  OBVIOUS
<1>1. TempCycle
  BY DEF TempNext, TempConverts, TempUnplugs, TempStarts, tempVars
<1>2. tmp \in Tmp102Chip /\ TempTypeOK
  BY DEF TempInv, TempTypeOK
<1>3. PICK init \in tmp102_init(FileFd), degree \in {CELSIUS, FAHRENHEIT, KELVIN},
             v \in Values, clean \in BOOLEAN :
        /\ temp_failure' = (temp_failure \/ TempFailure(init, v, callibrate_temp(v, degree)))
        /\ tempCycle' = [temp |-> v, clean |-> init.fd # FAIL /\ clean, ran |-> TRUE]
        /\ clean => v = Reading(tmp)
  BY <1>1, <1>2, CycleOutcome
<1>4. tempCycle'.clean = (init.fd # FAIL /\ clean)
  BY <1>3
<1>5. TempFailure(init, v, callibrate_temp(v, degree))
  BY <1>3
<1>6. SUFFICES ASSUME init.fd # FAIL, clean
               PROVE  FALSE
  BY <1>4
<1>7. v # FAIL /\ callibrate_temp(v, degree) # FAIL * TempScale
  BY <1>2, <1>3, <1>6, NotMistaken
<1> QED BY <1>5, <1>6, <1>7 DEF TempFailure

(* A cycle whose transfers all went well never raises the failure, for all *)
(* temperatures and units (message.c:450, 477 compare floats with -1).     *)
THEOREM NoAlarmIsFalse == TempSpec => NoFalseAlarm
<1> QED BY TempInvariant, AlarmStep, PTL DEF TempSpec, NoFalseAlarm
-----------------------------------------------------------------------------
(* The light sensor.  Whatever fails, a function of its driver leaves the  *)
(* chip on the bus, or off it, its channels alone, and no register with a  *)
(* value it is not meant for.                                              *)
Meant(chip) == \A r \in Writable : chip.set[r] \in MeantFor[r]

Kin(chip) == {c \in Apds9301Chip : /\ c.plugged = chip.plugged
                                   /\ c.count = chip.count
                                   /\ Meant(chip) => Meant(c)}

(* Those that have the same values in their registers. *)
Twins(chip) == {c \in Apds9301Chip : /\ c.plugged = chip.plugged
                                     /\ c.count = chip.count
                                     /\ c.set = chip.set}

Settings == 0 .. 127

Selects == Writable \cup {id_reg} \cup DataRegs

LEMMA KinFacts ==
  ASSUME NEW chip \in Apds9301Chip
  PROVE  /\ chip \in Twins(chip)
         /\ Twins(chip) \subseteq Kin(chip)
         /\ \A c \in Kin(chip) : c \in Apds9301Chip /\ Kin(c) \subseteq Kin(chip)
         /\ \A c \in Twins(chip) : Twins(c) \subseteq Twins(chip)
         /\ \A fd : \A c \in Kin(chip) : Answers(fd, c) <=> Answers(fd, chip)
<1>1. chip \in Twins(chip)
  BY DEF Twins
<1>2. Twins(chip) \subseteq Kin(chip)
  BY DEF Twins, Kin, Meant
<1>3. \A c \in Kin(chip) : c \in Apds9301Chip /\ Kin(c) \subseteq Kin(chip)
  BY DEF Kin
<1>4. \A c \in Twins(chip) : Twins(c) \subseteq Twins(chip)
  BY DEF Twins
<1>5. \A fd : \A c \in Kin(chip) : Answers(fd, c) <=> Answers(fd, chip)
  BY DEF Kin, Answers
<1> QED BY <1>1, <1>2, <1>3, <1>4, <1>5

LEMMA Selected ==
  ASSUME NEW chip \in Apds9301Chip, NEW reg \in Selects
  PROVE  /\ [chip EXCEPT !.select = reg] \in Twins(chip)
         /\ [chip EXCEPT !.select = reg].select = reg
<1>1. [chip EXCEPT !.select = reg] \in Apds9301Chip
  BY DEF Apds9301Chip, Selects
<1> QED BY <1>1 DEF Twins, Apds9301Chip

LEMMA SelectsAreRegisters == \A reg \in Selects : reg \in 0 .. 15
  BY DEF Selects, Writable, DataRegs, id_reg, control_reg, int_control_reg, data0low_reg

LEMMA SelectByte ==
  ASSUME NEW fd, NEW chip \in Apds9301Chip, NEW reg \in Selects,
         NEW w \in PutByte(fd, chip, command_value + reg)
  PROVE  \E c \in Twins(chip) :
           \/ w = Failed(c, FAIL)
           \/ Answers(fd, chip) /\ w = Clean(c, SUCCESS) /\ c.select = reg
<1>1. reg \in 0 .. 15
  BY SelectsAreRegisters
<1>2. command_value + reg >= command_value /\ (command_value + reg) - command_value = reg
  BY <1>1 DEF command_value
<1>3. Put(chip, command_value + reg) = [chip EXCEPT !.select = reg]
  BY <1>2 DEF Put
<1> DEFINE d == [chip EXCEPT !.select = reg]
<1>4. w = Failed(chip, FAIL) \/ (Answers(fd, chip) /\ (w = Clean(d, SUCCESS) \/ w = Failed(d, FAIL)))
  BY <1>3, WriteOutcome DEF PutByte
<1>5. d \in Twins(chip) /\ d.select = reg
  BY Selected
<1>6. chip \in Twins(chip)
  BY KinFacts
<1> QED BY <1>4, <1>5, <1>6

LEMMA Stored ==
  ASSUME NEW chip \in Apds9301Chip, NEW reg \in Writable, NEW val \in MeantFor[reg], val \in Settings
  PROVE  /\ [chip EXCEPT !.set[reg] = val] \in Kin(chip)
         /\ [chip EXCEPT !.set[reg] = val].set = [chip.set EXCEPT ![reg] = val]
<1> DEFINE c == [chip EXCEPT !.set = [chip.set EXCEPT ![reg] = val]]
<1>1. c = [chip EXCEPT !.set[reg] = val]
  OBVIOUS
<1>2. chip.set \in [Writable -> 0 .. 127]
  BY DEF Apds9301Chip
<1>3. [chip.set EXCEPT ![reg] = val] \in [Writable -> 0 .. 127]
  BY <1>2 DEF Settings
<1>4. ASSUME NEW set \in [Writable -> 0 .. 127]
      PROVE  /\ [chip EXCEPT !.set = set] \in Apds9301Chip
             /\ [chip EXCEPT !.set = set].set = set
             /\ [chip EXCEPT !.set = set].plugged = chip.plugged
             /\ [chip EXCEPT !.set = set].count = chip.count
  BY DEF Apds9301Chip
<1>5. c \in Apds9301Chip /\ c.set = [chip.set EXCEPT ![reg] = val] /\ c.plugged = chip.plugged /\ c.count = chip.count
  BY <1>3, <1>4
<1> HIDE DEF c
<1>6. Meant(chip) => Meant(c)
  BY <1>2, <1>5 DEF Meant
<1> QED BY <1>1, <1>5, <1>6 DEF Kin

(* Select, then write: the value arrives in its register, or nowhere.      *)
LEMMA WriteRegisterOutcome ==
  ASSUME NEW fd, NEW chip \in Apds9301Chip, NEW reg \in Writable, NEW val \in MeantFor[reg], val \in Settings,
         NEW w \in WriteRegister(fd, chip, reg, val)
  PROVE  \E c \in Kin(chip) :
           \/ w = Failed(c, FAIL)
           \/ /\ Answers(fd, chip) /\ w = Clean(c, SUCCESS)
              /\ c.set = [chip.set EXCEPT ![reg] = val]
<1>1. PICK p \in PutByte(fd, chip, command_value + reg) :
        w \in IF p.res = FAIL THEN {p} ELSE After(p, PutByte(fd, p.chip, val))
  BY DEF WriteRegister, Checked
<1>2. PICK c \in Twins(chip) :
        \/ p = Failed(c, FAIL)
        \/ Answers(fd, chip) /\ p = Clean(c, SUCCESS) /\ c.select = reg
  <2>1. reg \in Selects
    BY DEF Selects
  <2> QED BY <1>1, <2>1, SelectByte
<1>3. c \in Kin(chip)
  BY KinFacts
<1>4. CASE p = Failed(c, FAIL)
  <2>1. p.res = FAIL
    BY <1>4 DEF Failed
  <2> QED BY <1>1, <1>3, <1>4, <2>1
<1>5. CASE Answers(fd, chip) /\ p = Clean(c, SUCCESS) /\ c.select = reg
  <2>1. p.res = SUCCESS /\ p.chip = c
    BY <1>5 DEF Clean
  <2>2. w \in After(p, PutByte(fd, c, val))
    BY <1>1, <2>1, Int16
  <2> DEFINE d == [c EXCEPT !.set[reg] = val]
  <2>3. Put(c, val) = d
    BY <1>5 DEF Put, command_value, Settings
  <2>4. c \in Apds9301Chip /\ Kin(c) \subseteq Kin(chip) /\ (Answers(fd, c) <=> Answers(fd, chip))
    BY <1>3, KinFacts
  <2>5. d \in Kin(chip) /\ d.set = [chip.set EXCEPT ![reg] = val]
    BY <2>4, Stored DEF Twins
  <2> HIDE DEF d
  <2>6. \A s \in PutByte(fd, c, val) :
           s = Failed(c, FAIL) \/ (Answers(fd, c) /\ (s = Clean(d, SUCCESS) \/ s = Failed(d, FAIL)))
    BY <2>3, WriteOutcome DEF PutByte
  <2>7. PutByte(fd, c, val) \in SUBSET Outcomes(Kin(chip), {SUCCESS, FAIL})
    BY <1>3, <2>5, <2>6 DEF Outcomes
  <2>8. p \in Outcomes(Kin(chip), {SUCCESS, FAIL})
    BY <1>3, <1>5 DEF Outcomes
  <2>9. PICK e \in Kin(chip), y \in {SUCCESS, FAIL} :
           \/ w = Clean(e, y) /\ w \in PutByte(fd, c, val) /\ p = Clean(p.chip, p.res)
           \/ w = Failed(e, y) /\ w \in PutByte(fd, c, val)
           \/ w = Failed(e, y) /\ p = Failed(p.chip, p.res)
    BY <2>2, <2>7, <2>8, AfterOutcome
  <2>10. w = Failed(c, FAIL) \/ (Answers(fd, c) /\ (w = Clean(d, SUCCESS) \/ w = Failed(d, FAIL)))
    BY <1>5, <2>6, <2>9, Distinct
  <2> QED BY <1>3, <2>4, <2>5, <2>10
<1> QED BY <1>2, <1>4, <1>5

Statuses == {SUCCESS, FAIL}

LEMMA Fields ==
  ASSUME NEW C, NEW R, NEW w \in Outcomes(C, R)
  PROVE  w.chip \in C /\ w.res \in R
<1>1. PICK c \in C, x \in R : w = Clean(c, x) \/ w = Failed(c, x)
  BY DEF Outcomes
<1>2. w.chip = c /\ w.res = x
  BY <1>1 DEF Clean, Failed
<1> QED BY <1>2

(* A call after another, and one made only if that did not fail. *)
LEMMA KinStep ==
  ASSUME NEW chip \in Apds9301Chip, NEW Q, NEW R, NEW w \in Outcomes(Kin(chip), Q),
         NEW T \in SUBSET Outcomes(Kin(w.chip), R), NEW r \in After(w, T)
  PROVE  /\ r \in Outcomes(Kin(chip), R)
         /\ \E s \in T : r.chip = s.chip /\ r.res = s.res
<1>1. PICK d \in Kin(w.chip), y \in R : /\ r = Clean(d, y) \/ r = Failed(d, y)
                                        /\ Clean(d, y) \in T \/ Failed(d, y) \in T
  BY AfterOutcome
<1>2. Kin(w.chip) \subseteq Kin(chip)
  BY Fields, KinFacts
<1>3. r \in Outcomes(Kin(chip), R)
  BY <1>1, <1>2 DEF Outcomes
<1>4. PICK s \in T : s = Clean(d, y) \/ s = Failed(d, y)
  BY <1>1
<1>5. /\ Clean(d, y).chip = d /\ Clean(d, y).res = y
      /\ Failed(d, y).chip = d /\ Failed(d, y).res = y
  BY DEF Clean, Failed
<1> QED BY <1>1, <1>3, <1>4, <1>5

LEMMA KinChecked ==
  ASSUME NEW chip \in Apds9301Chip, NEW w \in Outcomes(Kin(chip), Statuses),
         NEW T \in SUBSET Outcomes(Kin(w.chip), Statuses),
         NEW r \in IF w.res = FAIL THEN {w} ELSE After(w, T)
  PROVE  /\ r \in Outcomes(Kin(chip), Statuses)
         /\ r.res # FAIL => w.res # FAIL /\ \E s \in T : r.chip = s.chip /\ r.res = s.res
<1>1. CASE w.res = FAIL
  BY <1>1
<1>2. CASE w.res # FAIL
  BY <1>2, KinStep
<1> QED BY <1>1, <1>2

LEMMA WriteStatus ==
  ASSUME NEW fd, NEW chip \in Apds9301Chip, NEW reg \in Writable, NEW val \in MeantFor[reg], val \in Settings
  PROVE  /\ WriteRegister(fd, chip, reg, val) \in SUBSET Outcomes(Kin(chip), Statuses)
         /\ \A w \in WriteRegister(fd, chip, reg, val) :
              w.res # FAIL => w.chip.set = [chip.set EXCEPT ![reg] = val]
<1> SUFFICES ASSUME NEW w \in WriteRegister(fd, chip, reg, val)
             PROVE  /\ w \in Outcomes(Kin(chip), Statuses)
                    /\ w.res # FAIL => w.chip.set = [chip.set EXCEPT ![reg] = val]
  OBVIOUS
<1>1. PICK c \in Kin(chip) :
        \/ w = Failed(c, FAIL)
        \/ /\ Answers(fd, chip) /\ w = Clean(c, SUCCESS)
           /\ c.set = [chip.set EXCEPT ![reg] = val]
  BY WriteRegisterOutcome
<1>2. w \in Outcomes(Kin(chip), Statuses)
  BY <1>1 DEF Outcomes, Statuses
<1>3. Failed(c, FAIL).res = FAIL /\ Clean(c, SUCCESS).chip = c
  BY DEF Failed, Clean
<1> QED BY <1>1, <1>2, <1>3

LEMMA PeekOutcome ==
  ASSUME NEW fd, NEW chip \in Apds9301Chip, NEW regs \in SUBSET Selects, NEW w \in Peek(fd, chip, regs)
  PROVE  w \in Outcomes(Twins(chip), {SUCCESS})
<1>1. PICK c \in Twins(chip) : w = Clean(c, SUCCESS) \/ w = Failed(c, SUCCESS)
  <2>1. CASE w \in {Clean(chip, SUCCESS), Failed(chip, SUCCESS)}
    BY <2>1, KinFacts
  <2>2. ASSUME NEW r \in regs, NEW b \in BOOLEAN,
               w = [chip |-> [chip EXCEPT !.select = r], res |-> SUCCESS, clean |-> b]
        PROVE  \E c \in Twins(chip) : w = Clean(c, SUCCESS) \/ w = Failed(c, SUCCESS)
    BY <2>2, Selected DEF Clean, Failed
  <2> QED BY <2>1, <2>2 DEF Peek
<1> QED BY <1>1 DEF Outcomes

LEMMA ThresholdOutcome ==
  ASSUME NEW fd, NEW chip \in Apds9301Chip, NEW w \in read_interrupt_threshholdreg(fd, chip)
  PROVE  w \in Outcomes(Twins(chip), Statuses)
<1>1. int_control_reg - 1 \in Selects /\ Thresholds \subseteq Selects
  BY DEF Selects, Thresholds, Writable, int_control_reg, timing_reg, control_reg
<1>2. PICK c \in Twins(chip) : w = Clean(c, SUCCESS) \/ w = Failed(c, FAIL)
  BY <1>1, Selected, KinFacts DEF read_interrupt_threshholdreg
<1> QED BY <1>2 DEF Outcomes, Statuses

LEMMA TwinsStatus ==
  ASSUME NEW chip \in Apds9301Chip, NEW R \in SUBSET Statuses, NEW T \in SUBSET Outcomes(Twins(chip), R)
  PROVE  /\ T \in SUBSET Outcomes(Kin(chip), Statuses)
         /\ \A w \in T : w.chip.set = chip.set
<1>1. \A w \in T : w.chip \in Twins(chip)
  BY Fields
<1> QED BY <1>1, KinFacts DEF Outcomes, Twins

LEMMA Registers ==
  /\ control_reg \in Writable /\ timing_reg \in Writable /\ int_control_reg \in Writable
  /\ control_reg # timing_reg /\ timing_reg # int_control_reg /\ control_reg # int_control_reg
  /\ power_up \in MeantFor[control_reg] /\ timing \in MeantFor[timing_reg]
  /\ RW_INT \in MeantFor[int_control_reg] /\ INT_ENABLE \in MeantFor[int_control_reg]
  /\ power_up \in Settings /\ timing \in Settings /\ RW_INT \in Settings /\ INT_ENABLE \in Settings
<1> USE DEF control_reg, timing_reg, int_control_reg
<1>1. control_reg \in Writable /\ timing_reg \in Writable /\ int_control_reg \in Writable
  BY DEF Writable
<1>2. control_reg # timing_reg /\ timing_reg # int_control_reg /\ control_reg # int_control_reg
  OBVIOUS
<1>3. /\ power_up \in MeantFor[control_reg] /\ timing \in MeantFor[timing_reg]
      /\ RW_INT \in MeantFor[int_control_reg] /\ INT_ENABLE \in MeantFor[int_control_reg]
  BY <1>1 DEF MeantFor
<1>4. power_up \in Settings /\ timing \in Settings /\ RW_INT \in Settings /\ INT_ENABLE \in Settings
  BY DEF power_up, timing, RW_INT, INT_ENABLE, Settings
<1> QED BY <1>1, <1>2, <1>3, <1>4

(* S: outcomes that have, if they are no failure, settings of P. *)
Stage(S, chip, P) ==
  /\ S \in SUBSET Outcomes(Kin(chip), Statuses)
  /\ \A w \in S : w.res # FAIL => w.chip.set \in P

LEMMA QuietStage ==
  ASSUME NEW chip \in Apds9301Chip, NEW P, NEW S, Stage(S, chip, P), NEW S2,
         \A r \in S2 : \E w \in S : \E T \in SUBSET Outcomes(Twins(w.chip), Statuses) :
           r \in IF w.res = FAIL THEN {w} ELSE After(w, T)
  PROVE  Stage(S2, chip, P)
<1> SUFFICES ASSUME NEW r \in S2
             PROVE  r \in Outcomes(Kin(chip), Statuses) /\ (r.res # FAIL => r.chip.set \in P)
  BY DEF Stage
<1>0. PICK w \in S : \E T \in SUBSET Outcomes(Twins(w.chip), Statuses) :
        r \in IF w.res = FAIL THEN {w} ELSE After(w, T)
  OBVIOUS
<1>1. PICK T \in SUBSET Outcomes(Twins(w.chip), Statuses) :
        r \in IF w.res = FAIL THEN {w} ELSE After(w, T)
  BY <1>0
<1>2. w \in Outcomes(Kin(chip), Statuses) /\ (w.res # FAIL => w.chip.set \in P)
  BY DEF Stage
<1>3. w.chip \in Apds9301Chip
  BY <1>2, Fields, KinFacts
<1>4. T \in SUBSET Outcomes(Kin(w.chip), Statuses) /\ \A s \in T : s.chip.set = w.chip.set
  BY <1>3, TwinsStatus
<1>5. /\ r \in Outcomes(Kin(chip), Statuses)
      /\ r.res # FAIL => w.res # FAIL /\ \E s \in T : r.chip = s.chip /\ r.res = s.res
  BY <1>1, <1>2, <1>4, KinChecked
<1> QED BY <1>2, <1>4, <1>5

LEMMA WriteStage ==
  ASSUME NEW chip \in Apds9301Chip, NEW P, NEW Q, NEW S, Stage(S, chip, P), NEW S2, NEW fd,
         NEW reg \in Writable, NEW val \in MeantFor[reg], val \in Settings,
         \A f \in P : [f EXCEPT ![reg] = val] \in Q,
         \A r \in S2 : \E w \in S :
           r \in IF w.res = FAIL THEN {w} ELSE After(w, WriteRegister(fd, w.chip, reg, val))
  PROVE  Stage(S2, chip, Q)
<1> SUFFICES ASSUME NEW r \in S2
             PROVE  r \in Outcomes(Kin(chip), Statuses) /\ (r.res # FAIL => r.chip.set \in Q)
  BY DEF Stage
<1>1. PICK w \in S : r \in IF w.res = FAIL THEN {w} ELSE After(w, WriteRegister(fd, w.chip, reg, val))
  OBVIOUS
<1>2. w \in Outcomes(Kin(chip), Statuses) /\ (w.res # FAIL => w.chip.set \in P)
  BY DEF Stage
<1>3. w.chip \in Apds9301Chip
  BY <1>2, Fields, KinFacts
<1> DEFINE T == WriteRegister(fd, w.chip, reg, val)
<1>4. /\ T \in SUBSET Outcomes(Kin(w.chip), Statuses)
      /\ \A s \in T : s.res # FAIL => s.chip.set = [w.chip.set EXCEPT ![reg] = val]
  BY <1>3, WriteStatus
<1> HIDE DEF T
<1>5. /\ r \in Outcomes(Kin(chip), Statuses)
      /\ r.res # FAIL => w.res # FAIL /\ \E s \in T : r.chip = s.chip /\ r.res = s.res
  <2>1. r \in IF w.res = FAIL THEN {w} ELSE After(w, T)
    BY <1>1 DEF T
  <2> QED BY <1>2, <1>4, <2>1, KinChecked
<1> QED BY <1>2, <1>4, <1>5

(* Seven calls, each made only if the one before did not fail: a success   *)
(* has written all three registers.                                        *)
LEMMA AllRegsWritten ==
  ASSUME NEW fd, NEW chip \in Apds9301Chip
  PROVE  Stage(rw_allregs_apds(fd, chip), chip,
               {f \in [Writable -> Settings] :
                  f[control_reg] = power_up /\ f[timing_reg] = timing /\ f[int_control_reg] = RW_INT})
<1> DEFINE control == write_controlreg(fd, chip, power_up)
           read1   == Checked(control, LAMBDA c : Peek(fd, c, {control_reg}))
           timings == Checked(read1, LAMBDA c : write_timingreg(fd, c, timing))
           read2   == Checked(timings, LAMBDA c : Peek(fd, c, {timing_reg}))
           arr     == Checked(read2, LAMBDA c : read_interrupt_threshholdreg(fd, c))
           int     == Checked(arr, LAMBDA c : write_interrupt_controlreg(fd, c, RW_INT))
           all     == Checked(int, LAMBDA c : Peek(fd, c, {id_reg} \cup DataRegs))
           Up      == {f \in [Writable -> Settings] : f[control_reg] = power_up}
           Timed   == {f \in Up : f[timing_reg] = timing}
           Armed   == {f \in Timed : f[int_control_reg] = RW_INT}
<1>1. ASSUME NEW c \in Apds9301Chip, NEW regs \in {{control_reg}, {timing_reg}, {id_reg} \cup DataRegs}
      PROVE  Peek(fd, c, regs) \in SUBSET Outcomes(Twins(c), Statuses)
  <2>1. regs \in SUBSET Selects
    BY Registers DEF Selects
  <2> QED BY <2>1, PeekOutcome DEF Outcomes, Statuses
<1>2. ASSUME NEW S, NEW P, Stage(S, chip, P), NEW w \in S
      PROVE  w.chip \in Apds9301Chip
  BY <1>2, Fields, KinFacts DEF Stage
<1>3. Stage(control, chip, Up)
  <2>1. chip.set \in [Writable -> Settings]
    BY DEF Apds9301Chip, Settings
  <2>2. [chip.set EXCEPT ![control_reg] = power_up] \in Up
    BY <2>1, Registers
  <2> QED BY <2>2, Registers, WriteStatus DEF Stage, write_controlreg
<1>4. Stage(read1, chip, Up)
  <2>1. \A r \in read1 : \E w \in control :
          r \in IF w.res = FAIL THEN {w} ELSE After(w, Peek(fd, w.chip, {control_reg}))
    BY DEF Checked
  <2> HIDE DEF control, read1, Up
  <2> QED BY <1>1, <1>2, <1>3, <2>1, QuietStage
<1>5. Stage(timings, chip, Timed)
  <2>1. \A r \in timings : \E w \in read1 :
          r \in IF w.res = FAIL THEN {w} ELSE After(w, WriteRegister(fd, w.chip, timing_reg, timing))
    BY DEF Checked, write_timingreg
  <2>2. \A f \in Up : [f EXCEPT ![timing_reg] = timing] \in Timed
    BY Registers
  <2> HIDE DEF read1, timings, Up, Timed
  <2> QED BY <1>4, <2>1, <2>2, Registers, WriteStage
<1>6. Stage(read2, chip, Timed)
  <2>1. \A r \in read2 : \E w \in timings :
          r \in IF w.res = FAIL THEN {w} ELSE After(w, Peek(fd, w.chip, {timing_reg}))
    BY DEF Checked
  <2> HIDE DEF timings, read2, Timed
  <2> QED BY <1>1, <1>2, <1>5, <2>1, QuietStage
<1>7. Stage(arr, chip, Timed)
  <2>1. \A r \in arr : \E w \in read2 :
          r \in IF w.res = FAIL THEN {w} ELSE After(w, read_interrupt_threshholdreg(fd, w.chip))
    BY DEF Checked
  <2>2. \A c \in Apds9301Chip : read_interrupt_threshholdreg(fd, c) \in SUBSET Outcomes(Twins(c), Statuses)
    BY ThresholdOutcome
  <2> HIDE DEF read2, arr, Timed
  <2> QED BY <1>2, <1>6, <2>1, <2>2, QuietStage
<1>8. Stage(int, chip, Armed)
  <2>1. \A r \in int : \E w \in arr :
          r \in IF w.res = FAIL THEN {w} ELSE After(w, WriteRegister(fd, w.chip, int_control_reg, RW_INT))
    BY DEF Checked, write_interrupt_controlreg
  <2>2. \A f \in Timed : [f EXCEPT ![int_control_reg] = RW_INT] \in Armed
    BY Registers
  <2> HIDE DEF arr, int, Timed, Armed
  <2> QED BY <1>7, <2>1, <2>2, Registers, WriteStage
<1>9. Stage(all, chip, Armed)
  <2>1. \A r \in all : \E w \in int :
          r \in IF w.res = FAIL THEN {w} ELSE After(w, Peek(fd, w.chip, {id_reg} \cup DataRegs))
    BY DEF Checked
  <2> HIDE DEF int, all, Armed
  <2> QED BY <1>1, <1>2, <1>8, <2>1, QuietStage
<1>10. all = rw_allregs_apds(fd, chip)
  BY DEF rw_allregs_apds
<1> HIDE DEF all
<1> QED BY <1>9, <1>10 DEF Stage

(* Reading a register.  Words are what two bytes hold. *)
Octets == 0 .. 255

Words == 0 .. UINT16_MAX

LEMMA Halves ==
  ASSUME NEW n \in Words
  PROVE  /\ n % 256 \in Octets /\ n \div 256 \in Octets
         /\ n \div 256 = 0 => n < 256
<1>1. n \in Nat /\ n <= 65535
  BY SMT DEF Words, UINT16_MAX
<1>2. n % 256 \in 0 .. 255 /\ n \div 256 \in 0 .. 255
  BY <1>1, SMT
<1>3. n \div 256 = 0 => n < 256
  BY <1>1, SMT
<1> QED BY <1>2, <1>3 DEF Octets

LEMMA Joint ==
  /\ \A h, l \in Octets : 256 * h + l \in Words /\ (256 * h + l = 0 => h = 0 /\ l = 0)
  /\ FAIL16 \in Words /\ FAIL16 # 0
<1>1. ASSUME NEW h \in Octets, NEW l \in Octets
      PROVE  256 * h + l \in Words /\ (256 * h + l = 0 => h = 0 /\ l = 0)
  <2>1. h \in Nat /\ h <= 255 /\ l \in Nat /\ l <= 255
    BY DEF Octets
  <2>2. 256 * h + l \in Nat /\ 256 * h + l <= 65535 /\ (256 * h + l = 0 => h = 0 /\ l = 0)
    BY <2>1, SMT
  <2>3. UINT16_MAX \in Nat /\ 256 * h + l <= UINT16_MAX
    BY <2>2, SMT DEF UINT16_MAX
  <2>4. 256 * h + l \in 0 .. UINT16_MAX
    BY <2>2, <2>3, SMT
  <2> QED BY <2>2, <2>4 DEF Words
<1>2. FAIL16 \in Words /\ FAIL16 # 0
  BY SMT DEF Words, FAIL16, UINT16_MAX
<1> QED BY <1>1, <1>2

LEMMA ContentsRange ==
  ASSUME NEW chip \in Apds9301Chip
  PROVE  /\ Contents(chip) \in Octets
         /\ chip.select = data0high_reg => Contents(chip) = chip.count[1] \div 256
         /\ chip.select = data1low_reg  => Contents(chip) = chip.count[2] % 256
<1>1. chip.count[1] \in Words /\ chip.count[2] \in Words
  BY DEF Apds9301Chip, Words
<1>2. 0 \in Octets
  BY DEF Octets
<1>3. /\ chip.select = data0high_reg => Contents(chip) = chip.count[1] \div 256
      /\ chip.select = data1low_reg  => Contents(chip) = chip.count[2] % 256
  BY DEF Contents, data0low_reg, data0high_reg, data1low_reg
<1>4. \/ Contents(chip) = chip.count[1] % 256
      \/ Contents(chip) = chip.count[1] \div 256
      \/ Contents(chip) = chip.count[2] % 256
      \/ Contents(chip) = 0
  BY DEF Contents
<1> QED BY <1>1, <1>2, <1>3, <1>4, Halves

LEMMA ReadRegisterOutcome ==
  ASSUME NEW fd, NEW chip \in Apds9301Chip, NEW reg \in Selects,
         NEW w \in ReadRegister(fd, chip, reg)
  PROVE  \E c \in Twins(chip) :
           \/ w = Failed(c, FAIL)
           \/ Answers(fd, chip) /\ c.select = reg /\ w = Clean(c, Contents(c))
<1>1. PICK p \in PutByte(fd, chip, command_value + reg) :
        w \in IF p.res = FAIL THEN {p} ELSE After(p, Read(fd, p.chip, Contents(p.chip)))
  BY DEF ReadRegister, Checked
<1>2. PICK c \in Twins(chip) :
        \/ p = Failed(c, FAIL)
        \/ Answers(fd, chip) /\ p = Clean(c, SUCCESS) /\ c.select = reg
  BY <1>1, SelectByte
<1>3. CASE p = Failed(c, FAIL)
  <2>1. p.res = FAIL
    BY <1>3 DEF Failed
  <2> QED BY <1>1, <1>3, <2>1
<1>4. CASE Answers(fd, chip) /\ p = Clean(c, SUCCESS) /\ c.select = reg
  <2>1. p.res = SUCCESS /\ p.chip = c
    BY <1>4 DEF Clean
  <2>2. w \in After(p, Read(fd, c, Contents(c)))
    BY <1>1, <2>1, Int16
  <2> DEFINE v == Contents(c)
  <2>3. \A s \in Read(fd, c, v) : s = Failed(c, FAIL) \/ s = Clean(c, v)
    BY ReadOutcome
  <2> HIDE DEF v
  <2>4. Read(fd, c, v) \in SUBSET Outcomes({c}, {FAIL, v})
    BY <2>3 DEF Outcomes
  <2>5. p \in Outcomes({c}, {SUCCESS})
    BY <1>4 DEF Outcomes
  <2>6. PICK e \in {c}, y \in {FAIL, v} :
           \/ w = Clean(e, y) /\ w \in Read(fd, c, v) /\ p = Clean(p.chip, p.res)
           \/ w = Failed(e, y) /\ w \in Read(fd, c, v)
           \/ w = Failed(e, y) /\ p = Failed(p.chip, p.res)
    BY <2>2, <2>4, <2>5, AfterOutcome DEF v
  <2>7. w = Failed(c, FAIL) \/ w = Clean(c, v)
    BY <1>4, <2>3, <2>6, Distinct
  <2> QED BY <1>4, <2>7 DEF v
<1> QED BY <1>2, <1>3, <1>4

LEMMA Renamed ==
  ASSUME NEW c, NEW x, NEW y
  PROVE  /\ [Clean(c, x) EXCEPT !.res = y] = Clean(c, y)
         /\ [Failed(c, x) EXCEPT !.res = y] = Failed(c, y)
<1>1. \A b : [[chip |-> c, res |-> x, clean |-> b] EXCEPT !.res = y]
               = [chip |-> c, res |-> y, clean |-> b]
  OBVIOUS
<1> QED BY <1>1, Zenon DEF Clean, Failed

(* Two bytes: 0 is read only from two registers that hold 0. *)
LEMMA ReadDataOutcome ==
  ASSUME NEW fd, NEW chip \in Apds9301Chip, NEW low \in Selects, NEW high \in Selects,
         NEW w \in ReadData(fd, chip, low, high)
  PROVE  /\ w \in Outcomes(Twins(chip), Words)
         /\ w.res = 0 => /\ Answers(fd, chip)
                         /\ \E c \in Twins(chip) : c.select = low /\ Contents(c) = 0
                         /\ \E d \in Twins(chip) : d.select = high /\ Contents(d) = 0
<1> SUFFICES \E e \in Twins(chip), y \in Words :
               /\ w = Clean(e, y) \/ w = Failed(e, y)
               /\ y = 0 => /\ Answers(fd, chip)
                           /\ \E c \in Twins(chip) : c.select = low /\ Contents(c) = 0
                           /\ \E d \in Twins(chip) : d.select = high /\ Contents(d) = 0
  BY DEF Outcomes, Clean, Failed
<1>1. PICK l \in ReadRegister(fd, chip, low) :
        w \in IF l.res = FAIL THEN {[l EXCEPT !.res = FAIL16]}
              ELSE {[h EXCEPT !.res = IF h.res = FAIL THEN FAIL16 ELSE 256 * h.res + l.res] :
                    h \in After(l, ReadRegister(fd, l.chip, high))}
  BY DEF ReadData
<1>2. PICK c \in Twins(chip) : \/ l = Failed(c, FAIL)
                               \/ Answers(fd, chip) /\ c.select = low /\ l = Clean(c, Contents(c))
  <2>1. l \in ReadRegister(fd, chip, low)
    BY <1>1
  <2>2. \A b \in Apds9301Chip : \A reg \in Selects : \A p \in ReadRegister(fd, b, reg) :
          \E d \in Twins(b) : \/ p = Failed(d, FAIL)
                              \/ Answers(fd, b) /\ d.select = reg /\ p = Clean(d, Contents(d))
    BY ReadRegisterOutcome
  <2> QED BY <2>1, <2>2
<1>3. c \in Apds9301Chip /\ Twins(c) \subseteq Twins(chip) /\ (Answers(fd, c) <=> Answers(fd, chip))
  BY <1>2 DEF Twins, Answers
<1>4. Contents(c) \in Octets /\ FAIL \notin Octets
  BY <1>3, ContentsRange DEF Octets, FAIL
<1>5. CASE l = Failed(c, FAIL)
  <2>1. l.res = FAIL
    BY <1>5 DEF Failed
  <2>2. w = Failed(c, FAIL16)
    BY <1>1, <1>5, <2>1, Renamed
  <2> QED BY <2>2, Joint
<1>6. CASE Answers(fd, chip) /\ c.select = low /\ l = Clean(c, Contents(c))
  <2>1. l.res = Contents(c) /\ l.chip = c
    BY <1>6 DEF Clean
  <2>2. PICK h \in After(l, ReadRegister(fd, c, high)) :
          w = [h EXCEPT !.res = IF h.res = FAIL THEN FAIL16 ELSE 256 * h.res + l.res]
    BY <1>1, <1>4, <2>1
  <2>3. h \in ReadRegister(fd, c, high)
    <3> DEFINE S == ReadRegister(fd, c, high)
               V == Contents(c)
    <3>1. \A s \in S : \E d \in Apds9301Chip : s = Failed(d, FAIL) \/ s = Clean(d, Contents(d))
      BY <1>3, ReadRegisterOutcome DEF Twins
    <3>2. S \in SUBSET Outcomes(Apds9301Chip, Octets \cup {FAIL})
      BY <3>1, ContentsRange DEF Outcomes
    <3> HIDE DEF S, V
    <3>3. l = Clean(c, V)
      BY <1>6 DEF V
    <3>4. l \in Outcomes({c}, {V})
      BY <3>3 DEF Outcomes
    <3>5. PICK e \in Apds9301Chip, y \in Octets \cup {FAIL} :
            \/ h = Clean(e, y) /\ h \in S /\ l = Clean(l.chip, l.res)
            \/ h = Failed(e, y) /\ h \in S
            \/ h = Failed(e, y) /\ Clean(e, y) \in S /\ l = Failed(l.chip, l.res)
      BY <2>2, <3>2, <3>4, AfterOutcome DEF S
    <3>6. l # Failed(l.chip, l.res)
      BY <3>3, Distinct
    <3> QED BY <3>5, <3>6 DEF S
  <2>4. PICK d \in Twins(c) : \/ h = Failed(d, FAIL)
                              \/ Answers(fd, c) /\ d.select = high /\ h = Clean(d, Contents(d))
    BY <1>3, <2>3, ReadRegisterOutcome
  <2>5. d \in Twins(chip) /\ d \in Apds9301Chip
    BY <1>3, <2>4 DEF Twins
  <2>6. Contents(d) \in Octets
    BY <2>5, ContentsRange
  <2>7. CASE h = Failed(d, FAIL)
    <3>2. h.res = FAIL
      BY <2>7 DEF Failed
    <3>3. w = Failed(d, FAIL16)
      BY <2>2, <2>7, <3>2, Renamed
    <3> QED BY <2>5, <3>3, Joint
  <2>8. CASE d.select = high /\ h = Clean(d, Contents(d))
    <3>2. h.res = Contents(d) /\ h.res # FAIL
      BY <1>4, <2>6, <2>8 DEF Clean
    <3>3. w = Clean(d, 256 * Contents(d) + Contents(c))
      BY <2>1, <2>2, <2>8, <3>2, Renamed
    <3>4. /\ 256 * Contents(d) + Contents(c) \in Words
          /\ 256 * Contents(d) + Contents(c) = 0 => Contents(d) = 0 /\ Contents(c) = 0
      BY <1>4, <2>6, Joint
    <3> QED BY <1>2, <1>6, <2>5, <2>8, <3>3, <3>4
  <2> QED BY <2>4, <2>7, <2>8
<1> QED BY <1>2, <1>5, <1>6

LEMMA DarknessRead ==
  ASSUME NEW fd, NEW chip \in Apds9301Chip, NEW w \in read_data1reg(fd, chip)
  PROVE  /\ w \in Outcomes(Twins(chip), Words)
         /\ w.res = 0 => chip.plugged /\ chip.count[1] < 256 /\ chip.count[2] % 256 = 0
<1>1. data1low_reg \in Selects /\ data0high_reg \in Selects
  BY DEF Selects, DataRegs, data0low_reg, data1low_reg, data0high_reg
<1>2. /\ w \in Outcomes(Twins(chip), Words)
      /\ w.res = 0 => /\ Answers(fd, chip)
                      /\ \E c \in Twins(chip) : c.select = data1low_reg /\ Contents(c) = 0
                      /\ \E d \in Twins(chip) : d.select = data0high_reg /\ Contents(d) = 0
  BY <1>1, ReadDataOutcome DEF read_data1reg
<1>3. ASSUME w.res = 0
      PROVE  chip.plugged /\ chip.count[1] < 256 /\ chip.count[2] % 256 = 0
  <2>1. chip.plugged
    BY <1>2, <1>3 DEF Answers
  <2>2. PICK c \in Twins(chip) : c.select = data1low_reg /\ Contents(c) = 0
    BY <1>2, <1>3
  <2>3. PICK d \in Twins(chip) : d.select = data0high_reg /\ Contents(d) = 0
    BY <1>2, <1>3
  <2>4. chip.count[2] % 256 = 0
    BY <2>2, ContentsRange DEF Twins
  <2>5. chip.count[1] \div 256 = 0
    BY <2>3, ContentsRange DEF Twins
  <2>6. chip.count[1] \in Words
    BY DEF Apds9301Chip, Words
  <2> QED BY <2>1, <2>4, <2>5, <2>6, Halves
<1> QED BY <1>2, <1>3

LEMMA BrightnessRead ==
  ASSUME NEW fd, NEW chip \in Apds9301Chip
  PROVE  read_data0reg(fd, chip) \in SUBSET Outcomes(Twins(chip), Words)
<1>1. data0low_reg \in Selects /\ data0high_reg \in Selects
  BY DEF Selects, DataRegs, data0low_reg, data0high_reg
<1>2. \A low, high \in Selects : ReadData(fd, chip, low, high) \in SUBSET Outcomes(Twins(chip), Words)
  BY ReadDataOutcome
<1> QED BY <1>1, <1>2 DEF read_data0reg

(* The luminosity of any two words. *)
Lumens == FAIL * LumenScale .. 3040 * UINT16_MAX

LEMMA LuminosityRange ==
  ASSUME NEW ch0 \in Words, NEW ch1 \in Words, NEW l \in Luminosity(ch0, ch1)
  PROVE  l \in Lumens /\ (l >= 0 \/ (l = FAIL * LumenScale /\ ch1 = 0))
<1>1. ch0 \in Nat /\ ch0 <= UINT16_MAX /\ ch1 \in Nat /\ ch1 <= UINT16_MAX /\ UINT16_MAX \in Nat
  BY Width, SMT DEF Words
<1>2. FAIL * LumenScale = -100000
  BY SMT DEF FAIL, LumenScale
<1>3. \/ ch1 = 0 /\ l = FAIL * LumenScale
      \/ 2 * ch1 <= ch0 /\ l = 3040 * ch0 - 4700 * ch1
      \/ l = 3040 * ch0
      \/ 100 * ch1 < 61 * ch0 /\ l = 2240 * ch0 - 3100 * ch1
      \/ 10 * ch1 < 8 * ch0 /\ l = 1280 * ch0 - 1530 * ch1
      \/ 10 * ch1 <= 13 * ch0 /\ l = 146 * ch0 - 112 * ch1
      \/ l = 0
  <2>1. \/ ch1 = 0
        \/ ch1 > 0 /\ 2 * ch1 <= ch0
        \/ 2 * ch1 > ch0 /\ 100 * ch1 < 61 * ch0
        \/ 100 * ch1 >= 61 * ch0 /\ 10 * ch1 < 8 * ch0
        \/ ch1 > 0 /\ 10 * ch1 >= 8 * ch0 /\ 10 * ch1 <= 13 * ch0
        \/ 10 * ch1 > 13 * ch0
    BY <1>1, SMT
  <2> QED BY <2>1 DEF Luminosity
<1>4. \/ l = -100000 /\ ch1 = 0
      \/ l \in Int /\ l >= 0 /\ l <= 3040 * ch0
      \/ l = 0
  BY <1>1, <1>2, <1>3, SMT
<1>5. 3040 * ch0 <= 3040 * UINT16_MAX /\ 3040 * UINT16_MAX \in Nat
  BY <1>1, SMT
<1>6. l \in -100000 .. 3040 * UINT16_MAX /\ (l >= 0 \/ (l = -100000 /\ ch1 = 0))
  BY <1>1, <1>4, <1>5, SMT
<1> QED BY <1>2, <1>6 DEF Lumens

(* Calls whose results are ignored. *)
LEMMA KinThen ==
  ASSUME NEW chip \in Apds9301Chip, NEW Q, NEW R, NEW S \in SUBSET Outcomes(Kin(chip), Q), NEW S2,
         \A r \in S2 : \E w \in S : \E T \in SUBSET Outcomes(Kin(w.chip), R) : r \in After(w, T)
  PROVE  S2 \in SUBSET Outcomes(Kin(chip), R)
<1> SUFFICES ASSUME NEW r \in S2 PROVE r \in Outcomes(Kin(chip), R)
  OBVIOUS
<1>1. PICK w \in S : \E T \in SUBSET Outcomes(Kin(w.chip), R) : r \in After(w, T)
  OBVIOUS
<1>2. PICK T \in SUBSET Outcomes(Kin(w.chip), R) : r \in After(w, T)
  BY <1>1
<1> QED BY <1>2, KinStep

LEMMA PeekKin ==
  ASSUME NEW fd, NEW chip \in Apds9301Chip, NEW regs \in SUBSET Selects
  PROVE  Peek(fd, chip, regs) \in SUBSET Outcomes(Kin(chip), Statuses)
<1>1. {SUCCESS} \in SUBSET Statuses
  BY DEF Statuses
<1>2. Peek(fd, chip, regs) \in SUBSET Outcomes(Twins(chip), {SUCCESS})
  BY PeekOutcome
<1> QED BY <1>1, <1>2, TwinsStatus

LEMMA ChecksKin ==
  ASSUME NEW fd, NEW chip \in Apds9301Chip
  PROVE  ApdsChecks(fd, chip) \in SUBSET Outcomes(Kin(chip), Statuses)
<1> DEFINE all    == rw_allregs_apds(fd, chip)
           enable == Then(all, LAMBDA c : write_interrupt_controlreg(fd, c, INT_ENABLE))
           peek   == Then(enable, LAMBDA c : Peek(fd, c, {int_control_reg}))
           id     == Then(peek, LAMBDA c : print_id(fd, c))
<1>1. all \in SUBSET Outcomes(Kin(chip), Statuses)
  BY AllRegsWritten DEF Stage
<1>2. ASSUME NEW S \in SUBSET Outcomes(Kin(chip), Statuses), NEW w \in S
      PROVE  w.chip \in Apds9301Chip
  BY Fields, KinFacts
<1>3. enable \in SUBSET Outcomes(Kin(chip), Statuses)
  <2>1. \A c \in Apds9301Chip :
          write_interrupt_controlreg(fd, c, INT_ENABLE) \in SUBSET Outcomes(Kin(c), Statuses)
    BY Registers, WriteStatus DEF write_interrupt_controlreg
  <2>2. \A r \in enable : \E w \in all : r \in After(w, write_interrupt_controlreg(fd, w.chip, INT_ENABLE))
    BY DEF Then
  <2> HIDE DEF all, enable
  <2> QED BY <1>1, <1>2, <2>1, <2>2, KinThen
<1>4. peek \in SUBSET Outcomes(Kin(chip), Statuses)
  <2>1. \A c \in Apds9301Chip : Peek(fd, c, {int_control_reg}) \in SUBSET Outcomes(Kin(c), Statuses)
    BY Registers, PeekKin DEF Selects
  <2>2. \A r \in peek : \E w \in enable : r \in After(w, Peek(fd, w.chip, {int_control_reg}))
    BY DEF Then
  <2> HIDE DEF enable, peek
  <2>3. \A r \in peek : \E w \in enable : \E T \in SUBSET Outcomes(Kin(w.chip), Statuses) : r \in After(w, T)
    BY <1>2, <1>3, <2>1, <2>2
  <2> QED BY <1>3, <2>3, KinThen
<1>5. id \in SUBSET Outcomes(Kin(chip), Statuses)
  <2>1. \A c \in Apds9301Chip : print_id(fd, c) \in SUBSET Outcomes(Kin(c), Statuses)
    BY PeekKin DEF Selects, print_id
  <2>2. \A r \in id : \E w \in peek : r \in After(w, print_id(fd, w.chip))
    BY DEF Then
  <2> HIDE DEF peek, id
  <2> QED BY <1>2, <1>4, <2>1, <2>2, KinThen
<1>6. id = ApdsChecks(fd, chip)
  BY DEF ApdsChecks
<1> HIDE DEF id
<1> QED BY <1>5, <1>6

(* Whatever fails on the way, FAIL means that channel 1 was read as 0. *)
LEMMA LuminosityOutcome ==
  ASSUME NEW fd, NEW chip \in Apds9301Chip, NEW g \in get_luminosity(fd, chip)
  PROVE  /\ g.chip \in Kin(chip) /\ g.res \in Lumens /\ g \in Outcomes(Kin(chip), Lumens)
         /\ \/ g.res >= 0
            \/ /\ g.res = FAIL * LumenScale
               /\ chip.plugged /\ chip.count[1] < 256 /\ chip.count[2] % 256 = 0
<1> DEFINE control == write_controlreg(fd, chip, power_up)
           Setup   == Then(control, LAMBDA c : write_timingreg(fd, c, timing))
           D0      == Then(Setup, LAMBDA c : read_data0reg(fd, c))
<1>1. control \in SUBSET Outcomes(Kin(chip), Statuses)
  BY Registers, WriteStatus DEF write_controlreg
<1>2. ASSUME NEW Q, NEW S \in SUBSET Outcomes(Kin(chip), Q), NEW w \in S
      PROVE  w.chip \in Apds9301Chip /\ w.chip \in Kin(chip)
  BY Fields, KinFacts
<1>3. Setup \in SUBSET Outcomes(Kin(chip), Statuses)
  <2>1. \A c \in Apds9301Chip :
          write_timingreg(fd, c, timing) \in SUBSET Outcomes(Kin(c), Statuses)
    BY Registers, WriteStatus DEF write_timingreg
  <2>2. \A r \in Setup : \E w \in control : r \in After(w, write_timingreg(fd, w.chip, timing))
    BY DEF Then
  <2> HIDE DEF control, Setup
  <2>3. \A r \in Setup : \E w \in control : \E T \in SUBSET Outcomes(Kin(w.chip), Statuses) : r \in After(w, T)
    BY <1>1, <1>2, <2>1, <2>2
  <2> QED BY <1>1, <2>3, KinThen
<1>4. D0 \in SUBSET Outcomes(Kin(chip), Words)
  <2>1. \A c \in Apds9301Chip : read_data0reg(fd, c) \in SUBSET Outcomes(Kin(c), Words)
    BY BrightnessRead, KinFacts DEF Outcomes
  <2>2. \A r \in D0 : \E w \in Setup : r \in After(w, read_data0reg(fd, w.chip))
    BY DEF Then
  <2> HIDE DEF Setup, D0
  <2>3. \A r \in D0 : \E w \in Setup : \E T \in SUBSET Outcomes(Kin(w.chip), Words) : r \in After(w, T)
    BY <1>2, <1>3, <2>1, <2>2
  <2> QED BY <1>3, <2>3, KinThen
<1>5. PICK d0 \in D0 :
        g \in UNION {{[d1 EXCEPT !.res = l] : l \in Luminosity(d0.res, d1.res)} :
                    d1 \in After(d0, read_data1reg(fd, d0.chip))}
  BY Zenon DEF get_luminosity
<1>6. PICK d1 \in After(d0, read_data1reg(fd, d0.chip)) :
        g \in {[d1 EXCEPT !.res = l] : l \in Luminosity(d0.res, d1.res)}
  BY <1>5, Zenon
<1>7. PICK l \in Luminosity(d0.res, d1.res) : g = [d1 EXCEPT !.res = l]
  BY <1>6
<1> HIDE DEF D0, Setup, control
<1>8. d0.chip \in Apds9301Chip /\ d0.chip \in Kin(chip) /\ d0.res \in Words
  BY <1>2, <1>4, Fields
<1> DEFINE T == read_data1reg(fd, d0.chip)
<1>9. /\ T \in SUBSET Outcomes(Twins(d0.chip), Words)
      /\ \A s \in T : s.res = 0 => /\ d0.chip.plugged /\ d0.chip.count[1] < 256
                                   /\ d0.chip.count[2] % 256 = 0
  BY <1>8, DarknessRead
<1>10. T \in SUBSET Outcomes(Kin(d0.chip), Words)
  BY <1>8, <1>9, KinFacts DEF Outcomes
<1>11. d1 \in After(d0, T)
  BY <1>6
<1> HIDE DEF T
<1>12. d0 \in Outcomes(Kin(chip), Words)
  BY <1>4
<1>13. d1 \in Outcomes(Kin(chip), Words) /\ \E s \in T : d1.chip = s.chip /\ d1.res = s.res
  BY <1>10, <1>11, <1>12, KinStep
<1>14. PICK c \in Kin(chip), x \in Words : d1 = Clean(c, x) \/ d1 = Failed(c, x)
  BY <1>13 DEF Outcomes
<1>15. g = Clean(c, l) \/ g = Failed(c, l)
  <2>1. g = [d1 EXCEPT !.res = l]
    BY <1>7
  <2>2. \A y : /\ [Clean(c, x) EXCEPT !.res = y] = Clean(c, y)
               /\ [Failed(c, x) EXCEPT !.res = y] = Failed(c, y)
    BY Renamed
  <2>3. CASE d1 = Clean(c, x)
    BY <2>1, <2>2, <2>3, SMT
  <2>4. CASE d1 = Failed(c, x)
    BY <2>1, <2>2, <2>4, SMT
  <2> QED BY <1>14, <2>3, <2>4
<1>16. g.chip = c /\ g.res = l /\ d1.res = x
  BY <1>14, <1>15 DEF Clean, Failed
<1>17. l \in Lumens /\ (l >= 0 \/ (l = FAIL * LumenScale /\ x = 0))
  BY <1>7, <1>8, <1>14, <1>16, LuminosityRange
<1>18. x = 0 => chip.plugged /\ chip.count[1] < 256 /\ chip.count[2] % 256 = 0
  BY <1>8, <1>9, <1>13, <1>16 DEF Kin
<1>19. g \in Outcomes(Kin(chip), Lumens)
  BY <1>14, <1>15, <1>17 DEF Outcomes
<1> QED BY <1>14, <1>16, <1>17, <1>18, <1>19

(* What an answer stands for. *)
Earned(answer, set) ==
  /\ answer = "ENABLE_INT" => set[int_control_reg] = INT_ENABLE
  /\ answer = "RW_ALL_REGS" =>
       set[control_reg] = power_up /\ set[timing_reg] = timing /\ set[int_control_reg] = RW_INT

LEMMA ServeOutcome ==
  ASSUME NEW chip \in Apds9301Chip, NEW request \in Requests \cup {"none"}, NEW s \in Serve(request, chip)
  PROVE  /\ s.chip \in Kin(chip)
         /\ s.answer \in {request, "none"}
         /\ Earned(s.answer, s.chip.set)
<1> DEFINE called == CASE request = "RW_ALL_REGS" -> rw_allregs_apds(LightFd, chip)
                       [] request = "ENABLE_INT"  ->
                            write_interrupt_controlreg(LightFd, chip, INT_ENABLE)
                       [] request = "PRINT_ID"    -> print_id(LightFd, chip)
                       [] OTHER                   -> {Clean(chip, SUCCESS)}
<1>1. PICK w \in called : s = [chip |-> w.chip, answer |-> IF w.res = SUCCESS THEN request ELSE "none"]
  BY DEF Serve
<1>2. SUFFICES w.chip \in Kin(chip) /\ (w.res = SUCCESS => Earned(request, w.chip.set))
  BY <1>1 DEF Earned
<1>3. SUCCESS # FAIL
  BY Int16
<1>4. CASE request = "RW_ALL_REGS"
  <2>1. w \in rw_allregs_apds(LightFd, chip)
    BY <1>1, <1>4
  <2>2. w \in Outcomes(Kin(chip), Statuses)
    BY <2>1, AllRegsWritten DEF Stage
  <2>3. w.res # FAIL => w.chip.set \in {f \in [Writable -> Settings] :
          f[control_reg] = power_up /\ f[timing_reg] = timing /\ f[int_control_reg] = RW_INT}
    BY <2>1, AllRegsWritten DEF Stage
  <2> QED BY <1>3, <1>4, <2>2, <2>3, Fields DEF Earned
<1>5. CASE request = "ENABLE_INT"
  <2>1. w \in WriteRegister(LightFd, chip, int_control_reg, INT_ENABLE)
    BY <1>1, <1>5 DEF write_interrupt_controlreg
  <2>2. /\ w \in Outcomes(Kin(chip), Statuses)
        /\ w.res # FAIL => w.chip.set = [chip.set EXCEPT ![int_control_reg] = INT_ENABLE]
    <3>1. /\ int_control_reg \in Writable
          /\ INT_ENABLE \in MeantFor[int_control_reg] /\ INT_ENABLE \in Settings
      BY Registers
    <3>2. /\ WriteRegister(LightFd, chip, int_control_reg, INT_ENABLE) \in SUBSET Outcomes(Kin(chip), Statuses)
          /\ \A v \in WriteRegister(LightFd, chip, int_control_reg, INT_ENABLE) :
               v.res # FAIL => v.chip.set = [chip.set EXCEPT ![int_control_reg] = INT_ENABLE]
      BY <3>1, WriteStatus
    <3> QED BY <2>1, <3>2
  <2>3. chip.set \in [Writable -> 0 .. 127] /\ int_control_reg \in Writable
    BY Registers DEF Apds9301Chip
  <2> QED BY <1>3, <1>5, <2>2, <2>3, Fields DEF Earned
<1>6. CASE request \notin {"RW_ALL_REGS", "ENABLE_INT"}
  <2>1. Earned(request, w.chip.set)
    BY <1>6 DEF Earned
  <2>2. CASE request = "PRINT_ID"
    <3>1. {id_reg} \in SUBSET Selects
      BY DEF Selects
    <3>2. w \in Outcomes(Kin(chip), Statuses)
      BY <1>1, <2>2, <3>1, PeekKin DEF print_id
    <3> QED BY <2>1, <3>2, Fields
  <2>3. CASE request # "PRINT_ID"
    <3>1. w = Clean(chip, SUCCESS)
      BY <1>1, <1>6, <2>3
    <3>2. w.chip = chip
      BY <3>1 DEF Clean
    <3> QED BY <2>1, <3>2, KinFacts
  <2> QED BY <2>2, <2>3
<1> QED BY <1>4, <1>5, <1>6

LEMMA CycleLumen ==
  ASSUME apds \in Apds9301Chip, NEW g \in LumenOutcomes
  PROVE  /\ g.chip \in Kin(apds) /\ g.lumen \in Lumens /\ g.clean \in BOOLEAN
         /\ \/ g.lumen >= 0
            \/ /\ g.lumen = FAIL * LumenScale
               /\ apds.plugged /\ apds.count[1] < 256 /\ apds.count[2] % 256 = 0
<1> DEFINE checked == IF LIBRARY_CHECKED THEN ApdsChecks(LightFd, apds) ELSE {Clean(apds, SUCCESS)}
<1>1. PICK r \in Then(checked, LAMBDA c : get_luminosity(LightFd, c)) : 
        g = [chip |-> r.chip, lumen |-> r.res, clean |-> r.clean]
  BY DEF LumenOutcomes
<1>2. PICK w \in checked : r \in After(w, get_luminosity(LightFd, w.chip))
  BY <1>1 DEF Then
<1>3. w.chip \in Kin(apds)
  <2>1. CASE LIBRARY_CHECKED
    <3>1. w \in Outcomes(Kin(apds), Statuses)
      BY <1>2, <2>1, ChecksKin
    <3> QED BY <3>1, Fields
  <2>2. CASE ~LIBRARY_CHECKED
    <3>1. w = Clean(apds, SUCCESS)
      BY <1>2, <2>2
    <3>2. w.chip = apds
      BY <3>1 DEF Clean
    <3> QED BY <3>2, KinFacts
  <2> QED BY <2>1, <2>2
<1>4. w.chip \in Apds9301Chip /\ Kin(w.chip) \subseteq Kin(apds)
  BY <1>3, KinFacts
<1>5. PICK s \in get_luminosity(LightFd, w.chip) : r = [s EXCEPT !.clean = @ /\ w.clean]
  BY <1>2 DEF After
<1> HIDE DEF checked
<1>6. r.chip = s.chip /\ r.res = s.res
  BY <1>5
<1>7. /\ s.chip \in Kin(w.chip) /\ s.res \in Lumens /\ s \in Outcomes(Kin(w.chip), Lumens)
      /\ \/ s.res >= 0
         \/ /\ s.res = FAIL * LumenScale
            /\ w.chip.plugged /\ w.chip.count[1] < 256 /\ w.chip.count[2] % 256 = 0
  BY <1>4, <1>5, LuminosityOutcome
<1>8. g.chip = s.chip /\ g.lumen = s.res /\ g.clean = r.clean
  BY <1>1, <1>6
<1>9. w.chip.plugged = apds.plugged /\ w.chip.count = apds.count
  BY <1>3 DEF Kin
<1>10. g.clean \in BOOLEAN
  <2>1. PICK b \in BOOLEAN : b = (s.clean /\ w.clean)
    OBVIOUS
  <2>2. PICK c, x : s = Clean(c, x) \/ s = Failed(c, x)
    BY <1>7 DEF Outcomes
  <2>3. r = [s EXCEPT !.clean = b]
    BY <1>5, <2>1
  <2>4. r.clean = b
    BY <2>2, <2>3 DEF Clean, Failed
  <2> QED BY <1>8, <2>4
<1> QED BY <1>4, <1>7, <1>8, <1>9, <1>10

(* FAIL means that the two bytes read as channel 1, its low byte and the   *)
(* high byte of channel 0 (apds9301.c:362), were transferred and were 0.   *)
Darkness ==
  lightCycle.lumen = FAIL * LumenScale =>
    apds.plugged /\ apds.count[1] < 256 /\ apds.count[2] % 256 = 0

LightInv ==
  LightTypeOK /\ RegistersKept /\ AnswersEarned /\ Darkness /\ LumenIsNotNegative

LEMMA Zeros ==
  /\ 0 \in Lumens /\ 0 # FAIL * LumenScale /\ 0 >= 0
  /\ PoweredApds9301 \in Apds9301Chip /\ Meant(PoweredApds9301)
<1>1. 0 \in Lumens /\ 0 # FAIL * LumenScale /\ 0 >= 0
  <2>1. FAIL * LumenScale = -100000 /\ 3040 * UINT16_MAX \in Nat
    BY Width, SMT DEF FAIL, LumenScale
  <2> QED BY <2>1, SMT DEF Lumens
<1>2. <<0, 0>> \in (0 .. UINT16_MAX) \X (0 .. UINT16_MAX)
  BY Width
<1>3. PoweredApds9301 \in Apds9301Chip
  BY <1>2, Registers DEF PoweredApds9301, Apds9301Chip
<1>4. Meant(PoweredApds9301)
  <2>1. ASSUME NEW r \in Writable
        PROVE  PoweredApds9301.set[r] = 0 /\ 0 \in MeantFor[r]
    BY <2>1 DEF PoweredApds9301, MeantFor
  <2> QED BY <2>1 DEF Meant
<1> QED BY <1>1, <1>3, <1>4

LEMMA QuietCycle ==
  /\ NoLightCycle \in [lumen : Lumens, clean : BOOLEAN, answer : Requests \cup {"none"}, ran : BOOLEAN]
  /\ NoLightCycle.lumen = 0 /\ NoLightCycle.answer = "none"
  BY Zeros DEF NoLightCycle

LEMMA LightInvInit == LightInit => LightInv
<1> SUFFICES ASSUME LightInit PROVE LightInv
  OBVIOUS
<1>1. LightTypeOK
  <2>1. /\ lightCycle \in [lumen : Lumens, clean : BOOLEAN, answer : Requests \cup {"none"}, ran : BOOLEAN]
        /\ LIBRARY_CHECKED \in BOOLEAN /\ apds \in Apds9301Chip
        /\ light_failure \in BOOLEAN /\ gone \in BOOLEAN
    BY Zeros, QuietCycle DEF LightInit
  <2> QED BY <2>1 DEF LightTypeOK, Lumens
<1>2. RegistersKept
  BY Zeros DEF LightInit, RegistersKept, Meant
<1>3. AnswersEarned /\ Darkness /\ LumenIsNotNegative
  BY Zeros, QuietCycle DEF LightInit, AnswersEarned, Darkness, LumenIsNotNegative
<1> QED BY <1>1, <1>2, <1>3 DEF LightInv

LEMMA LightInvStep == LightInv /\ [LightSensingNext]_lightVars => LightInv'
<1> SUFFICES ASSUME LightInv, [LightSensingNext]_lightVars PROVE LightInv'
  OBVIOUS
<1>1. /\ LIBRARY_CHECKED \in BOOLEAN /\ apds \in Apds9301Chip
      /\ light_failure \in BOOLEAN /\ gone \in BOOLEAN
      /\ lightCycle \in [lumen : Lumens, clean : BOOLEAN, answer : Requests \cup {"none"}, ran : BOOLEAN]
      /\ Meant(apds)
  BY DEF LightInv, LightTypeOK, Lumens, RegistersKept, Meant
<1>2. CASE LightTurn
  <2>1. PICK g \in LumenOutcomes :
          /\ light_failure' = (light_failure \/ g.lumen = FAIL * LumenScale)
          /\ \E request \in {"none"} \cup IF light_failure' THEN {} ELSE Requests :
             \E s \in Serve(request, g.chip) :
               /\ apds' = s.chip
               /\ lightCycle' = [lumen |-> g.lumen, clean |-> g.clean, answer |-> s.answer, ran |-> TRUE]
    BY <1>2 DEF LightTurn
  <2>2. PICK request \in Requests \cup {"none"} :
          \E s \in Serve(request, g.chip) :
            /\ apds' = s.chip
            /\ lightCycle' = [lumen |-> g.lumen, clean |-> g.clean, answer |-> s.answer, ran |-> TRUE]
    BY <2>1
  <2>3. PICK s \in Serve(request, g.chip) :
          /\ apds' = s.chip
          /\ lightCycle' = [lumen |-> g.lumen, clean |-> g.clean, answer |-> s.answer, ran |-> TRUE]
    BY <2>2
  <2>4. /\ g.chip \in Kin(apds) /\ g.lumen \in Lumens /\ g.clean \in BOOLEAN
        /\ \/ g.lumen >= 0
           \/ /\ g.lumen = FAIL * LumenScale
              /\ apds.plugged /\ apds.count[1] < 256 /\ apds.count[2] % 256 = 0
    BY <1>1, CycleLumen
  <2>5. g.chip \in Apds9301Chip /\ Kin(g.chip) \subseteq Kin(apds)
    BY <1>1, <2>4, KinFacts
  <2>6. /\ s.chip \in Kin(g.chip) /\ s.answer \in {request, "none"}
        /\ Earned(s.answer, s.chip.set)
    BY <2>5, ServeOutcome
  <2>7. apds' \in Kin(apds)
    BY <2>3, <2>5, <2>6
  <2>8. /\ apds' \in Apds9301Chip /\ apds'.plugged = apds.plugged
        /\ apds'.count = apds.count /\ Meant(apds')
    BY <1>1, <2>7 DEF Kin
  <2>9. /\ lightCycle'.lumen = g.lumen /\ lightCycle'.answer = s.answer
        /\ lightCycle' \in [lumen : Lumens, clean : BOOLEAN, answer : Requests \cup {"none"}, ran : BOOLEAN]
    BY <2>3, <2>4, <2>6
  <2>10. light_failure' \in BOOLEAN /\ UNCHANGED <<LIBRARY_CHECKED, gone>>
    BY <1>2, <2>1 DEF LightTurn
  <2>11. LightTypeOK'
    BY <1>1, <2>8, <2>9, <2>10 DEF LightTypeOK, Lumens
  <2>12. RegistersKept'
    BY <2>8 DEF RegistersKept, Meant
  <2>13. AnswersEarned'
    BY <2>3, <2>6, <2>9 DEF AnswersEarned, Earned
  <2>14. Darkness' /\ LumenIsNotNegative'
    <3>1. FAIL * LumenScale = -100000 /\ ~(-100000 >= 0)
      BY SMT DEF FAIL, LumenScale
    <3> QED BY <2>4, <2>8, <2>9, <3>1 DEF Darkness, LumenIsNotNegative
  <2> QED BY <2>11, <2>12, <2>13, <2>14 DEF LightInv
<1>3. CASE BusExit
  BY <1>3 DEF BusExit, LightInv, LightTypeOK, RegistersKept, AnswersEarned,
              Darkness, LumenIsNotNegative
<1>4. ASSUME apds' \in Apds9301Chip, Meant(apds'), lightCycle' = NoLightCycle,
             UNCHANGED <<LIBRARY_CHECKED, light_failure, gone>>
      PROVE  LightInv'
  <2>1. LightTypeOK'
    BY <1>1, <1>4, QuietCycle DEF LightTypeOK, Lumens
  <2>2. RegistersKept'
    BY <1>4 DEF RegistersKept, Meant
  <2>3. AnswersEarned' /\ Darkness' /\ LumenIsNotNegative'
    BY <1>4, QuietCycle, Zeros DEF AnswersEarned, Darkness, LumenIsNotNegative
  <2> QED BY <2>1, <2>2, <2>3 DEF LightInv
<1>5. CASE LightCounts
  <2>1. PICK n \in Lights : apds' = [apds EXCEPT !.count = n]
    BY <1>5 DEF LightCounts
  <2>2. n \in (0 .. UINT16_MAX) \X (0 .. UINT16_MAX)
    BY LightSensingAssumption
  <2>3. apds' \in Apds9301Chip /\ apds'.set = apds.set
    BY <1>1, <2>1, <2>2 DEF Apds9301Chip
  <2>4. Meant(apds')
    BY <1>1, <2>3 DEF Meant
  <2> QED BY <1>4, <1>5, <2>3, <2>4 DEF LightCounts
<1>6. CASE LightUnplugs
  <2>1. CASE apds.plugged
    <3>1. apds' = [apds EXCEPT !.plugged = FALSE]
      BY <1>6, <2>1 DEF LightUnplugs
    <3>2. ASSUME NEW b \in BOOLEAN
          PROVE  /\ [apds EXCEPT !.plugged = b] \in Apds9301Chip
                 /\ [apds EXCEPT !.plugged = b].set = apds.set
      BY <1>1 DEF Apds9301Chip
    <3>3. apds' \in Apds9301Chip /\ apds'.set = apds.set
      BY <3>1, <3>2
    <3>4. Meant(apds')
      BY <1>1, <3>3 DEF Meant
    <3> QED BY <1>4, <1>6, <3>3, <3>4 DEF LightUnplugs
  <2>2. CASE ~apds.plugged
    <3>1. apds' = PoweredApds9301
      BY <1>6, <2>2 DEF LightUnplugs
    <3> QED BY <1>4, <1>6, <3>1, Zeros DEF LightUnplugs
  <2> QED BY <2>1, <2>2
<1>7. CASE LightStarts
  <2>0. /\ LIBRARY_CHECKED' \in BOOLEAN /\ light_failure' \in BOOLEAN /\ gone' \in BOOLEAN
        /\ lightCycle' \in [lumen : Lumens, clean : BOOLEAN, answer : Requests \cup {"none"}, ran : BOOLEAN]
        /\ apds' \in Apds9301Chip
    BY <1>1, <1>7, QuietCycle DEF LightStarts
  <2>1. LightTypeOK'
    BY <2>0 DEF LightTypeOK, Lumens
  <2>2. RegistersKept'
    BY <1>1, <1>7 DEF LightStarts, RegistersKept, Meant
  <2>3. AnswersEarned' /\ Darkness' /\ LumenIsNotNegative'
    BY <1>7, QuietCycle, Zeros DEF LightStarts, AnswersEarned, Darkness, LumenIsNotNegative
  <2> QED BY <2>1, <2>2, <2>3 DEF LightInv
<1>8. CASE UNCHANGED lightVars
  BY <1>8 DEF lightVars, LightInv, LightTypeOK, RegistersKept, AnswersEarned,
              Darkness, LumenIsNotNegative
<1> QED BY <1>2, <1>3, <1>5, <1>6, <1>7, <1>8 DEF LightSensingNext

LEMMA LightInvariant == LightSpec => []LightInv
<1> QED BY LightInvInit, LightInvStep, PTL DEF LightSpec

(* Type correctness of the light sensor's side.                            *)
THEOREM LightTypeCorrect == LightSpec => []LightTypeOK
<1>1. LightInv => LightTypeOK
  BY DEF LightInv
<1> QED BY <1>1, LightInvariant, PTL

(* The formula of get_luminosity() (apds9301.c:378-403) never comes out    *)
(* negative, for all pairs of 16-bit channels: only FAIL is below 0.       *)
THEOREM LumenNeverNegative == LightSpec => []LumenIsNotNegative
<1>1. LightInv => LumenIsNotNegative
  BY DEF LightInv
<1> QED BY <1>1, LightInvariant, PTL

(* For all counts of 16 bits: when all transfers of a cycle went well,     *)
(* get_luminosity() comes out as FAIL only if the low byte of channel 1 is *)
(* 0 (apds9301.c:378-403).                                                 *)
THEOREM CleanCyclesFailDimly == LightSpec => []CleanFailureIsDim
<1>1. LightInv => CleanFailureIsDim
  BY DEF LightInv, Darkness, CleanFailureIsDim
<1> QED BY <1>1, LightInvariant, PTL

(* Whatever transfers fail, no register gets a value meant for another     *)
(* (apds9301.c:94-107, 129-143, 265-277).                                  *)
THEOREM RegistersAreKept == LightSpec => []RegistersKept
<1>1. LightInv => RegistersKept
  BY DEF LightInv
<1> QED BY <1>1, LightInvariant, PTL

(* RW_ALL_REGS and ENABLE_INT are answered as done only when the chip has  *)
(* the values they write (message.c:753-757, 774-778).                     *)
THEOREM AnswersAreEarned == LightSpec => []AnswersEarned
<1>1. LightInv => AnswersEarned
  BY DEF LightInv
<1> QED BY <1>1, LightInvariant, PTL
=============================================================================
