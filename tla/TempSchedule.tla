---------------------------- MODULE TempSchedule ----------------------------
(***************************************************************************)
(* What the temperature task does in which cycle (src/src/message.c:500-   *)
(* 621): counter_temp counts the cycles, and a cycle whose number is a     *)
(* multiple of 7, 11, 13 or 17 goes to a request of the light task instead *)
(* of the temperature.  A cycle asks for one thing at most, so commands    *)
(* compete with each other and with the temperature.  In Dataflow all this *)
(* is a free choice.                                                       *)
(***************************************************************************)
EXTENDS Integers

CONSTANT MaxCycle   \* bound on the cycles; INT_MAX in the code, 68 years

ASSUME TempScheduleAssumption == MaxCycle \in Nat \ {0}

VARIABLES
  counter_temp,
  failed,   \* temp_failure, set for good
  since,    \* history: cycles since a command was last asked for, or since the start
  quiet     \* history: cycles in a row, up to now, without a word of the temperature

vars == <<counter_temp, failed, since, quiet>>

Commands == {"LUMEN", "RW_ALL_REGS", "PRINT_ID", "ENABLE_INT"}

(* The command is due in each Period-th cycle ... *)
Period == [LUMEN |-> 7, RW_ALL_REGS |-> 11, PRINT_ID |-> 13, ENABLE_INT |-> 17]

(* ... unless one of the tests before its own is met: goto end. *)
Earlier ==
  [LUMEN |-> {}, RW_ALL_REGS |-> {"LUMEN"}, PRINT_ID |-> {"LUMEN", "RW_ALL_REGS"},
   ENABLE_INT |-> {"LUMEN", "RW_ALL_REGS", "PRINT_ID"}]

(* MUTANTS: a period whose turns an earlier test always takes; one that is *)
(* too short.                                                              *)
DueTaken(n, k) == n % (IF k = "ENABLE_INT" THEN 14 ELSE Period[k]) = 0
DueOften(n, k) == n % (IF k = "LUMEN" THEN 2 ELSE Period[k]) = 0

Due(n, k) == n % Period[k] = 0

Asks(n, k) == Due(n, k) /\ \A j \in Earlier[k] : ~Due(n, j)

(* MUTANT: int counter_temp = 0. *)
InitZero ==
  /\ counter_temp = 0
  /\ failed = FALSE
  /\ since = [k \in Commands |-> 0]
  /\ quiet = 0

Init ==
  /\ counter_temp = 1
  /\ failed = FALSE
  /\ since = [k \in Commands |-> 0]
  /\ quiet = 0

(* counter_temp++, in every cycle. *)
Count == counter_temp < MaxCycle /\ counter_temp' = counter_temp + 1

(* The sensor does not fail in this cycle, nor has it before. *)
Works == ~failed /\ UNCHANGED failed

TempRequest(k) ==
  /\ Count /\ Works
  /\ Asks(counter_temp, k)
  /\ since' = [j \in Commands |-> IF j = k THEN 0 ELSE since[j] + 1]
  /\ quiet' = quiet + 1

(* A response, if log_to_temp holds a message, or data. *)
TempReport ==
  /\ Count /\ Works
  /\ \A k \in Commands : ~Due(counter_temp, k)
  /\ since' = [j \in Commands |-> since[j] + 1]
  /\ quiet' = 0

(* A failure is for good: no later cycle sends a thing to the log task, so *)
(* none of them has a step here.                                           *)
TempFails ==
  /\ Count /\ ~failed
  /\ failed' = TRUE
  /\ UNCHANGED <<since, quiet>>

Next == (\E k \in Commands : TempRequest(k)) \/ TempReport \/ TempFails

Spec == Init /\ [][Next]_vars
-----------------------------------------------------------------------------
TypeOK ==
  /\ counter_temp \in 1 .. MaxCycle
  /\ failed \in BOOLEAN
  /\ since \in [Commands -> Nat]
  /\ quiet \in Nat

(* However the multiples fall, requests keep the temperature, and the      *)
(* response to a request of the light task, waiting for four cycles at     *)
(* most.                                                                   *)
TemperatureIsHeard == quiet <= 4

(* No command is starved by the tests before its own, which may take up to *)
(* three of its turns in a row (message.c:518-575): a turn of ENABLE_INT   *)
(* is skipped when the cycle is a multiple of 7, 11 or 13 as well.         *)
Gap == [LUMEN |-> 7, RW_ALL_REGS |-> 22, PRINT_ID |-> 39, ENABLE_INT |-> 68]

EveryCommandIsAsked == \A k \in Commands : since[k] < Gap[k]
=============================================================================
