------------------------- MODULE TempScheduleProofs -------------------------
(***************************************************************************)
(* Proofs that neither the temperature nor a command is starved by the     *)
(* schedule of temp_task, however long it runs: the bounds follow from the *)
(* periods 7, 11, 13 and 17 alone.                                         *)
(***************************************************************************)
EXTENDS TempSchedule, TLAPS

LEMMA TypeInit == Init => TypeOK
<1>. SUFFICES ASSUME Init PROVE TypeOK
  OBVIOUS
<1>1. counter_temp \in 1 .. MaxCycle /\ quiet \in Nat /\ since \in [Commands -> Nat]
  BY TempScheduleAssumption DEF Init
<1>2. failed \in BOOLEAN
  BY DEF Init
<1>. QED
  BY <1>1, <1>2 DEF TypeOK

LEMMA TypeStep == TypeOK /\ [Next]_vars => TypeOK'
<1>. SUFFICES ASSUME TypeOK, [Next]_vars PROVE TypeOK'
  OBVIOUS
<1>1. Count => counter_temp' \in 1 .. MaxCycle
  BY TempScheduleAssumption DEF Count, TypeOK
<1>2. ASSUME NEW k \in Commands, TempRequest(k) PROVE TypeOK'
  BY <1>1, <1>2 DEF TempRequest, Works, TypeOK
<1>3. CASE TempReport
  BY <1>1, <1>3 DEF TempReport, Works, TypeOK
<1>4. CASE TempFails
  BY <1>1, <1>4 DEF TempFails, TypeOK
<1>5. CASE UNCHANGED vars
  BY <1>5 DEF vars, TypeOK
<1>. QED
  BY <1>2, <1>3, <1>4, <1>5 DEF Next

(* The schedule is well typed; in particular the int does not overflow     *)
(* within MaxCycle cycles.                                                 *)
THEOREM TypeCorrect == Spec => []TypeOK
  BY TypeInit, TypeStep, PTL DEF Spec
-----------------------------------------------------------------------------
(* Two multiples of a period are a period apart. *)
LEMMA Apart ==
  ASSUME NEW n \in Nat, NEW i \in 0 .. 4, NEW j \in 0 .. 4, i # j
  PROVE  /\ ~((n + i) % 7 = 0 /\ (n + j) % 7 = 0)
         /\ ~((n + i) % 11 = 0 /\ (n + j) % 11 = 0)
         /\ ~((n + i) % 13 = 0 /\ (n + j) % 13 = 0)
         /\ ~((n + i) % 17 = 0 /\ (n + j) % 17 = 0)
<1>1. ~((n + i) % 7 = 0 /\ (n + j) % 7 = 0)
  OBVIOUS
<1>2. ~((n + i) % 11 = 0 /\ (n + j) % 11 = 0)
  OBVIOUS
<1>3. ~((n + i) % 13 = 0 /\ (n + j) % 13 = 0)
  OBVIOUS
<1>4. ~((n + i) % 17 = 0 /\ (n + j) % 17 = 0)
  OBVIOUS
<1>. QED
  BY <1>1, <1>2, <1>3, <1>4

LEMMA DueWhen ==
  ASSUME NEW n \in Nat
  PROVE  /\ Due(n, "LUMEN") <=> n % 7 = 0
         /\ Due(n, "RW_ALL_REGS") <=> n % 11 = 0
         /\ Due(n, "PRINT_ID") <=> n % 13 = 0
         /\ Due(n, "ENABLE_INT") <=> n % 17 = 0
  BY DEF Due, Period

(* Of five cycles in a row at most four have a request that is due: each   *)
(* command has one of them at most.                                        *)
LEMMA OneInFive ==
  ASSUME NEW n \in Nat
  PROVE  \E i \in 0 .. 4 : \A k \in Commands : ~Due(n + i, k)
<1>. SUFFICES ASSUME \A i \in 0 .. 4 : \E k \in Commands : Due(n + i, k) PROVE FALSE
  OBVIOUS
<1>1. PICK f \in [0 .. 4 -> Commands] : \A i \in 0 .. 4 : Due(n + i, f[i])
  <2>. DEFINE f == [i \in 0 .. 4 |-> CHOOSE k \in Commands : Due(n + i, k)]
  <2>1. f \in [0 .. 4 -> Commands] /\ \A i \in 0 .. 4 : Due(n + i, f[i])
    OBVIOUS
  <2>. QED
    BY <2>1
<1>2. \A i, j \in 0 .. 4 : i # j => f[i] # f[j]
  <2>. SUFFICES ASSUME NEW i \in 0 .. 4, NEW j \in 0 .. 4, i # j, f[i] = f[j] PROVE FALSE
    OBVIOUS
  <2>1. f[i] \in Commands /\ Due(n + i, f[i]) /\ Due(n + j, f[i]) /\ n + i \in Nat /\ n + j \in Nat
    BY <1>1
  <2>. QED
    BY <2>1, Apart, DueWhen DEF Commands
<1>3. \A i \in 0 .. 4 : f[i] \in Commands
  OBVIOUS
<1>. QED
  BY <1>2, <1>3 DEF Commands

(* The cycles without the temperature were those in which a request was    *)
(* due.                                                                    *)
QuietInv ==
  ~failed =>
    quiet < counter_temp /\ \A i \in 1 .. quiet : \E k \in Commands : Due(counter_temp - i, k)

LEMMA QuietStep ==
  TypeOK /\ TemperatureIsHeard /\ QuietInv /\ [Next]_vars => TemperatureIsHeard' /\ QuietInv'
<1>. SUFFICES ASSUME TypeOK, TemperatureIsHeard, QuietInv, [Next]_vars
              PROVE  TemperatureIsHeard' /\ QuietInv'
  OBVIOUS
<1>1. ASSUME NEW k \in Commands, TempRequest(k) PROVE TemperatureIsHeard' /\ QuietInv'
  <2>1. /\ quiet \in Nat /\ counter_temp \in Nat
        /\ quiet' = quiet + 1 /\ counter_temp' = counter_temp + 1
        /\ quiet < counter_temp /\ Due(counter_temp, k)
        /\ \A i \in 1 .. quiet : \E j \in Commands : Due(counter_temp - i, j)
    BY <1>1 DEF TempRequest, Works, Count, Asks, QuietInv, TypeOK
  <2>2. ASSUME NEW i \in 1 .. quiet'
        PROVE  \E j \in Commands : Due(counter_temp' - i, j)
    <3>1. CASE i = 1
      <4>1. counter_temp' - i = counter_temp
        BY <2>1, <3>1
      <4>. QED
        BY <2>1, <4>1
    <3>2. CASE i # 1
      <4>1. i - 1 \in 1 .. quiet /\ counter_temp' - i = counter_temp - (i - 1)
        BY <2>1, <3>2
      <4>. QED
        BY <2>1, <4>1
    <3>. QED
      BY <3>1, <3>2
  <2>3. QuietInv'
    BY <2>1, <2>2 DEF QuietInv
  <2>4. ASSUME quiet' > 4 PROVE FALSE
    <3>. DEFINE n == counter_temp' - 5
    <3>1. n \in Nat /\ \A i \in 0 .. 4 : 5 - i \in 1 .. quiet' /\ counter_temp' - (5 - i) = n + i
      BY <2>1, <2>4
    <3>2. \A i \in 0 .. 4 : \E j \in Commands : Due(n + i, j)
      <4>. SUFFICES ASSUME NEW i \in 0 .. 4 PROVE \E j \in Commands : Due(n + i, j)
        OBVIOUS
      <4>1. 5 - i \in 1 .. quiet' /\ counter_temp' - (5 - i) = n + i
        BY <3>1
      <4>2. \E j \in Commands : Due(counter_temp' - (5 - i), j)
        BY <2>2, <4>1
      <4>. QED
        BY <4>1, <4>2
    <3>. HIDE DEF n
    <3>. QED
      BY <3>1, <3>2, OneInFive
  <2>. QED
    BY <2>1, <2>3, <2>4 DEF TemperatureIsHeard
<1>2. CASE TempReport
  BY <1>2 DEF TempReport, Works, Count, TypeOK, TemperatureIsHeard, QuietInv
<1>3. CASE TempFails
  BY <1>3 DEF TempFails, TemperatureIsHeard, QuietInv
<1>4. CASE UNCHANGED vars
  BY <1>4 DEF vars, TemperatureIsHeard, QuietInv
<1>. QED
  BY <1>1, <1>2, <1>3, <1>4 DEF Next

(* The temperature, or the response that the light task waits for, is      *)
(* never kept waiting by more than four requests in a row.                 *)
THEOREM TemperatureIsNeverStarved == Spec => []TemperatureIsHeard
<1>1. Init => TemperatureIsHeard /\ QuietInv
  BY DEF Init, TemperatureIsHeard, QuietInv
<1>. QED
  BY <1>1, TypeCorrect, QuietStep, PTL DEF Spec
-----------------------------------------------------------------------------
(* Among Gap[k] cycles in a row there is one that asks for k. *)
Within(k) == \A n \in Nat : \E i \in 0 .. Gap[k] - 1 : Asks(n + i, k)

LEMMA AsksWhen ==
  ASSUME NEW n \in Nat
  PROVE  /\ Asks(n, "LUMEN") <=> n % 7 = 0
         /\ Asks(n, "RW_ALL_REGS") <=> n % 11 = 0 /\ n % 7 # 0
         /\ Asks(n, "PRINT_ID") <=> n % 13 = 0 /\ n % 7 # 0 /\ n % 11 # 0
         /\ Asks(n, "ENABLE_INT") <=> n % 17 = 0 /\ n % 7 # 0 /\ n % 11 # 0 /\ n % 13 # 0
  BY DueWhen DEF Asks, Earlier

(* The next multiple of m is less than m away. *)
LEMMA NextMultiple ==
  ASSUME NEW n \in Nat, NEW m \in {7, 11, 13, 17}
  PROVE  \E i \in 0 .. m - 1 : (n + i) % m = 0
<1>. DEFINE i == (m - (n % m)) % m
<1>1. CASE m = 7
  <2>1. i \in 0 .. 6 /\ (n + i) % 7 = 0
    BY <1>1
  <2>. QED
    BY <1>1, <2>1
<1>2. CASE m = 11
  <2>1. i \in 0 .. 10 /\ (n + i) % 11 = 0
    BY <1>2
  <2>. QED
    BY <1>2, <2>1
<1>3. CASE m = 13
  <2>1. i \in 0 .. 12 /\ (n + i) % 13 = 0
    BY <1>3
  <2>. QED
    BY <1>3, <2>1
<1>4. CASE m = 17
  <2>1. i \in 0 .. 16 /\ (n + i) % 17 = 0
    BY <1>4
  <2>. QED
    BY <1>4, <2>1
<1>. QED
  BY <1>1, <1>2, <1>3, <1>4

(* Of two, three or four turns in a row each test before its own can take  *)
(* one at most.                                                            *)
LEMMA TurnsTaken ==
  ASSUME NEW n \in Nat
  PROVE  /\ n % 11 = 0 => \E i \in {0, 11} : (n + i) % 11 = 0 /\ (n + i) % 7 # 0
         /\ n % 13 = 0 => \E i \in {0, 13, 26} :
              (n + i) % 13 = 0 /\ (n + i) % 7 # 0 /\ (n + i) % 11 # 0
         /\ n % 17 = 0 => \E i \in {0, 17, 34, 51} :
              (n + i) % 17 = 0 /\ (n + i) % 7 # 0 /\ (n + i) % 11 # 0 /\ (n + i) % 13 # 0
<1>1. n % 11 = 0 => \E i \in {0, 11} : (n + i) % 11 = 0 /\ (n + i) % 7 # 0
  OBVIOUS
<1>2. n % 13 = 0 => \E i \in {0, 13, 26} :
              (n + i) % 13 = 0 /\ (n + i) % 7 # 0 /\ (n + i) % 11 # 0
  OBVIOUS
<1>3. n % 17 = 0 => \E i \in {0, 17, 34, 51} :
              (n + i) % 17 = 0 /\ (n + i) % 7 # 0 /\ (n + i) % 11 # 0 /\ (n + i) % 13 # 0
  OBVIOUS
<1>. QED
  BY <1>1, <1>2, <1>3

LEMMA GapsHold == \A k \in Commands : Within(k)
<1>1. ASSUME NEW n \in Nat PROVE \E i \in 0 .. 6 : Asks(n + i, "LUMEN")
  <2>1. PICK i \in 0 .. 6 : (n + i) % 7 = 0
    BY NextMultiple
  <2>. QED
    BY <2>1, AsksWhen
<1>2. ASSUME NEW n \in Nat PROVE \E i \in 0 .. 21 : Asks(n + i, "RW_ALL_REGS")
  <2>1. PICK i \in 0 .. 10 : (n + i) % 11 = 0
    BY NextMultiple
  <2>2. PICK j \in {0, 11} : (n + i + j) % 11 = 0 /\ (n + i + j) % 7 # 0
    BY <2>1, TurnsTaken
  <2>3. i + j \in 0 .. 21 /\ n + i + j = n + (i + j) /\ n + (i + j) \in Nat
    OBVIOUS
  <2>. QED
    BY <2>2, <2>3, AsksWhen
<1>3. ASSUME NEW n \in Nat PROVE \E i \in 0 .. 38 : Asks(n + i, "PRINT_ID")
  <2>1. PICK i \in 0 .. 12 : (n + i) % 13 = 0
    BY NextMultiple
  <2>2. PICK j \in {0, 13, 26} :
          (n + i + j) % 13 = 0 /\ (n + i + j) % 7 # 0 /\ (n + i + j) % 11 # 0
    BY <2>1, TurnsTaken
  <2>3. i + j \in 0 .. 38 /\ n + i + j = n + (i + j) /\ n + (i + j) \in Nat
    OBVIOUS
  <2>. QED
    BY <2>2, <2>3, AsksWhen
<1>4. ASSUME NEW n \in Nat PROVE \E i \in 0 .. 67 : Asks(n + i, "ENABLE_INT")
  <2>1. PICK i \in 0 .. 16 : (n + i) % 17 = 0
    BY NextMultiple
  <2>2. PICK j \in {0, 17, 34, 51} :
          /\ (n + i + j) % 17 = 0 /\ (n + i + j) % 7 # 0
          /\ (n + i + j) % 11 # 0 /\ (n + i + j) % 13 # 0
    <3>. DEFINE r == n + i
    <3>1. r \in Nat /\ r % 17 = 0
      BY <2>1
    <3>. HIDE DEF r
    <3>2. \E j \in {0, 17, 34, 51} :
            (r + j) % 17 = 0 /\ (r + j) % 7 # 0 /\ (r + j) % 11 # 0 /\ (r + j) % 13 # 0
      BY <3>1, TurnsTaken
    <3>. QED
      BY <3>2 DEF r
  <2>3. i + j \in 0 .. 67 /\ n + i + j = n + (i + j) /\ n + (i + j) \in Nat
    OBVIOUS
  <2>. QED
    BY <2>2, <2>3, AsksWhen
<1>5. /\ Gap["LUMEN"] - 1 = 6 /\ Gap["RW_ALL_REGS"] - 1 = 21
      /\ Gap["PRINT_ID"] - 1 = 38 /\ Gap["ENABLE_INT"] - 1 = 67
  BY DEF Gap
<1>6. Within("LUMEN") /\ Within("RW_ALL_REGS") /\ Within("PRINT_ID") /\ Within("ENABLE_INT")
  BY <1>1, <1>2, <1>3, <1>4, <1>5 DEF Within
<1>. QED
  BY <1>6 DEF Commands

(* A command was not asked for in any cycle since it was last asked for.   *)
SinceInv ==
  ~failed =>
    \A k \in Commands :
      since[k] < counter_temp /\ \A i \in 1 .. since[k] : ~Asks(counter_temp - i, k)

(* Whatever is not asked for in a cycle has waited for one more. *)
LEMMA WaitsOn ==
  ASSUME TypeOK, EveryCommandIsAsked, SinceInv, Count, Works, NEW k \in Commands,
         ~Asks(counter_temp, k), since'[k] = since[k] + 1
  PROVE  /\ since'[k] < Gap[k] /\ since'[k] < counter_temp'
         /\ \A i \in 1 .. since'[k] : ~Asks(counter_temp' - i, k)
<1>1. /\ since[k] \in Nat /\ counter_temp \in Nat /\ counter_temp' = counter_temp + 1
      /\ since[k] < counter_temp /\ Gap[k] \in Nat \ {0}
      /\ \A i \in 1 .. since[k] : ~Asks(counter_temp - i, k)
  <2>1. since[k] < counter_temp /\ \A i \in 1 .. since[k] : ~Asks(counter_temp - i, k)
    BY DEF SinceInv, Works
  <2>. QED
    BY <2>1 DEF TypeOK, Count, Gap, Commands
<1>2. ASSUME NEW i \in 1 .. since'[k] PROVE ~Asks(counter_temp' - i, k)
  <2>1. CASE i = 1
    <3>1. counter_temp' - i = counter_temp
      BY <1>1, <2>1
    <3>. QED
      BY <3>1
  <2>2. CASE i # 1
    <3>1. i - 1 \in 1 .. since[k] /\ counter_temp' - i = counter_temp - (i - 1)
      BY <1>1, <2>2
    <3>. QED
      BY <1>1, <3>1
  <2>. QED
    BY <2>1, <2>2
<1>3. ASSUME since'[k] >= Gap[k] PROVE FALSE
  <2>. DEFINE n == counter_temp' - Gap[k]
  <2>1. n \in Nat
    BY <1>1, <1>3
  <2>2. PICK i \in 0 .. Gap[k] - 1 : Asks(n + i, k)
    BY <2>1, GapsHold DEF Within
  <2>3. Gap[k] - i \in 1 .. since'[k] /\ counter_temp' - (Gap[k] - i) = n + i
    BY <1>1, <1>3
  <2>. QED
    BY <1>2, <2>2, <2>3
<1>. QED
  BY <1>1, <1>2, <1>3

LEMMA SinceStep ==
  TypeOK /\ EveryCommandIsAsked /\ SinceInv /\ [Next]_vars => EveryCommandIsAsked' /\ SinceInv'
<1>. SUFFICES ASSUME TypeOK, EveryCommandIsAsked, SinceInv, [Next]_vars
              PROVE  EveryCommandIsAsked' /\ SinceInv'
  OBVIOUS
<1>. DEFINE Waits(k) == /\ since'[k] < Gap[k] /\ since'[k] < counter_temp'
                        /\ \A i \in 1 .. since'[k] : ~Asks(counter_temp' - i, k)
<1>1. (\A k \in Commands : Waits(k)) => EveryCommandIsAsked' /\ SinceInv'
  BY DEF EveryCommandIsAsked, SinceInv
<1>2. ASSUME NEW k \in Commands, TempRequest(k) PROVE \A j \in Commands : Waits(j)
  <2>. SUFFICES ASSUME NEW j \in Commands PROVE Waits(j)
    OBVIOUS
  <2>1. Count /\ Works /\ Asks(counter_temp, k)
        /\ since'[j] = IF j = k THEN 0 ELSE since[j] + 1
    BY <1>2 DEF TempRequest
  <2>2. CASE j = k
    BY <2>1, <2>2 DEF Count, TypeOK, Gap, Commands
  <2>3. CASE j # k
    <3>1. ~Asks(counter_temp, j)
      BY <2>1, <2>3 DEF Asks, Earlier, Commands
    <3>. QED
      BY <2>1, <2>3, <3>1, WaitsOn
  <2>. QED
    BY <2>2, <2>3
<1>3. CASE TempReport
  <2>. SUFFICES ASSUME NEW j \in Commands PROVE Waits(j)
    BY <1>1
  <2>1. Count /\ Works /\ ~Asks(counter_temp, j) /\ since'[j] = since[j] + 1
    BY <1>3 DEF TempReport, Asks
  <2>. QED
    BY <2>1, WaitsOn
<1>4. CASE TempFails
  BY <1>4 DEF TempFails, EveryCommandIsAsked, SinceInv
<1>5. CASE UNCHANGED vars
  BY <1>5 DEF vars, EveryCommandIsAsked, SinceInv
<1>. QED
  BY <1>1, <1>2, <1>3, <1>4, <1>5 DEF Next

(* No command is starved: each is asked for within its gap, however the    *)
(* multiples of the other periods fall.                                    *)
THEOREM NoCommandIsStarved == Spec => []EveryCommandIsAsked
<1>1. Init => EveryCommandIsAsked /\ SinceInv
  BY DEF Init, EveryCommandIsAsked, SinceInv, Gap, Commands
<1>. QED
  BY <1>1, TypeCorrect, SinceStep, PTL DEF Spec
=============================================================================
