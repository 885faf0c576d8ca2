------------------------------ MODULE Dataflow ------------------------------
(***************************************************************************)
(* The data half of src/src/message.c: the readings that the temperature   *)
(* and the light task send to the log task, the requests they make of each *)
(* other through it, the responses, the day and night alerts, and what the *)
(* log task writes and forwards.  Supervision, cancellation and shutdown   *)
(* are left to Supervision.                                                *)
(*                                                                         *)
(* Nothing is said about time: a task may be as far behind as it likes.    *)
(* The temperature task talks to the queues outside the mutex, in steps of *)
(* one call each; what is done under the mutex by the light task, or by    *)
(* one call of the log task, is one step.                                  *)
(***************************************************************************)
EXTENDS MessageQueue, Integers

CONSTANTS
  Commands,   \* what the temperature task asks of the light task
  Lumens,     \* what get_luminosity() returns when it does not fail
  Faults      \* sensors that may fail: "temp", "light"

(* The anonymous enum of message.h, and FAIL of tmp102.h. *)
LUMEN       == 0
RW_ALL_REGS == 1
PRINT_ID    == 2
ENABLE_INT  == 3
FAIL        == -1

ASSUME DataflowAssumption ==
  /\ Commands \subseteq {LUMEN, RW_ALL_REGS, PRINT_ID, ENABLE_INT}
  /\ LUMEN \in Commands
  /\ Lumens \subseteq Nat
  /\ Faults \subseteq {"temp", "light"}

VARIABLES
  tempPc, lightPc, logPc,   \* where each task stands
  failed,                   \* temp_failure, light_failure
  temp_degree,              \* 0, 1, 2: next reading in C, F or K
  shown,                    \* the units whose flag (c, f, k) is 1
  prev_lumen, day, night,
  temp_to_log, light_to_log, log_to_temp, log_to_light,
  line                      \* what the log task has just written

tempVars  == <<tempPc, temp_degree, shown>>
lightVars == <<lightPc, prev_lumen, day, night>>
logVars   == <<logPc, line>>
queues    == <<temp_to_log, light_to_log, log_to_temp, log_to_light>>
vars      == <<tempVars, lightVars, logVars, failed, queues>>

Unit  == [d \in 0 .. 2 |-> <<"C", "F", "K">>[d + 1]]
Units == {"C", "F", "K"}

(* The unit of the latest temperature reading. *)
Latest == Unit[(temp_degree + 2) % 3]

(* Messages; a response keeps the command it answers, which the code does  *)
(* not send.                                                               *)
Init_       == [type |-> "INIT"]
Request(k)  == [type |-> "REQUEST", cmd |-> k]
TempData(u) == [type |-> "DATA", unit |-> u]
TempAnswer(u) == [type |-> "RESPONSE", unit |-> u]
LightData   == [type |-> "DATA"]
Alert(d)    == [type |-> "ALERT", day |-> d]
LightAsk    == [type |-> "REQUEST"]
Answer(k, n) == [type |-> "RESPONSE", cmd |-> k, data |-> n]

TempMessage ==
  {Init_} \cup {Request(k) : k \in Commands}
    \cup {TempData(u) : u \in Units} \cup {TempAnswer(u) : u \in Units}
LightMessage ==
  {Init_, LightData, LightAsk} \cup {Alert(d) : d \in BOOLEAN}
    \cup {Answer(k, k) : k \in Commands} \cup {Answer(LUMEN, n) : n \in Lumens}

(* The lines of the log that carry a reading or an answer. *)
NoLine == [kind |-> "none"]
Line ==
  [kind : {"temperature"}, units : SUBSET Units, unit : Units]
    \cup [kind : {"temperature answer"}, unit : Units]
    \cup [kind : {"light answer"}, as : 0 .. 3, cmd : Commands]
    \cup {NoLine}

TypeOK ==
  /\ tempPc \in {"start", "sample", "sense", "request", "receive", "data", "response"}
  /\ lightPc \in {"start", "loop"}
  /\ logPc \in {"outside", "temp", "light"}
  /\ failed \subseteq {"temp", "light"}
  /\ temp_degree \in 0 .. 2
  /\ shown \subseteq Units
  /\ prev_lumen \in Lumens \cup {0, FAIL}
  /\ day \in BOOLEAN /\ night \in BOOLEAN
  /\ temp_to_log \in Queue(TempMessage)
  /\ light_to_log \in Queue(LightMessage)
  /\ log_to_temp \in Queue({"temperature"})
  /\ log_to_light \in Queue(Commands)
  /\ line \in Line

Init ==
  /\ tempPc = "start" /\ lightPc = "start" /\ logPc = "outside"
  /\ failed = {}
  /\ temp_degree = 0
  /\ shown = {}
  /\ prev_lumen = 0
  /\ day = FALSE /\ night = FALSE
  /\ temp_to_log = << >> /\ light_to_log = << >>
  /\ log_to_temp = << >> /\ log_to_light = << >>
  /\ line = NoLine
-----------------------------------------------------------------------------
(* The log task is inside the mutex between two of its calls; the other    *)
(* tasks enter and leave it in one step.                                   *)
MutexFree == logPc = "outside"

(* The outcome of reading a sensor of t, with the flag for good. *)
MayFail(t) == IF t \in Faults THEN BOOLEAN ELSE {FALSE}

(* temp_task.                                                              *)

TempSend(m) == temp_to_log' = Sent(temp_to_log, m)

(* send_init_temp() *)
TempStart ==
  /\ tempPc = "start"
  /\ TempSend(Init_)
  /\ tempPc' = "sample"
  /\ UNCHANGED <<temp_degree, shown, lightVars, logVars, failed,
                 light_to_log, log_to_temp, log_to_light>>

(* The sample request, data 0. *)
TempSample ==
  /\ tempPc = "sample"
  /\ TempSend(Request(LUMEN))
  /\ tempPc' = "sense"
  /\ UNCHANGED <<temp_degree, shown, lightVars, logVars, failed,
                 light_to_log, log_to_temp, log_to_light>>

(* MUTANT: temp_degree is not set back to 0. *)
TempSenseNoReset ==
  /\ tempPc = "sense" /\ MutexFree
  /\ temp_degree' = temp_degree + 1
  /\ shown' = {Unit[temp_degree]}
  /\ tempPc' \in {"request", "receive"}
  /\ UNCHANGED <<failed, lightVars, logVars, queues>>

(* MUTANT: the flags of the other units are not cleared. *)
TempSenseKeepsFlags ==
  /\ tempPc = "sense" /\ MutexFree
  /\ temp_degree' = (temp_degree + 1) % 3
  /\ shown' = shown \cup {Unit[temp_degree]}
  /\ tempPc' \in {"request", "receive"}
  /\ UNCHANGED <<failed, lightVars, logVars, queues>>

(* The locked part: read, convert to the next unit, set its flag and clear *)
(* the others.  counter_temp then decides whether a request is due.        *)
TempSense ==
  /\ tempPc = "sense" /\ MutexFree
  /\ temp_degree' = (temp_degree + 1) % 3
  /\ shown' = {Unit[temp_degree]}
  /\ \E bad \in MayFail("temp") : failed' = failed \cup (IF bad THEN {"temp"} ELSE {})
  /\ tempPc' \in IF "temp" \in failed' THEN {"sense"} ELSE {"request", "receive"}
  /\ UNCHANGED <<lightVars, logVars, queues>>

(* if(counter_temp % 7 == 0), 11, 13, 17: ask for light and skip the rest. *)
TempRequest ==
  /\ tempPc = "request"
  /\ \E k \in Commands : TempSend(Request(k))
  /\ tempPc' = "sense"
  /\ UNCHANGED <<temp_degree, shown, lightVars, logVars, failed,
                 light_to_log, log_to_temp, log_to_light>>

(* Any message that comes from the log task asks for the temperature. *)
TempReceive ==
  /\ tempPc = "receive"
  /\ IF HasMessage(log_to_temp)
     THEN log_to_temp' = Received(log_to_temp) /\ tempPc' = "response"
     ELSE tempPc' = "data" /\ UNCHANGED log_to_temp
  /\ UNCHANGED <<temp_degree, shown, lightVars, logVars, failed,
                 temp_to_log, light_to_log, log_to_light>>

TempReport ==
  /\ tempPc \in {"data", "response"}
  /\ TempSend(IF tempPc = "data" THEN TempData(Latest) ELSE TempAnswer(Latest))
  /\ tempPc' = "sense"
  /\ UNCHANGED <<temp_degree, shown, lightVars, logVars, failed,
                 light_to_log, log_to_temp, log_to_light>>
-----------------------------------------------------------------------------
(* light_task.                                                             *)

(* send_int_light() *)
LightStart ==
  /\ lightPc = "start"
  /\ light_to_log' = Sent(light_to_log, Init_)
  /\ lightPc' = "loop"
  /\ UNCHANGED <<tempVars, prev_lumen, day, night, logVars, failed,
                 temp_to_log, log_to_temp, log_to_light>>

Nightfall(lumen) == lumen < 1 /\ prev_lumen > 1
Daybreak(lumen)  == lumen > 1 /\ prev_lumen < 1

(* MUTANT: every command is answered with the luminosity. *)
LightServeLumenOnly(lumen) ==
  /\ HasMessage(log_to_light)
  /\ log_to_light' = Received(log_to_light)
  /\ light_to_log' = Sent(light_to_log, Answer(Head(log_to_light), lumen))
  /\ day' = FALSE /\ night' = FALSE

(* A request of the temperature task is served, if there is one.  The      *)
(* answer to a command is sent only if the command succeeds; day and night *)
(* are cleared in any case.                                                *)
LightServe(lumen) ==
  /\ HasMessage(log_to_light)
  /\ log_to_light' = Received(log_to_light)
  /\ LET k == Head(log_to_light)
     IN  \E ok \in IF k \in {RW_ALL_REGS, ENABLE_INT} /\ "light" \in Faults
                   THEN BOOLEAN ELSE {TRUE} :
           light_to_log' =
             IF ok THEN Sent(light_to_log, Answer(k, IF k = LUMEN THEN lumen ELSE k))
             ELSE light_to_log
  /\ day' = FALSE /\ night' = FALSE

(* MUTANT: the reading is sent with the log_type of an earlier response. *)
LightReportAnswers(lumen) ==
  /\ ~HasMessage(log_to_light)
  /\ light_to_log' = Sent(light_to_log, Answer(LUMEN, lumen))
  /\ day' = FALSE /\ night' = FALSE
  /\ UNCHANGED log_to_light

(* MUTANT: day is not cleared when its alert has been sent. *)
LightReportKeepsDay(lumen) ==
  /\ ~HasMessage(log_to_light)
  /\ LET dawn == day \/ Daybreak(lumen)
         dusk == night \/ Nightfall(lumen)
     IN  /\ light_to_log' =
              Sent(light_to_log, IF dawn THEN Alert(TRUE)
                                 ELSE IF dusk THEN Alert(FALSE) ELSE LightData)
         /\ day' = dawn
         /\ night' = FALSE
  /\ UNCHANGED log_to_light

(* Otherwise the temperature may be asked for (counter_light % 10 == 0),   *)
(* and an alert or the reading is sent.                                    *)
LightReport(lumen) ==
  /\ ~HasMessage(log_to_light)
  /\ LET dawn == day \/ Daybreak(lumen)
         dusk == night \/ Nightfall(lumen)
         m    == IF dawn THEN Alert(TRUE) ELSE IF dusk THEN Alert(FALSE) ELSE LightData
     IN  /\ \E ask \in BOOLEAN :
              light_to_log' =
                Sent(IF ask THEN Sent(light_to_log, LightAsk) ELSE light_to_log, m)
         /\ day' = FALSE
         /\ night' = (dawn /\ dusk)
  /\ UNCHANGED log_to_light

(* A sensor that has failed once sends nothing to the log task any more. *)
LightFails(lumen) ==
  /\ day' = (day \/ Daybreak(lumen))
  /\ night' = (night \/ Nightfall(lumen))
  /\ UNCHANGED <<light_to_log, log_to_light>>

LightCycle ==
  /\ lightPc = "loop" /\ MutexFree
  /\ \E lumen \in Lumens \cup (IF "light" \in Faults THEN {FAIL} ELSE {}) :
       /\ prev_lumen' = lumen
       /\ failed' = failed \cup (IF lumen = FAIL THEN {"light"} ELSE {})
       /\ IF "light" \in failed'
          THEN LightFails(lumen)
          ELSE LightServe(lumen) \/ LightReport(lumen)
  /\ UNCHANGED <<lightPc, tempVars, logVars, temp_to_log, log_to_temp>>
-----------------------------------------------------------------------------
(* log_task, between pthread_mutex_lock and pthread_mutex_unlock.          *)

(* log_tempqueue(): one line per flag that is set, which is cleared; a     *)
(* request is written and forwarded; a response is written.                *)
LogTemp(next) ==
  /\ IF HasMessage(temp_to_log)
     THEN LET m == Head(temp_to_log)
          IN  /\ temp_to_log' = Received(temp_to_log)
              /\ shown' = IF m.type = "DATA" THEN {} ELSE shown
              /\ line' = CASE m.type = "DATA"     -> [kind |-> "temperature",
                                                      units |-> shown, unit |-> m.unit]
                           [] m.type = "RESPONSE" -> [kind |-> "temperature answer",
                                                      unit |-> m.unit]
                           [] OTHER               -> NoLine
              /\ log_to_light' = IF m.type = "REQUEST" THEN Sent(log_to_light, m.cmd)
                                 ELSE log_to_light
     ELSE line' = NoLine /\ UNCHANGED <<temp_to_log, shown, log_to_light>>
  /\ logPc' = next
  /\ UNCHANGED <<tempPc, temp_degree, lightVars, failed, light_to_log, log_to_temp>>

(* The two calls of log_tempqueue(). *)
LogTempFirst  == logPc = "outside" /\ LogTemp("temp")
LogTempSecond == logPc = "temp" /\ LogTemp("light")

(* How a response of the light task is written: by the number it carries,  *)
(* which is the command, or a reading.                                     *)
WrittenAs(n) == IF n \in {RW_ALL_REGS, PRINT_ID, ENABLE_INT} THEN n ELSE LUMEN

(* log_lightqueue(), and the unlock. *)
LogLight ==
  /\ logPc = "light"
  /\ IF HasMessage(light_to_log)
     THEN LET m == Head(light_to_log)
          IN  /\ light_to_log' = Received(light_to_log)
              /\ line' = IF m.type = "RESPONSE"
                         THEN [kind |-> "light answer", as |-> WrittenAs(m.data), cmd |-> m.cmd]
                         ELSE NoLine
              /\ log_to_temp' = IF m.type = "REQUEST" THEN Sent(log_to_temp, "temperature")
                                ELSE log_to_temp
     ELSE line' = NoLine /\ UNCHANGED <<light_to_log, log_to_temp>>
  /\ logPc' = "outside"
  /\ UNCHANGED <<tempVars, lightVars, failed, temp_to_log, log_to_light>>
-----------------------------------------------------------------------------
TempNext  == TempStart \/ TempSample \/ TempSense \/ TempRequest \/ TempReceive \/ TempReport
LightNext == LightStart \/ LightCycle
LogNext   == LogTempFirst \/ LogTempSecond \/ LogLight

Next == TempNext \/ LightNext \/ LogNext

Spec == Init /\ [][Next]_vars
-----------------------------------------------------------------------------
(* A reading is never written under two units (message.c:105-126 has three *)
(* separate tests of three flags that temp_task sets one by one): what is  *)
(* set is at most the unit of the latest reading.                          *)
OneLabel ==
  /\ line.kind = "temperature" => \A u, v \in line.units : u = v
  /\ shown \subseteq {Latest}

(* While the sensor works, a change of light is alerted in the cycle that  *)
(* sees it, as the change it is and not as an older one, unless the cycle  *)
(* serves a request or the queue has no room for the alert: because it was *)
(* full before, or because the task's own request took the last place.     *)
NewestReport == light_to_log'[Len(light_to_log')]

ChangesAlerted ==
  [][/\ "light" \notin failed' /\ log_to_light = << >>
     /\ Len(light_to_log) < MaxMsg
     =>
     /\ Nightfall(prev_lumen') => NewestReport \in {Alert(FALSE), LightAsk}
     /\ Daybreak(prev_lumen')  => NewestReport \in {Alert(TRUE), LightAsk}]_vars

(* The line for a response (message.c:191-214) names the command that was  *)
(* served, except that a luminosity of 1, 2 or 3 reads as a command.       *)
AnswersReadBack ==
  line.kind = "light answer" =>
    line.as = line.cmd \/ (line.cmd = LUMEN /\ line.as \in Lumens)

(* The commands of the temperature task reach the light task, and its      *)
(* answers the file, through temp_to_log, log_to_light and light_to_log:   *)
(* possibly lost in any of them, never repeated, invented or overtaken.    *)
(* CmdsOf(q) is the commands that the requests and answers of q are about, *)
(* in their order.                                                         *)
With(cmds, m) == IF "cmd" \in DOMAIN m THEN Append(cmds, m.cmd) ELSE cmds

CmdsOf(q) ==
  LET upTo[n \in 0 .. Len(q)] == IF n = 0 THEN << >> ELSE With(upTo[n - 1], q[n])
  IN  upTo[Len(q)]

Asking   == tempPc \in {"sample", "request"}
InFlight == CmdsOf(light_to_log) \o (log_to_light \o CmdsOf(temp_to_log))
Answered == IF line.kind = "light answer" THEN <<line.cmd>> ELSE << >>

LightChannel == INSTANCE LossyFifo WITH
  Item <- Commands, asking <- Asking, inFlight <- InFlight, out <- Answered

ImplementsLightChannel == LightChannel!FifoSpec
=============================================================================
