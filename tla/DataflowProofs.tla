--------------------------- MODULE DataflowProofs ---------------------------
(***************************************************************************)
(* Proofs about Dataflow, for every queue length and every choice of       *)
(* commands, readings and faults.                                          *)
(***************************************************************************)
EXTENDS Dataflow, MessageQueueProofs, SequenceTheorems, WellFoundedInduction, TLAPS

(* What the fields of a message are. *)
LEMMA TempFields ==
  ASSUME NEW m \in TempMessage
  PROVE  /\ m.type = "REQUEST" => m.cmd \in Commands
         /\ m.type \in {"DATA", "RESPONSE"} => m.unit \in Units
  BY DEF TempMessage, Init_, Request, TempData, TempAnswer

LEMMA LightFields ==
  ASSUME NEW m \in LightMessage, m.type = "RESPONSE"
  PROVE  /\ m.cmd \in Commands
         /\ m.data = m.cmd \/ (m.cmd = LUMEN /\ m.data \in Lumens)
  BY DataflowAssumption DEF LightMessage, Init_, LightData, LightAsk, Alert, Answer

(* The unit of a reading is one of the three. *)
LEMMA LatestType ==
  ASSUME temp_degree \in 0 .. 2
  PROVE  Latest \in Units
<1>1. (temp_degree + 2) % 3 \in 0 .. 2
  OBVIOUS
<1>. QED
  BY <1>1 DEF Latest, Unit, Units

LEMMA LatestNext ==
  ASSUME temp_degree \in 0 .. 2, temp_degree' = (temp_degree + 1) % 3
  PROVE  Latest' = Unit[temp_degree] /\ temp_degree' \in 0 .. 2
<1>1. CASE temp_degree = 0
  BY <1>1 DEF Latest
<1>2. CASE temp_degree = 1
  BY <1>2 DEF Latest
<1>3. CASE temp_degree = 2
  BY <1>3 DEF Latest
<1>. QED
  BY <1>1, <1>2, <1>3
-----------------------------------------------------------------------------
LEMMA TypeInit == Init => TypeOK
<1>. SUFFICES ASSUME Init PROVE TypeOK
  OBVIOUS
<1>1. /\ temp_to_log \in Queue(TempMessage) /\ light_to_log \in Queue(LightMessage)
      /\ log_to_temp \in Queue({"temperature"}) /\ log_to_light \in Queue(Commands)
  BY EmptyType DEF Init
<1>2. line \in Line
  BY DEF Init, Line
<1>3. /\ tempPc = "start" /\ lightPc = "start" /\ logPc = "outside"
      /\ failed = {} /\ temp_degree = 0 /\ shown = {}
      /\ prev_lumen = 0 /\ day = FALSE /\ night = FALSE
  BY DEF Init
<1>4. /\ tempPc \in {"start", "sample", "sense", "request", "receive", "data", "response"}
      /\ lightPc \in {"start", "loop"} /\ logPc \in {"outside", "temp", "light"}
  BY <1>3
<1>5. failed \subseteq {"temp", "light"} /\ shown \subseteq Units
  BY <1>3
<1>6. temp_degree \in 0 .. 2 /\ prev_lumen \in Lumens \cup {0, FAIL}
  BY <1>3
<1>7. day \in BOOLEAN /\ night \in BOOLEAN
  BY <1>3
<1>. QED
  BY <1>1, <1>2, <1>4, <1>5, <1>6, <1>7 DEF TypeOK

LEMMA TypeStep == TypeOK /\ [Next]_vars => TypeOK'
<1>. SUFFICES ASSUME TypeOK, [Next]_vars PROVE TypeOK'
  OBVIOUS
<1>. USE DEF TypeOK
<1>1. ASSUME NEW m \in TempMessage, TempSend(m) PROVE temp_to_log' \in Queue(TempMessage)
  BY <1>1, SentType DEF TempSend
<1>2. CASE TempStart
  <2>1. Init_ \in TempMessage
    BY DEF TempMessage
  <2>. QED
    BY <1>1, <1>2, <2>1 DEF TempStart, lightVars, logVars
<1>3. CASE TempSample
  <2>1. Request(LUMEN) \in TempMessage
    BY DataflowAssumption DEF TempMessage
  <2>. QED
    BY <1>1, <1>3, <2>1 DEF TempSample, lightVars, logVars
<1>4. CASE TempSense
  <2>1. Unit[temp_degree] \in Units
    BY DEF Unit, Units
  <2>2. temp_degree' \in 0 .. 2
    BY <1>4, LatestNext DEF TempSense
  <2>3. failed' \subseteq {"temp", "light"}
    BY <1>4 DEF TempSense
  <2>. QED
    BY <1>4, <2>1, <2>2, <2>3 DEF TempSense, lightVars, logVars, queues
<1>5. CASE TempRequest
  <2>1. \A k \in Commands : Request(k) \in TempMessage
    BY DEF TempMessage
  <2>. QED
    BY <1>1, <1>5, <2>1 DEF TempRequest, lightVars, logVars
<1>6. CASE TempReceive
  <2>1. log_to_temp' \in Queue({"temperature"})
    BY <1>6, ReceivedType DEF TempReceive
  <2>. QED
    BY <1>6, <2>1 DEF TempReceive, lightVars, logVars
<1>7. CASE TempReport
  <2>1. TempData(Latest) \in TempMessage /\ TempAnswer(Latest) \in TempMessage
    BY LatestType DEF TempMessage
  <2>2. temp_to_log' \in Queue(TempMessage)
    BY <1>1, <1>7, <2>1 DEF TempReport
  <2>. QED
    BY <1>7, <2>2 DEF TempReport, lightVars, logVars
<1>8. CASE LightStart
  <2>1. light_to_log' \in Queue(LightMessage)
    BY <1>8, SentType DEF LightStart, LightMessage
  <2>. QED
    BY <1>8, <2>1 DEF LightStart, tempVars, logVars
<1>9. CASE LightCycle
  <2>. PICK lumen \in Lumens \cup {FAIL} :
         /\ prev_lumen' = lumen
         /\ failed' = failed \cup (IF lumen = FAIL THEN {"light"} ELSE {})
         /\ "light" \notin failed' => LightServe(lumen) \/ LightReport(lumen)
         /\ "light" \in failed' => LightFails(lumen)
    BY <1>9 DEF LightCycle
  <2>1. CASE LightFails(lumen)
    BY <1>9, <2>1 DEF LightCycle, LightFails, tempVars, logVars
  <2>2. CASE "light" \notin failed' /\ LightServe(lumen)
    <3>1. log_to_light' \in Queue(Commands) /\ Head(log_to_light) \in Commands
      BY <2>2, ReceivedType DEF LightServe
    <3>2. lumen \in Lumens
      BY <2>2
    <3>3. \A k \in Commands : Answer(k, IF k = LUMEN THEN lumen ELSE k) \in LightMessage
      BY <3>2 DEF LightMessage
    <3>4. light_to_log' \in Queue(LightMessage)
      BY <2>2, <3>1, <3>3, SentType DEF LightServe
    <3>. QED
      BY <1>9, <2>2, <3>1, <3>4 DEF LightCycle, LightServe, tempVars, logVars
  <2>3. CASE LightReport(lumen)
    <3>1. LightAsk \in LightMessage /\ LightData \in LightMessage
          /\ \A d \in BOOLEAN : Alert(d) \in LightMessage
      BY DEF LightMessage
    <3>2. \A d \in BOOLEAN, e \in BOOLEAN :
            (IF d THEN Alert(TRUE) ELSE IF e THEN Alert(FALSE) ELSE LightData)
              \in LightMessage
      BY <3>1
    <3>3. PICK ask \in BOOLEAN, m \in LightMessage :
            light_to_log' =
              Sent(IF ask THEN Sent(light_to_log, LightAsk) ELSE light_to_log, m)
      BY <2>3, <3>2 DEF LightReport
    <3>4. (IF ask THEN Sent(light_to_log, LightAsk) ELSE light_to_log) \in Queue(LightMessage)
      BY <3>1, SentType
    <3>5. light_to_log' \in Queue(LightMessage)
      BY <3>3, <3>4, SentType
    <3>. QED
      BY <1>9, <2>3, <3>5 DEF LightCycle, LightReport, tempVars, logVars
  <2>. QED
    BY <2>1, <2>2, <2>3
<1>10. ASSUME NEW next \in {"temp", "light"}, LogTemp(next) PROVE TypeOK'
  <2>1. CASE ~HasMessage(temp_to_log)
    BY <1>10, <2>1 DEF LogTemp, Line, lightVars
  <2>2. CASE HasMessage(temp_to_log)
    <3>. DEFINE m == Head(temp_to_log)
    <3>1. temp_to_log' \in Queue(TempMessage) /\ m \in TempMessage
      BY <1>10, <2>2, ReceivedType DEF LogTemp
    <3>2. log_to_light' \in Queue(Commands)
      BY <1>10, <2>2, <3>1, TempFields, SentType DEF LogTemp
    <3>3. line' \in Line
      <4>1. CASE m.type = "DATA"
        <5>1. line' = [kind |-> "temperature", units |-> shown, unit |-> m.unit]
          BY <1>10, <2>2, <4>1 DEF LogTemp
        <5>. QED
          BY <3>1, <4>1, <5>1, TempFields DEF Line
      <4>2. CASE m.type = "RESPONSE"
        <5>1. line' = [kind |-> "temperature answer", unit |-> m.unit]
          BY <1>10, <2>2, <4>2 DEF LogTemp
        <5>. QED
          BY <3>1, <4>2, <5>1, TempFields DEF Line
      <4>3. CASE m.type \notin {"DATA", "RESPONSE"}
        BY <1>10, <2>2, <4>3 DEF LogTemp, Line
      <4>. QED
        BY <4>1, <4>2, <4>3
    <3>. QED
      BY <1>10, <2>2, <3>1, <3>2, <3>3 DEF LogTemp, lightVars
  <2>. QED
    BY <2>1, <2>2
<1>11. CASE LogLight
  <2>1. CASE ~HasMessage(light_to_log)
    BY <1>11, <2>1 DEF LogLight, Line, tempVars, lightVars
  <2>2. CASE HasMessage(light_to_log)
    <3>1. light_to_log' \in Queue(LightMessage) /\ Head(light_to_log) \in LightMessage
      BY <1>11, <2>2, ReceivedType DEF LogLight
    <3>2. log_to_temp' \in Queue({"temperature"})
      BY <1>11, <2>2, SentType DEF LogLight
    <3>3. \A n : WrittenAs(n) \in 0 .. 3
      BY DEF WrittenAs, LUMEN, RW_ALL_REGS, PRINT_ID, ENABLE_INT
    <3>4. line' \in Line
      <4>1. CASE Head(light_to_log).type = "RESPONSE"
        <5>. DEFINE m == Head(light_to_log)
        <5>1. line' = [kind |-> "light answer", as |-> WrittenAs(m.data), cmd |-> m.cmd]
          BY <1>11, <2>2, <4>1 DEF LogLight
        <5>. QED
          BY <3>1, <3>3, <4>1, <5>1, LightFields DEF Line
      <4>2. CASE Head(light_to_log).type # "RESPONSE"
        BY <1>11, <2>2, <4>2 DEF LogLight, Line
      <4>. QED
        BY <4>1, <4>2
    <3>. QED
      BY <1>11, <2>2, <3>1, <3>2, <3>4 DEF LogLight, tempVars, lightVars
  <2>. QED
    BY <2>1, <2>2
<1>12. CASE UNCHANGED vars
  BY <1>12 DEF vars, tempVars, lightVars, logVars, queues
<1>. QED
  BY <1>2, <1>3, <1>4, <1>5, <1>6, <1>7, <1>8, <1>9, <1>10, <1>11, <1>12
  DEF Next, TempNext, LightNext, LogNext, LogTempFirst, LogTempSecond

(* Every reachable state is well typed; in particular a response of the    *)
(* light task carries its command or a reading, and no queue overflows     *)
(* (open_queues, message.c:936-947).                                       *)
THEOREM TypeCorrect == Spec => []TypeOK
<1>. QED
  BY TypeInit, TypeStep, PTL DEF Spec
-----------------------------------------------------------------------------
(* What the log task writes: of the queue of the temperature task a        *)
(* reading under the units that are set, or an answer; of the queue of the *)
(* light task an answer to a command; or nothing that matters here.        *)
LEMMA TempLine ==
  ASSUME NEW next, LogTemp(next)
  PROVE  /\ line'.kind = "temperature" => line'.units = shown
         /\ line'.kind # "light answer"
<1>1. \/ \E u : line' = [kind |-> "temperature", units |-> shown, unit |-> u]
      \/ \E u : line' = [kind |-> "temperature answer", unit |-> u]
      \/ line' = NoLine
  BY Zenon DEF LogTemp
<1>2. ASSUME NEW u, line' = [kind |-> "temperature", units |-> shown, unit |-> u]
      PROVE  line'.kind = "temperature" /\ line'.units = shown
  BY <1>2
<1>3. ASSUME NEW u, line' = [kind |-> "temperature answer", unit |-> u]
      PROVE  line'.kind = "temperature answer"
  BY <1>3
<1>4. ASSUME line' = NoLine PROVE line'.kind = "none"
  BY <1>4 DEF NoLine
<1>. QED
  BY <1>1, <1>2, <1>3, <1>4

LEMMA LightLine ==
  ASSUME LogLight
  PROVE  line'.kind # "temperature"
<1>1. \/ \E n, k : line' = [kind |-> "light answer", as |-> n, cmd |-> k]
      \/ line' = NoLine
  BY Zenon DEF LogLight
<1>2. ASSUME NEW n, NEW k, line' = [kind |-> "light answer", as |-> n, cmd |-> k]
      PROVE  line'.kind = "light answer"
  BY <1>2
<1>3. ASSUME line' = NoLine PROVE line'.kind = "none"
  BY <1>3 DEF NoLine
<1>. QED
  BY <1>1, <1>2, <1>3
-----------------------------------------------------------------------------
(* OneLabel is inductive with the types: the flags change only when a      *)
(* reading is taken, which sets one and clears two, and when the log task  *)
(* has written what they say.                                              *)
LEMMA OneLabelStep == TypeOK /\ OneLabel /\ [Next]_vars => OneLabel'
<1>. SUFFICES ASSUME TypeOK, OneLabel, [Next]_vars PROVE OneLabel'
  OBVIOUS
<1>. USE DEF OneLabel
<1>1. CASE TempSense
  <2>1. shown' = {Latest'}
    BY <1>1, LatestNext DEF TempSense, TypeOK
  <2>. QED
    BY <1>1, <2>1 DEF TempSense, logVars
<1>2. CASE UNCHANGED <<temp_degree, shown, line>>
  BY <1>2 DEF Latest
<1>3. ASSUME NEW next, LogTemp(next) PROVE OneLabel'
  <2>1. Latest' = Latest /\ shown' \subseteq shown
    BY <1>3 DEF LogTemp, Latest
  <2>2. line'.kind = "temperature" => line'.units = shown
    BY <1>3, TempLine
  <2>. QED
    BY <2>1, <2>2
<1>4. CASE LogLight
  BY <1>4, LightLine DEF LogLight, tempVars, Latest
<1>. QED
  BY <1>1, <1>2, <1>3, <1>4
  DEF Next, TempNext, LightNext, LogNext, LogTempFirst, LogTempSecond, vars, tempVars,
      logVars, TempStart, TempSample, TempRequest, TempReceive, TempReport, LightStart,
      LightCycle

(* A reading is never written under two units. *)
THEOREM NeverTwoLabels == Spec => []OneLabel
<1>1. Init => OneLabel
  BY DEF Init, OneLabel, NoLine
<1>. QED
  BY <1>1, TypeCorrect, OneLabelStep, PTL DEF Spec
-----------------------------------------------------------------------------
(* A cycle of the light task that does not see its sensor fail leaves day  *)
(* and night at 0, whichever of its branches it takes.                     *)
AlertsSettled == "light" \notin failed => ~day /\ ~night

LEMMA AlertsStep == AlertsSettled /\ [Next]_vars => AlertsSettled'
<1>. SUFFICES ASSUME AlertsSettled, [Next]_vars PROVE AlertsSettled'
  OBVIOUS
<1>. USE DEF AlertsSettled
<1>1. CASE LightCycle
  <2>. SUFFICES ASSUME "light" \notin failed' PROVE ~day' /\ ~night'
    OBVIOUS
  <2>. PICK lumen \in Lumens \cup {FAIL} :
         /\ "light" \notin failed
         /\ LightServe(lumen) \/ LightReport(lumen)
    BY <1>1 DEF LightCycle
  <2>1. CASE LightServe(lumen)
    BY <2>1 DEF LightServe
  <2>2. CASE LightReport(lumen)
    <3>1. ~(Daybreak(lumen) /\ Nightfall(lumen))
      BY DataflowAssumption DEF Daybreak, Nightfall, FAIL
    <3>. QED
      BY <2>2, <3>1 DEF LightReport
  <2>. QED
    BY <2>1, <2>2
<1>2. CASE TempSense
  BY <1>2 DEF TempSense, lightVars
<1>3. CASE UNCHANGED <<day, night, failed>>
  BY <1>3
<1>. QED
  BY <1>1, <1>2, <1>3
  DEF Next, TempNext, LightNext, LogNext, LogTempFirst, LogTempSecond, LogTemp, LogLight,
      vars, lightVars, TempStart, TempSample, TempRequest, TempReceive, TempReport, LightStart

LEMMA NoAlertIsOld == Spec => []AlertsSettled
<1>1. Init => AlertsSettled
  BY DEF Init, AlertsSettled
<1>. QED
  BY <1>1, AlertsStep, PTL DEF Spec

LEMMA NewestSent ==
  ASSUME NEW q \in Seq(LightMessage), NEW m \in LightMessage, Len(q) < MaxMsg
  PROVE  /\ Sent(q, m) \in Seq(LightMessage)
         /\ Len(Sent(q, m)) = Len(q) + 1
         /\ Sent(q, m)[Len(q) + 1] = m
  BY DEF Sent

(* The report of a cycle, whether the temperature was asked for or not,    *)
(* ends the queue unless the request has filled it.                        *)
LEMMA ReportIsNewest ==
  ASSUME TypeOK, Len(light_to_log) < MaxMsg, NEW m \in LightMessage, NEW ask \in BOOLEAN,
         light_to_log' = Sent(IF ask THEN Sent(light_to_log, LightAsk) ELSE light_to_log, m)
  PROVE  NewestReport \in {m, LightAsk}
<1>. light_to_log \in Seq(LightMessage) /\ LightAsk \in LightMessage
  BY DEF TypeOK, Queue, LightMessage
<1>1. CASE ~ask
  BY <1>1, NewestSent DEF NewestReport
<1>2. CASE ask
  <2>. DEFINE q == Sent(light_to_log, LightAsk)
  <2>1. q \in Seq(LightMessage) /\ Len(q) = Len(light_to_log) + 1 /\ q[Len(q)] = LightAsk
    BY NewestSent
  <2>2. light_to_log' = Sent(q, m)
    BY <1>2
  <2>. HIDE DEF q
  <2>3. CASE Len(q) < MaxMsg
    <3>1. Len(Sent(q, m)) = Len(q) + 1 /\ Sent(q, m)[Len(q) + 1] = m
      BY <2>1, <2>3, NewestSent
    <3>. QED
      BY <2>2, <3>1 DEF NewestReport
  <2>4. CASE ~(Len(q) < MaxMsg)
    BY <2>1, <2>2, <2>4 DEF NewestReport, Sent
  <2>. QED
    BY <2>3, <2>4
<1>. QED
  BY <1>1, <1>2

(* A change of light that a working sensor sees while no request waits is  *)
(* alerted at once, and as what it is: day and night are 0 when the cycle  *)
(* begins.                                                                 *)
THEOREM ChangesAreAlerted == Spec => ChangesAlerted
<1>. DEFINE Seen  == /\ "light" \notin failed' /\ log_to_light = << >>
                     /\ Len(light_to_log) < MaxMsg
            Told  == /\ Nightfall(prev_lumen') => NewestReport \in {Alert(FALSE), LightAsk}
                     /\ Daybreak(prev_lumen')  => NewestReport \in {Alert(TRUE), LightAsk}
<1>1. TypeOK /\ AlertsSettled /\ [Next]_vars => (Seen => Told)
  <2>. SUFFICES ASSUME TypeOK, AlertsSettled, [Next]_vars, Seen PROVE Told
    OBVIOUS
  <2>0. prev_lumen \in Int /\ Len(light_to_log) < MaxMsg
    BY DataflowAssumption, MaxMsgAssumption DEF TypeOK, FAIL, Queue
  <2>1. CASE prev_lumen' = prev_lumen
    <3>1. ~(prev_lumen' < 1 /\ prev_lumen > 1) /\ ~(prev_lumen' > 1 /\ prev_lumen < 1)
      BY <2>0, <2>1
    <3>. QED
      BY <3>1 DEF Nightfall, Daybreak
  <2>2. CASE LightCycle
    <3>1. PICK lumen \in Lumens \cup {FAIL} :
            /\ prev_lumen' = lumen /\ "light" \notin failed'
            /\ "light" \notin failed /\ LightReport(lumen)
      BY <2>2 DEF LightCycle, LightServe, HasMessage
    <3>2. lumen \in Int /\ ~day /\ ~night
      BY <3>1, DataflowAssumption DEF AlertsSettled, FAIL
    <3>3. CASE Nightfall(lumen)
      <4>1. ~Daybreak(lumen)
        BY <2>0, <3>2, <3>3 DEF Nightfall, Daybreak
      <4>2. PICK ask \in BOOLEAN :
              light_to_log' = Sent(IF ask THEN Sent(light_to_log, LightAsk)
                                   ELSE light_to_log, Alert(FALSE))
        BY <3>1, <3>2, <3>3, <4>1 DEF LightReport
      <4>. QED
        BY <2>0, <3>1, <4>1, <4>2, ReportIsNewest DEF LightMessage
    <3>4. CASE Daybreak(lumen)
      <4>1. ~Nightfall(lumen)
        BY <2>0, <3>2, <3>4 DEF Nightfall, Daybreak
      <4>2. PICK ask \in BOOLEAN :
              light_to_log' = Sent(IF ask THEN Sent(light_to_log, LightAsk)
                                   ELSE light_to_log, Alert(TRUE))
        BY <3>1, <3>2, <3>4, <4>1 DEF LightReport
      <4>. QED
        BY <2>0, <3>1, <4>1, <4>2, ReportIsNewest DEF LightMessage
    <3>. QED
      BY <3>1, <3>3, <3>4
  <2>. QED
    BY <2>1, <2>2
    DEF Next, TempNext, LightNext, LogNext, LogTempFirst, LogTempSecond, LogTemp, LogLight,
        vars, lightVars, TempStart, TempSample, TempSense, TempRequest, TempReceive,
        TempReport, LightStart
<1>. QED
  BY <1>1, TypeCorrect, NoAlertIsOld, PTL DEF Spec, ChangesAlerted
-----------------------------------------------------------------------------
(* What a response carries, which TypeOK says, decides how it is written.  *)
LEMMA ReadBackStep == TypeOK /\ AnswersReadBack /\ [Next]_vars => AnswersReadBack'
<1>. SUFFICES ASSUME TypeOK, AnswersReadBack, [Next]_vars PROVE AnswersReadBack'
  OBVIOUS
<1>. USE DEF AnswersReadBack
<1>1. CASE LogLight
  <2>1. CASE HasMessage(light_to_log) /\ Head(light_to_log).type = "RESPONSE"
    <3>. DEFINE m == Head(light_to_log)
    <3>1. m \in LightMessage
      BY <2>1, ReceivedType DEF TypeOK
    <3>2. m.cmd \in Commands /\ (m.data = m.cmd \/ (m.cmd = LUMEN /\ m.data \in Lumens))
      BY <2>1, <3>1, LightFields
    <3>3. line' = [kind |-> "light answer", as |-> WrittenAs(m.data), cmd |-> m.cmd]
      BY <1>1, <2>1 DEF LogLight
    <3>4. WrittenAs(m.data) = m.cmd \/ (m.cmd = LUMEN /\ WrittenAs(m.data) \in Lumens)
      BY <3>2, DataflowAssumption DEF WrittenAs
    <3>. QED
      BY <3>3, <3>4
  <2>2. CASE ~(HasMessage(light_to_log) /\ Head(light_to_log).type = "RESPONSE")
    <3>1. line' = NoLine
      BY <1>1, <2>2 DEF LogLight
    <3>. QED
      BY <3>1 DEF NoLine
  <2>. QED
    BY <2>1, <2>2
<1>2. ASSUME NEW next, LogTemp(next) PROVE AnswersReadBack'
  BY <1>2, TempLine
<1>3. CASE UNCHANGED line
  BY <1>3
<1>. QED
  BY <1>1, <1>2, <1>3
  DEF Next, TempNext, LightNext, LogNext, LogTempFirst, LogTempSecond, vars, logVars,
      TempStart, TempSample, TempSense, TempRequest, TempReceive, TempReport, LightStart,
      LightCycle

(* A response is written as the command it answers, but for a luminosity   *)
(* that happens to be the number of a command.                             *)
THEOREM AnswersAreReadBack == Spec => []AnswersReadBack
<1>1. Init => AnswersReadBack
  BY DEF Init, AnswersReadBack, NoLine
<1>. QED
  BY <1>1, TypeCorrect, ReadBackStep, PTL DEF Spec
-----------------------------------------------------------------------------
(* Induction over the natural numbers, with a set for the predicate. *)
LEMMA SetInduction ==
  ASSUME NEW N \in SUBSET Nat, 0 \in N, \A n \in N : n + 1 \in N
  PROVE  N = Nat
<1>. DEFINE T == Nat \ N
            R == {p \in Nat \X Nat : p[1] < p[2]}
<1>1. IsWellFoundedOn(R, Nat)
  BY NatLessThanWellFounded, Zenon DEF OpToRel
<1>. SUFFICES ASSUME T # {} PROVE FALSE
  OBVIOUS
<1>2. PICK x \in T : \A y \in T : <<y, x>> \notin R
  <2>1. T \subseteq Nat
    OBVIOUS
  <2>. HIDE DEF T, R
  <2>. QED
   BY <1>1, <2>1, WFMin
<1>3. x # 0 /\ x - 1 \in Nat /\ x - 1 \notin N
  OBVIOUS
<1>4. <<x - 1, x>> \in R
  BY <1>3
<1>. QED
  BY <1>2, <1>3, <1>4

(* f is the local function of CmdsOf(q), up to n. *)
Picks(f, q, n) ==
  f = [i \in 0 .. n |-> IF i = 0 THEN << >> ELSE With(f[i - 1], q[i])]

(* Its values, step by step. *)
LEMMA PicksSteps ==
  ASSUME NEW q, NEW n \in Nat, NEW f, Picks(f, q, n)
  PROVE  f[0] = << >> /\ \A i \in 1 .. n : f[i] = With(f[i - 1], q[i])
<1>. DEFINE g == [i \in 0 .. n |-> IF i = 0 THEN << >> ELSE With(f[i - 1], q[i])]
<1>1. f = g
  BY DEF Picks
<1>2. g[0] = << >> /\ \A i \in 1 .. n : g[i] = With(f[i - 1], q[i])
  OBVIOUS
<1>. HIDE DEF g
<1>. QED
  BY <1>1, <1>2

(* There is such a function. *)
LEMMA PicksExist ==
  ASSUME NEW q, NEW m \in Nat
  PROVE  \E f : Picks(f, q, m)
<1>. DEFINE N == {n \in Nat : \E f : Picks(f, q, n)}
<1>1. 0 \in N
  <2>1. Picks([i \in 0 .. 0 |-> << >>], q, 0)
    BY DEF Picks
  <2>. QED
    BY <2>1
<1>2. ASSUME NEW n \in N PROVE n + 1 \in N
  <2>1. PICK f : Picks(f, q, n)
    OBVIOUS
  <2>. DEFINE g == [i \in 0 .. n + 1 |-> IF i = n + 1 THEN With(f[n], q[n + 1]) ELSE f[i]]
  <2>2. f[0] = << >> /\ \A i \in 1 .. n : f[i] = With(f[i - 1], q[i])
    BY <2>1, PicksSteps
  <2>3. \A i \in 0 .. n + 1 : g[i] = IF i = 0 THEN << >> ELSE With(g[i - 1], q[i])
    BY <2>2
  <2>4. Picks(g, q, n + 1)
    BY <2>3 DEF Picks
  <2>. HIDE DEF g
  <2>. QED
    BY <2>4
<1>3. N \subseteq Nat
  OBVIOUS
<1>. HIDE DEF N
<1>4. N = Nat
  BY <1>1, <1>2, <1>3, SetInduction
<1>. QED
  BY <1>4 DEF N

(* Two of them agree as long as their queues do. *)
LEMMA PicksAgree ==
  ASSUME NEW q, NEW r, NEW m \in Nat, NEW n \in Nat, NEW f, NEW g, m <= n,
         Picks(f, q, m), Picks(g, r, n), \A i \in 1 .. m : q[i] = r[i]
  PROVE  f[m] = g[m]
<1>. DEFINE N == {i \in Nat : i <= m => f[i] = g[i]}
<1>1. 0 \in N
  BY PicksSteps
<1>2. \A i \in N : i + 1 \in N
  BY PicksSteps
<1>3. N \subseteq Nat
  OBVIOUS
<1>. HIDE DEF N
<1>4. N = Nat
  BY <1>1, <1>2, <1>3, SetInduction
<1>. QED
  BY <1>4 DEF N

(* What CmdsOf chooses. *)
LEMMA CmdsPicked ==
  ASSUME NEW q, Len(q) \in Nat
  PROVE  \E f : Picks(f, q, Len(q)) /\ CmdsOf(q) = f[Len(q)]
<1>. DEFINE F == CHOOSE f : Picks(f, q, Len(q))
<1>1. Picks(F, q, Len(q))
  BY PicksExist
<1>2. CmdsOf(q) = F[Len(q)]
  BY DEF CmdsOf, Picks
<1>. QED
  BY <1>1, <1>2

(* Whatever a queue to the log task holds. *)
Message == TempMessage \cup LightMessage

(* Commands stay commands, and what came before stays before. *)
LEMMA WithType ==
  ASSUME NEW s \in Seq(Commands), NEW m \in Message
  PROVE  With(s, m) \in Seq(Commands)
<1>1. "cmd" \in DOMAIN m => m.cmd \in Commands
  <2>1. \/ m = Init_ \/ \E k \in Commands : m = Request(k)
        \/ \E u \in Units : m = TempData(u) \/ m = TempAnswer(u)
        \/ m = LightData \/ m = LightAsk \/ \E d \in BOOLEAN : m = Alert(d)
        \/ \E k \in Commands : m = Answer(k, k)
        \/ \E n \in Lumens : m = Answer(LUMEN, n)
    BY DEF Message, TempMessage, LightMessage
  <2>. QED
    BY <2>1, DataflowAssumption
    DEF Init_, Request, TempData, TempAnswer, LightData, LightAsk, Alert, Answer
<1>. QED
  BY <1>1 DEF With

LEMMA WithConcat ==
  ASSUME NEW p \in Seq(Commands), NEW s \in Seq(Commands), NEW m \in Message
  PROVE  With(p \o s, m) = p \o With(s, m)
<1>1. CASE "cmd" \in DOMAIN m
  <2>1. With(s, m) \in Seq(Commands) /\ With(s, m) = Append(s, m.cmd)
    BY <1>1, WithType DEF With
  <2>2. m.cmd \in Commands
    BY <2>1
  <2>3. Append(p \o s, m.cmd) = p \o Append(s, m.cmd)
    <3>1. p \o s \in Seq(Commands) /\ <<m.cmd>> \in Seq(Commands)
      BY <2>2, ConcatProperties
    <3>2. /\ Append(p \o s, m.cmd) = (p \o s) \o <<m.cmd>>
          /\ Append(s, m.cmd) = s \o <<m.cmd>>
      BY <2>2, <3>1, AppendIsConcat
    <3>. QED
      BY <3>1, <3>2, ConcatAssociative
  <2>. QED
    BY <1>1, <2>3 DEF With
<1>2. CASE "cmd" \notin DOMAIN m
  BY <1>2 DEF With
<1>. QED
  BY <1>1, <1>2

(* The values are sequences of commands, by induction. *)
LEMMA PicksType ==
  ASSUME NEW q \in Seq(Message), NEW f, Picks(f, q, Len(q))
  PROVE  \A i \in 0 .. Len(q) : f[i] \in Seq(Commands)
<1>. DEFINE N == {i \in Nat : i <= Len(q) => f[i] \in Seq(Commands)}
<1>0. Len(q) \in Nat
  OBVIOUS
<1>1. 0 \in N
  <2>1. f[0] = << >> /\ << >> \in Seq(Commands)
    BY <1>0, PicksSteps
  <2>. QED
    BY <2>1
<1>2. ASSUME NEW i \in N PROVE i + 1 \in N
  <2>. SUFFICES ASSUME i + 1 <= Len(q) PROVE f[i + 1] \in Seq(Commands)
    OBVIOUS
  <2>1. f[i + 1] = With(f[i], q[i + 1])
    BY <1>0, PicksSteps
  <2>2. f[i] \in Seq(Commands) /\ q[i + 1] \in Message
    BY <1>0
  <2>. QED
    BY <2>1, <2>2, WithType
<1>3. N \subseteq Nat
  OBVIOUS
<1>. HIDE DEF N
<1>4. N = Nat
  BY <1>1, <1>2, <1>3, SetInduction
<1>. QED
  BY <1>4 DEF N

LEMMA CmdsType ==
  ASSUME NEW q \in Seq(Message)
  PROVE  CmdsOf(q) \in Seq(Commands)
<1>1. Len(q) \in Nat
  OBVIOUS
<1>. QED
  BY <1>1, CmdsPicked, PicksType

(* CmdsOf, at both ends of a queue: what a send appends, what a receive    *)
(* takes.                                                                  *)
LEMMA CmdsOfEmpty == CmdsOf(<< >>) = << >>
<1>1. Len(<< >>) = 0
  OBVIOUS
<1>2. PICK f : Picks(f, << >>, Len(<< >>)) /\ CmdsOf(<< >>) = f[Len(<< >>)]
  BY <1>1, CmdsPicked
<1>. QED
  BY <1>1, <1>2, PicksSteps

LEMMA CmdsOfAppend ==
  ASSUME NEW q \in Seq(Message), NEW m \in Message
  PROVE  CmdsOf(Append(q, m)) = With(CmdsOf(q), m)
<1>. DEFINE r == Append(q, m)
<1>1. /\ Len(q) \in Nat /\ Len(r) = Len(q) + 1
      /\ r[Len(q) + 1] = m /\ \A i \in 1 .. Len(q) : q[i] = r[i]
  OBVIOUS
<1>. HIDE DEF r
<1>2. PICK f : Picks(f, q, Len(q)) /\ CmdsOf(q) = f[Len(q)]
  BY <1>1, CmdsPicked
<1>3. PICK g : Picks(g, r, Len(r)) /\ CmdsOf(r) = g[Len(r)]
  BY <1>1, CmdsPicked
<1>4. f[Len(q)] = g[Len(q)]
  BY <1>1, <1>2, <1>3, PicksAgree
<1>5. g[Len(r)] = With(g[Len(q)], m)
  BY <1>1, <1>3, PicksSteps
<1>. QED
  BY <1>2, <1>3, <1>4, <1>5 DEF r

LEMMA CmdsOfTail ==
  ASSUME NEW q \in Seq(Message), q # << >>
  PROVE  CmdsOf(q) = With(<< >>, Head(q)) \o CmdsOf(Tail(q))
<1>. DEFINE r == Tail(q)
            p == With(<< >>, Head(q))
<1>1. /\ r \in Seq(Message) /\ Len(q) \in Nat /\ Len(r) \in Nat /\ Len(q) = Len(r) + 1
      /\ Head(q) = q[1] /\ q[1] \in Message /\ \A i \in 1 .. Len(r) : r[i] = q[i + 1]
  OBVIOUS
<1>2. p \in Seq(Commands) /\ p = With(<< >>, q[1]) /\ << >> \in Seq(Commands)
  BY <1>1, WithType, EmptySeq
<1>. HIDE DEF r, p
<1>3. PICK f : Picks(f, q, Len(q)) /\ CmdsOf(q) = f[Len(q)]
  BY <1>1, CmdsPicked
<1>4. PICK g : Picks(g, r, Len(r)) /\ CmdsOf(r) = g[Len(r)]
  BY <1>1, CmdsPicked
<1>5. /\ f[0] = << >> /\ \A i \in 1 .. Len(q) : f[i] = With(f[i - 1], q[i])
      /\ g[0] = << >> /\ \A i \in 1 .. Len(r) : g[i] = With(g[i - 1], r[i])
  BY <1>1, <1>3, <1>4, PicksSteps
<1>6. \A i \in 0 .. Len(r) : g[i] \in Seq(Commands)
  BY <1>1, <1>4, PicksType
<1>. DEFINE N == {i \in Nat : i <= Len(r) => f[i + 1] = p \o g[i]}
<1>7. 0 \in N
  <2>1. f[1] = p
    <3>1. 1 \in 1 .. Len(q)
      BY <1>1
    <3>. QED
      BY <1>2, <1>5, <3>1
  <2>2. p \o << >> = p
    BY <1>2, ConcatEmptySeq
  <2>3. f[0 + 1] = p \o g[0]
    BY <1>5, <2>1, <2>2
  <2>. QED
    BY <2>3
<1>8. ASSUME NEW i \in N PROVE i + 1 \in N
  <2>. SUFFICES ASSUME i + 1 <= Len(r) PROVE f[i + 2] = p \o g[i + 1]
    OBVIOUS
  <2>1. f[i + 2] = With(f[i + 1], r[i + 1]) /\ g[i + 1] = With(g[i], r[i + 1])
    <3>1. /\ i + 1 \in 1 .. Len(r) /\ i + 2 \in 1 .. Len(q)
          /\ (i + 2) - 1 = i + 1 /\ (i + 1) - 1 = i /\ (i + 1) + 1 = i + 2
      BY <1>1
    <3>2. r[i + 1] = q[i + 2]
      BY <1>1, <3>1
    <3>3. f[i + 2] = With(f[i + 1], q[i + 2])
      BY <1>5, <3>1
    <3>4. g[i + 1] = With(g[i], r[i + 1])
      BY <1>5, <3>1
    <3>. QED
      BY <3>2, <3>3, <3>4
  <2>2. f[i + 1] = p \o g[i] /\ g[i] \in Seq(Commands) /\ r[i + 1] \in Message
    BY <1>1, <1>6
  <2>3. With(p \o g[i], r[i + 1]) = p \o With(g[i], r[i + 1])
    BY <1>2, <2>2, WithConcat
  <2>. HIDE DEF N
  <2>. QED
    BY <2>1, <2>2, <2>3
<1>9. N \subseteq Nat
  OBVIOUS
<1>. HIDE DEF N
<1>10. N = Nat
  BY <1>7, <1>8, <1>9, SetInduction
<1>11. f[Len(r) + 1] = p \o g[Len(r)]
  BY <1>1, <1>10 DEF N
<1>. QED
  BY <1>1, <1>3, <1>4, <1>11 DEF r, p
-----------------------------------------------------------------------------
(* What a send and a receive do to the commands of a queue. *)
LEMMA CmdsOfSent ==
  ASSUME NEW q \in Queue(Message), NEW m \in Message
  PROVE  \/ CmdsOf(Sent(q, m)) = With(CmdsOf(q), m)
         \/ CmdsOf(Sent(q, m)) = CmdsOf(q)
  BY CmdsOfAppend DEF Sent, Queue

LEMMA CmdsOfReceived ==
  ASSUME NEW q \in Queue(Message), HasMessage(q)
  PROVE  /\ CmdsOf(Received(q)) \in Seq(Commands)
         /\ IF "cmd" \in DOMAIN Head(q)
            THEN CmdsOf(q) = <<Head(q).cmd>> \o CmdsOf(Received(q))
            ELSE CmdsOf(q) = CmdsOf(Received(q))
<1>1. q \in Seq(Message) /\ q # << >> /\ Tail(q) \in Seq(Message)
  BY DEF Queue, HasMessage
<1>2. /\ CmdsOf(Tail(q)) \in Seq(Commands)
      /\ CmdsOf(q) = With(<< >>, Head(q)) \o CmdsOf(Tail(q))
  BY <1>1, CmdsType, CmdsOfTail
<1>3. "cmd" \in DOMAIN Head(q) => With(<< >>, Head(q)) = <<Head(q).cmd>>
  BY DEF With
<1>4. "cmd" \notin DOMAIN Head(q) => With(<< >>, Head(q)) = << >>
  BY DEF With
<1>. QED
  BY <1>2, <1>3, <1>4, ConcatEmptySeq DEF Received

(* The three parts of the channel. *)
LEMMA FlightType ==
  ASSUME TypeOK
  PROVE  /\ light_to_log \in Queue(Message) /\ temp_to_log \in Queue(Message)
         /\ CmdsOf(light_to_log) \in Seq(Commands)
         /\ log_to_light \in Seq(Commands)
         /\ CmdsOf(temp_to_log) \in Seq(Commands)
         /\ InFlight \in Seq(Commands)
<1>1. \A q : q \in Queue(TempMessage) \/ q \in Queue(LightMessage)
               => q \in Queue(Message) /\ q \in Seq(Message)
  <2>. SUFFICES ASSUME NEW S \in {TempMessage, LightMessage}, NEW q \in Queue(S)
                PROVE  q \in Queue(Message) /\ q \in Seq(Message)
    OBVIOUS
  <2>1. S \subseteq Message /\ q \in Seq(S) /\ Len(q) <= MaxMsg
    BY DEF Message, Queue
  <2>2. q \in Seq(Message)
    BY <2>1, SeqMonotonic
  <2>. QED
    BY <2>1, <2>2 DEF Queue
<1>2. /\ light_to_log \in Queue(Message) /\ temp_to_log \in Queue(Message)
      /\ light_to_log \in Seq(Message) /\ temp_to_log \in Seq(Message)
      /\ log_to_light \in Seq(Commands)
  BY <1>1 DEF TypeOK, Queue
<1>. QED
  BY <1>2, CmdsType, ConcatProperties DEF InFlight

(* Taking one element out of a sequence. *)
LEMMA RemoveOne ==
  ASSUME NEW p \in Seq(Commands), NEW k \in Commands, NEW s \in Seq(Commands)
  PROVE  LET q == p \o (<<k>> \o s)
         IN  \E i \in 1 .. Len(q) : p \o s = LightChannel!RemoveAt(q, i)
<1>. DEFINE t == <<k>> \o s
            q == p \o t
            i == Len(p) + 1
            a == SubSeq(q, 1, i - 1)
            b == SubSeq(q, i + 1, Len(q))
<1>1. /\ <<k>> \in Seq(Commands) /\ Len(<<k>>) = 1
      /\ Len(p) \in Nat /\ Len(s) \in Nat
  OBVIOUS
<1>2. /\ t \in Seq(Commands) /\ Len(t) = Len(s) + 1
      /\ \A j \in 2 .. Len(s) + 1 : t[j] = s[j - 1]
  BY <1>1, ConcatProperties
<1>. HIDE DEF t
<1>3. /\ q \in Seq(Commands) /\ Len(q) = Len(p) + Len(s) + 1
      /\ \A j \in 1 .. Len(p) : q[j] = p[j]
      /\ \A j \in 1 .. Len(s) : q[i + j] = s[j]
  <2>1. /\ q \in Seq(Commands) /\ Len(q) = Len(p) + Len(t)
        /\ \A j \in 1 .. Len(p) + Len(t) :
             q[j] = IF j <= Len(p) THEN p[j] ELSE t[j - Len(p)]
    BY <1>2, ConcatProperties
  <2>. HIDE DEF q
  <2>2. ASSUME NEW j \in 1 .. Len(s) PROVE q[i + j] = s[j]
    <3>1. i + j \in 1 .. Len(p) + Len(t) /\ ~(i + j <= Len(p)) /\ i + j - Len(p) = j + 1
      BY <1>1, <1>2
    <3>2. q[i + j] = t[j + 1]
      BY <2>1, <3>1
    <3>3. t[j + 1] = s[j]
      BY <1>1, <1>2
    <3>. QED
      BY <3>2, <3>3
  <2>. QED
    BY <1>1, <1>2, <2>1, <2>2
<1>. HIDE DEF q
<1>4. \A j \in 1 .. Len(q) : q[j] \in Commands
  BY <1>3, ElementOfSeq
<1>5. a = p
  <2>1. /\ a \in Seq(Commands) /\ Len(a) = Len(p)
        /\ \A j \in 1 .. Len(p) : a[j] = p[j]
    BY <1>1, <1>3, <1>4, SubSeqProperties
  <2>. HIDE DEF a
  <2>. QED
    BY <2>1, SeqEqual
<1>6. b = s
  <2>1. /\ b \in Seq(Commands) /\ Len(b) = Len(s)
        /\ \A j \in 1 .. Len(s) : b[j] = q[i + j]
    BY <1>1, <1>3, <1>4, SubSeqProperties
  <2>2. \A j \in 1 .. Len(s) : q[i + j] = s[j]
    BY <1>3
  <2>. HIDE DEF b
  <2>. QED
    BY <2>1, <2>2, SeqEqual
<1>7. i \in 1 .. Len(q) /\ LightChannel!RemoveAt(q, i) = a \o b
  BY <1>1, <1>3 DEF LightChannel!RemoveAt
<1>. QED
  BY <1>5, <1>6, <1>7 DEF q, t

(* A message that carries no command leaves those in flight alone. *)
LEMMA CmdsOfOther ==
  ASSUME NEW q \in Queue(Message), NEW m \in Message, "cmd" \notin DOMAIN m
  PROVE  CmdsOf(Sent(q, m)) = CmdsOf(q)
  BY CmdsOfSent DEF With

(* All messages but the requests of temp_task and the answers carry none. *)
LEMMA Wordless ==
  /\ Init_ \in Message /\ "cmd" \notin DOMAIN Init_
  /\ LightData \in Message /\ "cmd" \notin DOMAIN LightData
  /\ LightAsk \in Message /\ "cmd" \notin DOMAIN LightAsk
  /\ \A d \in BOOLEAN : Alert(d) \in Message /\ "cmd" \notin DOMAIN Alert(d)
  /\ \A u \in Units : /\ TempData(u) \in Message /\ "cmd" \notin DOMAIN TempData(u)
                      /\ TempAnswer(u) \in Message /\ "cmd" \notin DOMAIN TempAnswer(u)
<1>1. /\ "cmd" \notin DOMAIN Init_ /\ "cmd" \notin DOMAIN LightData
      /\ "cmd" \notin DOMAIN LightAsk
      /\ \A d \in BOOLEAN : "cmd" \notin DOMAIN Alert(d)
      /\ \A u \in Units : "cmd" \notin DOMAIN TempData(u) /\ "cmd" \notin DOMAIN TempAnswer(u)
  BY DEF Init_, LightData, LightAsk, Alert, TempData, TempAnswer
<1>2. /\ Init_ \in Message /\ LightData \in Message /\ LightAsk \in Message
      /\ \A d \in BOOLEAN : Alert(d) \in Message
      /\ \A u \in Units : TempData(u) \in Message /\ TempAnswer(u) \in Message
  BY DEF Message, TempMessage, LightMessage
<1>. QED
  BY <1>1, <1>2

(* The step of the channel that an action of the program is. *)
ChannelStep == LightChannel!FifoNext \/ UNCHANGED LightChannel!fifoVars

LEMMA Idle ==
  ASSUME Asking' = Asking, InFlight' = InFlight, Answered' = Answered
  PROVE  ChannelStep
  BY DEF ChannelStep, LightChannel!fifoVars

LEMMA Prepares ==
  ASSUME Asking', InFlight' = InFlight, Answered' = Answered
  PROVE  ChannelStep
  BY DEF ChannelStep, LightChannel!FifoNext, LightChannel!Prepare, LightChannel!Unanswered

LEMMA Asks ==
  ASSUME Asking, ~Asking', Answered' = Answered,
         InFlight' = InFlight \/ \E k \in Commands : InFlight' = Append(InFlight, k)
  PROVE  ChannelStep
<1>1. LightChannel!Unanswered
  BY DEF LightChannel!Unanswered
<1>2. CASE InFlight' = InFlight
  BY <1>1, <1>2 DEF ChannelStep, LightChannel!FifoNext, LightChannel!Lose
<1>3. CASE \E k \in Commands : InFlight' = Append(InFlight, k)
  BY <1>1, <1>3 DEF ChannelStep, LightChannel!FifoNext, LightChannel!Ask
<1>. QED
  BY <1>2, <1>3

LEMMA Loses ==
  ASSUME NEW p \in Seq(Commands), NEW k \in Commands, NEW s \in Seq(Commands),
         InFlight = p \o (<<k>> \o s), InFlight' = p \o s,
         Asking' = Asking, Answered' = Answered \/ Answered' = << >>
  PROVE  ChannelStep
<1>1. \E i \in 1 .. Len(InFlight) : InFlight' = LightChannel!RemoveAt(InFlight, i)
  BY RemoveOne
<1>2. LightChannel!Unanswered
  BY DEF LightChannel!Unanswered
<1>. QED
  BY <1>1, <1>2 DEF ChannelStep, LightChannel!FifoNext, LightChannel!Lose

LEMMA Delivers ==
  ASSUME NEW k \in Commands, NEW s \in Seq(Commands), InFlight = <<k>> \o s, InFlight' = s,
         Asking' = Asking, Answered' = <<k>>
  PROVE  ChannelStep
<1>1. <<k>> \in Seq(Commands) /\ Len(<<k>>) = 1 /\ Len(s) \in Nat
  OBVIOUS
<1>2. /\ InFlight \in Seq(Commands) /\ Len(InFlight) = Len(s) + 1 /\ InFlight[1] = k
      /\ \A i \in 1 .. Len(s) : InFlight[i + 1] = s[i]
  <2>1. /\ InFlight \in Seq(Commands) /\ Len(InFlight) = 1 + Len(s)
        /\ \A i \in 1 .. 1 + Len(s) : InFlight[i] = IF i <= 1 THEN <<k>>[i] ELSE s[i - 1]
    BY <1>1, ConcatProperties
  <2>. QED
    BY <1>1, <2>1
<1>3. InFlight # << >> /\ Head(InFlight) = k
  BY <1>1, <1>2
<1>4. Tail(InFlight) = s
  <2>1. /\ Tail(InFlight) \in Seq(Commands) /\ Len(Tail(InFlight)) = Len(s)
        /\ \A i \in 1 .. Len(s) : Tail(InFlight)[i] = InFlight[i + 1]
    BY <1>1, <1>2, <1>3, HeadTailProperties
  <2>. QED
    BY <1>2, <2>1, SeqEqual
<1>. QED
  BY <1>3, <1>4 DEF ChannelStep, LightChannel!FifoNext, LightChannel!Deliver

LEMMA Forgets ==
  ASSUME Asking' = Asking, InFlight' = InFlight, Answered' = << >>
  PROVE  ChannelStep
  BY DEF ChannelStep, LightChannel!FifoNext, LightChannel!Forget

(* Sequences, taken apart and regrouped. *)
LEMMA HeadTail ==
  ASSUME NEW S, NEW q \in Seq(S), q # << >>
  PROVE  Head(q) \in S /\ Tail(q) \in Seq(S) /\ q = <<Head(q)>> \o Tail(q)
<1>1. /\ Head(q) \in S /\ Tail(q) \in Seq(S) /\ Len(Tail(q)) = Len(q) - 1
      /\ \A i \in 1 .. Len(Tail(q)) : Tail(q)[i] = q[i + 1]
      /\ Head(q) = q[1] /\ Len(q) \in Nat
  BY HeadTailProperties
<1>. DEFINE h == <<Head(q)>>
            t == Tail(q)
<1>2. h \in Seq(S) /\ Len(h) = 1 /\ h[1] = q[1]
  BY <1>1
<1>. HIDE DEF h, t
<1>3. /\ h \o t \in Seq(S) /\ Len(h \o t) = Len(q)
      /\ \A i \in 1 .. Len(q) : (h \o t)[i] = IF i <= 1 THEN h[i] ELSE t[i - 1]
  <2>1. t \in Seq(S) /\ 1 + Len(t) = Len(q)
    BY <1>1 DEF t
  <2>2. /\ h \o t \in Seq(S) /\ Len(h \o t) = Len(h) + Len(t)
        /\ \A i \in 1 .. Len(h) + Len(t) :
             (h \o t)[i] = IF i <= Len(h) THEN h[i] ELSE t[i - Len(h)]
    BY <1>2, <2>1, ConcatProperties
  <2>. QED
    BY <1>2, <2>1, <2>2
<1>4. \A i \in 1 .. Len(q) : (h \o t)[i] = q[i]
  BY <1>1, <1>2, <1>3 DEF t
<1>. QED
  BY <1>1, <1>3, <1>4, SeqEqual DEF h, t

LEMMA AppendInside ==
  ASSUME NEW p \in Seq(Commands), NEW q \in Seq(Commands), NEW k \in Commands
  PROVE  p \o Append(q, k) = Append(p \o q, k)
<1>1. <<k>> \in Seq(Commands) /\ p \o q \in Seq(Commands)
  BY ConcatProperties
<1>. QED
  BY <1>1, AppendIsConcat, ConcatAssociative

LEMMA Regroup ==
  ASSUME NEW p \in Seq(Commands), NEW q \in Seq(Commands), NEW r \in Seq(Commands)
  PROVE  (p \o q) \o r = p \o (q \o r)
  BY ConcatAssociative

LEMMA AppendBefore ==
  ASSUME NEW p \in Seq(Commands), NEW k \in Commands, NEW s \in Seq(Commands)
  PROVE  Append(p, k) \o s = p \o (<<k>> \o s)
<1>1. <<k>> \in Seq(Commands) /\ Append(p, k) = p \o <<k>>
  BY AppendIsConcat
<1>. QED
  BY <1>1, Regroup

(* A request that finds log_to_light full is lost behind those in it. *)
LEMMA LosesWithin ==
  ASSUME NEW p \in Seq(Commands), NEW q \in Seq(Commands),
         NEW k \in Commands, NEW s \in Seq(Commands),
         InFlight = p \o (q \o (<<k>> \o s)), InFlight' = p \o (q \o s),
         Asking' = Asking, Answered' = Answered \/ Answered' = << >>
  PROVE  ChannelStep
<1>1. p \o q \in Seq(Commands) /\ <<k>> \o s \in Seq(Commands)
  <2>1. <<k>> \in Seq(Commands)
    OBVIOUS
  <2>. QED
    BY <2>1, ConcatProperties
<1>2. InFlight = (p \o q) \o (<<k>> \o s) /\ InFlight' = (p \o q) \o s
  BY <1>1, Regroup
<1>. QED
  BY <1>1, <1>2, Loses

(* What a request and an answer are about. *)
LEMMA RequestFields ==
  ASSUME NEW k \in Commands
  PROVE  /\ Request(k) \in Message /\ "cmd" \in DOMAIN Request(k) /\ Request(k).cmd = k
         /\ \A n : "cmd" \in DOMAIN Answer(k, n) /\ Answer(k, n).cmd = k
  BY DEF Message, TempMessage, Request, Answer

(* The temperature task asks, or its request finds temp_to_log full. *)
LEMMA TempStep == TypeOK /\ TempNext => ChannelStep
<1>. SUFFICES ASSUME TypeOK, TempNext PROVE ChannelStep
  OBVIOUS
<1>. USE FlightType
<1>1. TempNext => Answered' = Answered
  BY DEF TempNext, TempStart, TempSample, TempSense, TempRequest, TempReceive, TempReport,
         logVars, Answered
<1>2. ASSUME NEW m \in Message, "cmd" \notin DOMAIN m, TempSend(m),
             UNCHANGED <<light_to_log, log_to_light>>
      PROVE  InFlight' = InFlight
  BY <1>2, CmdsOfOther DEF TempSend, InFlight
<1>3. ASSUME NEW k \in Commands, TempSend(Request(k)),
             UNCHANGED <<light_to_log, log_to_light>>
      PROVE  InFlight' = InFlight \/ InFlight' = Append(InFlight, k)
  <2>1. \/ CmdsOf(temp_to_log') = CmdsOf(temp_to_log)
        \/ CmdsOf(temp_to_log') = Append(CmdsOf(temp_to_log), k)
    BY <1>3, RequestFields, CmdsOfSent DEF TempSend, With
  <2>2. log_to_light \o Append(CmdsOf(temp_to_log), k)
          = Append(log_to_light \o CmdsOf(temp_to_log), k)
    BY AppendInside
  <2>3. log_to_light \o CmdsOf(temp_to_log) \in Seq(Commands)
    BY ConcatProperties
  <2>4. CmdsOf(light_to_log) \o Append(log_to_light \o CmdsOf(temp_to_log), k)
          = Append(InFlight, k)
    BY <2>3, AppendInside DEF InFlight
  <2>. QED
    BY <1>3, <2>1, <2>2, <2>4 DEF InFlight
<1>4. CASE TempStart
  <2>1. InFlight' = InFlight
    BY <1>2, <1>4, Wordless DEF TempStart
  <2>. QED
    BY <1>1, <1>4, <2>1, Prepares DEF TempStart, TempNext, Asking
<1>5. CASE TempSample
  <2>1. Asking /\ ~Asking' /\ TempSend(Request(LUMEN)) /\ LUMEN \in Commands
        /\ UNCHANGED <<light_to_log, log_to_light>>
    BY <1>5, DataflowAssumption DEF TempSample, Asking
  <2>. QED
    BY <1>1, <1>3, <2>1, Asks
<1>6. CASE TempSense
  <2>1. InFlight' = InFlight
    BY <1>6 DEF TempSense, queues, InFlight
  <2>2. ~Asking /\ (~Asking' => Asking' = Asking)
    BY <1>6 DEF TempSense, Asking
  <2>3. CASE Asking'
    BY <1>1, <2>1, <2>3, Prepares
  <2>4. CASE ~Asking'
    BY <1>1, <2>1, <2>2, <2>4, Idle
  <2>. QED
    BY <2>3, <2>4
<1>7. CASE TempRequest
  <2>1. PICK k \in Commands : TempSend(Request(k))
    BY <1>7 DEF TempRequest
  <2>2. Asking /\ ~Asking' /\ UNCHANGED <<light_to_log, log_to_light>>
    BY <1>7 DEF TempRequest, Asking
  <2>. QED
    BY <1>1, <1>3, <2>1, <2>2, Asks
<1>8. CASE TempReceive
  <2>1. InFlight' = InFlight /\ Asking' = Asking
    BY <1>8 DEF TempReceive, InFlight, Asking
  <2>. QED
    BY <1>1, <2>1, Idle
<1>9. CASE TempReport
  <2>1. Latest \in Units
    BY LatestType DEF TypeOK
  <2>2. PICK m \in Message : "cmd" \notin DOMAIN m /\ TempSend(m)
    BY <1>9, <2>1, Wordless DEF TempReport
  <2>3. InFlight' = InFlight /\ Asking' = Asking
    BY <1>2, <1>9, <2>2 DEF TempReport, Asking
  <2>. QED
    BY <1>1, <2>3, Idle
<1>. QED
  BY <1>4, <1>5, <1>6, <1>7, <1>8, <1>9 DEF TempNext

(* The light task takes a command and answers it, which leaves the command *)
(* where it was in the channel, or loses it: no response, or no room.      *)
LEMMA LightStep == TypeOK /\ LightNext => ChannelStep
<1>. SUFFICES ASSUME TypeOK, LightNext PROVE ChannelStep
  OBVIOUS
<1>. USE FlightType
<1>1. Answered' = Answered /\ Asking' = Asking /\ temp_to_log' = temp_to_log
  BY DEF LightNext, LightStart, LightCycle, tempVars, logVars, Answered, Asking
<1>2. CASE LightStart
  <2>1. InFlight' = InFlight
    BY <1>1, <1>2, Wordless, CmdsOfOther DEF LightStart, InFlight
  <2>. QED
    BY <1>1, <2>1, Idle
<1>3. CASE LightCycle
  <2>1. PICK lumen \in Lumens \cup {FAIL} :
          \/ LightFails(lumen)
          \/ lumen \in Lumens /\ LightServe(lumen)
          \/ LightReport(lumen)
    BY <1>3 DEF LightCycle
  <2>2. CASE LightFails(lumen)
    BY <1>1, <2>2, Idle DEF LightFails, InFlight
  <2>3. CASE lumen \in Lumens /\ LightServe(lumen)
    <3>. DEFINE k == Head(log_to_light)
                d == IF k = LUMEN THEN lumen ELSE k
                rest == Tail(log_to_light)
                a == CmdsOf(light_to_log)
                c == CmdsOf(temp_to_log)
    <3>1. /\ k \in Commands /\ rest \in Seq(Commands)
          /\ log_to_light' = rest /\ log_to_light = <<k>> \o rest
      <4>1. log_to_light \in Seq(Commands) /\ log_to_light # << >> /\ log_to_light' = rest
        BY <2>3 DEF LightServe, HasMessage, Received
      <4>. QED
        BY <4>1, HeadTail
    <3>2. light_to_log' = Sent(light_to_log, Answer(k, d)) \/ light_to_log' = light_to_log
      BY <2>3 DEF LightServe
    <3>3. Answer(k, d) \in Message
      BY <2>3, <3>1 DEF Message, LightMessage
    <3>. HIDE DEF k, d, rest
    <3>4. CmdsOf(light_to_log') = Append(a, k) \/ CmdsOf(light_to_log') = a
      BY <3>1, <3>2, <3>3, RequestFields, CmdsOfSent DEF With
    <3>5. /\ rest \o c \in Seq(Commands) /\ <<k>> \in Seq(Commands)
          /\ log_to_light \o c = <<k>> \o (rest \o c)
      BY <3>1, ConcatProperties, ConcatAssociative
    <3>6. InFlight = a \o (<<k>> \o (rest \o c))
      BY <3>5 DEF InFlight
    <3>7. CASE CmdsOf(light_to_log') = Append(a, k)
      <4>1. InFlight' = Append(a, k) \o (rest \o c)
        BY <1>1, <3>1, <3>7 DEF InFlight
      <4>2. a \in Seq(Commands) /\ rest \o c \in Seq(Commands)
        BY <3>5
      <4>3. InFlight' = a \o (<<k>> \o (rest \o c))
        BY <3>1, <4>1, <4>2, AppendBefore
      <4>. QED
        BY <1>1, <3>6, <4>3, Idle
    <3>8. CASE CmdsOf(light_to_log') = a
      <4>1. InFlight' = a \o (rest \o c)
        BY <1>1, <3>1, <3>8 DEF InFlight
      <4>. HIDE DEF a, c
      <4>. QED
        BY <1>1, <3>1, <3>5, <3>6, <4>1, Loses DEF a
    <3>. QED
      BY <3>4, <3>7, <3>8
  <2>4. CASE LightReport(lumen)
    <3>1. PICK ask \in BOOLEAN, m \in Message :
            /\ "cmd" \notin DOMAIN m
            /\ light_to_log' = Sent(IF ask THEN Sent(light_to_log, LightAsk)
                                    ELSE light_to_log, m)
      BY <2>4, Wordless DEF LightReport
    <3>. DEFINE q == IF ask THEN Sent(light_to_log, LightAsk) ELSE light_to_log
    <3>2. q \in Queue(Message) /\ CmdsOf(q) = CmdsOf(light_to_log)
      BY Wordless, SentType, CmdsOfOther
    <3>3. CmdsOf(light_to_log') = CmdsOf(q)
      BY <3>1, <3>2, CmdsOfOther
    <3>4. log_to_light' = log_to_light
      BY <2>4 DEF LightReport
    <3>5. InFlight' = InFlight
      BY <1>1, <3>2, <3>3, <3>4 DEF InFlight
    <3>. QED
      BY <1>1, <3>5, Idle
  <2>. QED
    BY <2>1, <2>2, <2>3, <2>4
<1>. QED
  BY <1>2, <1>3 DEF LightNext

(* The log task moves a request on, or loses it; it writes the answer that *)
(* is first in the channel.                                                *)
LEMMA LogStep == TypeOK /\ LogNext => ChannelStep
<1>. SUFFICES ASSUME TypeOK, LogNext PROVE ChannelStep
  OBVIOUS
<1>. USE FlightType
<1>. DEFINE a == CmdsOf(light_to_log)
            c == CmdsOf(temp_to_log)
<1>1. ASSUME NEW next, LogTemp(next) PROVE ChannelStep
  <2>1. Answered' = << >> /\ Asking' = Asking /\ light_to_log' = light_to_log
    BY <1>1, TempLine DEF LogTemp, Answered, Asking
  <2>2. CASE ~HasMessage(temp_to_log)
    BY <1>1, <2>1, <2>2, Forgets DEF LogTemp, InFlight
  <2>3. CASE HasMessage(temp_to_log)
    <3>. DEFINE m == Head(temp_to_log)
                d == CmdsOf(Received(temp_to_log))
    <3>1. temp_to_log' = Received(temp_to_log) /\ d \in Seq(Commands)
      BY <1>1, <2>3, CmdsOfReceived DEF LogTemp
    <3>2. m \in TempMessage
      BY <2>3, ReceivedType DEF TypeOK
    <3>3. "cmd" \in DOMAIN m <=> m.type = "REQUEST"
      BY <3>2 DEF TempMessage, Init_, Request, TempData, TempAnswer
    <3>4. CASE m.type # "REQUEST"
      <4>1. log_to_light' = log_to_light
        BY <1>1, <2>3, <3>4 DEF LogTemp
      <4>2. d = c
        BY <2>3, <3>3, <3>4, CmdsOfReceived
      <4>3. InFlight' = InFlight
        BY <2>1, <3>1, <4>1, <4>2 DEF InFlight
      <4>. QED
        BY <2>1, <4>3, Forgets
    <3>5. CASE m.type = "REQUEST"
      <4>. DEFINE k == m.cmd
      <4>1. k \in Commands /\ log_to_light' = Sent(log_to_light, k)
        BY <1>1, <2>3, <3>2, <3>5, TempFields DEF LogTemp
      <4>2. c = <<k>> \o d
        BY <2>3, <3>3, <3>5, CmdsOfReceived
      <4>. HIDE DEF k, d, a, c
      <4>3. /\ a \in Seq(Commands) /\ c \in Seq(Commands) /\ <<k>> \in Seq(Commands)
            /\ InFlight = a \o (log_to_light \o (<<k>> \o d))
            /\ InFlight' = a \o (log_to_light' \o d)
        BY <2>1, <3>1, <4>1, <4>2 DEF InFlight, a, c, d
      <4>4. CASE log_to_light' = Append(log_to_light, k)
        <5>1. log_to_light \in Seq(Commands) /\ d \in Seq(Commands)
          BY <3>1
        <5>2. Append(log_to_light, k) \o d = log_to_light \o (<<k>> \o d)
          BY <4>1, <5>1, AppendBefore
        <5>3. log_to_light' \o d = log_to_light \o (<<k>> \o d)
          BY <4>4, <5>2
        <5>. QED
          BY <2>1, <4>3, <5>3, Forgets
      <4>5. CASE log_to_light' = log_to_light
        <5>1. InFlight' = a \o (log_to_light \o d)
          BY <4>3, <4>5
        <5>. QED
          BY <2>1, <3>1, <4>1, <4>3, <5>1, LosesWithin
      <4>. QED
        BY <4>1, <4>4, <4>5 DEF Sent
    <3>. QED
      BY <3>4, <3>5
  <2>. QED
    BY <2>2, <2>3
<1>2. CASE LogLight
  <2>1. Asking' = Asking /\ temp_to_log' = temp_to_log /\ log_to_light' = log_to_light
    BY <1>2 DEF LogLight, tempVars, Asking
  <2>2. CASE ~HasMessage(light_to_log)
    <3>1. light_to_log' = light_to_log /\ line' = NoLine
      BY <1>2, <2>2 DEF LogLight
    <3>2. InFlight' = InFlight
      BY <2>1, <3>1 DEF InFlight
    <3>3. Answered' = << >>
      BY <3>1 DEF NoLine, Answered
    <3>. QED
      BY <2>1, <3>2, <3>3, Forgets
  <2>3. CASE HasMessage(light_to_log)
    <3>. DEFINE m == Head(light_to_log)
                b == CmdsOf(Received(light_to_log))
    <3>1. light_to_log' = Received(light_to_log) /\ b \in Seq(Commands)
      BY <1>2, <2>3, CmdsOfReceived DEF LogLight
    <3>2. m \in LightMessage
      BY <2>3, ReceivedType DEF TypeOK
    <3>3. "cmd" \in DOMAIN m <=> m.type = "RESPONSE"
      BY <3>2 DEF LightMessage, Init_, LightData, LightAsk, Alert, Answer
    <3>4. CASE m.type # "RESPONSE"
      <4>1. line' = NoLine
        BY <1>2, <2>3, <3>4 DEF LogLight
      <4>2. b = a
        BY <2>3, <3>3, <3>4, CmdsOfReceived
      <4>3. Answered' = << >> /\ InFlight' = InFlight
        BY <2>1, <3>1, <4>1, <4>2 DEF NoLine, Answered, InFlight
      <4>. QED
        BY <2>1, <4>3, Forgets
    <3>5. CASE m.type = "RESPONSE"
      <4>. DEFINE k == m.cmd
      <4>1. k \in Commands
        BY <3>2, <3>5, LightFields
      <4>2. line' = [kind |-> "light answer", as |-> WrittenAs(m.data), cmd |-> k]
        BY <1>2, <2>3, <3>5 DEF LogLight
      <4>3. Answered' = <<k>>
        BY <4>2 DEF Answered
      <4>4. a = <<k>> \o b
        BY <2>3, <3>3, <3>5, CmdsOfReceived
      <4>. HIDE DEF k, b, a
      <4>5. /\ log_to_light \o c \in Seq(Commands) /\ <<k>> \in Seq(Commands)
            /\ InFlight = (<<k>> \o b) \o (log_to_light \o c)
            /\ InFlight' = b \o (log_to_light \o c)
        BY <2>1, <3>1, <4>1, <4>4, ConcatProperties DEF InFlight, a, b
      <4>6. InFlight = <<k>> \o (b \o (log_to_light \o c)) /\ InFlight' \in Seq(Commands)
        BY <3>1, <4>5, ConcatAssociative, ConcatProperties
      <4>. QED
        BY <2>1, <4>1, <4>3, <4>5, <4>6, Delivers
    <3>. QED
      BY <3>4, <3>5
  <2>. QED
    BY <2>2, <2>3
<1>. QED
  BY <1>1, <1>2 DEF LogNext, LogTempFirst, LogTempSecond

(* The data flow implements the lossy first-in-first-out channel: the      *)
(* commands of temp_task and their answers (message.c, the three queues    *)
(* between temp_task, log_task and light_task and back to the file) may be *)
(* lost, and are never repeated, invented or overtaken.                    *)
THEOREM LightChannelRefinement == Spec => ImplementsLightChannel
<1>1. Init => LightChannel!FifoInit
  BY CmdsOfEmpty DEF Init, NoLine, LightChannel!FifoInit, Asking, InFlight, Answered
<1>2. TypeOK /\ [Next]_vars => [LightChannel!FifoNext]_(LightChannel!fifoVars)
  <2>1. CASE UNCHANGED vars
    BY <2>1 DEF vars, tempVars, logVars, queues, LightChannel!fifoVars, Asking, InFlight, Answered
  <2>. QED
    BY <2>1, TempStep, LightStep, LogStep DEF Next, ChannelStep
<1>. QED
  BY <1>1, <1>2, TypeCorrect, PTL DEF Spec, ImplementsLightChannel, LightChannel!FifoSpec
=============================================================================
