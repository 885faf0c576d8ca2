-------------------------- MODULE SupervisionSafety -------------------------
(***************************************************************************)
(* Proofs of the safety properties of Supervision that relate the tasks,   *)
(* main, the log task and the handler: why a task is cancelled or told to  *)
(* stop, what an LED means, that a failure is final, what is still written *)
(* and lit once the cleanup has begun, and that a shutdown does not go on  *)
(* for ever.  They hold for every queue length, life limit, choice of      *)
(* faults and number of signals.                                           *)
(***************************************************************************)
EXTENDS SupervisionProofs
-----------------------------------------------------------------------------
(* Which steps change what.                                                *)

LEMMA ClosesAQueue == HandlerCloses => \E q \in Workers : CloseQueue(q)
  BY DEF HandlerCloses, HandlerCloseLog, HandlerCloseTemp, HandlerCloseLight, HandlerClose,
         Workers, Sensors

LEMMA ToMainChanges ==
  ASSUME [Next]_vars, toMain' # toMain
  PROVE  \/ TempComm \/ LightComm \/ MainRecv
         \/ CloseQueues \/ \E q \in Workers : CloseQueue(q)
<1>1. ~ \E t \in Workers : Die(t) \/ Lock(t) \/ TaskLoop(t)
  BY DEF Die, Lock, TaskLoop, queueVars
<1>2. ~ (TempSense \/ LightSense \/ LightExit)
  BY DEF TempSense, LightSense, Sense, LightExit, queueVars
<1>3. ~ (LogStart \/ LogMainQueue \/ LogAlert \/ LogGrace \/ LogCritical \/ LogData \/ LogWrite)
  BY DEF LogStart, LogMainQueue, LogAlert, LogGrace, LogCritical, LogData, LogWrite, queueVars
<1>4. ~ (MainLoop \/ MainCheckTemp \/ MainLamp \/ MainRelamp \/
         MainMiss \/ MainLife \/ MainJoin \/ UNCHANGED vars)
  BY DEF MainLoop, MainCheckTemp, MainLamp, MainRelamp, MainMiss, MainLife, MainJoin, vars,
         queueVars
<1>5. ~ (Sigint \/ HandlerNoHBTemp \/ HandlerNoHBLight \/ HandlerCancel \/ HandlerFlags
           \/ HandlerFclose)
  BY DEF Sigint, HandlerNoHBTemp, HandlerNoHBLight, HandlerReport, HandlerCancel, HandlerFlags,
         HandlerFclose, queueVars
<1>6. MainLinger => CloseQueues
  BY DEF MainLinger, queueVars
<1>. QED
  BY <1>1, <1>2, <1>3, <1>4, <1>5, <1>6, ClosesAQueue
  DEF Next, TempNext, LightNext, LogNext, MainNext, HandlerNext, HandlerCloses, Workers, Sensors

LEMMA MainToLogChanges ==
  ASSUME [Next]_vars, mainToLog' # mainToLog
  PROVE  \/ LogMainQueue \/ MainRecv \/ MainLife
         \/ HandlerNoHBTemp \/ HandlerNoHBLight
         \/ CloseQueues \/ \E q \in Workers : CloseQueue(q)
<1>1. ~ \E t \in Workers : Die(t) \/ Lock(t) \/ TaskLoop(t)
  BY DEF Die, Lock, TaskLoop, queueVars
<1>2. ~ (TempSense \/ LightSense \/ LightExit \/ TempComm \/ LightComm)
  BY DEF TempSense, LightSense, Sense, LightExit, TempComm, LightComm, Comm, queueVars
<1>3. ~ (LogStart \/ LogAlert \/ LogGrace \/ LogCritical \/ LogData \/ LogWrite)
  BY DEF LogStart, LogAlert, LogGrace, LogCritical, LogData, LogWrite, queueVars
<1>4. ~ (MainLoop \/ MainCheckTemp \/ MainLamp \/ MainRelamp \/
         MainMiss \/ MainJoin \/ Sigint \/ HandlerCancel \/ HandlerFlags \/ HandlerFclose
           \/ UNCHANGED vars)
  BY DEF MainLoop, MainCheckTemp, MainLamp, MainRelamp, MainMiss, MainJoin, Sigint,
         HandlerCancel, HandlerFlags, HandlerFclose, vars, queueVars
<1>5. MainLinger => CloseQueues
  BY DEF MainLinger, queueVars
<1>. QED
  BY <1>1, <1>2, <1>3, <1>4, <1>5, ClosesAQueue
  DEF Next, TempNext, LightNext, LogNext, MainNext, HandlerNext, HandlerCloses, Workers, Sensors

LEMMA CanceledChanges ==
  ASSUME [Next]_vars, canceled' # canceled
  PROVE  LogGrace \/ LogCritical \/ MainLinger \/ HandlerCancel
<1>1. ~ \E t \in Workers : Die(t) \/ Lock(t) \/ TaskLoop(t)
  BY DEF Die, Lock, TaskLoop, threadVars
<1>2. ~ (LogStart \/ LogMainQueue \/ LogAlert \/ LogData \/ LogWrite)
  BY DEF LogStart, LogMainQueue, LogAlert, LogData, LogWrite, threadVars
<1>3. ~ (MainLoop \/ MainCheckTemp \/ MainLamp \/ MainRelamp \/
         MainMiss \/ MainRecv \/ MainLife \/ MainJoin)
  BY DEF MainLoop, MainCheckTemp, MainLamp, MainRelamp, MainMiss, MainRecv, MainLife,
         MainJoin, threadVars
<1>4. ~ (Sigint \/ HandlerNoHBTemp \/ HandlerNoHBLight \/ HandlerCloses \/ HandlerFlags
           \/ HandlerFclose)
  BY DEF Sigint, HandlerNoHBTemp, HandlerNoHBLight, HandlerFlags, HandlerFclose, HandlerReport,
         HandlerCloses, HandlerCloseLog,
         HandlerCloseTemp, HandlerCloseLight, HandlerClose, threadVars
<1>5. ~ (TempSense \/ LightSense \/ TempComm \/ LightComm \/ LightExit)
  BY DEF TempSense, LightSense, TempComm, LightComm, LightExit, Sense, Comm, threadVars
<1>6. ~ UNCHANGED vars
  BY DEF vars, threadVars
<1>. QED
  BY <1>1, <1>2, <1>3, <1>4, <1>5, <1>6
  DEF Next, TempNext, LightNext, LogNext, MainNext, HandlerNext, HandlerCloses, Workers, Sensors

LEMMA FailureChanges ==
  ASSUME [Next]_vars, failure' # failure
  PROVE  TempSense \/ LightSense
<1>1. ~ \E t \in Workers : Die(t) \/ Lock(t) \/ TaskLoop(t)
  BY DEF Die, Lock, TaskLoop, taskVars
<1>2. ~ (LogStart \/ LogMainQueue \/ LogAlert \/ LogGrace \/ LogCritical \/ LogData \/
         LogWrite)
  BY DEF LogStart, LogMainQueue, LogAlert, LogGrace, LogCritical, LogData, LogWrite,
         taskVars
<1>3. ~ (MainLoop \/ MainCheckTemp \/ MainLamp \/ MainRelamp \/
         MainMiss \/ MainRecv \/ MainLife \/ MainLinger \/
         MainJoin)
  BY DEF MainLoop, MainCheckTemp, MainLamp, MainRelamp, MainMiss, MainRecv, MainLife,
         MainLinger, MainJoin, taskVars
<1>4. ~ (Sigint \/ HandlerNoHBTemp \/ HandlerNoHBLight \/ HandlerCancel \/ HandlerCloses
           \/ HandlerFlags \/ HandlerFclose)
  BY DEF Sigint, HandlerNoHBTemp, HandlerNoHBLight, HandlerCancel, HandlerFlags, HandlerFclose,
         HandlerReport, HandlerCloses, HandlerCloseLog,
         HandlerCloseTemp, HandlerCloseLight, HandlerClose,
         taskVars
<1>5. ~ (TempComm \/ LightComm \/ LightExit)
  BY DEF TempComm, LightComm, LightExit, Comm, taskVars
<1>6. ~ UNCHANGED vars
  BY DEF vars, taskVars
<1>. QED
  BY <1>1, <1>2, <1>3, <1>4, <1>5, <1>6
  DEF Next, TempNext, LightNext, LogNext, MainNext, HandlerNext, HandlerCloses, Workers, Sensors

LEMMA AliveChanges ==
  ASSUME [Next]_vars, alive' # alive
  PROVE  LogAlert \/ HandlerFlags
<1>1. ~ \E t \in Workers : Die(t) \/ Lock(t) \/ TaskLoop(t)
  BY DEF Die, Lock, TaskLoop, taskVars
<1>2. ~ (LogStart \/ LogMainQueue \/ LogGrace \/ LogCritical \/ LogData \/ LogWrite)
  BY DEF LogStart, LogMainQueue, LogGrace, LogCritical, LogData, LogWrite, taskVars
<1>3. ~ (MainLoop \/ MainCheckTemp \/ MainLamp \/ MainRelamp \/
         MainMiss \/ MainRecv \/ MainLife \/ MainLinger \/
         MainJoin)
  BY DEF MainLoop, MainCheckTemp, MainLamp, MainRelamp, MainMiss, MainRecv, MainLife,
         MainLinger, MainJoin, taskVars
<1>4. ~ (Sigint \/ HandlerNoHBTemp \/ HandlerNoHBLight \/ HandlerCancel \/ HandlerCloses
           \/ HandlerFclose)
  BY DEF Sigint, HandlerNoHBTemp, HandlerNoHBLight, HandlerCancel, HandlerFclose, HandlerReport,
         HandlerCloses, HandlerCloseLog,
         HandlerCloseTemp, HandlerCloseLight, HandlerClose,
         taskVars
<1>5. ~ (TempSense \/ LightSense \/ TempComm \/ LightComm \/ LightExit)
  BY DEF TempSense, LightSense, TempComm, LightComm, LightExit, Sense, Comm, taskVars
<1>6. ~ UNCHANGED vars
  BY DEF vars, taskVars
<1>. QED
  BY <1>1, <1>2, <1>3, <1>4, <1>5, <1>6
  DEF Next, TempNext, LightNext, LogNext, MainNext, HandlerNext, HandlerCloses, Workers, Sensors

LEMMA InHandChanges ==
  ASSUME [Next]_vars, inHand' # inHand
  PROVE  Die("log") \/ LogMainQueue \/ LogGrace \/ LogCritical
<1>1. ~ \E t \in Workers : Lock(t) \/ TaskLoop(t)
  BY DEF Lock, TaskLoop, logVars
<1>2. ~ (Die("temp") \/ Die("light"))
  BY DEF Die
<1>3. ~ (LogStart \/ LogAlert \/ LogData \/ LogWrite)
  BY DEF LogStart, LogAlert, LogData, LogWrite, logVars
<1>4. ~ (MainLoop \/ MainCheckTemp \/ MainLamp \/ MainRelamp \/
         MainMiss \/ MainRecv \/ MainLife \/ MainLinger \/
         MainJoin)
  BY DEF MainLoop, MainCheckTemp, MainLamp, MainRelamp, MainMiss, MainRecv, MainLife,
         MainLinger, MainJoin, logVars
<1>5. ~ (Sigint \/ HandlerNoHBTemp \/ HandlerNoHBLight \/ HandlerCancel \/ HandlerCloses
           \/ HandlerFlags \/ HandlerFclose)
  BY DEF Sigint, HandlerNoHBTemp, HandlerNoHBLight, HandlerCancel, HandlerFlags, HandlerFclose,
         HandlerReport, HandlerCloses, HandlerCloseLog,
         HandlerCloseTemp, HandlerCloseLight, HandlerClose,
         logVars
<1>6. ~ (TempSense \/ LightSense \/ TempComm \/ LightComm \/ LightExit)
  BY DEF TempSense, LightSense, TempComm, LightComm, LightExit, Sense, Comm, logVars
<1>7. ~ UNCHANGED vars
  BY DEF vars, logVars
<1>. QED
  BY <1>1, <1>2, <1>3, <1>4, <1>5, <1>6, <1>7
  DEF Next, TempNext, LightNext, LogNext, MainNext, HandlerNext, HandlerCloses, Workers, Sensors

LEMMA MainPcChanges ==
  ASSUME [Next]_vars, <<mainPc, watched>>' # <<mainPc, watched>>
  PROVE  MainNext
<1>1. ~ \E t \in Workers : Die(t) \/ Lock(t) \/ TaskLoop(t)
  BY DEF Die, Lock, TaskLoop, mainVars
<1>2. ~ (LogStart \/ LogMainQueue \/ LogAlert \/ LogGrace \/ LogCritical \/ LogData \/
         LogWrite)
  BY DEF LogStart, LogMainQueue, LogAlert, LogGrace, LogCritical, LogData, LogWrite,
         mainVars
<1>3. ~ (Sigint \/ HandlerNext)
  BY DEF Sigint, HandlerNext, HandlerNoHBTemp, HandlerNoHBLight, HandlerCancel, HandlerReport,
         HandlerCloseLog, HandlerCloseTemp, HandlerCloseLight, HandlerClose, HandlerFlags,
         HandlerFclose, mainVars
<1>4. ~ (TempSense \/ LightSense \/ TempComm \/ LightComm \/ LightExit \/ UNCHANGED vars)
  BY DEF TempSense, LightSense, TempComm, LightComm, LightExit, Sense, Comm, vars, mainVars
<1>. QED
  BY <1>1, <1>2, <1>3, <1>4
  DEF Next, TempNext, LightNext, LogNext, HandlerNext, Workers, Sensors

LEMMA LifeChanges ==
  ASSUME [Next]_vars, life' # life
  PROVE  MainMiss
<1>1. ~ \E t \in Workers : Die(t) \/ Lock(t) \/ TaskLoop(t)
  BY DEF Die, Lock, TaskLoop, mainVars
<1>2. ~ (LogStart \/ LogMainQueue \/ LogAlert \/ LogGrace \/ LogCritical \/ LogData \/
         LogWrite)
  BY DEF LogStart, LogMainQueue, LogAlert, LogGrace, LogCritical, LogData, LogWrite,
         mainVars
<1>3. ~ (MainLoop \/ MainCheckTemp \/ MainLamp \/ MainRelamp \/
         MainRecv \/ MainLife \/ MainLinger \/ MainJoin)
  BY DEF MainLoop, MainCheckTemp, MainLamp, MainRelamp, MainRecv, MainLife, MainLinger,
         MainJoin, mainVars
<1>4. ~ (Sigint \/ HandlerNoHBTemp \/ HandlerNoHBLight \/ HandlerCancel \/ HandlerCloses
           \/ HandlerFlags \/ HandlerFclose)
  BY DEF Sigint, HandlerNoHBTemp, HandlerNoHBLight, HandlerCancel, HandlerFlags, HandlerFclose,
         HandlerReport, HandlerCloses, HandlerCloseLog,
         HandlerCloseTemp, HandlerCloseLight, HandlerClose,
         mainVars
<1>5. ~ (TempSense \/ LightSense \/ TempComm \/ LightComm \/ LightExit)
  BY DEF TempSense, LightSense, TempComm, LightComm, LightExit, Sense, Comm, mainVars
<1>6. ~ UNCHANGED vars
  BY DEF vars, mainVars
<1>. QED
  BY <1>1, <1>2, <1>3, <1>4, <1>5, <1>6
  DEF Next, TempNext, LightNext, LogNext, MainNext, HandlerNext, HandlerCloses, Workers, Sensors

LEMMA LedChanges ==
  ASSUME [Next]_vars, led' # led
  PROVE  \/ MainLamp \/ MainLife \/ MainRelamp \/ MainLinger
         \/ HandlerFlags
<1>1. ~ \E t \in Workers : Die(t) \/ Lock(t) \/ TaskLoop(t)
  BY DEF Die, Lock, TaskLoop, mainVars
<1>2. ~ (LogStart \/ LogMainQueue \/ LogAlert \/ LogGrace \/ LogCritical \/ LogData \/
         LogWrite)
  BY DEF LogStart, LogMainQueue, LogAlert, LogGrace, LogCritical, LogData, LogWrite,
         mainVars
<1>3. ~ (MainLoop \/ MainCheckTemp \/ MainMiss \/ MainRecv \/ MainJoin)
  BY DEF MainLoop, MainCheckTemp, MainMiss, MainRecv, MainJoin, mainVars
<1>4. ~ (Sigint \/ HandlerNoHBTemp \/ HandlerNoHBLight \/ HandlerCancel \/ HandlerCloses
           \/ HandlerFclose)
  BY DEF Sigint, HandlerNoHBTemp, HandlerNoHBLight, HandlerCancel, HandlerFclose, HandlerReport,
         HandlerCloses, HandlerCloseLog,
         HandlerCloseTemp, HandlerCloseLight, HandlerClose,
         mainVars
<1>5. ~ (TempSense \/ LightSense \/ TempComm \/ LightComm \/ LightExit)
  BY DEF TempSense, LightSense, TempComm, LightComm, LightExit, Sense, Comm, mainVars
<1>6. ~ UNCHANGED vars
  BY DEF vars, mainVars
<1>. QED
  BY <1>1, <1>2, <1>3, <1>4, <1>5, <1>6
  DEF Next, TempNext, LightNext, LogNext, MainNext, HandlerNext, HandlerCloses, Workers, Sensors

LEMMA CaughtSignalChanges ==
  ASSUME [Next]_vars, caught_signal' # caught_signal
  PROVE  MainLinger \/ HandlerFlags
<1>1. ~ \E t \in Workers : Die(t) \/ Lock(t) \/ TaskLoop(t)
  BY DEF Die, Lock, TaskLoop, signalVars
<1>2. ~ (LogStart \/ LogMainQueue \/ LogAlert \/ LogGrace \/ LogCritical \/ LogData \/
         LogWrite)
  BY DEF LogStart, LogMainQueue, LogAlert, LogGrace, LogCritical, LogData, LogWrite,
         signalVars
<1>3. ~ (MainLoop \/ MainCheckTemp \/ MainLamp \/ MainRelamp \/
         MainMiss \/ MainRecv \/ MainLife \/ MainJoin)
  BY DEF MainLoop, MainCheckTemp, MainLamp, MainRelamp, MainMiss, MainRecv, MainLife,
         MainJoin, signalVars
<1>4. ~ (Sigint \/ HandlerNoHBTemp \/ HandlerNoHBLight \/ HandlerCancel \/ HandlerCloses
           \/ HandlerFclose)
  BY DEF Sigint, HandlerNoHBTemp, HandlerNoHBLight, HandlerCancel, HandlerFclose, HandlerReport,
         HandlerCloses, HandlerCloseLog,
         HandlerCloseTemp, HandlerCloseLight, HandlerClose,
         signalVars
<1>5. ~ (TempSense \/ LightSense \/ TempComm \/ LightComm \/ LightExit)
  BY DEF TempSense, LightSense, TempComm, LightComm, LightExit, Sense, Comm, signalVars
<1>6. ~ UNCHANGED vars
  BY DEF vars, signalVars
<1>. QED
  BY <1>1, <1>2, <1>3, <1>4, <1>5, <1>6
  DEF Next, TempNext, LightNext, LogNext, MainNext, HandlerNext, HandlerCloses, Workers, Sensors

LEMMA SignalsChanges ==
  ASSUME [Next]_vars, signals' # signals
  PROVE  Sigint
<1>1. ~ \E t \in Workers : Die(t) \/ Lock(t) \/ TaskLoop(t)
  BY DEF Die, Lock, TaskLoop, signalVars
<1>2. ~ (LogStart \/ LogMainQueue \/ LogAlert \/ LogGrace \/ LogCritical \/ LogData \/
         LogWrite)
  BY DEF LogStart, LogMainQueue, LogAlert, LogGrace, LogCritical, LogData, LogWrite,
         signalVars
<1>3. ~ (MainLoop \/ MainCheckTemp \/ MainLamp \/ MainRelamp \/
         MainMiss \/ MainRecv \/ MainLife \/ MainLinger \/
         MainJoin)
  BY DEF MainLoop, MainCheckTemp, MainLamp, MainRelamp, MainMiss, MainRecv, MainLife,
         MainLinger, MainJoin, signalVars
<1>4. ~ (HandlerNoHBTemp \/ HandlerNoHBLight \/ HandlerCancel \/ HandlerCloses
           \/ HandlerFlags \/ HandlerFclose)
  BY DEF HandlerNoHBTemp, HandlerNoHBLight, HandlerCancel, HandlerFlags, HandlerFclose,
         HandlerReport, HandlerCloses, HandlerCloseLog, HandlerCloseTemp, HandlerCloseLight, HandlerClose,
         signalVars
<1>5. ~ (TempSense \/ LightSense \/ TempComm \/ LightComm \/ LightExit)
  BY DEF TempSense, LightSense, TempComm, LightComm, LightExit, Sense, Comm, signalVars
<1>6. ~ UNCHANGED vars
  BY DEF vars, signalVars
<1>. QED
  BY <1>1, <1>2, <1>3, <1>4, <1>5, <1>6
  DEF Next, TempNext, LightNext, LogNext, MainNext, HandlerNext, HandlerCloses, Workers, Sensors

LEMMA HandlerChanges ==
  ASSUME [Next]_vars, handler' # handler
  PROVE  Sigint \/ HandlerNext
<1>1. ~ \E t \in Workers : Die(t) \/ Lock(t) \/ TaskLoop(t)
  BY DEF Die, Lock, TaskLoop, signalVars
<1>2. ~ (LogStart \/ LogMainQueue \/ LogAlert \/ LogGrace \/ LogCritical \/ LogData \/
         LogWrite)
  BY DEF LogStart, LogMainQueue, LogAlert, LogGrace, LogCritical, LogData, LogWrite,
         signalVars
<1>3. ~ (MainLoop \/ MainCheckTemp \/ MainLamp \/ MainRelamp \/
         MainMiss \/ MainRecv \/ MainLife \/ MainLinger \/
         MainJoin)
  BY DEF MainLoop, MainCheckTemp, MainLamp, MainRelamp, MainMiss, MainRecv, MainLife,
         MainLinger, MainJoin, signalVars
<1>4. ~ (TempSense \/ LightSense \/ TempComm \/ LightComm \/ LightExit)
  BY DEF TempSense, LightSense, TempComm, LightComm, LightExit, Sense, Comm, signalVars
<1>5. ~ UNCHANGED vars
  BY DEF vars, signalVars
<1>. QED
  BY <1>1, <1>2, <1>3, <1>4, <1>5
  DEF Next, TempNext, LightNext, LogNext, MainNext, Workers, Sensors

LEMMA FileChanges ==
  ASSUME [Next]_vars, file' # file
  PROVE  LogStart \/ MainLinger \/ HandlerFclose
<1>1. ~ \E t \in Workers : Die(t) \/ Lock(t) \/ TaskLoop(t)
  BY DEF Die, Lock, TaskLoop, logVars
<1>2. ~ (LogMainQueue \/ LogAlert \/ LogGrace \/ LogCritical \/ LogData \/ LogWrite)
  BY DEF LogMainQueue, LogAlert, LogGrace, LogCritical, LogData, LogWrite, logVars
<1>3. ~ (MainLoop \/ MainCheckTemp \/ MainLamp \/ MainRelamp \/
         MainMiss \/ MainRecv \/ MainLife \/ MainJoin)
  BY DEF MainLoop, MainCheckTemp, MainLamp, MainRelamp, MainMiss, MainRecv, MainLife,
         MainJoin, logVars
<1>4. ~ (Sigint \/ HandlerNoHBTemp \/ HandlerNoHBLight \/ HandlerCancel \/ HandlerCloses
           \/ HandlerFlags)
  BY DEF Sigint, HandlerNoHBTemp, HandlerNoHBLight, HandlerCancel, HandlerFlags, HandlerReport,
         HandlerCloses, HandlerCloseLog,
         HandlerCloseTemp, HandlerCloseLight, HandlerClose,
         logVars
<1>5. ~ (TempSense \/ LightSense \/ TempComm \/ LightComm \/ LightExit)
  BY DEF TempSense, LightSense, TempComm, LightComm, LightExit, Sense, Comm, logVars
<1>6. ~ UNCHANGED vars
  BY DEF vars, logVars
<1>. QED
  BY <1>1, <1>2, <1>3, <1>4, <1>5, <1>6
  DEF Next, TempNext, LightNext, LogNext, MainNext, HandlerNext, HandlerCloses, Workers, Sensors
-----------------------------------------------------------------------------
(* Causes.  A task is cancelled because of a report that may have waited   *)
(* in main_to_log, in the hands of the log task, or as a FAILURE in the    *)
(* task's own queue: the inductive invariant says of each of these places  *)
(* that what lies there is justified.                                      *)

TempCause  == failure["temp"] \/ signals > 0
LightCause == failure["light"] \/ signals > 0 \/ \E t \in Sensors : life[t] >= LifeLimit

Justified(r) ==
  /\ r.task = "temp" => TempCause
  /\ r.task = "light" => LightCause
  /\ r.level = "ALERT" => r.task = "light" /\ failure["light"]

ReportsJustified  == \A i \in 1 .. Len(mainToLog) : Justified(mainToLog[i])
InHandJustified   == inHand \in Report => Justified(inHand)
FailuresJustified ==
  \A t \in Sensors : \A i \in 1 .. Len(toMain[t]) : toMain[t][i] = "FAILURE" => failure[t]
HandlerJustified  ==
  /\ handler # "idle" \/ caught_signal = 1 => signals > 0
  /\ mainPc \in {"linger", "join"} => caught_signal = 1

CauseInv ==
  /\ ReportsJustified /\ InHandJustified /\ FailuresJustified /\ HandlerJustified
  /\ CanceledForCause

(* Causes never go away. *)
LEMMA CausesStay ==
  ASSUME TypeInv, [Next]_vars
  PROVE  /\ \A t \in Sensors : failure[t] => failure'[t]
         /\ \A t \in Sensors : life[t] >= LifeLimit => life'[t] >= LifeLimit
         /\ signals > 0 => signals' > 0
         /\ TempCause => TempCause'
         /\ LightCause => LightCause'
         /\ \A r \in Report : Justified(r) => Justified(r)'
<1>1. \A t \in Sensors : failure[t] => failure'[t]
  BY FailureChanges DEF TempSense, LightSense, Sense, TypeInv, TypeOK
<1>2. \A t \in Sensors : life[t] >= LifeLimit => life'[t] >= LifeLimit
  <2>1. CASE MainMiss
    BY <2>1, SupervisionAssumption DEF MainMiss, Bump, TypeInv, TypeOK
  <2>. QED
    BY <2>1, LifeChanges
<1>3. signals > 0 => signals' > 0
  BY SignalsChanges, SupervisionAssumption DEF Sigint, TypeInv, TypeOK
<1>4. (TempCause => TempCause') /\ (LightCause => LightCause')
  BY <1>1, <1>2, <1>3 DEF TempCause, LightCause, Sensors
<1>5. \A r \in Report : Justified(r) => Justified(r)'
  BY <1>1, <1>4 DEF Justified, Sensors
<1>. QED
  BY <1>1, <1>2, <1>3, <1>4, <1>5

(* What lies in a queue after mq_send and after mq_receive. *)
LEMMA SentElements ==
  ASSUME NEW S, NEW q \in Queue(S), NEW m \in S, NEW i \in 1 .. Len(Sent(q, m))
  PROVE  Sent(q, m)[i] = m \/ (i \in 1 .. Len(q) /\ Sent(q, m)[i] = q[i])
  BY MaxMsgAssumption DEF Sent, Queue

LEMMA ReceivedElements ==
  ASSUME NEW S, NEW q \in Queue(S), HasMessage(q)
  PROVE  /\ 1 \in 1 .. Len(q) /\ Head(q) = q[1]
         /\ \A i \in 1 .. Len(Received(q)) :
              i + 1 \in 1 .. Len(q) /\ Received(q)[i] = q[i + 1]
  BY MaxMsgAssumption DEF Received, HasMessage, Queue

LEMMA QueueElements ==
  ASSUME NEW S, NEW q \in Queue(S), NEW i \in 1 .. Len(q)
  PROVE  q[i] \in S
  BY DEF Queue

(* It is enough for the reports in main_to_log to be justified that each   *)
(* is new and justified, or was there before.                              *)
LEMMA ReportsKept ==
  ASSUME TypeInv, [Next]_vars, ReportsJustified,
         \A j \in 1 .. Len(mainToLog') : \A x :
           x = mainToLog'[j] => Justified(x)' \/ \E i \in 1 .. Len(mainToLog) : x = mainToLog[i]
  PROVE  ReportsJustified'
<1>. SUFFICES ASSUME NEW j \in 1 .. Len(mainToLog'), NEW x, x = mainToLog'[j]
              PROVE  Justified(x)'
  BY DEF ReportsJustified, Justified
<1>1. CASE \E i \in 1 .. Len(mainToLog) : x = mainToLog[i]
  <2>1. x \in Report /\ Justified(x)
    BY <1>1, QueueElements DEF ReportsJustified, TypeInv, TypeOK
  <2>. QED
    BY <2>1, CausesStay
<1>. QED
  BY <1>1

(* A report sent to the log task is added to what waits there. *)
LEMMA ReportSent ==
  ASSUME TypeInv, [Next]_vars, ReportsJustified,
         NEW r \in Report, ToLog(r), Justified(r)'
  PROVE  ReportsJustified'
<1>1. mainToLog \in Queue(Report)
  BY DEF TypeInv, TypeOK
<1>2. ASSUME NEW j \in 1 .. Len(mainToLog'), NEW x, x = mainToLog'[j]
      PROVE  x = r \/ \E i \in 1 .. Len(mainToLog) : x = mainToLog[i]
  <2>1. CASE mainToLog' = mainToLog
    BY <1>2, <2>1
  <2>2. CASE mainToLog' = Sent(mainToLog, r)
    BY <1>1, <1>2, <2>2, SentElements
  <2>. QED
    BY <2>1, <2>2 DEF ToLog
<1>. QED
  BY <1>2, ReportsKept

LEMMA ReportsStep ==
  ASSUME TypeInv, CauseInv, [Next]_vars
  PROVE  ReportsJustified'
<1>. USE DEF CauseInv
<1>1. CASE mainToLog' = mainToLog
  BY <1>1, ReportsKept
<1>2. CASE CloseQueues \/ \E q \in Workers : CloseQueue(q)
  <2>1. mainToLog' = << >> \/ mainToLog' = mainToLog
    BY <1>2 DEF CloseQueues, CloseQueue
  <2>. QED
    BY <1>1, <2>1 DEF ReportsJustified
<1>3. CASE LogMainQueue /\ mainToLog' # mainToLog
  <2>1. mainToLog \in Queue(Report) /\ HasMessage(mainToLog) /\ mainToLog' = Received(mainToLog)
    BY <1>3 DEF LogMainQueue, TypeInv, TypeOK
  <2>2. \A j \in 1 .. Len(mainToLog') :
          j + 1 \in 1 .. Len(mainToLog) /\ mainToLog'[j] = mainToLog[j + 1]
    BY <2>1, ReceivedElements
  <2>. QED
    BY <2>2, ReportsKept
<1>4. CASE MainRecv
  <2>1. CASE Head(toMain[watched]) = "FAILURE"
    <3>1. watched \in Sensors /\ toMain[watched] \in Queue({"HEART_BEAT", "FAILURE"})
      BY <1>4 DEF MainRecv, Main, TypeInv, TypeOK, WatchesSensor
    <3>2. failure[watched] /\ failure'[watched]
      BY <1>4, <2>1, <3>1, ReceivedElements, CausesStay DEF MainRecv, FailuresJustified
    <3>3. /\ FailureReport[watched] \in Report
          /\ FailureReport[watched].task = watched
          /\ FailureReport[watched].level = "ALERT" => watched = "light"
      BY <3>1 DEF FailureReport, Report, Sensors
    <3>4. ASSUME NEW r \in Report, r.task = watched, r.level = "ALERT" => watched = "light"
          PROVE  Justified(r)'
      BY <3>2, <3>4 DEF Justified, TempCause, LightCause
    <3>. QED
      BY <1>4, <2>1, <3>3, <3>4, ReportSent DEF MainRecv
  <2>2. CASE Head(toMain[watched]) # "FAILURE"
    BY <1>1, <1>4, <2>2 DEF MainRecv
  <2>. QED
    BY <2>1, <2>2
<1>5. CASE MainLife
  <2>1. CASE life[watched] = LifeLimit
    <3>1. watched \in Sensors /\ life[watched] >= LifeLimit
      BY <1>5, <2>1, SupervisionAssumption DEF MainLife, Main, TypeInv, TypeOK, WatchesSensor
    <3>2. LightCause'
      BY <3>1, CausesStay DEF LightCause
    <3>3. [level |-> "CRITICAL", task |-> "light"] \in Report
      BY DEF Report, Sensors
    <3>4. SilenceReport[watched] = [level |-> "CRITICAL", task |-> "light"]
      BY <3>1 DEF SilenceReport, Sensors
    <3>5. ASSUME NEW r, r = [level |-> "CRITICAL", task |-> "light"] PROVE Justified(r)'
      BY <3>2, <3>5 DEF Justified
    <3>. QED
      BY <1>5, <2>1, <3>3, <3>4, <3>5, ReportSent DEF MainLife
  <2>2. CASE life[watched] # LifeLimit
    BY <1>1, <1>5, <2>2 DEF MainLife
  <2>. QED
    BY <2>1, <2>2
<1>6. CASE HandlerNoHBTemp \/ HandlerNoHBLight
  <2>1. signals' > 0
    BY <1>6, CausesStay
    DEF HandlerNoHBTemp, HandlerNoHBLight, HandlerReport, Handler, HandlerJustified
  <2>2. PICK t \in Sensors : ToLog([level |-> "CRITICAL", task |-> t])
    BY <1>6 DEF HandlerNoHBTemp, HandlerNoHBLight, HandlerReport, Sensors
  <2>3. PICK r : r = [level |-> "CRITICAL", task |-> t]
    OBVIOUS
  <2>4. r \in Report
    BY <2>3 DEF Report
  <2>5. Justified(r)'
    BY <2>1, <2>3 DEF Justified, TempCause, LightCause
  <2>. QED
    BY <2>2, <2>3, <2>4, <2>5, ReportSent
<1>. QED
  BY <1>1, <1>2, <1>3, <1>4, <1>5, <1>6, MainToLogChanges

LEMMA InHandStep ==
  ASSUME TypeInv, CauseInv, [Next]_vars
  PROVE  InHandJustified'
<1>. USE DEF CauseInv
<1>. SUFFICES ASSUME NEW r, r = inHand', r \in Report PROVE Justified(r)'
  BY DEF InHandJustified, Justified
<1>1. CASE inHand' = inHand
  BY <1>1, CausesStay DEF InHandJustified
<1>2. CASE inHand' = NoReport
  BY <1>2 DEF NoReport, Report
<1>3. CASE LogMainQueue /\ inHand' # inHand
  <2>1. mainToLog \in Queue(Report) /\ HasMessage(mainToLog) /\ r = Head(mainToLog)
    BY <1>3 DEF LogMainQueue, TypeInv, TypeOK
  <2>2. 1 \in 1 .. Len(mainToLog) /\ r = mainToLog[1]
    BY <2>1, ReceivedElements
  <2>. QED
    BY <2>2, CausesStay DEF ReportsJustified
<1>. QED
  BY <1>1, <1>2, <1>3, InHandChanges DEF Die, LogGrace, LogCritical

(* The FAILURE messages of a task in its queue to main are true, and no    *)
(* heartbeat follows one.                                                  *)
LEMMA CommStep ==
  ASSUME TypeInv, FailuresJustified, FailureIsFinal, [Next]_vars, NEW t \in Sensors, Comm(t)
  PROVE  FailuresJustified' /\ FailureIsFinal'
<1>1. /\ \A u \in Sensors \ {t} : toMain'[u] = toMain[u]
      /\ failure' = failure
  BY DEF Comm, taskVars, TypeInv, TypeOK
<1>2. PICK m \in {"HEART_BEAT", "FAILURE"} :
        /\ m = "FAILURE" <=> failure[t]
        /\ toMain'[t] = Sent(toMain[t], m) \/ toMain'[t] = toMain[t]
  BY DEF Comm, TypeInv, TypeOK
<1>3. toMain[t] \in Queue({"HEART_BEAT", "FAILURE"})
  BY DEF TypeInv, TypeOK
<1>4. \A i \in 1 .. Len(toMain'[t]) : toMain'[t][i] = "FAILURE" => failure[t]
  BY <1>2, <1>3, SentElements DEF FailuresJustified
<1>5. FailuresJustified'
  BY <1>1, <1>4 DEF FailuresJustified
<1>6. ASSUME NEW i \in 1 .. Len(toMain'[t]), NEW j \in 1 .. Len(toMain'[t]), i < j,
             toMain'[t][i] = "FAILURE"
      PROVE  toMain'[t][j] = "FAILURE"
  <2>1. CASE toMain'[t] = toMain[t]
    BY <1>6, <2>1 DEF FailureIsFinal
  <2>2. CASE toMain'[t] = Sent(toMain[t], m)
    <3>1. m = "FAILURE"
      BY <1>2, <1>4, <1>6
    <3>2. CASE toMain'[t][j] = m
      BY <3>1, <3>2
    <3>3. CASE j \in 1 .. Len(toMain[t]) /\ toMain'[t][j] = toMain[t][j]
      <4>1. i \in 1 .. Len(toMain[t]) /\ toMain[t][i] = "FAILURE"
        BY <1>3, <1>6, <2>2, <3>3 DEF Sent, Queue
      <4>. QED
        BY <1>6, <3>3, <4>1 DEF FailureIsFinal
    <3>. QED
      BY <1>3, <1>6, <2>2, <3>2, <3>3, SentElements
  <2>. QED
    BY <1>2, <2>1, <2>2
<1>. QED
  BY <1>1, <1>5, <1>6 DEF FailureIsFinal

LEMMA FailuresStep ==
  ASSUME TypeInv, FailuresJustified, FailureIsFinal, [Next]_vars
  PROVE  FailuresJustified' /\ FailureIsFinal'
<1>1. CASE toMain' = toMain
  BY <1>1, CausesStay DEF FailuresJustified, FailureIsFinal
<1>2. CASE TempComm \/ LightComm
  BY <1>2, CommStep DEF TempComm, LightComm, Sensors
<1>3. CASE MainRecv
  <2>1. watched \in Sensors /\ toMain[watched] \in Queue({"HEART_BEAT", "FAILURE"})
    BY <1>3 DEF MainRecv, Main, TypeInv, TypeOK, WatchesSensor
  <2>2. /\ toMain'[watched] = Received(toMain[watched])
        /\ \A u \in Sensors \ {watched} : toMain'[u] = toMain[u]
        /\ failure' = failure
    BY <1>3, <2>1 DEF MainRecv, taskVars, TypeInv, TypeOK
  <2>3. \A i \in 1 .. Len(toMain'[watched]) :
          /\ i + 1 \in 1 .. Len(toMain[watched])
          /\ toMain'[watched][i] = toMain[watched][i + 1]
    <3>1. HasMessage(toMain[watched])
      BY <1>3 DEF MainRecv
    <3>. QED
      BY <2>1, <2>2, <3>1, ReceivedElements
  <2>4. FailuresJustified'
    BY <2>2, <2>3 DEF FailuresJustified
  <2>5. ASSUME NEW i \in 1 .. Len(toMain'[watched]), NEW j \in 1 .. Len(toMain'[watched]),
               i < j, toMain'[watched][i] = "FAILURE"
        PROVE  toMain'[watched][j] = "FAILURE"
    <3>1. /\ i + 1 \in 1 .. Len(toMain[watched]) /\ j + 1 \in 1 .. Len(toMain[watched])
          /\ toMain[watched][i + 1] = "FAILURE" /\ i + 1 < j + 1
      BY <2>3, <2>5
    <3>. QED
      BY <2>1, <2>3, <3>1 DEF FailureIsFinal
  <2>. QED
    BY <2>2, <2>4, <2>5 DEF FailureIsFinal
<1>4. CASE CloseQueues \/ \E q \in Workers : CloseQueue(q)
  <2>1. \A t \in Sensors : toMain'[t] = << >> \/ toMain'[t] = toMain[t]
    BY <1>4 DEF CloseQueues, CloseQueue
  <2>2. \A t \in Sensors : failure[t] => failure'[t]
    BY CausesStay
  <2>. QED
    BY <2>1, <2>2 DEF FailuresJustified, FailureIsFinal
<1>. QED
  BY <1>1, <1>2, <1>3, <1>4, ToMainChanges

LEMMA HandlerStep ==
  ASSUME TypeInv, HandlerJustified, [Next]_vars
  PROVE  HandlerJustified'
<1>. USE DEF HandlerJustified
<1>1. handler' # "idle" => signals' > 0
  <2>1. CASE Sigint
    BY <2>1 DEF Sigint, TypeInv, TypeOK
  <2>2. CASE handler' = handler
    BY <2>2, CausesStay
  <2>3. CASE HandlerNext
    BY <2>3, CausesStay
    DEF HandlerNext, HandlerNoHBTemp, HandlerNoHBLight, HandlerReport, HandlerCancel,
        HandlerCloseLog, HandlerCloseTemp, HandlerCloseLight, HandlerClose, HandlerFlags,
        HandlerFclose, Handler
  <2>. QED
    BY <2>1, <2>2, <2>3, HandlerChanges
<1>2. caught_signal' = 1 => signals' > 0
  <2>1. CASE MainLinger
    BY <2>1, CausesStay DEF MainLinger, Main
  <2>2. CASE HandlerFlags
    BY <2>2, CausesStay DEF HandlerFlags, Handler
  <2>3. CASE caught_signal' = caught_signal
    BY <2>3, CausesStay
  <2>. QED
    BY <2>1, <2>2, <2>3, CaughtSignalChanges
<1>3. mainPc' \in {"linger", "join"} => caught_signal' = 1
  <2>1. caught_signal = 1 => caught_signal' = 1
    BY CaughtSignalChanges DEF MainLinger, HandlerFlags
  <2>2. CASE mainPc' = mainPc
    BY <2>1, <2>2
  <2>3. CASE MainLoop
    BY <2>3 DEF MainLoop, NextTask, signalVars, TypeInv, TypeOK
  <2>4. CASE MainCheckTemp \/ MainMiss \/ MainRecv \/ MainLamp \/ MainLife \/ MainRelamp
    BY <2>4 DEF MainCheckTemp, MainMiss, MainRecv, MainLamp, MainLife, MainRelamp, NextTask
  <2>5. CASE MainLinger \/ MainJoin
    BY <2>1, <2>5 DEF MainLinger, MainJoin, Main
  <2>. QED
    BY <2>2, <2>3, <2>4, <2>5, MainPcChanges DEF MainNext
<1>. QED
  BY <1>1, <1>2, <1>3

LEMMA CanceledStep ==
  ASSUME TypeInv, CauseInv, [Next]_vars
  PROVE  CanceledForCause'
<1>1. /\ "temp" \in canceled => TempCause'
      /\ "light" \in canceled => LightCause'
      /\ "log" \in canceled => signals' > 0
  BY CausesStay DEF CauseInv, CanceledForCause, TempCause, LightCause
<1>2. CASE canceled' = canceled
  BY <1>1, <1>2 DEF CanceledForCause, TempCause, LightCause
<1>3. CASE LogGrace \/ LogCritical
  <2>1. inHand \in Report /\ canceled' = canceled \cup {inHand.task}
    BY <1>3 DEF LogGrace, LogCritical, At, TypeInv, ReportInHand
  <2>2. inHand.task \in Sensors
    BY <2>1, ReportFields
  <2>3. /\ inHand.task = "temp" => TempCause
        /\ inHand.task = "light" => LightCause
    BY <2>1 DEF CauseInv, InHandJustified, Justified
  <2>4. (TempCause => TempCause') /\ (LightCause => LightCause')
    BY CausesStay
  <2>. QED
    BY <1>1, <2>1, <2>2, <2>3, <2>4 DEF CanceledForCause, TempCause, LightCause, Sensors
<1>4. CASE HandlerCancel \/ (MainLinger /\ canceled' # canceled)
  <2>1. signals > 0
    BY <1>4 DEF HandlerCancel, Handler, MainLinger, Main, CauseInv, HandlerJustified
  <2>2. signals' > 0
    BY <2>1, CausesStay
  <2>. QED
    BY <2>2 DEF CanceledForCause
<1>. QED
  BY <1>2, <1>3, <1>4, CanceledChanges

LEMMA CauseInvariant == Spec => [](CauseInv /\ FailureIsFinal)
<1>1. Init => CauseInv /\ FailureIsFinal
  <2>1. ASSUME Init PROVE ReportsJustified /\ FailuresJustified /\ FailureIsFinal
    BY <2>1 DEF Init, ReportsJustified, FailuresJustified, FailureIsFinal
  <2>2. ASSUME Init PROVE InHandJustified /\ HandlerJustified /\ CanceledForCause
    BY <2>2 DEF Init, InHandJustified, NoReport, Report, HandlerJustified, CanceledForCause
  <2>. QED
    BY <2>1, <2>2 DEF CauseInv
<1>2. TypeInv /\ CauseInv /\ FailureIsFinal /\ [Next]_vars => (CauseInv /\ FailureIsFinal)'
  BY ReportsStep, InHandStep, FailuresStep, HandlerStep, CanceledStep DEF CauseInv
<1>. QED
  BY <1>1, <1>2, TypeInvariant, PTL DEF Spec

(* No thread is cancelled without a cause: a sensor that failed, a task    *)
(* that missed LifeLimit polls, or a SIGINT - across the report of a task, *)
(* the queue to main, main, the queue to the log task and the log task.    *)
THEOREM CancellationHasACause == Spec => []CanceledForCause
<1>1. CauseInv /\ FailureIsFinal => CanceledForCause
  BY DEF CauseInv
<1>. QED
  BY <1>1, CauseInvariant, PTL

(* A task that has reported a failure never sends a heartbeat again, so    *)
(* main cannot take a failed sensor for a working one.                     *)
THEOREM FailuresAreFinal == Spec => []FailureIsFinal
  BY CauseInvariant, PTL

(* A task is told to stop only by the handler or for a light sensor that   *)
(* failed: the log task gets an ALERT of main for no other reason.         *)
StopsJustified ==
  \A t \in Workers :
    alive[t] = 1 => caught_signal = 1 \/ (t = "light" /\ failure["light"])

LEMMA StopStep ==
  ASSUME TypeInv, CauseInv, StopsJustified, [Next]_vars
  PROVE  StopsJustified'
<1>1. caught_signal = 1 => caught_signal' = 1
  BY CaughtSignalChanges DEF MainLinger, HandlerFlags
<1>2. failure["light"] => failure'["light"]
  BY CausesStay DEF Sensors
<1>3. CASE alive' = alive
  BY <1>1, <1>2, <1>3 DEF StopsJustified
<1>4. CASE LogAlert
  <2>1. inHand \in Report /\ inHand.level = "ALERT"
    BY <1>4 DEF LogAlert, At, TypeInv, ReportInHand
  <2>2. inHand.task = "light" /\ failure["light"]
    BY <2>1 DEF CauseInv, InHandJustified, Justified
  <2>3. alive' = [alive EXCEPT !["light"] = 1]
    BY <1>4, <2>2 DEF LogAlert
  <2>. QED
    BY <1>1, <1>2, <2>2, <2>3 DEF StopsJustified, TypeInv, TypeOK
<1>5. CASE HandlerFlags
  BY <1>5 DEF HandlerFlags, StopsJustified
<1>. QED
  BY <1>3, <1>4, <1>5, AliveChanges

(* A task is told to stop only by the handler, or by the log task because  *)
(* its sensor failed: a task that is merely silent is not, and the log     *)
(* task never.                                                             *)
THEOREM StopsHaveACause == Spec => []StoppedForCause
<1>1. Init => StopsJustified
  BY DEF Init, StopsJustified
<1>2. StopsJustified => StoppedForCause
  BY DEF StopsJustified, StoppedForCause, Sensors
<1>. QED
  BY <1>1, <1>2, StopStep, TypeInvariant, CauseInvariant, PTL DEF Spec

(* When main is about to turn an LED on it still has the reason to,        *)
(* though the handler may have cleaned up since.                           *)
LampJustified ==
  /\ mainPc = "lamp" => failure[watched]
  /\ mainPc = "relamp" => life[watched] >= LifeLimit

LEMMA LampStep ==
  ASSUME TypeInv, CauseInv, LampJustified, [Next]_vars
  PROVE  LampJustified'
<1>1. mainPc \in {"lamp", "relamp"} => watched \in Sensors
  BY DEF TypeInv, WatchesSensor
<1>2. CASE UNCHANGED <<mainPc, watched>>
  BY <1>1, <1>2, CausesStay DEF LampJustified
<1>3. CASE MainRecv
  <2>1. watched \in Sensors /\ toMain[watched] \in Queue({"HEART_BEAT", "FAILURE"})
    BY <1>3 DEF MainRecv, Main, TypeInv, TypeOK, WatchesSensor
  <2>2. Head(toMain[watched]) = "FAILURE" => failure'[watched]
    BY <1>3, <2>1, ReceivedElements, CausesStay DEF MainRecv, CauseInv, FailuresJustified
  <2>. QED
    BY <1>3, <2>2 DEF MainRecv, LampJustified
<1>4. CASE MainLife
  <2>1. life' = life /\ (life[watched] = LifeLimit => life[watched] >= LifeLimit)
    BY <1>4, SupervisionAssumption DEF MainLife
  <2>. QED
    BY <1>4, <2>1 DEF MainLife, NextTask, LampJustified
<1>5. CASE \/ MainLoop \/ MainCheckTemp \/ MainMiss \/ MainLamp \/ MainRelamp
           \/ MainLinger \/ MainJoin
  BY <1>5 DEF MainLoop, MainCheckTemp, MainMiss, MainLamp, MainRelamp, MainLinger, MainJoin,
              Main, NextTask, LampJustified
<1>. QED
  BY <1>2, <1>3, <1>4, <1>5, MainPcChanges DEF MainNext

(* An LED that is on, of the task it belongs to. *)
LedMeansTrouble ==
  \A t \in Sensors : led[LedOf[t]] => failure[t] \/ life[t] >= LifeLimit

LEMMA LedStep ==
  ASSUME TypeInv, LampJustified, LedMeansTrouble, [Next]_vars
  PROVE  LedMeansTrouble'
<1>1. CASE led' = led
  BY <1>1, CausesStay DEF LedMeansTrouble
<1>2. ASSUME NEW t \in Sensors, LedOn(t), failure'[t] \/ life'[t] >= LifeLimit
      PROVE  LedMeansTrouble'
  BY <1>2, CausesStay DEF LedOn, LedOf, LedMeansTrouble, Sensors, TypeInv, TypeOK
<1>3. CASE MainLamp \/ MainRelamp
  <2>1. watched \in Sensors /\ LedOn(watched)
    BY <1>3 DEF MainLamp, MainRelamp, Main, TypeInv, WatchesSensor
  <2>2. failure'[watched] \/ life'[watched] >= LifeLimit
    BY <1>3, <2>1, CausesStay DEF MainLamp, MainRelamp, Main, LampJustified
  <2>. QED
    BY <1>2, <2>1, <2>2
<1>4. CASE MainLife
  <2>1. watched \in Sensors
    BY <1>4 DEF MainLife, Main, TypeInv, WatchesSensor
  <2>2. CASE life[watched] = LifeLimit
    <3>1. life[watched] >= LifeLimit /\ life' = life
      BY <1>4, <2>2, SupervisionAssumption DEF MainLife
    <3>. QED
      BY <1>2, <1>4, <2>1, <2>2, <3>1 DEF MainLife
  <2>. QED
    BY <1>1, <1>4, <2>2 DEF MainLife
<1>5. CASE LedsOff
  BY <1>5 DEF LedsOff, LedMeansTrouble, LedOf, Sensors
<1>6. CASE MainLinger \/ HandlerFlags
  BY <1>1, <1>5, <1>6 DEF MainLinger, HandlerFlags
<1>. QED
  BY <1>1, <1>3, <1>4, <1>6, LedChanges

(* The other way round: main turns the LED of a silent task on right after *)
(* the poll that makes it silent for LifeLimit, and only the handler turns *)
(* it off again.                                                           *)
SilenceLit ==
  \A t \in Sensors :
    signals = 0 /\ life[t] >= LifeLimit =>
      led[LedOf[t]] \/ (life[t] = LifeLimit /\ mainPc = "life" /\ watched = t)

LEMMA SilenceLitStep ==
  ASSUME TypeInv, HandlerJustified, SilenceLit, [Next]_vars
  PROVE  SilenceLit'
<1>. SUFFICES ASSUME NEW t \in Sensors, signals' = 0, life'[t] >= LifeLimit
              PROVE  led'[LedOf[t]] \/ (life'[t] = LifeLimit /\ mainPc' = "life" /\ watched' = t)
  BY DEF SilenceLit
<1>1. signals = 0 /\ handler = "idle" /\ caught_signal = 0
  BY SignalsChanges, SupervisionAssumption
  DEF Sigint, TypeInv, TypeOK, HandlerJustified
<1>2. ~Sigint /\ ~MainLinger /\ ~HandlerFlags /\ mainPc # "join"
  BY <1>1, SupervisionAssumption
  DEF Sigint, MainLinger, Main, HandlerFlags, Handler, TypeInv, TypeOK, HandlerJustified
<1>3. led[LedOf[t]] => led'[LedOf[t]]
  BY <1>2, LedChanges
  DEF MainLamp, MainLife, MainRelamp, LedOn, LedOf, Sensors, TypeInv, TypeOK
<1>4. CASE MainMiss
  <2>1. CASE watched = t
    <3>1. life'[t] = Bump(life[t]) /\ mainPc = "recv" /\ mainPc' = "life" /\ watched' = t
      BY <1>4, <2>1 DEF MainMiss, Main, TypeInv, TypeOK
    <3>2. CASE life[t] >= LifeLimit
      BY <1>1, <1>3, <3>1, <3>2 DEF SilenceLit
    <3>3. CASE ~(life[t] >= LifeLimit)
      <4>1. life[t] \in 0 .. LifeLimit + 1
        BY DEF TypeInv, TypeOK
      <4>2. life'[t] = LifeLimit
        BY <3>1, <3>3, <4>1, SupervisionAssumption DEF Bump
      <4>. QED
        BY <3>1, <4>2
    <3>. QED
      BY <3>2, <3>3
  <2>2. CASE watched # t
    <3>1. life'[t] = life[t]
      BY <1>4, <2>2 DEF MainMiss, TypeInv, TypeOK
    <3>. QED
      BY <1>1, <1>3, <2>2, <3>1 DEF SilenceLit
  <2>. QED
    BY <2>1, <2>2
<1>5. CASE MainLife
  <2>1. life' = life
    BY <1>5 DEF MainLife
  <2>2. CASE watched = t /\ life[t] = LifeLimit
    BY <1>5, <2>2 DEF MainLife, LedOn, LedOf, Sensors, TypeInv, TypeOK
  <2>. QED
    BY <1>1, <1>3, <2>1, <2>2 DEF SilenceLit
<1>6. CASE ~MainMiss /\ ~MainLife
  <2>1. life' = life
    BY <1>6, LifeChanges
  <2>2. mainPc = "life" => UNCHANGED <<mainPc, watched>>
    BY <1>6, MainPcChanges
    DEF MainNext, MainLoop, MainCheckTemp, MainRecv, MainLamp, MainRelamp, MainLinger, MainJoin,
        Main
  <2>. QED
    BY <1>1, <1>3, <2>1, <2>2 DEF SilenceLit
<1>. QED
  BY <1>4, <1>5, <1>6

LEMMA LedInvariant == Spec => [](LedMeansTrouble /\ SilenceLit)
<1>1. Init => LampJustified /\ LedMeansTrouble
  BY DEF Init, LampJustified, LedMeansTrouble, LedOf, Sensors
<1>2. Init => SilenceLit
  BY SupervisionAssumption DEF Init, SilenceLit
<1>3. TypeInv /\ CauseInv /\ SilenceLit /\ [Next]_vars => SilenceLit'
  BY SilenceLitStep DEF CauseInv
<1>. QED
  BY <1>1, <1>2, <1>3, LampStep, LedStep, TypeInvariant, CauseInvariant, PTL DEF Spec

(* The LEDs can be trusted both ways: one that is on means that a sensor   *)
(* failed or that a task missed LifeLimit polls, and until a SIGINT each   *)
(* task that was silent for longer has its own LED on.                     *)
THEOREM LedsCanBeTrusted == Spec => []LedsTell
<1>1. TypeInv /\ LedMeansTrouble /\ SilenceLit => LedsTell
  <2>. SUFFICES ASSUME TypeInv, LedMeansTrouble, SilenceLit PROVE LedsTell
    OBVIOUS
  <2>1. \A t \in Sensors : life[t] > LifeLimit => life[t] >= LifeLimit /\ life[t] # LifeLimit
    BY SupervisionAssumption DEF TypeInv, TypeOK
  <2>2. \A t \in Sensors :
          /\ led[LedOf[t]] => failure[t] \/ life[t] >= LifeLimit
          /\ signals = 0 /\ life[t] > LifeLimit => led[LedOf[t]]
    BY <2>1 DEF LedMeansTrouble, SilenceLit
  <2>. QED
    BY <2>2 DEF LedsTell, LedOf
<1>. QED
  BY <1>1, LedInvariant, TypeInvariant, PTL
-----------------------------------------------------------------------------
(* The cleanup.                                                            *)

LEMMA QueuesOpenChanges ==
  ASSUME [Next]_vars, queuesOpen' # queuesOpen
  PROVE  MainLinger \/ HandlerCloses
<1>1. ~ \E t \in Workers : Die(t) \/ Lock(t) \/ TaskLoop(t)
  BY DEF Die, Lock, TaskLoop, queueVars
<1>2. ~ (LogStart \/ LogMainQueue \/ LogAlert \/ LogGrace \/ LogCritical \/ LogData \/
         LogWrite)
  BY DEF LogStart, LogMainQueue, LogAlert, LogGrace, LogCritical, LogData, LogWrite,
         queueVars
<1>3. ~ (MainLoop \/ MainCheckTemp \/ MainLamp \/ MainRelamp \/
         MainMiss \/ MainRecv \/ MainLife \/ MainJoin)
  BY DEF MainLoop, MainCheckTemp, MainLamp, MainRelamp, MainMiss, MainRecv, MainLife,
         MainJoin, queueVars
<1>4. ~ (Sigint \/ HandlerNoHBTemp \/ HandlerNoHBLight \/ HandlerCancel \/ HandlerFlags
           \/ HandlerFclose)
  BY DEF Sigint, HandlerNoHBTemp, HandlerNoHBLight, HandlerCancel, HandlerFlags, HandlerFclose,
         HandlerReport, queueVars
<1>5. ~ (TempSense \/ LightSense \/ TempComm \/ LightComm \/ LightExit \/ UNCHANGED vars)
  BY DEF TempSense, LightSense, TempComm, LightComm, LightExit, Sense, Comm, vars, queueVars
<1>. QED
  BY <1>1, <1>2, <1>3, <1>4, <1>5
  DEF Next, TempNext, LightNext, LogNext, MainNext, HandlerNext, HandlerCloses, Workers, Sensors

(* Before the handler closes anything it has cancelled the threads; by the *)
(* time it sets its flags all the queues are closed; and what it has done  *)
(* stays done, also while it runs another time.                            *)
ShutDown ==
  canceled = Workers /\ queuesOpen = {} /\ \A t \in Workers : alive[t] = 1

CleanupInv ==
  /\ handler \in {"close_log", "close_temp", "close_light", "flags", "fclose"} =>
       canceled = Workers
  /\ handler \in {"close_temp", "close_light", "flags", "fclose"} => "log" \notin queuesOpen
  /\ handler \in {"close_light", "flags", "fclose"} => "temp" \notin queuesOpen
  /\ handler \in {"flags", "fclose"} => "light" \notin queuesOpen
  /\ file = "closed" => canceled = Workers
  /\ caught_signal = 1 => ShutDown

LEMMA CleanupStep ==
  ASSUME TypeInv, HandlerJustified, CleanupInv, [Next]_vars
  PROVE  CleanupInv'
<1>. USE DEF CleanupInv, ShutDown
<1>1. MainLinger => UNCHANGED <<canceled, queuesOpen, file, caught_signal>>
  BY DEF MainLinger, Main, queueVars, HandlerJustified
<1>2. canceled = Workers => canceled' = Workers
  BY CanceledChanges, <1>1, ReportFields
  DEF LogGrace, LogCritical, At, HandlerCancel, TypeInv, ReportInHand, Workers
<1>3. queuesOpen' \subseteq queuesOpen
  BY <1>1, QueuesOpenChanges
  DEF HandlerCloses, HandlerCloseLog, HandlerCloseTemp, HandlerCloseLight, HandlerClose, CloseQueue
<1>4. \A t \in Workers : alive[t] = 1 => alive'[t] = 1
  BY AliveChanges DEF LogAlert, HandlerFlags, TypeInv, TypeOK
<1>5. /\ handler' \in {"close_log", "close_temp", "close_light", "flags", "fclose"} =>
           canceled' = Workers
      /\ handler' \in {"close_temp", "close_light", "flags", "fclose"} => "log" \notin queuesOpen'
      /\ handler' \in {"close_light", "flags", "fclose"} => "temp" \notin queuesOpen'
      /\ handler' \in {"flags", "fclose"} => "light" \notin queuesOpen'
  <2>1. CASE handler' = handler
    BY <1>2, <1>3, <2>1
  <2>2. CASE Sigint \/ HandlerNoHBTemp \/ HandlerNoHBLight \/ HandlerFclose
    BY <2>2 DEF Sigint, HandlerNoHBTemp, HandlerNoHBLight, HandlerReport, HandlerFclose
  <2>3. CASE HandlerCancel
    BY <2>3 DEF HandlerCancel
  <2>4. CASE HandlerCloses
    BY <1>2, <1>3, <2>4
    DEF HandlerCloses, HandlerCloseLog, HandlerCloseTemp, HandlerCloseLight, HandlerClose,
        CloseQueue, Handler
  <2>5. CASE HandlerFlags
    BY <1>2, <1>3, <2>5 DEF HandlerFlags, Handler
  <2>. QED
    BY <2>1, <2>2, <2>3, <2>4, <2>5, HandlerChanges DEF HandlerNext, HandlerCloses
<1>6. file' = "closed" => canceled' = Workers
  BY <1>1, <1>2, FileChanges DEF LogStart, HandlerFclose, Handler
<1>7. caught_signal' = 1 => ShutDown'
  <2>1. CASE HandlerFlags
    <3>1. canceled = Workers /\ queuesOpen \subseteq {}
      BY <2>1 DEF HandlerFlags, Handler, TypeInv, TypeOK, Workers, Sensors
    <3>2. \A t \in Workers : alive'[t] = 1
      BY <2>1 DEF HandlerFlags
    <3>. QED
      BY <1>2, <1>3, <3>1, <3>2
  <2>2. CASE caught_signal = 1
    BY <1>2, <1>3, <1>4, <2>2
  <2>. QED
    BY <1>1, <2>1, <2>2, CaughtSignalChanges DEF TypeInv, TypeOK
<1>. QED
  BY <1>5, <1>6, <1>7

LEMMA CleanupInvariant == Spec => [](TypeInv /\ CauseInv /\ CleanupInv)
<1>1. Init => CleanupInv
  BY DEF Init, CleanupInv
<1>2. TypeInv /\ CauseInv /\ CleanupInv /\ [Next]_vars => CleanupInv'
  BY CleanupStep DEF CauseInv
<1>. QED
  BY <1>1, <1>2, TypeInvariant, CauseInvariant, PTL DEF Spec

(* The log task begins no write to a log file that was closed: it was      *)
(* cancelled before, and each way to its next fwrite leads over a          *)
(* cancellation point.                                                     *)
THEOREM NoWriteAfterClose == Spec => NoWriteBegins
<1>1. TypeInv /\ CleanupInv /\ [Next]_vars
        => [file = "closed" /\ ~Writing => ~Writing']_vars
  <2>. SUFFICES ASSUME TypeInv, CleanupInv, Next, file = "closed", ~Writing
                PROVE  ~Writing'
    OBVIOUS
  <2>. USE DEF Writing
  <2>1. "log" \in canceled /\ "log" \in Workers
    BY DEF CleanupInv, Workers
  <2>2. ASSUME NEW t \in Workers, NEW l, Goto(t, l), t = "log" => l \notin {"report", "write"}
        PROVE  ~Writing'
    BY <2>2 DEF Goto, TypeInv, TypeOK
  <2>3. ASSUME NEW t \in Workers, Die(t) \/ Lock(t) PROVE ~Writing'
    BY <2>2, <2>3 DEF Die, Lock, InsideLock
  <2>4. CASE TempNext
    BY <2>2, <2>3, <2>4
    DEF TempNext, TaskLoop, TempSense, TempComm, CloseAndUnlock, Workers, Sensors
  <2>5. CASE LightNext
    BY <2>2, <2>3, <2>5
    DEF LightNext, TaskLoop, LightSense, LightComm, CloseAndUnlock, Workers, Sensors
  <2>6. CASE LogNext
    <3>1. ~(LogStart \/ LogMainQueue \/ LogGrace \/ LogData)
      BY <2>1 DEF LogStart, LogMainQueue, LogGrace, LogData, At, CancellationPoints
    <3>2. ~(LogAlert \/ LogCritical \/ LogWrite)
      BY DEF LogAlert, LogCritical, LogWrite, At
    <3>. QED
      BY <2>1, <2>3, <2>6, <3>1, <3>2 DEF LogNext
  <2>7. CASE Elsewhere
    BY <2>7, ElsewhereFrame
  <2>. QED
    BY <2>4, <2>5, <2>6, <2>7 DEF Next, Elsewhere
<1>. QED
  BY <1>1, CleanupInvariant, PTL DEF Spec, NoWriteBegins
-----------------------------------------------------------------------------
(* The LEDs after the cleanup: main may finish the round in which it was   *)
(* interrupted, and turn on the LED of the task it was about, but it       *)
(* begins no other one.                                                    *)
RelitInv ==
  caught_signal = 1 =>
    /\ ~(led[1] /\ led[2])
    /\ mainPc \in {"recv", "lamp", "life", "relamp"} =>
         \A t \in Sensors : led[LedOf[t]] => t = watched

LEMMA RelitStep ==
  ASSUME TypeInv, CauseInv, CleanupInv, RelitInv, [Next]_vars
  PROVE  RelitInv'
<1>. SUFFICES ASSUME caught_signal' = 1 PROVE RelitInv'
  BY DEF RelitInv
<1>. USE DEF LedOf, Sensors
<1>1. CASE HandlerFlags
  BY <1>1 DEF HandlerFlags, LedsOff, RelitInv
<1>2. CASE ~HandlerFlags
  <2>1. caught_signal = 1
    BY <1>2, CaughtSignalChanges DEF MainLinger, Main, CauseInv, HandlerJustified
  <2>2. \A t \in Sensors : alive[t] = 1
    BY <2>1 DEF CleanupInv, ShutDown, Workers
  <2>3. MainLinger => led' = led
    BY <2>1 DEF MainLinger
  <2>4. CASE UNCHANGED <<mainPc, watched>> /\ ~MainNext
    BY <1>2, <2>1, <2>4, LedChanges DEF RelitInv, MainNext
  <2>5. ASSUME LedOn(watched), mainPc \in {"lamp", "life", "relamp"}
        PROVE  \A t \in Sensors : led'[LedOf[t]] => t = watched
    BY <2>1, <2>5 DEF LedOn, RelitInv, TypeInv, TypeOK, WatchesSensor
  <2>6. ASSUME \A t \in Sensors : led'[LedOf[t]] => t = watched
        PROVE  ~(led'[1] /\ led'[2])
    BY <2>6
  <2>7. CASE MainLamp \/ MainLife \/ MainRelamp
    <3>1. \A t \in Sensors : led'[LedOf[t]] => t = watched
      BY <2>1, <2>5, <2>7 DEF MainLamp, MainLife, MainRelamp, Main, RelitInv
    <3>2. mainPc' \in {"recv", "lamp", "life", "relamp"} => watched' = watched
      BY <2>7 DEF MainLamp, MainLife, MainRelamp, NextTask
    <3>. QED
      BY <2>6, <3>1, <3>2 DEF RelitInv
  <2>8. CASE MainMiss \/ MainRecv
    BY <2>1, <2>8 DEF MainMiss, MainRecv, Main, RelitInv
  <2>9. CASE MainLoop \/ MainCheckTemp
    <3>1. mainPc' \in {"check", "loop", "linger"}
      BY <2>1, <2>2, <2>9 DEF MainLoop, MainCheckTemp, NextTask
    <3>. QED
      BY <2>1, <2>9, <3>1 DEF MainLoop, MainCheckTemp, RelitInv
  <2>10. CASE MainLinger \/ MainJoin
    <3>1. mainPc' = "join" /\ led' = led
      BY <2>3, <2>10 DEF MainLinger, MainJoin, Main
    <3>. QED
      BY <2>1, <3>1 DEF RelitInv
  <2>. QED
    BY <2>4, <2>7, <2>8, <2>9, <2>10, MainPcChanges DEF MainNext
<1>. QED
  BY <1>1, <1>2

(* After the cleanup at most one LED comes on again, though main does not  *)
(* look at caught_signal before it turns one on.                           *)
THEOREM CleanupLeavesOneLed == Spec => []RelitAtMostOne
<1>1. Init => RelitInv
  BY DEF Init, RelitInv
<1>2. TypeInv /\ CauseInv /\ CleanupInv /\ RelitInv /\ [Next]_vars => RelitInv'
  BY RelitStep
<1>3. RelitInv => RelitAtMostOne
  BY DEF RelitInv, RelitAtMostOne
<1>. QED
  BY <1>1, <1>2, <1>3, CleanupInvariant, PTL DEF Spec
-----------------------------------------------------------------------------
(* Nothing is sent on a closed queue. *)
NothingLeftBehind ==
  /\ "log" \notin queuesOpen => mainToLog = << >>
  /\ \A t \in Sensors : t \notin queuesOpen => toMain[t] = << >>

LEMMA EmptyStep == TypeInv /\ NothingLeftBehind /\ [Next]_vars => NothingLeftBehind'
<1>. SUFFICES ASSUME TypeInv, NothingLeftBehind, [Next]_vars PROVE NothingLeftBehind'
  OBVIOUS
<1>. USE DEF NothingLeftBehind
<1>1. CASE CloseQueues
  BY <1>1 DEF CloseQueues
<1>2. CASE \E q \in Workers : CloseQueue(q)
  BY <1>2 DEF CloseQueue, TypeInv, TypeOK
<1>3. CASE ~CloseQueues /\ ~(\E q \in Workers : CloseQueue(q))
  <2>1. queuesOpen' = queuesOpen
    BY <1>3, QueuesOpenChanges, ClosesAQueue DEF MainLinger, queueVars
  <2>2. ASSUME NEW t \in Sensors, t \notin queuesOpen PROVE toMain'[t] = toMain[t]
    BY <1>3, <2>2, ToMainChanges
    DEF TempComm, LightComm, Comm, MainRecv, Main, TypeInv, TypeOK, WatchesSensor
  <2>3. ASSUME "log" \notin queuesOpen PROVE mainToLog' = mainToLog
    <3>1. ~LogMainQueue \/ mainToLog' = mainToLog
      BY <2>3 DEF LogMainQueue
    <3>2. MainRecv \/ MainLife \/ HandlerNoHBTemp \/ HandlerNoHBLight => mainToLog' = mainToLog
      BY <2>3 DEF MainRecv, MainLife, HandlerNoHBTemp, HandlerNoHBLight, HandlerReport, ToLog
    <3>. QED
      BY <1>3, <3>1, <3>2, MainToLogChanges
  <2>. QED
    BY <2>1, <2>2, <2>3
<1>. QED
  BY <1>1, <1>2, <1>3

LEMMA ClosedQueuesStayEmpty == Spec => []NothingLeftBehind
<1>1. Init => NothingLeftBehind
  BY DEF Init, NothingLeftBehind
<1>. QED
  BY <1>1, EmptyStep, TypeInvariant, PTL DEF Spec
-----------------------------------------------------------------------------
(* The parts of StepsLeft. *)
Left(t)    == WorkerLeft[t][pc[t]]
MainSteps  == MainLeft[mainPc]
HandlerSteps == HandlerLeft[handler]
SignalSteps  == 9 * (MaxSignals - signals)

(* They are natural numbers, and main has something to do to the end. *)
LEMMA WorkerLeftType ==
  \A t \in Workers : \A l \in WorkerPc[t] : WorkerLeft[t][l] \in Nat
<1>1. \A l \in WorkerPc["log"] : WorkerLeft["log"][l] \in Nat
  BY DEF WorkerPc, WorkerLeft
<1>2. \A l \in WorkerPc["temp"] : WorkerLeft["temp"][l] \in Nat
  BY DEF WorkerPc, WorkerLeft
<1>3. \A l \in WorkerPc["light"] : WorkerLeft["light"][l] \in Nat
  BY DEF WorkerPc, WorkerLeft
<1>. QED
  BY <1>1, <1>2, <1>3 DEF Workers, Sensors

SumOfParts ==
  /\ \A t \in Workers : Left(t) \in Nat
  /\ MainSteps \in Nat \ {0} /\ HandlerSteps \in Nat /\ SignalSteps \in Nat
  /\ StepsLeft = IF exited THEN 0
                 ELSE Left("log") + Left("temp") + Left("light") + MainSteps
                        + HandlerSteps + SignalSteps

LEMMA StepsLeftParts == TypeInv => SumOfParts
<1>. SUFFICES ASSUME TypeInv PROVE SumOfParts
  OBVIOUS
<1>1. \A t \in Workers : Left(t) \in Nat
  BY WorkerLeftType DEF TypeInv, TypeOK, Left
<1>2. MainSteps \in Nat \ {0}
  <2>1. watched \in {"log", "temp", "light"} /\ mainPc \in MainPc
    BY DEF TypeInv, TypeOK, Workers, Sensors
  <2>2. [log |-> 3, temp |-> 2, light |-> 1][watched] \in 1 .. 3
    BY <2>1
  <2>. QED
    BY <2>1, <2>2 DEF MainSteps, MainLeft, MainPc
<1>3. HandlerSteps \in Nat
  BY DEF TypeInv, TypeOK, HandlerPc, HandlerSteps, HandlerLeft
<1>4. SignalSteps \in Nat
  BY SupervisionAssumption DEF TypeInv, TypeOK, SignalSteps
<1>5. StepsLeft = IF exited THEN 0
                  ELSE Left("log") + Left("temp") + Left("light") + MainSteps
                         + HandlerSteps + SignalSteps
  BY DEF StepsLeft, Left, MainSteps, HandlerSteps, SignalSteps
<1>. QED
  BY <1>1, <1>2, <1>3, <1>4, <1>5 DEF SumOfParts

LEMMA StepsLeftPartsNext == TypeInv' => SumOfParts'
  BY StepsLeftParts, PTL

(* It is enough that one part gets smaller and the others do not grow. *)
LEMMA Shrinks ==
  ASSUME TypeInv, TypeInv', ~exited,
         \A t \in Workers : Left(t)' <= Left(t),
         MainSteps' <= MainSteps, HandlerSteps' + SignalSteps' <= HandlerSteps + SignalSteps,
         \/ exited'
         \/ \E t \in Workers : Left(t)' < Left(t)
         \/ MainSteps' < MainSteps
         \/ HandlerSteps' + SignalSteps' < HandlerSteps + SignalSteps
  PROVE  StepsLeft' < StepsLeft
<1>1. SumOfParts /\ SumOfParts'
  BY StepsLeftParts, StepsLeftPartsNext
<1>2. ASSUME NEW a \in Nat, NEW b \in Nat, NEW c \in Nat, NEW m \in Nat, NEW h \in Nat,
             NEW s \in Nat, NEW a1 \in Nat, NEW b1 \in Nat, NEW c1 \in Nat, NEW m1 \in Nat,
             NEW h1 \in Nat, NEW s1 \in Nat,
             a1 <= a, b1 <= b, c1 <= c, m1 <= m, h1 + s1 <= h + s,
             a1 < a \/ b1 < b \/ c1 < c \/ m1 < m \/ h1 + s1 < h + s
      PROVE  a1 + b1 + c1 + m1 + h1 + s1 < a + b + c + m + h + s
  BY <1>2
<1>3. CASE exited'
  BY <1>1, <1>3 DEF SumOfParts, Workers, Sensors
<1>4. CASE ~exited'
  BY <1>1, <1>2, <1>4 DEF SumOfParts, Workers, Sensors
<1>. QED
  BY <1>3, <1>4

(* A worker that moves to l, and nothing else but perhaps the mutex, the   *)
(* queues, the file or the end of the process.                             *)
LEMMA WorkerShrinks ==
  ASSUME TypeInv, TypeInv', ~exited, NEW t \in Workers, NEW l, Goto(t, l),
         WorkerLeft[t][l] < WorkerLeft[t][pc[t]], UNCHANGED <<mainVars, signalVars>>
  PROVE  StepsLeft' < StepsLeft
<1>1. SumOfParts
  BY StepsLeftParts
<1>2. \A u \in Workers : pc'[u] = IF u = t THEN l ELSE pc[u]
  BY DEF Goto, TypeInv, TypeOK
<1>3. \A u \in Workers : Left(u)' <= Left(u) /\ (u = t => Left(u)' < Left(u))
  <2>. SUFFICES ASSUME NEW u \in Workers
                PROVE  Left(u)' <= Left(u) /\ (u = t => Left(u)' < Left(u))
    OBVIOUS
  <2>1. Left(u) \in Nat /\ Left(u)' \in Nat
    BY StepsLeftParts, StepsLeftPartsNext DEF SumOfParts
  <2>2. CASE u = t
    BY <1>2, <2>1, <2>2 DEF Left
  <2>3. CASE u # t
    BY <1>2, <2>1, <2>3 DEF Left
  <2>. QED
    BY <2>2, <2>3
<1>4. MainSteps' = MainSteps /\ HandlerSteps' = HandlerSteps /\ SignalSteps' = SignalSteps
  BY DEF MainSteps, MainLeft, HandlerSteps, SignalSteps, mainVars, signalVars
<1>. QED
  BY <1>1, <1>3, <1>4, Shrinks DEF SumOfParts

(* A cancelled thread that ends, and one that gets the mutex, which leads  *)
(* it to the point where it ends.                                          *)
LEMMA DieShrinks ==
  ASSUME TypeInv, TypeInv', NEW t \in Workers, Die(t)
  PROVE  StepsLeft' < StepsLeft
<1>1. WorkerLeft[t]["done"] < WorkerLeft[t][pc[t]]
  BY DEF Die, CancellationPoints, MayCancelPoints, WorkerLeft, Workers, Sensors
<1>. QED
  BY <1>1, WorkerShrinks DEF Die

LEMMA LockShrinks ==
  ASSUME TypeInv, TypeInv', NEW t \in Workers, Lock(t)
  PROVE  StepsLeft' < StepsLeft
<1>1. WorkerLeft[t][InsideLock[t]] < WorkerLeft[t][pc[t]]
  BY DEF Lock, At, InsideLock, WorkerLeft, Workers, Sensors
<1>. QED
  BY <1>1, WorkerShrinks DEF Lock, At

(* The loops do not go round again: they end at a cancellation point. *)
LEMMA TaskShrinks ==
  ASSUME TypeInv, TypeInv', canceled = Workers, TempNext \/ LightNext \/ LightExit
  PROVE  StepsLeft' < StepsLeft
<1>. USE DEF WorkerLeft
<1>0. "temp" \in Workers /\ "light" \in Workers
  BY DEF Workers, Sensors
<1>1. ASSUME NEW t \in Sensors PROVE ~TaskLoop(t)
  BY DEF TaskLoop, At, CancellationPoints, Workers, Sensors
<1>2. CASE TempSense
  <2>1. Goto("temp", "done") /\ WorkerLeft["temp"]["done"] < WorkerLeft["temp"][pc["temp"]]
    BY <1>0, <1>2 DEF TempSense, Sense, At, CloseAndUnlock
  <2>. QED
    BY <1>0, <1>2, <2>1, WorkerShrinks DEF TempSense, Sense, At
<1>3. CASE LightSense
  <2>1. Goto("light", "comm") /\ WorkerLeft["light"]["comm"] < WorkerLeft["light"][pc["light"]]
    BY <1>3 DEF LightSense, Sense, At
  <2>. QED
    BY <1>0, <1>3, <2>1, WorkerShrinks DEF LightSense, Sense, At
<1>4. ~TempComm
  BY <1>0 DEF TempComm, Comm, At, CancellationPoints
<1>5. CASE LightComm
  <2>1. Goto("light", "done") /\ WorkerLeft["light"]["done"] < WorkerLeft["light"][pc["light"]]
    BY <1>0, <1>5 DEF LightComm, Comm, At, CloseAndUnlock
  <2>. QED
    BY <1>0, <1>5, <2>1, WorkerShrinks DEF LightComm, Comm, At
<1>6. CASE LightExit
  <2>1. /\ ~exited /\ exited' /\ \A t \in Workers : Left(t)' = Left(t)
        /\ MainSteps' = MainSteps /\ HandlerSteps' = HandlerSteps /\ SignalSteps' = SignalSteps
    BY <1>6 DEF LightExit, At, Left, MainSteps, MainLeft, HandlerSteps, SignalSteps, mainVars,
       signalVars
  <2>. QED
    BY <2>1, StepsLeftParts, Shrinks DEF SumOfParts
<1>. QED
  BY <1>0, <1>1, <1>2, <1>3, <1>4, <1>5, <1>6, DieShrinks, LockShrinks
  DEF TempNext, LightNext, Sensors

LEMMA LogShrinks ==
  ASSUME TypeInv, TypeInv', canceled = Workers, LogNext
  PROVE  StepsLeft' < StepsLeft
<1>. USE DEF WorkerLeft
<1>0. "log" \in Workers
  BY DEF Workers
<1>1. ~ (LogStart \/ LogMainQueue \/ LogGrace \/ LogData)
  BY <1>0 DEF LogStart, LogMainQueue, LogGrace, LogData, At, CancellationPoints
<1>2. CASE LogAlert
  <2>1. Goto("log", "grace") /\ WorkerLeft["log"]["grace"] < WorkerLeft["log"][pc["log"]]
    BY <1>2 DEF LogAlert, At
  <2>. QED
    BY <1>0, <1>2, <2>1, WorkerShrinks DEF LogAlert, At
<1>3. CASE LogCritical
  <2>1. Goto("log", "lock") /\ WorkerLeft["log"]["lock"] < WorkerLeft["log"][pc["log"]]
    BY <1>3 DEF LogCritical, At
  <2>. QED
    BY <1>0, <1>3, <2>1, WorkerShrinks DEF LogCritical, At
<1>4. CASE LogWrite
  <2>1. Goto("log", "mainq") /\ WorkerLeft["log"]["mainq"] < WorkerLeft["log"][pc["log"]]
    BY <1>4 DEF LogWrite, At
  <2>. QED
    BY <1>0, <1>4, <2>1, WorkerShrinks DEF LogWrite, At
<1>. QED
  BY <1>0, <1>1, <1>2, <1>3, <1>4, DieShrinks, LockShrinks DEF LogNext

(* The second half of the loop of main is about the temperature task. *)
ChecksTemp == mainPc = "check" => watched = "temp"

LEMMA ChecksTempStep == ChecksTemp /\ [Next]_vars => ChecksTemp'
<1>. SUFFICES ASSUME ChecksTemp, [Next]_vars PROVE ChecksTemp'
  OBVIOUS
<1>1. MainNext => ChecksTemp'
  BY DEF ChecksTemp, MainNext, MainLoop, MainCheckTemp, MainMiss, MainRecv, MainLamp, MainLife,
         MainRelamp, MainLinger, MainJoin, Main, NextTask
<1>. QED
  BY <1>1, MainPcChanges DEF ChecksTemp

(* Main finishes its round without another poll, and goes to its joins. *)
LEMMA MainShrinks ==
  ASSUME TypeInv, TypeInv', ChecksTemp, caught_signal = 1,
         \A t \in Workers : alive[t] = 1, MainNext
  PROVE  StepsLeft' < StepsLeft
<1>1. /\ ~exited /\ UNCHANGED <<pc, handler, signals>>
      /\ \A t \in Sensors : alive[t] = 1
  BY DEF MainNext, MainLoop, MainCheckTemp, MainMiss, MainRecv, MainLamp, MainLife, MainRelamp,
         MainLinger, MainJoin, Main, threadVars, signalVars, Workers
<1>2. /\ \A t \in Workers : Left(t)' <= Left(t)
      /\ HandlerSteps' + SignalSteps' <= HandlerSteps + SignalSteps
  BY <1>1, StepsLeftParts DEF SumOfParts, Left, HandlerSteps, SignalSteps
<1>3. /\ watched \in {"log", "temp", "light"} /\ watched' \in {"log", "temp", "light"}
      /\ mainPc # "join" => watched \in Sensors
  BY DEF TypeInv, TypeOK, WatchesSensor, Workers, Sensors
<1>4. MainSteps' < MainSteps \/ (exited' /\ MainSteps' = MainSteps)
  <2>. USE DEF Main, MainSteps, MainLeft, NextTask
  <2>1. CASE MainLoop
    BY <1>1, <2>1 DEF MainLoop, Sensors
  <2>2. CASE MainCheckTemp
    BY <1>1, <2>2 DEF MainCheckTemp, ChecksTemp, Sensors
  <2>3. CASE MainMiss \/ MainRecv \/ MainLamp
    BY <2>3 DEF MainMiss, MainRecv, MainLamp
  <2>4. CASE MainLife \/ MainRelamp
    BY <2>4 DEF MainLife, MainRelamp
  <2>5. CASE MainLinger
    BY <2>5 DEF MainLinger
  <2>6. CASE MainJoin
    <3>. DEFINE j == [log |-> 3, temp |-> 2, light |-> 1]
    <3>1. MainSteps = j[watched] /\ MainSteps' = j[watched']
      BY <2>6 DEF MainJoin
    <3>2. \/ watched = "log" /\ watched' = "temp"
          \/ watched = "temp" /\ watched' = "light"
          \/ watched = "light" /\ watched' = "light" /\ exited'
      <4>1. exited' \in BOOLEAN /\ exited' = (watched = "light")
        BY <2>6 DEF MainJoin, TypeInv, TypeOK
      <4>2. watched' = NextJoin[watched]
        BY <2>6 DEF MainJoin
      <4>3. watched = "light" => exited'
        BY <4>1
      <4>. QED
        BY <1>3, <4>2, <4>3 DEF NextJoin
    <3>. QED
      BY <3>1, <3>2
  <2>. QED
    BY <2>1, <2>2, <2>3, <2>4, <2>5, <2>6 DEF MainNext
<1>5. MainSteps \in Nat /\ MainSteps' \in Nat
  BY StepsLeftParts, StepsLeftPartsNext DEF SumOfParts
<1>. QED
  BY <1>1, <1>2, <1>4, <1>5, Shrinks

(* Another SIGINT costs nine steps, and there is one less to come. *)
LEMMA HandlerShrinks ==
  ASSUME TypeInv, TypeInv', Sigint \/ HandlerNext
  PROVE  StepsLeft' < StepsLeft
<1>1. ~exited /\ UNCHANGED <<pc, mainPc, watched>>
  BY DEF Sigint, HandlerNext, HandlerNoHBTemp, HandlerNoHBLight, HandlerReport, HandlerCancel,
         HandlerCloseLog, HandlerCloseTemp, HandlerCloseLight, HandlerClose, HandlerFlags,
         HandlerFclose, Handler, threadVars, mainVars
<1>2. (\A t \in Workers : Left(t)' <= Left(t)) /\ MainSteps' <= MainSteps
  BY <1>1, StepsLeftParts DEF SumOfParts, Left, MainSteps, MainLeft
<1>3. HandlerSteps' + SignalSteps' < HandlerSteps + SignalSteps
  <2>. USE SupervisionAssumption DEF HandlerSteps, SignalSteps, HandlerLeft, Handler, TypeInv,
       TypeOK
  <2>1. CASE Sigint
    BY <2>1 DEF Sigint
  <2>2. CASE HandlerNoHBTemp \/ HandlerNoHBLight
    BY <2>2 DEF HandlerNoHBTemp, HandlerNoHBLight, HandlerReport
  <2>3. CASE HandlerCancel
    BY <2>3 DEF HandlerCancel
  <2>4. CASE HandlerCloseLog \/ HandlerCloseTemp \/ HandlerCloseLight
    BY <2>4 DEF HandlerCloseLog, HandlerCloseTemp, HandlerCloseLight, HandlerClose
  <2>5. CASE HandlerFlags \/ HandlerFclose
    BY <2>5 DEF HandlerFlags, HandlerFclose
  <2>. QED
    BY <2>1, <2>2, <2>3, <2>4, <2>5 DEF HandlerNext
<1>4. /\ HandlerSteps \in Nat /\ HandlerSteps' \in Nat
      /\ SignalSteps \in Nat /\ SignalSteps' \in Nat
  BY StepsLeftParts, StepsLeftPartsNext DEF SumOfParts
<1>5. HandlerSteps' + SignalSteps' <= HandlerSteps + SignalSteps
  <2>1. \A h, s, h1, s1 \in Nat : h1 + s1 < h + s => h1 + s1 <= h + s
    OBVIOUS
  <2>. QED
    BY <1>3, <1>4, <2>1
<1>. QED
  BY <1>1, <1>2, <1>3, <1>5, Shrinks

(* Once the handler has set its flags (message.c:74-77), every step of any *)
(* thread, of main and of the handler brings the process nearer its end:   *)
(* it takes at most 19 steps of the model, and 9 for each further SIGINT.  *)
THEOREM ShutdownIsBounded == Spec => ShutdownAdvances
<1>1. TypeInv /\ CauseInv /\ CleanupInv /\ ChecksTemp /\ [Next]_vars
        => [caught_signal = 1 => StepsLeft' < StepsLeft]_vars
  <2>. SUFFICES ASSUME TypeInv, CleanupInv, ChecksTemp, Next, caught_signal = 1
                PROVE  StepsLeft' < StepsLeft
    OBVIOUS
  <2>1. canceled = Workers /\ \A t \in Workers : alive[t] = 1
    BY DEF CleanupInv, ShutDown
  <2>2. TypeInv'
    BY TypeStep
  <2>. QED
    BY <2>1, <2>2, TaskShrinks, LogShrinks, MainShrinks, HandlerShrinks DEF Next
<1>2. Init => ChecksTemp
  BY DEF Init, ChecksTemp
<1>. QED
  BY <1>1, <1>2, ChecksTempStep, CleanupInvariant, PTL DEF Spec, ShutdownAdvances

(* The steps of a shutdown run out only when the process is gone or when a *)
(* cancelled thread has taken the mutex with it: a thread main waits for,  *)
(* and that waits for the mutex, waits for one that can still move.        *)
THEOREM OnlyALostMutexStallsShutdown == Spec => []ShutdownGoesOn
<1>1. TypeInv /\ LockDiscipline => Orphaned \/ CanMove
  <2>. SUFFICES ASSUME TypeInv, LockDiscipline, ~Orphaned, pc[watched] # "done"
                PROVE  CanMove
    BY DEF CanMove
  <2>1. \A t \in Workers : pc[t] = "done" \/ pc[t] = "lock"
                           \/ pc[t] \in CancellationPoints[t] \cup MayCancelPoints[t]
    BY DEF TypeInv, TypeOK, WorkerPc, CancellationPoints, MayCancelPoints, Workers, Sensors
  <2>2. watched \in Workers /\ (mutex # "none" => mutex \in Workers)
    BY DEF TypeInv, TypeOK
  <2>3. CASE mutex \in Workers
    <3>1. InCS(mutex)
      BY <2>3 DEF LockDiscipline
    <3>2. pc[mutex] \notin {"done", "lock"}
      BY <2>3, <3>1 DEF InCS, CriticalSection, Workers, Sensors
    <3>. QED
      BY <2>1, <2>3, <3>2 DEF CanMove
  <2>4. CASE mutex = "none"
    BY <2>1, <2>2, <2>4 DEF CanMove
  <2>. QED
    BY <2>2, <2>3, <2>4
<1>. QED
  <2>1. TypeInv /\ LockDiscipline => ShutdownGoesOn
    BY <1>1 DEF ShutdownGoesOn
  <2>. QED
    BY <2>1, TypeInvariant, LockIsDisciplined, PTL
=============================================================================
