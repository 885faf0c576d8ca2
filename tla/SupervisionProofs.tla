-------------------------- MODULE SupervisionProofs -------------------------
(***************************************************************************)
(* Proofs about Supervision, for every queue length, life limit, choice of *)
(* faults and number of signals.                                           *)
(***************************************************************************)
EXTENDS SupervisionLock, MessageQueueProofs, TLAPS
-----------------------------------------------------------------------------
(* Type correctness.  TypeOK is not inductive: the log task cancels        *)
(* inHand.task, which is a task only where it holds a report, and main     *)
(* polls a queue of the task it watches, which only a sensor task has.     *)

ReportInHand  == pc["log"] \in {"report", "grace"} => inHand \in Report
WatchesSensor == mainPc # "join" => watched \in Sensors
TypeInv == TypeOK /\ ReportInHand /\ WatchesSensor

LEMMA TypeInit == Init => TypeInv
<1>. SUFFICES ASSUME Init PROVE TypeInv
  OBVIOUS
<1>1. << >> \in Queue({"HEART_BEAT", "FAILURE"}) /\ << >> \in Queue(Report)
  BY EmptyType
<1>2. toMain \in [Sensors -> Queue({"HEART_BEAT", "FAILURE"})] /\ mainToLog \in Queue(Report)
  BY <1>1 DEF Init
<1>3. life \in [Sensors -> 0 .. LifeLimit + 1] /\ signals \in 0 .. MaxSignals
  BY SupervisionAssumption DEF Init
<1>4. led \in [1 .. 2 -> BOOLEAN] /\ alive \in [Workers -> {0, 1}]
  BY DEF Init
<1>5. /\ pc \in [Workers -> WorkerPc["log"] \cup WorkerPc["temp"] \cup WorkerPc["light"]]
      /\ \A t \in Workers : pc[t] \in WorkerPc[t]
      /\ failure \in [Sensors -> BOOLEAN]
      /\ ReportInHand /\ WatchesSensor
  BY DEF Init, Workers, Sensors, WorkerPc, ReportInHand, WatchesSensor
<1>6. /\ canceled \subseteq Workers
      /\ mutex \in Workers \cup {"none"} /\ exited \in BOOLEAN
      /\ queuesOpen \subseteq Workers /\ file \in {"absent", "open", "closed"}
      /\ inHand \in Report \cup {NoReport} /\ mainPc \in MainPc /\ watched \in Workers
      /\ handler \in HandlerPc /\ caught_signal \in {0, 1}
  BY DEF Init, Workers, Sensors, MainPc, HandlerPc
<1>. QED
  BY <1>2, <1>3, <1>4, <1>5, <1>6 DEF TypeInv, TypeOK

(* What a report names, and what its level may be. *)
LEMMA ReportFields ==
  ASSUME NEW r \in Report
  PROVE  r.task \in Sensors /\ r.level \in {"ALERT", "CRITICAL"}
  BY DEF Report

(* The steps of the handler that close a queue. *)
HandlerCloses == HandlerCloseLog \/ HandlerCloseTemp \/ HandlerCloseLight

(* Each step of the program keeps the types. *)
LEMMA TypeStep == TypeInv /\ [Next]_vars => TypeInv'
<1>. SUFFICES ASSUME TypeInv, [Next]_vars PROVE TypeInv'
  OBVIOUS
<1>. USE DEF TypeInv, TypeOK, ReportInHand, WatchesSensor, Workers, Sensors, WorkerPc
<1>1. ASSUME NEW t \in Workers, Die(t) PROVE TypeInv'
  BY <1>1 DEF Die, Goto, CancellationPoints, MayCancelPoints, taskVars, queueVars,
              mainVars, signalVars
<1>2. ASSUME NEW t \in Workers, Lock(t) PROVE TypeInv'
  BY <1>2 DEF Lock, At, InsideLock, Goto, taskVars, queueVars, logVars, mainVars, signalVars
<1>3. ASSUME NEW t \in Sensors, TaskLoop(t) PROVE TypeInv'
  BY <1>3 DEF TaskLoop, At, Goto, taskVars, queueVars, logVars, mainVars, signalVars
<1>4. CASE TempSense
  BY <1>4 DEF TempSense, Sense, CloseAndUnlock, At, Goto, queueVars, logVars, mainVars,
              signalVars
<1>5. CASE LightSense
  BY <1>5 DEF LightSense, Sense, At, Goto, queueVars, logVars, mainVars, signalVars
<1>6. CASE LightExit
  BY <1>6 DEF LightExit, taskVars, queueVars, logVars, mainVars, signalVars
<1>7. ASSUME NEW t \in Sensors, Comm(t)
      PROVE  toMain' \in [Sensors -> Queue({"HEART_BEAT", "FAILURE"})]
  BY <1>7, SentType DEF Comm
<1>8. CASE TempComm
  <2>1. toMain' \in [Sensors -> Queue({"HEART_BEAT", "FAILURE"})]
    BY <1>7, <1>8 DEF TempComm
  <2>. QED
    BY <1>8, <2>1 DEF TempComm, Comm, At, Goto, taskVars, logVars, mainVars, signalVars
<1>9. CASE LightComm
  <2>1. toMain' \in [Sensors -> Queue({"HEART_BEAT", "FAILURE"})]
    BY <1>7, <1>9 DEF LightComm
  <2>. QED
    BY <1>9, <2>1 DEF LightComm, Comm, CloseAndUnlock, At, Goto, taskVars, logVars,
                      mainVars, signalVars
<1>10. CASE LogStart
  BY <1>10 DEF LogStart, At, Goto, taskVars, queueVars, mainVars, signalVars
<1>11. CASE LogMainQueue
  <2>1. HasMessage(mainToLog) =>
          Received(mainToLog) \in Queue(Report) /\ Head(mainToLog) \in Report
    BY ReceivedType
  <2>. QED
    BY <1>11, <2>1 DEF LogMainQueue, At, Goto, taskVars, mainVars, signalVars
<1>12. CASE LogAlert
  BY <1>12, ReportFields DEF LogAlert, Fwrite, At, Goto, queueVars, logVars, mainVars,
                             signalVars
<1>13. CASE LogGrace
  <2>1. canceled' \subseteq Workers
    BY <1>13, ReportFields DEF LogGrace, At
  <2>. QED
    BY <1>13, <2>1 DEF LogGrace, At, Goto, taskVars, queueVars, mainVars, signalVars
<1>14. CASE LogCritical
  <2>1. canceled' \subseteq Workers
    BY <1>14, ReportFields DEF LogCritical, At
  <2>. QED
    BY <1>14, <2>1 DEF LogCritical, Fwrite, At, Goto, taskVars, queueVars, mainVars,
                       signalVars
<1>15. CASE LogData
  BY <1>15 DEF LogData, At, Goto, taskVars, queueVars, logVars, mainVars, signalVars
<1>16. CASE LogWrite
  BY <1>16 DEF LogWrite, Fwrite, At, Goto, taskVars, queueVars, logVars, mainVars, signalVars
<1>17. CASE MainLoop \/ MainCheckTemp
  <2>1. mainPc' \in MainPc /\ watched' \in Sensors
    BY <1>17 DEF MainLoop, MainCheckTemp, Main, NextTask, MainPc
  <2>. QED
    BY <1>17, <2>1 DEF MainLoop, MainCheckTemp, threadVars, taskVars, queueVars, logVars,
                       signalVars
<1>18. ASSUME NEW r \in Report, ToLog(r) PROVE mainToLog' \in Queue(Report)
  BY <1>18, SentType DEF ToLog
<1>19. CASE MainMiss
  <2>1. watched \in Sensors /\ mainPc' \in MainPc /\ mainPc' # "join"
    BY <1>19 DEF MainMiss, Main, MainPc
  <2>2. life' \in [Sensors -> 0 .. LifeLimit + 1]
    BY <1>19, <2>1, SupervisionAssumption DEF MainMiss, Bump
  <2>. QED
    BY <1>19, <2>1, <2>2 DEF MainMiss, threadVars, taskVars, queueVars, logVars, signalVars
<1>20. CASE MainRecv
  <2>1. watched \in Sensors /\ mainPc' \in MainPc /\ mainPc' # "join"
    BY <1>20 DEF MainRecv, Main, MainPc
  <2>2. toMain' \in [Sensors -> Queue({"HEART_BEAT", "FAILURE"})]
    BY <1>20, <2>1, ReceivedType DEF MainRecv
  <2>3. FailureReport[watched] \in Report
    BY <2>1 DEF FailureReport, Report
  <2>4. mainToLog' \in Queue(Report)
    BY <1>18, <1>20, <2>3 DEF MainRecv
  <2>. QED
    BY <1>20, <2>1, <2>2, <2>4 DEF MainRecv, threadVars, taskVars, logVars, signalVars
<1>21. CASE MainLife
  <2>1. watched \in Sensors /\ watched' \in Sensors /\ mainPc' \in MainPc
    BY <1>21 DEF MainLife, Main, NextTask, MainPc
  <2>2. SilenceReport[watched] \in Report
    BY <2>1 DEF SilenceReport, Report
  <2>3. mainToLog' \in Queue(Report) /\ led' \in [1 .. 2 -> BOOLEAN]
    BY <1>18, <1>21, <2>2 DEF MainLife, LedOn
  <2>. QED
    BY <1>21, <2>1, <2>3 DEF MainLife, threadVars, taskVars, logVars, signalVars
<1>32. CASE MainLamp \/ MainRelamp
  <2>1. watched \in Sensors /\ watched' \in Sensors /\ mainPc' \in MainPc
    BY <1>32 DEF MainLamp, MainRelamp, Main, NextTask, MainPc
  <2>2. led' \in [1 .. 2 -> BOOLEAN]
    BY <1>32 DEF MainLamp, MainRelamp, LedOn
  <2>. QED
    BY <1>32, <2>1, <2>2 DEF MainLamp, MainRelamp, threadVars, taskVars, queueVars, logVars,
                             signalVars
<1>22. ASSUME CloseQueues
       PROVE  /\ toMain' \in [Sensors -> Queue({"HEART_BEAT", "FAILURE"})]
              /\ mainToLog' \in Queue(Report) /\ queuesOpen' \subseteq Workers
  BY <1>22, EmptyType DEF CloseQueues
<1>23. ASSUME Fclose
       PROVE  file' \in {"absent", "open", "closed"} /\ exited' \in BOOLEAN
  BY <1>23 DEF Fclose
<1>24. CASE MainLinger
  <2>1. /\ toMain' \in [Sensors -> Queue({"HEART_BEAT", "FAILURE"})]
        /\ mainToLog' \in Queue(Report) /\ queuesOpen' \subseteq Workers
    <3>1. CASE UNCHANGED queueVars
      BY <3>1 DEF queueVars
    <3>2. CASE CloseQueues
      BY <1>22, <3>2
    <3>. QED
      BY <1>24, <3>1, <3>2 DEF MainLinger
  <2>2. file' \in {"absent", "open", "closed"} /\ exited' \in BOOLEAN
    BY <1>23, <1>24 DEF MainLinger
  <2>3. /\ canceled' \subseteq Workers /\ led' \in [1 .. 2 -> BOOLEAN]
        /\ caught_signal' \in {0, 1}
    BY <1>24 DEF MainLinger, LedsOff
  <2>. QED
    BY <1>24, <2>1, <2>2, <2>3 DEF MainLinger, MainPc, taskVars
<1>25. CASE MainJoin
  BY <1>25 DEF MainJoin, Main, NextJoin, taskVars, queueVars, logVars, signalVars
<1>26. CASE Sigint
  <2>1. signals' \in 0 .. MaxSignals /\ handler' \in HandlerPc
    BY <1>26, SupervisionAssumption DEF Sigint, HandlerPc
  <2>. QED
    BY <1>26, <2>1 DEF Sigint, threadVars, taskVars, queueVars, logVars, mainVars
<1>27. ASSUME NEW at, NEW t \in Sensors, NEW next \in HandlerPc, HandlerReport(at, t, next)
       PROVE  TypeInv'
  <2>1. [level |-> "CRITICAL", task |-> t] \in Report
    BY DEF Report
  <2>2. mainToLog' \in Queue(Report) /\ handler' \in HandlerPc
    BY <1>18, <1>27, <2>1 DEF HandlerReport
  <2>. QED
    BY <1>27, <2>2 DEF HandlerReport, threadVars, taskVars, logVars, mainVars
<1>28. CASE HandlerCancel
  BY <1>28 DEF HandlerCancel, HandlerPc, taskVars, queueVars, logVars, mainVars
<1>29. CASE HandlerCloses
  <2>1. PICK q \in Workers, next \in HandlerPc : \E at : HandlerClose(at, q, next)
    BY <1>29 DEF HandlerCloses, HandlerCloseLog, HandlerCloseTemp, HandlerCloseLight, HandlerPc
  <2>2. /\ toMain' \in [Sensors -> Queue({"HEART_BEAT", "FAILURE"})]
        /\ mainToLog' \in Queue(Report) /\ queuesOpen' \subseteq Workers
    BY <2>1, EmptyType DEF HandlerClose, CloseQueue
  <2>. QED
    BY <2>1, <2>2 DEF HandlerClose, threadVars, taskVars, logVars, mainVars
<1>33. CASE HandlerFlags
  <2>1. /\ alive' \in [Workers -> {0, 1}] /\ led' \in [1 .. 2 -> BOOLEAN]
        /\ handler' \in HandlerPc
    BY <1>33 DEF HandlerFlags, LedsOff, HandlerPc
  <2>. QED
    BY <1>33, <2>1 DEF HandlerFlags, threadVars, queueVars, logVars
<1>34. CASE HandlerFclose
  BY <1>23, <1>34 DEF HandlerFclose, HandlerPc, taskVars, queueVars, mainVars
<1>30. CASE UNCHANGED vars
  BY <1>30 DEF vars, threadVars, taskVars, queueVars, logVars, mainVars, signalVars
<1>31. CASE HandlerNoHBTemp \/ HandlerNoHBLight
  BY <1>27, <1>31 DEF HandlerNoHBTemp, HandlerNoHBLight, HandlerPc
<1>. QED
  BY <1>1, <1>2, <1>3, <1>4, <1>5, <1>6, <1>8, <1>9, <1>10, <1>11, <1>12, <1>13, <1>14,
     <1>15, <1>16, <1>17, <1>19, <1>20, <1>21, <1>24, <1>25, <1>26, <1>28, <1>29, <1>30,
     <1>31, <1>32, <1>33, <1>34
  DEF Next, TempNext, LightNext, LogNext, MainNext, HandlerNext, HandlerCloses

LEMMA TypeInvariant == Spec => []TypeInv
  BY TypeInit, TypeStep, PTL DEF Spec

(* Every variable keeps its type.  In particular the process never holds   *)
(* more messages in a queue than mq_maxmsg, and what the log task cancels  *)
(* is one of the threads main created.                                     *)
THEOREM TypeCorrect == Spec => []TypeOK
<1>1. TypeInv => TypeOK
  BY DEF TypeInv
<1>. QED
  BY <1>1, TypeInvariant, PTL
-----------------------------------------------------------------------------
(* The mutex.                                                              *)

(* The steps that leave the loops of the three threads where they are. *)
Elsewhere ==
  \/ LightExit \/ MainNext \/ Sigint \/ HandlerNext \/ UNCHANGED vars

(* They neither move a thread nor touch the mutex, and take no             *)
(* cancellation back.                                                      *)
LEMMA ElsewhereFrame ==
  ASSUME TypeInv, Elsewhere
  PROVE  pc' = pc /\ mutex' = mutex /\ canceled \subseteq canceled'
<1>1. CASE LightExit
  BY <1>1 DEF LightExit
<1>2. CASE MainNext
  BY <1>2 DEF MainNext, MainLoop, MainCheckTemp, MainMiss, MainRecv, MainLamp, MainLife,
              MainRelamp, MainLinger, MainJoin, threadVars, TypeInv, TypeOK
<1>3. CASE Sigint \/ HandlerNext
  BY <1>3 DEF Sigint, HandlerNext, HandlerNoHBTemp, HandlerNoHBLight, HandlerReport,
              HandlerCancel, HandlerCloseLog, HandlerCloseTemp, HandlerCloseLight, HandlerClose,
              HandlerFlags, HandlerFclose, threadVars, TypeInv, TypeOK
<1>4. CASE UNCHANGED vars
  BY <1>4 DEF vars, threadVars
<1>. QED
  BY <1>1, <1>2, <1>3, <1>4 DEF Elsewhere

(* A mutex that is locked is held by a thread between its lock and its     *)
(* unlock, or was lost with a thread cancelled there.                      *)
LEMMA LockStep == TypeInv /\ LockDiscipline /\ [Next]_vars => LockDiscipline'
<1>. SUFFICES ASSUME TypeInv, LockDiscipline, [Next]_vars PROVE LockDiscipline'
  OBVIOUS
<1>. USE DEF TypeInv, TypeOK, LockDiscipline, Orphaned, InCS, CriticalSection, Workers,
             Sensors, WorkerPc
<1>1. ASSUME NEW t \in Workers, Die(t) PROVE LockDiscipline'
  BY <1>1 DEF Die, Goto
<1>2. ASSUME NEW t \in Workers, Lock(t) PROVE LockDiscipline'
  BY <1>2 DEF Lock, At, InsideLock, Goto
<1>3. ASSUME NEW t \in Sensors, TaskLoop(t) PROVE LockDiscipline'
  BY <1>3 DEF TaskLoop, At, Goto
<1>4. CASE TempSense
  BY <1>4 DEF TempSense, Sense, CloseAndUnlock, At, Goto
<1>5. CASE LightSense
  BY <1>5 DEF LightSense, Sense, At, Goto
<1>6. CASE TempComm
  BY <1>6 DEF TempComm, Comm, At, Goto
<1>7. CASE LightComm
  BY <1>7 DEF LightComm, Comm, CloseAndUnlock, At, Goto
<1>8. CASE LogStart \/ LogMainQueue
  BY <1>8 DEF LogStart, LogMainQueue, At, Goto
<1>9. CASE LogAlert \/ LogGrace \/ LogCritical
  BY <1>9 DEF LogAlert, LogGrace, LogCritical, At, Goto
<1>10. CASE LogData
  BY <1>10 DEF LogData, At, Goto
<1>11. CASE LogWrite
  BY <1>11 DEF LogWrite, At, Goto
<1>12. CASE Elsewhere
  BY <1>12, ElsewhereFrame
<1>. QED
  BY <1>1, <1>2, <1>3, <1>4, <1>5, <1>6, <1>7, <1>8, <1>9, <1>10, <1>11, <1>12
  DEF Next, TempNext, LightNext, LogNext, Elsewhere

(* At most one of the three threads is between pthread_mutex_lock and      *)
(* pthread_mutex_unlock, and only a cancelled thread leaves the mutex      *)
(* locked for good.                                                        *)
THEOREM LockIsDisciplined == Spec => []LockDiscipline
<1>1. Init => LockDiscipline
  BY DEF Init, LockDiscipline, InCS, CriticalSection, Workers, Sensors
<1>. QED
  BY <1>1, TypeInvariant, LockStep, PTL DEF Spec
-----------------------------------------------------------------------------
(* Refinement of CancelLock.                                               *)

LEMMA LockRefinedInit == Init => AbstractLock!LockInit
  BY DEF Init, AbstractLock!LockInit, PhaseOf, InCS, CriticalSection, Workers, Sensors

(* A thread that goes from one point to another moves its phase and no     *)
(* other.                                                                  *)
LEMMA PhaseMoves ==
  ASSUME TypeInv, NEW t \in Workers, NEW l, Goto(t, l),
         NEW from, NEW to, PhaseOf(t) = from, PhaseOf(t)' = to
  PROVE  AbstractLock!Move(t, from, to)
<1>1. ASSUME NEW s \in Workers, s # t PROVE PhaseOf(s)' = PhaseOf(s)
  <2>1. pc'[s] = pc[s]
    BY <1>1 DEF Goto, TypeInv, TypeOK
  <2>. QED
    BY <2>1 DEF PhaseOf, InCS
<1>2. [s \in Workers |-> PhaseOf(s)]' = [[s \in Workers |-> PhaseOf(s)] EXCEPT ![t] = to]
  BY <1>1
<1>. QED
  BY <1>2 DEF AbstractLock!Move

LEMMA PhaseStays ==
  ASSUME TypeInv, NEW t \in Workers, NEW l, Goto(t, l), PhaseOf(t)' = PhaseOf(t)
  PROVE  [s \in Workers |-> PhaseOf(s)]' = [s \in Workers |-> PhaseOf(s)]
<1>1. AbstractLock!Move(t, PhaseOf(t), PhaseOf(t))
  BY PhaseMoves
<1>. QED
  BY <1>1 DEF AbstractLock!Move

(* The phase of a thread at a point of its loop, before and after a step. *)
LEMMA PhaseValue ==
  ASSUME NEW t \in Workers
  PROVE  /\ pc[t] = "done" => PhaseOf(t) = "ended"
         /\ pc[t] = "lock" => PhaseOf(t) = "wait"
         /\ InCS(t) => PhaseOf(t) = "in"
         /\ pc[t] \notin {"done", "lock"} /\ ~InCS(t) => PhaseOf(t) = "out"
         /\ pc'[t] = "done" => PhaseOf(t)' = "ended"
         /\ pc'[t] = "lock" => PhaseOf(t)' = "wait"
         /\ InCS(t)' => PhaseOf(t)' = "in"
         /\ pc'[t] \notin {"done", "lock"} /\ ~InCS(t)' => PhaseOf(t)' = "out"
<1>. /\ \A x \in CriticalSection[t] : x \notin {"done", "lock"}
  BY DEF CriticalSection, Workers, Sensors
<1>. QED
  BY DEF PhaseOf, InCS

(* Where a thread goes, its pc is. *)
LEMMA GotoArrives ==
  ASSUME TypeInv, NEW t \in Workers, NEW l, Goto(t, l)
  PROVE  pc'[t] = l
  BY DEF TypeInv, TypeOK, Goto

LEMMA LockRefinedStep ==
  TypeInv /\ [Next]_vars => [AbstractLock!LockNext]_(AbstractLock!lockVars)
<1>. SUFFICES ASSUME TypeInv, [Next]_vars
              PROVE  [AbstractLock!LockNext]_(AbstractLock!lockVars)
  OBVIOUS
<1>a. {"log", "temp", "light"} \subseteq Workers
  BY DEF Workers, Sensors
<1>1. ASSUME NEW t \in Workers, Die(t) PROVE AbstractLock!End(t)
  <2>1. PhaseOf(t) \in {"out", "in"} /\ PhaseOf(t)' = "ended"
    BY <1>1, PhaseValue, GotoArrives
    DEF Die, CancellationPoints, MayCancelPoints, Workers, Sensors
  <2>2. AbstractLock!Move(t, PhaseOf(t), "ended")
    BY <1>1, <2>1, PhaseMoves DEF Die
  <2>. QED
    BY <1>1, <2>1, <2>2 DEF Die, AbstractLock!End, AbstractLock!Move
<1>2. ASSUME NEW t \in Workers, Lock(t) PROVE AbstractLock!Acquire(t)
  <2>1. InsideLock[t] \in CriticalSection[t]
    BY DEF InsideLock, CriticalSection, Workers, Sensors
  <2>2. PhaseOf(t) = "wait" /\ PhaseOf(t)' = "in"
    BY <1>2, <2>1, PhaseValue, GotoArrives DEF Lock, At, InCS
  <2>3. AbstractLock!Move(t, "wait", "in")
    BY <1>2, <2>2, PhaseMoves DEF Lock
  <2>. QED
    BY <1>2, <2>3 DEF Lock, AbstractLock!Acquire
<1>3. ASSUME NEW t \in Sensors, TaskLoop(t)
      PROVE  AbstractLock!Request(t) \/ AbstractLock!End(t)
  <2>1. PICK l \in {"lock", "done"} : Goto(t, l)
    BY <1>3 DEF TaskLoop
  <2>2. /\ PhaseOf(t) = "out"
        /\ PhaseOf(t)' = IF l = "lock" THEN "wait" ELSE "ended"
    BY <1>3, <2>1, PhaseValue, GotoArrives
    DEF TaskLoop, At, InCS, CriticalSection, Workers, Sensors
  <2>3. AbstractLock!Move(t, "out", IF l = "lock" THEN "wait" ELSE "ended")
    BY <2>1, <2>2, PhaseMoves DEF Workers
  <2>. QED
    BY <1>3, <2>2, <2>3 DEF TaskLoop, AbstractLock!Request, AbstractLock!End, AbstractLock!Move
<1>4. ASSUME NEW t \in Sensors, NEW l, CloseAndUnlock(t, l), InCS(t),
             l \in {"comm", "sleep"}, t = "light" => l = "sleep"
      PROVE  AbstractLock!Release(t) \/ AbstractLock!End(t)
  <2>1. CASE t \in canceled
    <3>1. PhaseOf(t) = "in" /\ PhaseOf(t)' = "ended"
      BY <1>4, <2>1, PhaseValue, GotoArrives DEF CloseAndUnlock, Workers
    <3>2. AbstractLock!Move(t, "in", "ended")
      BY <1>4, <2>1, <3>1, PhaseMoves DEF CloseAndUnlock, Workers
    <3>. QED
      BY <1>4, <2>1, <3>1, <3>2 DEF CloseAndUnlock, AbstractLock!End, AbstractLock!Move
  <2>2. CASE t \notin canceled
    <3>1. pc'[t] = l /\ ~InCS(t)'
      BY <1>4, <2>2, GotoArrives DEF CloseAndUnlock, InCS, CriticalSection, Workers, Sensors
    <3>2. PhaseOf(t) = "in" /\ PhaseOf(t)' = "out"
      BY <1>4, <3>1, PhaseValue DEF Workers
    <3>3. AbstractLock!Move(t, "in", "out")
      BY <1>4, <2>2, <3>2, PhaseMoves DEF CloseAndUnlock, Workers
    <3>. QED
      BY <1>4, <2>2, <3>3 DEF CloseAndUnlock, AbstractLock!Release
  <2>. QED
    BY <2>1, <2>2
<1>5. CASE TempSense
  <2>1. InCS("temp") /\ CloseAndUnlock("temp", "comm")
    BY <1>5 DEF TempSense, Sense, At, InCS, CriticalSection
  <2>2. AbstractLock!Release("temp") \/ AbstractLock!End("temp")
    BY <1>4, <2>1 DEF Sensors
  <2>. QED
    BY <1>a, <2>2 DEF AbstractLock!LockNext
<1>6. CASE LightComm
  <2>1. InCS("light") /\ CloseAndUnlock("light", "sleep")
    BY <1>6 DEF LightComm, Comm, At, InCS, CriticalSection
  <2>2. AbstractLock!Release("light") \/ AbstractLock!End("light")
    BY <1>4, <2>1 DEF Sensors
  <2>. QED
    BY <1>a, <2>2 DEF AbstractLock!LockNext
<1>7. ASSUME NEW t \in Workers, NEW l, Goto(t, l), UNCHANGED mutex,
             PhaseOf(t)' = PhaseOf(t)
      PROVE  UNCHANGED AbstractLock!lockVars
  BY <1>7, PhaseStays DEF AbstractLock!lockVars
<1>8. CASE LightSense
  <2>1. PhaseOf("light") = "in" /\ PhaseOf("light")' = "in"
    BY <1>8, PhaseValue, GotoArrives
    DEF LightSense, Sense, At, InCS, CriticalSection, Workers, Sensors
  <2>. QED
    BY <1>a, <1>7, <1>8, <2>1 DEF LightSense
<1>9. CASE TempComm
  <2>1. PhaseOf("temp") = "out" /\ PhaseOf("temp")' = "out"
    BY <1>9, PhaseValue, GotoArrives
    DEF TempComm, Comm, At, InCS, CriticalSection, Workers, Sensors
  <2>. QED
    BY <1>a, <1>7, <1>9, <2>1 DEF TempComm
<1>10. CASE LogStart
  <2>1. PhaseOf("log") = "out" /\ PhaseOf("log")' = "out"
    BY <1>10, PhaseValue, GotoArrives DEF LogStart, At, InCS, CriticalSection, Workers, Sensors
  <2>. QED
    BY <1>a, <1>7, <1>10, <2>1 DEF LogStart
<1>11. CASE LogMainQueue
  <2>1. PICK l \in {"done", "report", "lock"} : Goto("log", l)
    BY <1>11 DEF LogMainQueue
  <2>2. /\ PhaseOf("log") = "out"
        /\ l = "done" => PhaseOf("log")' = "ended"
        /\ l = "lock" => PhaseOf("log")' = "wait"
        /\ l = "report" => PhaseOf("log")' = "out"
    BY <1>11, <2>1, PhaseValue, GotoArrives
    DEF LogMainQueue, At, InCS, CriticalSection, Workers, Sensors
  <2>3. mutex' = mutex
    BY <1>11 DEF LogMainQueue
  <2>4. CASE l = "done"
    <3>1. AbstractLock!Move("log", "out", "ended")
      BY <1>a, <2>1, <2>2, <2>4, PhaseMoves
    <3>. QED
      BY <1>a, <2>2, <2>3, <3>1 DEF AbstractLock!LockNext, AbstractLock!End, AbstractLock!Move
  <2>5. CASE l = "lock"
    <3>1. AbstractLock!Move("log", "out", "wait")
      BY <1>a, <2>1, <2>2, <2>5, PhaseMoves
    <3>. QED
      BY <1>a, <2>3, <3>1 DEF AbstractLock!LockNext, AbstractLock!Request
  <2>6. CASE l = "report"
    BY <1>a, <1>7, <2>1, <2>2, <2>3, <2>6
  <2>. QED
    BY <2>4, <2>5, <2>6
<1>12. CASE LogAlert
  <2>1. PhaseOf("log") = "out" /\ PhaseOf("log")' = "out"
    BY <1>12, PhaseValue, GotoArrives DEF LogAlert, At, InCS, CriticalSection, Workers, Sensors
  <2>. QED
    BY <1>a, <1>7, <1>12, <2>1 DEF LogAlert
<1>13. CASE LogGrace \/ LogCritical
  <2>1. PhaseOf("log") = "out" /\ PhaseOf("log")' = "wait"
    BY <1>13, PhaseValue, GotoArrives
    DEF LogGrace, LogCritical, At, InCS, CriticalSection, Workers, Sensors
  <2>2. AbstractLock!Move("log", "out", "wait")
    BY <1>a, <1>13, <2>1, PhaseMoves DEF LogGrace, LogCritical
  <2>. QED
    BY <1>a, <1>13, <2>2 DEF LogGrace, LogCritical, AbstractLock!LockNext, AbstractLock!Request
<1>14. CASE LogData
  <2>1. PhaseOf("log") = "in" /\ PhaseOf("log")' = "in"
    BY <1>14, PhaseValue, GotoArrives DEF LogData, At, InCS, CriticalSection, Workers, Sensors
  <2>. QED
    BY <1>a, <1>7, <1>14, <2>1 DEF LogData
<1>15. CASE LogWrite
  <2>1. PhaseOf("log") = "in" /\ PhaseOf("log")' = "out"
    BY <1>15, PhaseValue, GotoArrives DEF LogWrite, At, InCS, CriticalSection, Workers, Sensors
  <2>2. AbstractLock!Move("log", "in", "out")
    BY <1>a, <1>15, <2>1, PhaseMoves DEF LogWrite
  <2>. QED
    BY <1>a, <1>15, <2>2 DEF LogWrite, AbstractLock!LockNext, AbstractLock!Release
<1>16. CASE Elsewhere
  <2>1. pc' = pc /\ mutex' = mutex
    BY <1>16, ElsewhereFrame
  <2>. QED
    BY <2>1 DEF AbstractLock!lockVars, PhaseOf, InCS
<1>. QED
  BY <1>1, <1>2, <1>3, <1>5, <1>6, <1>8, <1>9, <1>10, <1>11, <1>12, <1>13, <1>14, <1>15,
     <1>16
  DEF Next, TempNext, LightNext, LogNext, Elsewhere, AbstractLock!LockNext, Workers, Sensors

(* The three loops use the mutex as CancelLock says, whatever the sensors, *)
(* main, the log task's reports and the signals do: they lock before they  *)
(* enter, unlock once, and end inside only by a cancellation.              *)
THEOREM LockRefinement == Spec => ImplementsLock
<1>. QED
  BY LockRefinedInit, LockRefinedStep, TypeInvariant, PTL
  DEF Spec, ImplementsLock, AbstractLock!LockSpec
=============================================================================
