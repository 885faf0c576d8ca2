---------------------------- MODULE RestartProofs ---------------------------
(***************************************************************************)
(* Proofs that a message which outlives its process costs no task its life *)
(* but the one it names, and that a shutdown leaves no such message: for   *)
(* every number of restarts and signals, every queue length, life limit    *)
(* and choice of faults.                                                   *)
(***************************************************************************)
EXTENDS Restart, SupervisionSafety
-----------------------------------------------------------------------------
(* A new process is typed like the first one, except that its queues hold  *)
(* what the one before left in them.                                       *)
LEMMA RestartTyped == TypeInv /\ Restart => TypeInv'
<1>. SUFFICES ASSUME TypeInv, Restart PROVE TypeInv'
  OBVIOUS
<1>1. /\ toMain' \in [Sensors -> Queue({"HEART_BEAT", "FAILURE"})]
      /\ mainToLog' \in Queue(Report)
  BY DEF Restart, QueuesAsTheyWere, TypeInv, TypeOK
<1>2. life' \in [Sensors -> 0 .. LifeLimit + 1] /\ signals' \in 0 .. MaxSignals
  BY SupervisionAssumption DEF Restart
<1>3. led' \in [1 .. 2 -> BOOLEAN] /\ alive' \in [Workers -> {0, 1}]
  BY DEF Restart, TypeInv, TypeOK
<1>4. /\ pc' \in [Workers -> WorkerPc["log"] \cup WorkerPc["temp"] \cup WorkerPc["light"]]
      /\ \A t \in Workers : pc'[t] \in WorkerPc[t]
      /\ failure' \in [Sensors -> BOOLEAN]
      /\ ReportInHand' /\ WatchesSensor'
  BY DEF Restart, Workers, Sensors, WorkerPc, ReportInHand, WatchesSensor
<1>5. /\ canceled' \subseteq Workers
      /\ mutex' \in Workers \cup {"none"} /\ exited' \in BOOLEAN
      /\ queuesOpen' \subseteq Workers /\ file' \in {"absent", "open", "closed"}
      /\ inHand' \in Report \cup {NoReport} /\ mainPc' \in MainPc /\ watched' \in Workers
      /\ handler' \in HandlerPc /\ caught_signal' \in {0, 1}
  BY DEF Restart, QueuesAsTheyWere, Workers, Sensors, MainPc, HandlerPc
<1>. QED
  BY <1>1, <1>2, <1>3, <1>4, <1>5 DEF TypeInv, TypeOK

(* Any other step is one of the program, and leaves leftover alone. *)
LEMMA RunningStep ==
  ASSUME [RestartNext]_restartVars, ~Restart
  PROVE  [Next]_vars /\ leftover' = leftover
  BY DEF RestartNext, restartVars

LEMMA RestartTypes == RestartSpec => []TypeInv
<1>1. RestartInit => TypeInv
  BY TypeInit DEF RestartInit
<1>2. TypeInv /\ [RestartNext]_restartVars => TypeInv'
  BY RestartTyped, RunningStep, TypeStep
<1>. QED
  BY <1>1, <1>2, PTL DEF RestartSpec

-----------------------------------------------------------------------------
(* The inductive invariant says of every place where ill news of a task    *)
(* may lie that there is a cause for it in this process, or that it was    *)
(* carried over from the one before.                                       *)
Cause(t) ==
  (t = "temp" /\ TempCause) \/ (t = "light" /\ LightCause) \/ t \in leftover

ReportsCaused  == \A i \in 1 .. Len(mainToLog) : Cause(mainToLog[i].task)
InHandCaused   == inHand \in Report => Cause(inHand.task)
FailuresCaused ==
  \A t \in Sensors : \A i \in 1 .. Len(toMain[t]) :
    toMain[t][i] = "FAILURE" => failure[t] \/ t \in leftover
VictimsCaused  ==
  /\ \A t \in Sensors : t \in canceled => Cause(t)
  /\ "log" \in canceled => signals > 0

RestartInv ==
  ReportsCaused /\ InHandCaused /\ FailuresCaused /\ HandlerJustified /\ VictimsCaused

LEMMA CauseStays ==
  ASSUME TypeInv, [Next]_vars, leftover' = leftover, NEW t, Cause(t)
  PROVE  Cause(t)'
  BY CausesStay DEF Cause

(* At a restart all ill news is leftover. *)
LEMMA RestartKeeps == TypeInv /\ Restart => RestartInv'
<1>. SUFFICES ASSUME TypeInv, Restart PROVE RestartInv'
  OBVIOUS
<1>1. mainToLog \in Queue(Report) /\ mainToLog' = mainToLog /\ toMain' = toMain
  BY DEF Restart, QueuesAsTheyWere, TypeInv, TypeOK
<1>2. toMain \in [Sensors -> Queue({"HEART_BEAT", "FAILURE"})] /\ leftover' = IllNews
  BY DEF Restart, QueuesAsTheyWere, TypeInv, TypeOK
<1>3. ReportsCaused'
  <2>. SUFFICES ASSUME NEW i \in 1 .. Len(mainToLog) PROVE mainToLog[i].task \in IllNews
    BY <1>1, <1>2 DEF ReportsCaused, Cause
  <2>1. mainToLog[i].task \in Sensors /\ i \in DOMAIN mainToLog
    BY <1>1, QueueElements, ReportFields DEF Queue
  <2>. QED
    BY <2>1 DEF IllNews
<1>4. FailuresCaused'
  <2>. SUFFICES ASSUME NEW t \in Sensors, NEW i \in 1 .. Len(toMain[t]),
                       toMain[t][i] = "FAILURE"
                PROVE  t \in IllNews
    BY <1>1, <1>2 DEF FailuresCaused
  <2>1. i \in DOMAIN toMain[t]
    BY <1>2 DEF Queue
  <2>. QED
    BY <2>1 DEF IllNews
<1>5. InHandCaused' /\ HandlerJustified' /\ VictimsCaused'
  BY DEF Restart, InHandCaused, NoReport, Report, HandlerJustified, VictimsCaused
<1>. QED
  BY <1>3, <1>4, <1>5 DEF RestartInv
-----------------------------------------------------------------------------
(* It is enough that each report in main_to_log is new and caused, or was  *)
(* there before.                                                           *)
LEMMA CausedReportsKept ==
  ASSUME TypeInv, [Next]_vars, leftover' = leftover, ReportsCaused,
         \A j \in 1 .. Len(mainToLog') : \A x :
           x = mainToLog'[j] => Cause(x.task)' \/ \E i \in 1 .. Len(mainToLog) : x = mainToLog[i]
  PROVE  ReportsCaused'
<1>. SUFFICES ASSUME NEW j \in 1 .. Len(mainToLog'), NEW x, x = mainToLog'[j]
              PROVE  Cause(x.task)'
  BY DEF ReportsCaused, Cause
<1>1. CASE \E i \in 1 .. Len(mainToLog) : x = mainToLog[i]
  <2>1. Cause(x.task)
    BY <1>1 DEF ReportsCaused
  <2>. QED
    BY <2>1, CauseStays
<1>. QED
  BY <1>1

LEMMA CausedReportSent ==
  ASSUME TypeInv, [Next]_vars, leftover' = leftover, ReportsCaused,
         NEW r \in Report, ToLog(r), Cause(r.task)'
  PROVE  ReportsCaused'
<1>1. mainToLog \in Queue(Report)
  BY DEF TypeInv, TypeOK
<1>2. ASSUME NEW j \in 1 .. Len(mainToLog'), NEW x, x = mainToLog'[j]
      PROVE  x = r \/ \E i \in 1 .. Len(mainToLog) : x = mainToLog[i]
  <2>1. CASE mainToLog' = mainToLog
    BY <1>2, <2>1
  <2>2. CASE mainToLog' = Sent(mainToLog, r)
    BY <1>1, <1>2, <2>2, SentElements
  <2>. QED
    BY <2>1, <2>2 DEF ToLog
<1>. QED
  BY <1>2, CausedReportsKept

LEMMA ReportsCausedStep ==
  ASSUME TypeInv, RestartInv, [Next]_vars, leftover' = leftover
  PROVE  ReportsCaused'
<1>. USE DEF RestartInv
<1>1. CASE mainToLog' = mainToLog
  BY <1>1, CausedReportsKept
<1>2. CASE CloseQueues \/ \E q \in Workers : CloseQueue(q)
  <2>1. mainToLog' = << >> \/ mainToLog' = mainToLog
    BY <1>2 DEF CloseQueues, CloseQueue
  <2>. QED
    BY <1>1, <2>1 DEF ReportsCaused
<1>3. CASE LogMainQueue /\ mainToLog' # mainToLog
  <2>1. mainToLog \in Queue(Report) /\ HasMessage(mainToLog) /\ mainToLog' = Received(mainToLog)
    BY <1>3 DEF LogMainQueue, TypeInv, TypeOK
  <2>2. \A j \in 1 .. Len(mainToLog') :
          j + 1 \in 1 .. Len(mainToLog) /\ mainToLog'[j] = mainToLog[j + 1]
    BY <2>1, ReceivedElements
  <2>. QED
    BY <2>2, CausedReportsKept
<1>4. CASE MainRecv /\ mainToLog' # mainToLog
  <2>1. /\ watched \in Sensors /\ HasMessage(toMain[watched])
        /\ Head(toMain[watched]) = "FAILURE" /\ ToLog(FailureReport[watched])
        /\ toMain[watched] \in Queue({"HEART_BEAT", "FAILURE"})
    BY <1>4 DEF MainRecv, Main, TypeInv, TypeOK, WatchesSensor
  <2>2. failure[watched] \/ watched \in leftover
    BY <2>1, ReceivedElements DEF FailuresCaused
  <2>3. PICK t \in Sensors : t = watched
    BY <2>1
  <2>4. Cause(t)
    BY <2>1, <2>2, <2>3 DEF Cause, TempCause, LightCause, Sensors
  <2>5. FailureReport[t] \in Report /\ FailureReport[t].task = t
    BY DEF FailureReport, Report, Sensors
  <2>. QED
    BY <2>1, <2>3, <2>4, <2>5, CauseStays, CausedReportSent
<1>5. CASE MainLife /\ mainToLog' # mainToLog
  <2>1. watched \in Sensors /\ life[watched] = LifeLimit /\ ToLog(SilenceReport[watched])
    BY <1>5 DEF MainLife, Main, TypeInv, WatchesSensor
  <2>2. LightCause
    BY <2>1, SupervisionAssumption DEF LightCause
  <2>3. Cause("light")'
    BY <2>2, CauseStays DEF Cause
  <2>4. PICK r \in Report : r = SilenceReport[watched] /\ r.task = "light"
    BY <2>1 DEF SilenceReport, Report, Sensors
  <2>. QED
    BY <2>1, <2>3, <2>4, CausedReportSent
<1>6. CASE HandlerNoHBTemp \/ HandlerNoHBLight
  <2>1. PICK t \in Sensors : ToLog([level |-> "CRITICAL", task |-> t]) /\ handler # "idle"
    BY <1>6 DEF HandlerNoHBTemp, HandlerNoHBLight, HandlerReport, Handler, Sensors
  <2>2. Cause(t)
    BY <2>1 DEF HandlerJustified, Cause, TempCause, LightCause, Sensors
  <2>. QED
    BY <2>1, <2>2, CauseStays, CausedReportSent DEF Report
<1>. QED
  BY <1>1, <1>2, <1>3, <1>4, <1>5, <1>6, MainToLogChanges

LEMMA InHandCausedStep ==
  ASSUME TypeInv, RestartInv, [Next]_vars, leftover' = leftover
  PROVE  InHandCaused'
<1>. USE DEF RestartInv
<1>. SUFFICES ASSUME NEW r, r = inHand', r \in Report PROVE Cause(r.task)'
  BY DEF InHandCaused, Cause
<1>1. CASE inHand' = inHand
  BY <1>1, CauseStays DEF InHandCaused
<1>2. CASE inHand' = NoReport
  BY <1>2 DEF NoReport, Report
<1>3. CASE LogMainQueue /\ inHand' # inHand
  <2>1. mainToLog \in Queue(Report) /\ HasMessage(mainToLog) /\ r = Head(mainToLog)
    BY <1>3 DEF LogMainQueue, TypeInv, TypeOK
  <2>2. 1 \in 1 .. Len(mainToLog) /\ r = mainToLog[1]
    BY <2>1, ReceivedElements
  <2>. QED
    BY <2>2, CauseStays DEF ReportsCaused
<1>. QED
  BY <1>1, <1>2, <1>3, InHandChanges DEF Die, LogGrace, LogCritical

LEMMA FailuresCausedStep ==
  ASSUME TypeInv, RestartInv, [Next]_vars, leftover' = leftover
  PROVE  FailuresCaused'
<1>. USE DEF RestartInv
<1>1. \A t \in Sensors : failure[t] \/ t \in leftover => failure'[t] \/ t \in leftover'
  BY CausesStay
<1>2. CASE toMain' = toMain
  BY <1>1, <1>2 DEF FailuresCaused
<1>3. ASSUME NEW t \in Sensors, Comm(t) PROVE FailuresCaused'
  <2>1. PICK m \in {"HEART_BEAT", "FAILURE"} :
          /\ m = "FAILURE" <=> failure[t]
          /\ toMain'[t] = Sent(toMain[t], m) \/ toMain'[t] = toMain[t]
    BY <1>3 DEF Comm, TypeInv, TypeOK
  <2>2. \A u \in Sensors \ {t} : toMain'[u] = toMain[u]
    BY <1>3 DEF Comm, TypeInv, TypeOK
  <2>3. toMain[t] \in Queue({"HEART_BEAT", "FAILURE"})
    BY DEF TypeInv, TypeOK
  <2>4. \A i \in 1 .. Len(toMain'[t]) :
          toMain'[t][i] = "FAILURE" => failure[t] \/ t \in leftover
    BY <2>1, <2>3, SentElements DEF FailuresCaused
  <2>. QED
    BY <1>1, <2>2, <2>4 DEF FailuresCaused
<1>4. CASE MainRecv
  <2>1. watched \in Sensors /\ toMain[watched] \in Queue({"HEART_BEAT", "FAILURE"})
    BY <1>4 DEF MainRecv, Main, TypeInv, TypeOK, WatchesSensor
  <2>2. /\ HasMessage(toMain[watched]) /\ toMain'[watched] = Received(toMain[watched])
        /\ \A u \in Sensors \ {watched} : toMain'[u] = toMain[u]
    BY <1>4, <2>1 DEF MainRecv, TypeInv, TypeOK
  <2>3. \A i \in 1 .. Len(toMain'[watched]) :
          i + 1 \in 1 .. Len(toMain[watched]) /\ toMain'[watched][i] = toMain[watched][i + 1]
    BY <2>1, <2>2, ReceivedElements
  <2>. QED
    BY <1>1, <2>1, <2>2, <2>3 DEF FailuresCaused
<1>5. CASE CloseQueues \/ \E q \in Workers : CloseQueue(q)
  <2>1. \A t \in Sensors : toMain'[t] = << >> \/ toMain'[t] = toMain[t]
    BY <1>5 DEF CloseQueues, CloseQueue
  <2>. QED
    BY <1>1, <2>1 DEF FailuresCaused
<1>. QED
  BY <1>2, <1>3, <1>4, <1>5, ToMainChanges DEF TempComm, LightComm, Sensors

LEMMA VictimsCausedStep ==
  ASSUME TypeInv, RestartInv, [Next]_vars, leftover' = leftover
  PROVE  VictimsCaused'
<1>. USE DEF RestartInv, VictimsCaused
<1>1. /\ \A t \in Sensors : Cause(t) => Cause(t)'
      /\ signals > 0 => signals' > 0
  BY CauseStays, CausesStay
<1>2. CASE canceled' = canceled
  BY <1>1, <1>2
<1>3. CASE LogGrace \/ LogCritical
  <2>1. inHand \in Report /\ canceled' = canceled \cup {inHand.task}
    BY <1>3 DEF LogGrace, LogCritical, At, TypeInv, ReportInHand
  <2>2. inHand.task \in Sensors /\ Cause(inHand.task)
    BY <2>1, ReportFields DEF InHandCaused
  <2>. QED
    BY <1>1, <2>1, <2>2 DEF Sensors
<1>4. CASE HandlerCancel \/ (MainLinger /\ canceled' # canceled)
  <2>1. signals > 0
    BY <1>4 DEF HandlerCancel, Handler, MainLinger, Main, HandlerJustified
  <2>2. \A t \in Sensors : Cause(t)
    BY <2>1 DEF Cause, TempCause, LightCause, Sensors
  <2>. QED
    BY <1>1, <2>1, <2>2
<1>. QED
  BY <1>2, <1>3, <1>4, CanceledChanges
-----------------------------------------------------------------------------
LEMMA RestartInvariant == RestartSpec => []RestartInv
<1>1. RestartInit => RestartInv
  <2>. SUFFICES ASSUME Init PROVE RestartInv
    BY DEF RestartInit
  <2>1. ReportsCaused /\ FailuresCaused
    BY DEF Init, ReportsCaused, FailuresCaused
  <2>2. InHandCaused /\ HandlerJustified /\ VictimsCaused
    BY DEF Init, InHandCaused, NoReport, Report, HandlerJustified, VictimsCaused
  <2>. QED
    BY <2>1, <2>2 DEF RestartInv
<1>2. TypeInv /\ RestartInv /\ [RestartNext]_restartVars => RestartInv'
  <2>. SUFFICES ASSUME TypeInv, RestartInv, [RestartNext]_restartVars PROVE RestartInv'
    OBVIOUS
  <2>1. CASE Restart
    BY <2>1, RestartKeeps
  <2>2. CASE ~Restart
    BY <2>2, RunningStep, ReportsCausedStep, InHandCausedStep, FailuresCausedStep,
       HandlerStep, VictimsCausedStep DEF RestartInv
  <2>. QED
    BY <2>1, <2>2
<1>. QED
  BY <1>1, <1>2, RestartTypes, PTL DEF RestartSpec
-----------------------------------------------------------------------------
(* Over any number of restarts, whenever and for whatever reason the       *)
(* process ended, a task is cancelled for a cause of its own process or    *)
(* for ill news of it that the queues carried over.                        *)
THEOREM LeftoversNameTheirVictims == RestartSpec => []CauseOrLeftover
<1>1. RestartInv => CauseOrLeftover
  BY DEF RestartInv, VictimsCaused, Cause, TempCause, LightCause, CauseOrLeftover, Sensors
<1>. QED
  BY <1>1, RestartInvariant, PTL
-----------------------------------------------------------------------------
(* The cleanup of each process is that of Supervision. *)
LEMMA RestartCleanup ==
  TypeInv /\ RestartInv /\ CleanupInv /\ NothingLeftBehind /\ [RestartNext]_restartVars
    => CleanupInv' /\ NothingLeftBehind'
<1>1. Restart => CleanupInv' /\ NothingLeftBehind'
  BY DEF Restart, QueuesAsTheyWere, CleanupInv, NothingLeftBehind,
         Workers, Sensors
<1>. QED
  BY <1>1, RunningStep, CleanupStep, EmptyStep DEF RestartInv

(* A process whose handler has set its flags leaves no message that could  *)
(* harm a task of the next one, whenever it ends after that.               *)
THEOREM CleanShutdown == RestartSpec => ShutdownIsClean
<1>1. RestartInit => CleanupInv /\ NothingLeftBehind
  BY DEF RestartInit, Init, CleanupInv, NothingLeftBehind
<1>2. CleanupInv /\ NothingLeftBehind /\ [RestartNext]_restartVars
        => [starts' # starts /\ caught_signal = 1 => leftover' = {}]_restartVars
  <2>. SUFFICES ASSUME CleanupInv, NothingLeftBehind, Restart, caught_signal = 1
                PROVE  leftover' = {}
    BY DEF RestartNext, restartVars
  <2>1. mainToLog = << >> /\ \A t \in Sensors : toMain[t] = << >>
    BY DEF CleanupInv, ShutDown, NothingLeftBehind
  <2>2. DOMAIN << >> = {}
    OBVIOUS
  <2>. QED
    BY <2>1, <2>2 DEF Restart, IllNews
<1>. QED
  BY <1>1, <1>2, RestartCleanup, RestartTypes, RestartInvariant, PTL
  DEF RestartSpec, ShutdownIsClean
=============================================================================
