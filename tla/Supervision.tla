---------------------------- MODULE Supervision -----------------------------
(***************************************************************************)
(* The supervision half of src/src/message.c: the main task that polls the *)
(* heartbeats of the temperature and the light task, the log task that     *)
(* terminates a task on main's report, the mutex that the three threads    *)
(* share, deferred cancellation, and the SIGINT handler that shuts the     *)
(* program down.  The queues and flags of the data (readings, requests,    *)
(* responses, alerts) are left to Dataflow.                                *)
(*                                                                         *)
(* A step of a thread runs from one point where another thread, a          *)
(* cancellation or the handler can be observed to the next one.  Sleeps    *)
(* are not timed: a thread may stay at any point as long as it likes.      *)
(***************************************************************************)
EXTENDS MessageQueue

CONSTANTS
  LifeLimit,   \* polls without a message before a task is given up, 10
  Faults,      \* what may go wrong: a sensor ("light", "temp"), the I2C "bus"
  MaxSignals   \* bound on the number of SIGINTs delivered

ASSUME SupervisionAssumption ==
  /\ LifeLimit \in Nat \ {0}
  /\ Faults \subseteq {"light", "temp", "bus"}
  /\ MaxSignals \in Nat

Sensors == {"light", "temp"}
Workers == {"log"} \cup Sensors

(* log_level of a report of main, and the task (its data field) it names. *)
Report == [level : {"ALERT", "CRITICAL"}, task : Sensors]

VARIABLES
  pc,             \* where each worker thread stands
  canceled,       \* workers pthread_cancel was called on
  mutex,          \* the worker that locked the mutex last, or "none"
  exited,         \* the process is gone
  failure,        \* temp_failure, light_failure: set to FAIL and never reset
  alive,          \* temp_alive, light_alive, log_alive: 0 while alive, 1 to stop
  toMain,         \* queues temp_to_main, light_to_main
  mainToLog,      \* queue main_to_log
  queuesOpen,     \* workers whose queue to or from main is not closed
  file,           \* the log file: "absent", "open", "closed"
  inHand,         \* report the log task took from main_to_log and handles
  mainPc,         \* where main stands
  watched,        \* the task main polls or joins
  life,           \* temp_life, light_life
  led,            \* user LEDs 1 and 2
  handler,        \* where the SIGINT handler stands, "idle" when not running
  caught_signal,  \* set by the handler
  signals         \* SIGINTs delivered so far

threadVars  == <<pc, canceled, mutex, exited>>
taskVars    == <<failure, alive>>
queueVars   == <<toMain, mainToLog, queuesOpen>>
logVars     == <<file, inHand>>
mainVars    == <<mainPc, watched, life, led>>
signalVars  == <<handler, caught_signal, signals>>
vars == <<threadVars, taskVars, queueVars, logVars, mainVars, signalVars>>

WorkerPc ==
  [log   |-> {"start", "mainq", "report", "grace", "lock", "data", "write", "done"},
   temp  |-> {"start", "lock", "sense", "comm", "sleep", "done"},
   light |-> {"start", "lock", "sense", "comm", "sleep", "done"}]
MainPc    == {"loop", "check", "recv", "lamp", "life", "relamp", "linger", "join"}
HandlerPc == {"idle", "noHB_temp", "noHB_light", "cancel", "close_log", "close_temp",
              "close_light", "flags", "fclose"}
NoReport  == [level |-> "none", task |-> "none"]

TypeOK ==
  /\ pc \in [Workers -> WorkerPc["log"] \cup WorkerPc["temp"] \cup WorkerPc["light"]]
  /\ \A t \in Workers : pc[t] \in WorkerPc[t]
  /\ canceled \subseteq Workers
  /\ mutex \in Workers \cup {"none"}
  /\ exited \in BOOLEAN
  /\ failure \in [Sensors -> BOOLEAN]
  /\ alive \in [Workers -> {0, 1}]
  /\ toMain \in [Sensors -> Queue({"HEART_BEAT", "FAILURE"})]
  /\ mainToLog \in Queue(Report)
  /\ queuesOpen \subseteq Workers
  /\ file \in {"absent", "open", "closed"}
  /\ inHand \in Report \cup {NoReport}
  /\ mainPc \in MainPc
  /\ watched \in Workers
  /\ life \in [Sensors -> 0 .. LifeLimit + 1]
  /\ led \in [1 .. 2 -> BOOLEAN]
  /\ handler \in HandlerPc
  /\ caught_signal \in {0, 1}
  /\ signals \in 0 .. MaxSignals

Init ==
  /\ pc = [t \in Workers |-> "start"]
  /\ canceled = {}
  /\ mutex = "none"
  /\ exited = FALSE
  /\ failure = [t \in Sensors |-> FALSE]
  /\ alive = [t \in Workers |-> 0]
  /\ toMain = [t \in Sensors |-> << >>]
  /\ mainToLog = << >>
  /\ queuesOpen = Workers
  /\ file = "absent"
  /\ inHand = NoReport
  /\ mainPc = "loop"
  /\ watched = "light"
  /\ life = [t \in Sensors |-> 0]
  /\ led = [n \in 1 .. 2 |-> FALSE]
  /\ handler = "idle"
  /\ caught_signal = 0
  /\ signals = 0
-----------------------------------------------------------------------------
(* Threads, cancellation and the mutex.                                    *)

(* Points that begin with a call at which a pending cancellation is acted  *)
(* upon (mq_receive, mq_send, open, usleep, sleep), so that a cancelled    *)
(* thread never gets past them.                                            *)
CancellationPoints ==
  [log   |-> {"start", "mainq", "grace", "data"},
   temp  |-> {"start", "comm", "sleep"},
   light |-> {"start", "sleep"}]

(* Points of several calls: a thread cancelled there may end at once or go *)
(* on to the next point.  pthread_mutex_lock ("lock") is no such call.     *)
MayCancelPoints ==
  [log |-> {"report", "write"}, temp |-> {"sense"}, light |-> {"sense", "comm"}]

(* Between pthread_mutex_lock and pthread_mutex_unlock. *)
CriticalSection ==
  [log |-> {"data", "write"}, temp |-> {"sense"}, light |-> {"sense", "comm"}]
InCS(t) == pc[t] \in CriticalSection[t]

At(t, l) ==
  /\ ~exited
  /\ pc[t] = l
  /\ t \in canceled => l \notin CancellationPoints[t]

Goto(t, l) == pc' = [pc EXCEPT ![t] = l]

(* A cancelled thread ends where it stands: no cleanup handler is pushed,  *)
(* so a mutex it holds stays locked.                                       *)
Die(t) ==
  /\ ~exited
  /\ t \in canceled
  /\ pc[t] \in CancellationPoints[t] \cup MayCancelPoints[t]
  /\ Goto(t, "done")
  /\ inHand' = IF t = "log" THEN NoReport ELSE inHand
  /\ UNCHANGED <<canceled, mutex, exited, taskVars, queueVars, file, mainVars, signalVars>>

InsideLock == [log |-> "data", temp |-> "sense", light |-> "sense"]

(* MUTANT: the unlock is forgotten on the way out of the critical section. *)
CloseOnly(t, next) == Goto(t, next) /\ UNCHANGED mutex

(* close() of the sensor, then pthread_mutex_unlock: a cancelled thread    *)
(* ends in the close() at the latest, and keeps the mutex.                 *)
CloseAndUnlock(t, next) ==
  IF t \in canceled
  THEN Goto(t, "done") /\ UNCHANGED mutex
  ELSE Goto(t, next) /\ mutex' = "none"

(* MUTANT: the result of a failed lock is taken for the lock. *)
LockUnchecked(t) ==
  /\ At(t, "lock")
  /\ mutex' = t
  /\ Goto(t, InsideLock[t])
  /\ UNCHANGED <<canceled, exited, taskVars, queueVars, logVars, mainVars, signalVars>>

(* pthread_mutex_lock in the three loops. *)
Lock(t) ==
  /\ At(t, "lock")
  /\ mutex = "none"
  /\ mutex' = t
  /\ Goto(t, InsideLock[t])
  /\ UNCHANGED <<canceled, exited, taskVars, queueVars, logVars, mainVars, signalVars>>
-----------------------------------------------------------------------------
(* temp_task and light_task.                                               *)

(* while(temp_alive == 0): from the start of the thread, or after usleep. *)
TaskLoop(t) ==
  /\ At(t, "start") \/ At(t, "sleep")
  /\ Goto(t, IF alive[t] = 0 THEN "lock" ELSE "done")
  /\ UNCHANGED <<canceled, mutex, exited, taskVars, queueVars, logVars, mainVars, signalVars>>

(* Read the sensor: a reading that fails sets the failure flag for good. *)
Sense(t) ==
  /\ At(t, "sense")
  /\ \E bad \in IF t \in Faults THEN BOOLEAN ELSE {FALSE} :
       failure' = [failure EXCEPT ![t] = @ \/ bad]
  /\ UNCHANGED <<canceled, exited, alive, queueVars, logVars, mainVars, signalVars>>

(* The temperature task unlocks before it talks to the other tasks ... *)
TempSense == Sense("temp") /\ CloseAndUnlock("temp", "comm")

(* ... the light task keeps the mutex until it has. *)
LightSense == Sense("light") /\ Goto("light", "comm") /\ UNCHANGED mutex

(* sensor_init() exits the whole process when the bus cannot be opened. *)
LightExit ==
  /\ "bus" \in Faults
  /\ At("light", "sense")
  /\ exited' = TRUE
  /\ UNCHANGED <<pc, canceled, mutex, taskVars, queueVars, logVars, mainVars, signalVars>>

(* FAILURE or HEART_BEAT to main; nothing is sent on a closed queue. *)
Comm(t) ==
  /\ At(t, "comm")
  /\ LET m == IF failure[t] THEN "FAILURE" ELSE "HEART_BEAT"
     IN  toMain' = IF t \in queuesOpen THEN [toMain EXCEPT ![t] = Sent(@, m)] ELSE toMain
  /\ UNCHANGED <<canceled, exited, taskVars, mainToLog, queuesOpen, logVars,
                 mainVars, signalVars>>

TempComm  == Comm("temp") /\ Goto("temp", "sleep") /\ UNCHANGED mutex
LightComm == Comm("light") /\ CloseAndUnlock("light", "sleep")
-----------------------------------------------------------------------------
(* log_task.                                                               *)

(* remove() and fopen() the log file, log_init(). *)
LogStart ==
  /\ At("log", "start")
  /\ file' = "open"
  /\ Goto("log", "mainq")
  /\ UNCHANGED <<canceled, mutex, exited, taskVars, queueVars, inHand, mainVars, signalVars>>

(* while(log_alive == 0), and the mq_receive of log_mainqueue(). *)
LogMainQueue ==
  /\ At("log", "mainq")
  /\ IF alive["log"] = 1
     THEN Goto("log", "done") /\ UNCHANGED <<mainToLog, inHand>>
     ELSE IF "log" \in queuesOpen /\ HasMessage(mainToLog)
     THEN /\ mainToLog' = Received(mainToLog)
          /\ inHand' = Head(mainToLog)
          /\ Goto("log", "report")
     ELSE Goto("log", "lock") /\ UNCHANGED <<mainToLog, inHand>>
  /\ UNCHANGED <<canceled, mutex, exited, taskVars, toMain, queuesOpen, file,
                 mainVars, signalVars>>

(* fwrite on a FILE that fclose() has freed is undefined: it may pass      *)
(* unnoticed or take the process down.                                     *)
Fwrite == IF file = "open" THEN UNCHANGED exited ELSE exited' \in BOOLEAN

(* log_mainqueue(), ALERT: write, tell the task to stop, wait a second. *)
LogAlert ==
  /\ At("log", "report")
  /\ inHand.level = "ALERT"
  /\ Fwrite
  /\ alive' = [alive EXCEPT ![inHand.task] = 1]
  /\ Goto("log", "grace")
  /\ UNCHANGED <<canceled, mutex, failure, queueVars, logVars, mainVars, signalVars>>

(* ... then cancel it, whether it has stopped or not. *)
LogGrace ==
  /\ At("log", "grace")
  /\ canceled' = canceled \cup {inHand.task}
  /\ inHand' = NoReport
  /\ Goto("log", "lock")
  /\ UNCHANGED <<mutex, exited, taskVars, queueVars, file, mainVars, signalVars>>

(* log_mainqueue(), CRITICAL: write and cancel at once. *)
LogCritical ==
  /\ At("log", "report")
  /\ inHand.level = "CRITICAL"
  /\ Fwrite
  /\ canceled' = canceled \cup {inHand.task}
  /\ inHand' = NoReport
  /\ Goto("log", "lock")
  /\ UNCHANGED <<mutex, taskVars, queueVars, file, mainVars, signalVars>>

(* The locked part of the loop: log_tempqueue() twice, log_lightqueue(). *)
LogData ==
  /\ At("log", "data")
  /\ Goto("log", "write")
  /\ UNCHANGED <<canceled, mutex, exited, taskVars, queueVars, logVars, mainVars, signalVars>>

LogWrite ==
  /\ At("log", "write")
  /\ Fwrite
  /\ mutex' = "none"
  /\ Goto("log", "mainq")
  /\ UNCHANGED <<canceled, taskVars, queueVars, logVars, mainVars, signalVars>>
-----------------------------------------------------------------------------
(* main().  The handler runs on the main thread, between any two steps.    *)

Main(at) == ~exited /\ handler = "idle" /\ mainPc = at

ToLog(r) == mainToLog' = IF "log" \in queuesOpen THEN Sent(mainToLog, r) ELSE mainToLog

(* LED1 belongs to the light task, LED2 to the temperature task. *)
LedOf == [light |-> 1, temp |-> 2]
LedOn(t) == led' = [led EXCEPT ![LedOf[t]] = TRUE]

(* What main sends when t reports a failure: an ALERT for the light task,  *)
(* send_noHB_temp() for the temperature task.                              *)
FailureReport ==
  [light |-> [level |-> "ALERT", task |-> "light"],
   temp  |-> [level |-> "CRITICAL", task |-> "temp"]]

(* MUTANTS: both silences are reported with send_noHB_temp(); a silence is *)
(* reported as an ALERT, as a failure is.                                  *)
SilenceReportAlerts == [t \in Sensors |-> [level |-> "ALERT", task |-> "light"]]
SilenceReportTemp == [t \in Sensors |-> [level |-> "CRITICAL", task |-> "temp"]]

(* What main sends when t has been silent: for the temperature task too it *)
(* is send_noHB_light().                                                   *)
SilenceReport ==
  [light |-> [level |-> "CRITICAL", task |-> "light"],
   temp  |-> [level |-> "CRITICAL", task |-> "light"]]

(* life++; it is only compared with LifeLimit, so values above are one. *)
Bump(n) == IF n > LifeLimit THEN n ELSE n + 1

NextTask ==
  IF watched = "light"
  THEN mainPc' = "check" /\ watched' = "temp"
  ELSE mainPc' = "loop" /\ watched' = "light"

(* while(caught_signal == 0 || (light_alive | temp_alive) == 0), and the   *)
(* if(light_alive == 0) that opens its body.                               *)
MainLoop ==
  /\ Main("loop")
  /\ IF caught_signal = 0 \/ \A t \in Sensors : alive[t] = 0
     THEN IF alive["light"] = 0 THEN mainPc' = "recv" /\ UNCHANGED watched ELSE NextTask
     ELSE mainPc' = "linger" /\ UNCHANGED watched
  /\ UNCHANGED <<life, led, threadVars, taskVars, queueVars, logVars, signalVars>>

(* if(temp_alive == 0) *)
MainCheckTemp ==
  /\ Main("check")
  /\ IF alive["temp"] = 0 THEN mainPc' = "recv" /\ UNCHANGED watched ELSE NextTask
  /\ UNCHANGED <<life, led, threadVars, taskVars, queueVars, logVars, signalVars>>

(* mq_receive finds nothing (or a closed queue): the life counter moves. *)
MainMiss ==
  /\ Main("recv")
  /\ ~(watched \in queuesOpen /\ HasMessage(toMain[watched]))
  /\ life' = [life EXCEPT ![watched] = Bump(@)]
  /\ mainPc' = "life"
  /\ UNCHANGED <<watched, led, threadVars, taskVars, queueVars, logVars, signalVars>>

(* A message arrives: a FAILURE is reported to the log task ... *)
MainRecv ==
  /\ Main("recv")
  /\ watched \in queuesOpen /\ HasMessage(toMain[watched])
  /\ toMain' = [toMain EXCEPT ![watched] = Received(@)]
  /\ IF Head(toMain[watched]) = "FAILURE"
     THEN ToLog(FailureReport[watched]) /\ mainPc' = "lamp"
     ELSE mainPc' = "life" /\ UNCHANGED mainToLog
  /\ UNCHANGED <<watched, life, led, threadVars, taskVars, queuesOpen, logVars, signalVars>>

(* ... and the LED of the task is turned on after that; the handler may    *)
(* have run, and turned it off, in between.                                *)
MainLamp ==
  /\ Main("lamp")
  /\ LedOn(watched)
  /\ mainPc' = "life"
  /\ UNCHANGED <<watched, life, threadVars, taskVars, queueVars, logVars, signalVars>>

(* MUTANT: a task is reported one poll too early. *)
MainLifeEarly ==
  /\ Main("life")
  /\ IF life[watched] + 1 = LifeLimit
     THEN ToLog(SilenceReport[watched]) /\ LedOn(watched)
     ELSE UNCHANGED <<mainToLog, led>>
  /\ NextTask
  /\ UNCHANGED <<life, threadVars, taskVars, toMain, queuesOpen, logVars, signalVars>>

(* if(light_life == 10), if(temp_life == 10): LED on and report; for the   *)
(* light task led1_on() is called once more after the report.              *)
MainLife ==
  /\ Main("life")
  /\ IF life[watched] = LifeLimit
     THEN /\ ToLog(SilenceReport[watched])
          /\ LedOn(watched)
          /\ IF watched = "light" THEN mainPc' = "relamp" /\ UNCHANGED watched ELSE NextTask
     ELSE NextTask /\ UNCHANGED <<mainToLog, led>>
  /\ UNCHANGED <<life, threadVars, taskVars, toMain, queuesOpen, logVars, signalVars>>

MainRelamp ==
  /\ Main("relamp")
  /\ LedOn(watched)
  /\ NextTask
  /\ UNCHANGED <<life, threadVars, taskVars, queueVars, logVars, signalVars>>

(* fclose(file): a second one is undefined, one of NULL crashes. *)
Fclose ==
  \/ file = "open" /\ file' = "closed" /\ UNCHANGED exited
  \/ file = "closed" /\ exited' \in BOOLEAN /\ UNCHANGED file
  \/ file = "absent" /\ exited' = TRUE /\ UNCHANGED file

LedsOff == led' = [n \in 1 .. 2 |-> FALSE]

(* mq_close() and mq_unlink() of the queue to or from q: with its name and *)
(* its last descriptor gone, a queue is destroyed with what it holds.      *)
CloseQueue(q) ==
  /\ queuesOpen' = queuesOpen \ {q}
  /\ toMain' = [t \in Sensors |-> IF t = q THEN << >> ELSE toMain[t]]
  /\ mainToLog' = IF q = "log" THEN << >> ELSE mainToLog

(* ... of all of them, in clean_everything(). *)
CloseQueues ==
  /\ queuesOpen' = {}
  /\ toMain' = [t \in Sensors |-> << >>]
  /\ mainToLog' = << >>

(* sleep(2); if(caught_signal != 1) clean_everything(); then the joins. *)
MainLinger ==
  /\ Main("linger")
  /\ IF caught_signal = 1
     THEN UNCHANGED <<canceled, queueVars, led, caught_signal, file, exited>>
     ELSE /\ canceled' = Workers
          /\ CloseQueues
          /\ LedsOff
          /\ caught_signal' = 1
          /\ Fclose
  /\ mainPc' = "join"
  /\ watched' = "log"
  /\ UNCHANGED <<pc, mutex, taskVars, inHand, life, handler, signals>>

NextJoin == [log |-> "temp", temp |-> "light", light |-> "light"]

(* pthread_join of the log, the temperature and the light thread; main     *)
(* returns after the last one, and the process is gone.                    *)
MainJoin ==
  /\ Main("join")
  /\ pc[watched] = "done"
  /\ watched' = NextJoin[watched]
  /\ exited' = (watched = "light")
  /\ UNCHANGED <<pc, canceled, mutex, taskVars, queueVars, logVars, mainPc, life, led,
                 signalVars>>
-----------------------------------------------------------------------------
(* sig_handler().                                                          *)

Handler(at) == ~exited /\ handler = at

(* SIGINT is blocked while its handler runs: one that comes then is        *)
(* delivered afterwards.                                                   *)
Sigint ==
  /\ Handler("idle")
  /\ signals < MaxSignals
  /\ signals' = signals + 1
  /\ handler' = "noHB_temp"
  /\ UNCHANGED <<caught_signal, threadVars, taskVars, queueVars, logVars, mainVars>>

HandlerReport(at, t, next) ==
  /\ Handler(at)
  /\ ToLog([level |-> "CRITICAL", task |-> t])
  /\ handler' = next
  /\ UNCHANGED <<caught_signal, signals, threadVars, taskVars, toMain, queuesOpen,
                 logVars, mainVars>>

(* send_noHB_temp(); send_noHB_light(); *)
HandlerNoHBTemp  == HandlerReport("noHB_temp", "temp", "noHB_light")
HandlerNoHBLight == HandlerReport("noHB_light", "light", "cancel")

(* MUTANT: the log thread is forgotten. *)
HandlerCancelSensors ==
  /\ Handler("cancel")
  /\ canceled' = canceled \cup Sensors
  /\ exited' \in IF mainPc = "join" /\ watched # "log" THEN BOOLEAN ELSE {FALSE}
  /\ handler' = "close_log"
  /\ UNCHANGED <<caught_signal, signals, pc, mutex, taskVars, queueVars, logVars,
                 mainVars>>

(* sleep(5); pthread_cancel() of the three threads, which is undefined for *)
(* a thread that main has joined.                                          *)
HandlerCancel ==
  /\ Handler("cancel")
  /\ canceled' = Workers
  /\ exited' \in IF mainPc = "join" /\ watched # "log" THEN BOOLEAN ELSE {FALSE}
  /\ handler' = "close_log"
  /\ UNCHANGED <<caught_signal, signals, pc, mutex, taskVars, queueVars, logVars,
                 mainVars>>

(* main_to_log, temp_to_main and light_to_main are closed one by one,      *)
(* while the threads go on.                                                *)
HandlerClose(at, q, next) ==
  /\ Handler(at)
  /\ CloseQueue(q)
  /\ handler' = next
  /\ UNCHANGED <<caught_signal, signals, threadVars, taskVars, logVars, mainVars>>

HandlerCloseLog   == HandlerClose("close_log", "log", "close_temp")
HandlerCloseTemp  == HandlerClose("close_temp", "temp", "close_light")
HandlerCloseLight == HandlerClose("close_light", "light", "flags")

(* MUTANT: the alive variables are not set. *)
HandlerFlagsCaughtOnly ==
  /\ Handler("flags")
  /\ LedsOff
  /\ caught_signal' = 1
  /\ handler' = "fclose"
  /\ UNCHANGED <<signals, threadVars, taskVars, queueVars, logVars, mainPc, watched, life>>

(* The LEDs and caught_signal, which only main looks at, and the variable  *)
(* of each thread, which only that thread looks at: they may change in one *)
(* step.                                                                   *)
HandlerFlags ==
  /\ Handler("flags")
  /\ LedsOff
  /\ caught_signal' = 1
  /\ alive' = [t \in Workers |-> 1]
  /\ handler' = "fclose"
  /\ UNCHANGED <<signals, threadVars, failure, queueVars, logVars, mainPc, watched, life>>

(* fclose(file), and the handler returns to where main was interrupted. *)
HandlerFclose ==
  /\ Handler("fclose")
  /\ Fclose
  /\ handler' = "idle"
  /\ UNCHANGED <<caught_signal, signals, pc, canceled, mutex, taskVars, queueVars, inHand,
                 mainVars>>
-----------------------------------------------------------------------------
TempNext  == TaskLoop("temp") \/ Lock("temp") \/ TempSense \/ TempComm \/ Die("temp")
LightNext == TaskLoop("light") \/ Lock("light") \/ LightSense \/ LightComm \/ Die("light")
LogNext   == LogStart \/ LogMainQueue \/ LogAlert \/ LogGrace \/ LogCritical
               \/ Lock("log") \/ LogData \/ LogWrite \/ Die("log")
MainNext  == MainLoop \/ MainCheckTemp \/ MainMiss \/ MainRecv \/ MainLamp
               \/ MainLife \/ MainRelamp \/ MainLinger \/ MainJoin
HandlerNext == HandlerNoHBTemp \/ HandlerNoHBLight \/ HandlerCancel
                 \/ HandlerCloseLog \/ HandlerCloseTemp \/ HandlerCloseLight
                 \/ HandlerFlags \/ HandlerFclose

Next ==
  \/ TempNext \/ LightNext \/ LogNext
  \/ MainNext
  \/ Sigint \/ HandlerNext
  \/ LightExit

Spec == Init /\ [][Next]_vars

(* Every thread that can run is scheduled; the handler runs on the main    *)
(* thread.  Nothing makes a sensor fail or a signal come.                  *)
Fairness ==
  /\ WF_pc(TempNext) /\ WF_pc(LightNext) /\ WF_pc(LogNext)
  /\ WF_<<mainPc, watched, exited, handler>>(MainNext \/ HandlerNext)

WeakFairSpec == Spec /\ Fairness

(* A thread that waits for the mutex gets it in the end, because each      *)
(* holder sleeps a second between two critical sections.                   *)
FairSpec == WeakFairSpec /\ \A t \in Workers : SF_pc(Lock(t))
-----------------------------------------------------------------------------
(* A thread was cancelled while it held the mutex: nobody ever gets it.    *)
Orphaned == mutex \in Workers /\ pc[mutex] = "done"

(* At most one thread is in a critical section, and the mutex is locked    *)
(* only by a thread that is in one or that was cancelled in one: no loop   *)
(* leaves it locked and none enters without it.                            *)
LockDiscipline ==
  /\ \A t \in Workers : InCS(t) => mutex = t
  /\ mutex \in Workers => InCS(mutex) \/ (Orphaned /\ mutex \in canceled)

(* The temperature task is cancelled only when its sensor failed or on a   *)
(* SIGINT; the light task also when main gave up one of the two tasks.  It *)
(* takes a task, main, main_to_log and the log task to break this.         *)
CanceledForCause ==
  /\ "temp" \in canceled => failure["temp"] \/ signals > 0
  /\ "light" \in canceled =>
       failure["light"] \/ signals > 0 \/ \E t \in Sensors : life[t] >= LifeLimit
  /\ "log" \in canceled => signals > 0

(* A task is told to stop (its alive variable set) only by the handler,   *)
(* or by the log task because its sensor failed: a task that is merely     *)
(* silent is not, and the log task never.                                  *)
StoppedForCause ==
  \A t \in Workers :
    alive[t] = 1 => caught_signal = 1 \/ (t \in Sensors /\ failure[t])

(* The two LEDs tell how many tasks are in trouble, whichever LED is       *)
(* whose: one that is on stands for a task whose sensor failed or that     *)
(* missed LifeLimit polls, and each task that was silent for longer has    *)
(* one on, unless the handler turned it off.                               *)
LedsTell ==
  \E lamp \in {[light |-> 1, temp |-> 2], [light |-> 2, temp |-> 1]} :
    \A t \in Sensors :
      /\ led[lamp[t]] => failure[t] \/ life[t] >= LifeLimit
      /\ signals = 0 /\ life[t] > LifeLimit => led[lamp[t]]

(* The handler turns both LEDs off, and main may have been interrupted     *)
(* just before it turns one on: at most that one is on after the cleanup.  *)
RelitAtMostOne == caught_signal = 1 => ~(led[1] /\ led[2])

(* A failure is final: no heartbeat follows a FAILURE to main.             *)
FailureIsFinal ==
  \A t \in Sensors : \A i, j \in 1 .. Len(toMain[t]) :
    i < j /\ toMain[t][i] = "FAILURE" => toMain[t][j] = "FAILURE"

(* After fclose(file) the log task begins no further write: it was         *)
(* cancelled before, and at most the one it is in the middle of meets the  *)
(* freed FILE.                                                             *)
Writing == pc["log"] \in {"report", "write"}
NoWriteBegins == [][file = "closed" /\ ~Writing => ~Writing']_vars

(* A bound on the steps that a shutdown still takes: those of the threads, *)
(* all of which were cancelled, of main, of the handler and of the signals *)
(* that may yet come.                                                      *)
WorkerLeft ==
  [log   |-> [start |-> 1, mainq |-> 1, report |-> 3, grace |-> 1, lock |-> 2,
              data |-> 1, write |-> 2, done |-> 0],
   temp  |-> [start |-> 1, lock |-> 2, sense |-> 1, comm |-> 1, sleep |-> 1, done |-> 0],
   light |-> [start |-> 1, lock |-> 3, sense |-> 2, comm |-> 1, sleep |-> 1, done |-> 0]]
MainLeft ==
  [recv |-> 10, lamp |-> 9, life |-> 8, relamp |-> 7, check |-> 6, loop |-> 5, linger |-> 4,
   join |-> [log |-> 3, temp |-> 2, light |-> 1][watched]]
HandlerLeft ==
  [noHB_temp |-> 8, noHB_light |-> 7, cancel |-> 6, close_log |-> 5, close_temp |-> 4,
   close_light |-> 3, flags |-> 2, fclose |-> 1, idle |-> 0]

StepsLeft ==
  IF exited THEN 0
  ELSE WorkerLeft["log"][pc["log"]] + WorkerLeft["temp"][pc["temp"]]
         + WorkerLeft["light"][pc["light"]]
         + MainLeft[mainPc] + HandlerLeft[handler] + 9 * (MaxSignals - signals)

(* Once the handler has set its flags, no loop of the program goes round   *)
(* again: every step, whoever takes it, brings the end of the process      *)
(* nearer, also when more SIGINTs come.                                    *)
ShutdownAdvances == [][caught_signal = 1 => StepsLeft' < StepsLeft]_vars

(* Somebody has a step to take: the handler; main, unless it waits for a   *)
(* thread (message.c:1118-1120); a thread, which was cancelled or will see *)
(* that its loop is over, unless it waits for the mutex.                   *)
CanMove ==
  \/ handler # "idle"
  \/ mainPc # "join" \/ pc[watched] = "done"
  \/ \E t \in Workers : \/ pc[t] \in CancellationPoints[t] \cup MayCancelPoints[t]
                        \/ pc[t] = "lock" /\ mutex = "none"

(* ... and these steps run out only when the process is gone or when a     *)
(* cancelled thread has taken the mutex with it: whoever main waits for,   *)
(* and whoever that thread waits for, can still move.                      *)
ShutdownGoesOn == caught_signal = 1 => exited \/ Orphaned \/ CanMove

(* A light sensor that fails is dealt with: in the end its task is gone,   *)
(* unless a thread took the mutex to its grave first; that is, failure     *)
(* leads to one of the two.  A failure, the end of a thread and the loss   *)
(* of the mutex are final, and so this can be said as below, which TLC     *)
(* checks in half the time.                                                *)
LightFailureHandled == []<>(~failure["light"] \/ pc["light"] = "done" \/ Orphaned)

(* After a SIGINT the process ends, unless the mutex was orphaned: signals *)
(* > 0 leads to one of the two (put as above, all three being final).      *)
EndsOrWedges == []<>(signals = 0 \/ exited \/ Orphaned)
=============================================================================
