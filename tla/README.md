# APES_PROJECT1: specifications, model checks and proofs

The program (`src/src`) reads a temperature and a light sensor of a BeagleBone
once a second, logs the readings, and supervises the threads that do so. This
directory holds TLA+ modules that model its threads, queues, mutex, signal
handler, the data that flows between them and when, both sensor drivers with their chips,
and the restart of the program on what an earlier run left; TLC configurations
that check them on small instances; and proofs that TLAPS checks for all
instances.

Line numbers without a file are those of `src/src/message.c`.

## 1. The system

### Components, their state and operations

| Component | State | Operations | Where |
|---|---|---|---|
| Main task | `light_life`, `temp_life`, LEDs, where it stands in its loop | poll `light_to_main`, `temp_to_main`; count misses; report to the log task; light an LED; clean up; join | 986-1123 |
| Log task (also decides) | the log file, the report in hand | `log_mainqueue` (write, set `*_alive`, cancel), `log_tempqueue` x 2 and `log_lightqueue` under the mutex (write, forward) | 88-398 |
| Temperature task | `temp_failure`, `temp_degree`, flags `c`, `f`, `k`, `counter_temp` | init message, sample request; under the mutex: read, convert, set flags; then request / answer / data, and heartbeat or FAILURE | 402-626 |
| Light task | `light_failure`, `prev_lumen`, `day`, `night`, `counter_light` | all under the mutex: read, detect day and night, serve a request or ask / alert / report, heartbeat or FAILURE | 628-882 |
| SIGINT handler, cleanup | `caught_signal`, the three `*_alive` | two reports, sleep 5 s, cancel the threads, close and unlink queues, LEDs off, set the variables, close the file | 43-83, 322-344, 949-984 |
| Mutex | its owner | lock and unlock in three loops; nothing on cancellation | 387-393, 441-498, 657-877 |
| Message queues | seven nonblocking queues of 10 messages, all of one priority | `mq_send` (drops when full), `mq_receive` (returns when empty), close, unlink | 886-947, 996-999 |
| TMP102 driver | none of its own; the chip: pointer, configuration, last conversion | init (may leak its descriptor), register access, conversion to C, F, K | `tmp102.c` |
| APDS9301 driver | none of its own; the chip: register selected, seven settings, two channels | `sensor_init` (may `exit`), register access, luminosity | `apds9301.c` |
| User LEDs | two LEDs | on, off through sysfs | `usrled.c` |
| Unit tests, build output | - | not part of the running program | `src/unit_tests`, `src/Debug` |

### How they interact

- Heartbeats and failures: sensor task -> `temp_to_main` / `light_to_main` ->
  main -> `main_to_log` -> log task -> `light_alive = 1` or `pthread_cancel`.
- Data: sensor task -> `temp_to_log` / `light_to_log` -> log task -> file.
- Requests: temperature task -> `temp_to_log` -> log task -> `log_to_light` ->
  light task -> `light_to_log` -> log task -> file; and the other way round.
- Shared variables: `c`, `f`, `k` are written by the temperature task and read
  and cleared by the log task (both under the mutex); `*_alive` by the log task
  and the handler, read by the loops; `fd` by both sensor tasks.
- The handler runs on the main thread, between any two of its instructions.

### What is hard

- *Cancellation.* Deferred cancellation acts inside the critical sections
  (`usleep`, `close`, `fwrite`, `mq_send` are cancellation points) and nothing
  unlocks the mutex.
- *Several hops with loss.* A failure passes two queues, either of which may
  be full, and three threads before its task is stopped.
- *State that outlives its message.* The unit flags, `day` and `night` and the
  life counters describe something other than the message they are used with.
- *The handler.* It interleaves with main, takes away one by one what the
  threads still use, and can run twice.
- *Start and restart.* The queues with what they hold, the LEDs and the
  registers of the chips outlive the process.
- *Transfers that fail one by one.* A register takes two or three of them, some
  are checked and some are not, and a failed one may have reached the chip.
- *Numbers.* The drivers mix `-1` as an error with data in `float`, `uint16_t`
  and `uint8_t`.

`PROJECT.json` lists each hazard at its line with the properties that address it.

### What makes each component correct

- Main: reports a task only for a cause; the LEDs tell how many tasks are in
  trouble; once the cleanup is under way it does not go round again.
- Log task: cancels or stops only the task named in a report that has a cause;
  writes a reading in one unit, its own; writes an answer as what was asked.
- Sensor tasks: lock and unlock pair up on every path; a failure is final; a
  change of light is reported as what it is, once.
- Handler: the log task begins no write after the file is closed; the process
  then ends, however many signals follow.
- Mutex: excludes; once lost with a cancelled thread it stays lost.
- Queues: bounded, in order; a request channel made of three of them may lose
  but not repeat, reorder or invent.
- Start: a new process is harmed by what an earlier one left only as far as
  that names the victim.
- Drivers: a reading is true or garbage after a failed transfer; a sensor that
  is gone is noticed, and one that works raises no failure; a value reaches its own register or none;
  a command is answered only when it was carried out.

## 2. Modules

| Module | Models | Builds on |
|---|---|---|
| `MessageQueue` | bounded nonblocking FIFO: `Sent`, `HasMessage`, `Received` | - |
| `Supervision` | main, log task, both sensor tasks, mutex, cancellation, handler | `MessageQueue` |
| `CancelLock` | abstract: a lock whose owner may end inside | - |
| `SupervisionLock` | refinement mapping `Supervision` -> `CancelLock` | `Supervision`, `CancelLock` |
| `SilenceHistory` | `Supervision` with a history variable: consecutive failed polls | `Supervision` |
| `SupervisionClaims` | what docs and comments say of supervision and the code does not do | `Supervision` |
| `Restart` | the program ended at any point and started again on its old queues | `Supervision` |
| `Dataflow` | readings, unit flags, requests, answers, alerts, what is logged | `MessageQueue`, `LossyFifo` |
| `LossyFifo` | abstract: a request channel that may lose, in order | - |
| `DataflowClaims` | what docs and comments say of the data and the code does not do | `Dataflow` |
| `TempSchedule` | which cycle of the temperature task asks, and for what | - |
| `Tmp102` | `tmp102.c`: every transfer, what a function leaves in the chip and returns | - |
| `TempSensing` | the locked part of the temperature task with driver and chip | `Tmp102` |
| `Apds9301` | `apds9301.c`, in the same way, and the luminosity formula | `Tmp102` |
| `LightSensing` | a turn of the light task with driver and chip | `Apds9301` |
| `MCSensing` | both sensors and the schedule for one run | `TempSensing`, `LightSensing`, `TempSchedule` |
| `SensingClaims` | what the README says of failing sensors and the code does not do | `MCSensing` |
| `MessageQueueProofs`, `SupervisionProofs`, `SupervisionSafety`, `CancelLockProofs`, `DataflowProofs`, `TempScheduleProofs`, `RestartProofs`, `SensingProofs` | theorems and proofs | the modules they name |

Some definitions are commented `MUTANT`: variants of the definition that follows
them, each with a mistake one could make in the code. No specification uses them.
`PROJECT.json` says which property fails when one takes the place of the original.

### Supervision

Each thread has a program counter. A step runs from one point at which another
thread, a cancellation or the handler can be observed to the next:

- `temp`, `light`: `start`, `lock` (in `pthread_mutex_lock`), `sense`, `comm`,
  `sleep`, `done`. The temperature task unlocks after `sense`, the light task
  after `comm`, as in the code. `failure` is sticky, as `*_failure` is.
- `log`: `start`, `mainq`, `report` (a message of main is in `inHand`), `grace`
  (the `sleep(1)` between `light_alive = 1` and `pthread_cancel`), `lock`,
  `data`, `write`, `done`.
- `main`: `loop`, `check`, `recv`, `lamp`, `life`, `relamp` (an LED is written
  after the report is sent: a step of its own, since the handler may run in
  between), `linger`, `join`; `watched` is the task it polls, then joins.
- The handler: `noHB_temp`, `noHB_light`, `cancel`, `close_log`, `close_temp`,
  `close_light` (the three queues of supervision, one by one; `queuesOpen` tells
  which are), `flags`, `fclose`. While it runs main does not, but the threads
  do. Only the LEDs and the four flags are set in one step: `caught_signal`
  concerns main alone, which stands still, and no thread looks at the `alive`
  of another. A second SIGINT waits for the end of the handler.
- `clean_everything()` (322-344) does the same in one step; main calls it only
  when its loop ended without a signal, which never happens (see section 3).

Cancellation: `CancellationPoints` are the points that begin with a call that
acts on a cancellation, so a cancelled thread does not leave them
(`At`); at `MayCancelPoints` there are several calls, so it may die there or go
on. `pthread_mutex_lock` is neither. `Die` leaves `mutex` alone.
A send to main (`Comm`) and the receive of a poll (`MainRecv`) are each merged
with the assignments around them, which no other thread can tell apart.

Undefined behaviour of the code is a choice: `fwrite` or `fclose` on a FILE
that was closed, and `pthread_cancel` of a joined thread, may pass or take the
process down (`exited`).

Left out: the text that is written; the time (a thread may stand still as long
as it likes); the startup of main (in `Restart`); data messages (in `Dataflow`);
the drivers (in `Tmp102` and `Apds9301`; here a reading just may fail). A SIGINT
before the threads exist is not modelled, one before the log file is open is.
SIGINT is taken to be handled on the main thread, the one the kernel tries
first, since no thread of the program blocks it. It comes between two steps of
main, never inside a call of the C library: the handler calls functions that
are not async-signal-safe (`printf`, `fclose`), and interrupted inside one of
them, with a lock of the library held, it may wait for its own thread for ever.
That is outside the models.

### Dataflow

The temperature task is `tempPc`: `start`, `sample`, `sense` (locked), then
`request` or `receive` (a choice, which `TempSchedule` takes apart), then
`response` or `data`. Every call on a queue is a step of its own because it
happens outside the mutex. The light task does everything under the mutex:
`LightCycle` is one step, with the alternatives of the code (`LightServe`,
`LightReport`, `LightFails`). The log task takes a step per call
(`LogTempFirst`, `LogTempSecond`, `LogLight`); `line` is what the last of them
wrote, as far as a property needs it. `shown` is the set of those of `c`, `f`,
`k` that are 1. A temperature is only its unit, a luminosity a small number. A
message remembers the unit it was taken in and an answer the command it answers;
the code sends neither, the properties need them and no guard reads them.
The heartbeats of both tasks are in `Supervision`. That module and this one
share only the rule when a sensor counts as failed.

### TempSchedule

`counter_temp` counts the cycles of the temperature task from 1, and a cycle is
one step: `TempRequest(k)` if `k` is the first of 7, 11, 13, 17 (`Period`) to
divide the counter - each test of the code ends in `goto end`, which is
`Earlier` - and `TempReport`, a response or data, if none does. `TempFails` is
the cycle in which the sensor fails, after which no message goes to the log
task. `since` and `quiet` are history variables. `TempSample`, the request before
the loop, is where they start from.

### Restart

`Restart` ends the process at any point - by a crash, a kill, `sensor_init`'s
`exit`, or because it has ended already - and starts it again, in one step:
between its start and the first poll `main` does nothing that another thread
could see. The process has the state of a new one. What the
kernel keeps stays: the contents of the queues and the LEDs. `close_queues` (886)
at the start of `main` does not empty these queues: the descriptors are still 0,
so the first `mq_close` closes the standard input, `/temptolog` is unlinked,
and the second `mq_close` fails and ends the function. `leftover` remembers which
tasks the old messages would terminate. Two processes at once are not modelled.

### The drivers and their chips

A function of a driver is the set of its *outcomes*: the chip after it, what it
returns, and whether every transfer it made was clean. `Write` and `Read` are
the transfers; each may fail, and a write that fails may have reached the chip.
`Then` calls the next function whatever the last one returned, `Checked` only if
it did not return FAIL, as the code does or does not test. So every pattern of
failing transfers within a cycle is covered without a program counter: a cycle
holds the mutex and is one step (`TempCycle`, `LightTurn`).

The chips are external and modelled from how the drivers use them. TMP102: a
pointer, a configuration whose lowest bit shuts it down, a temperature of 12
bits. APDS9301: a byte with the bit 0x80 selects a register, any other byte is
written to the one selected; it counts only while `control_reg` is `power_up`.
After it got power it is off and has counted nothing, so its first reading is
dark. Conversions fall between two cycles. Sensors can be unplugged and plugged
in again at any time. `TempStarts` and `LightStarts` start the process again on
chips that keep their registers; a process that ends between two transfers is
one whose remaining transfers fail without effect.

`tempCycle` and `lightCycle` are history variables: what the latest cycle came
to, kept until the sensor moves. Numbers are integers: a temperature in 1/10000
of a degree (exact, a bit being 0.0625), a luminosity in 1/100000 lumen.
`powf(adc, 1.4)` is replaced by the two bounds between which it lies.
`CHECK_LIBRARY` is a switch of the build (`LIBRARY_CHECKED` for the light
task): both builds are checked.

## 3. What is checked

All runs were done with TLC; they take up to three minutes each.

| Run | Module | What it shows |
|---|---|---|
| `supervision_faults` | `Supervision` | `TypeOK`; `LockDiscipline`: lock and unlock pair on all paths, and a mutex that is locked and held by nobody was lost to a cancellation; `CanceledForCause`, `StoppedForCause`: nobody is cancelled without a failed sensor, a silence or a signal, or told to stop without a failed sensor or the handler; `LedsTell`: the LEDs that are on count the tasks in trouble, whichever LED is whose |
| `supervision_signals` | `Supervision` | two SIGINTs and a bus that cannot be opened: `NoWriteBegins`: after `fclose` the log task begins no write; `RelitAtMostOne`: after the cleanup main relights one LED at most; `ShutdownAdvances`: once the handler has set its flags, every step of any thread takes the process nearer to its end, also when another SIGINT comes; `ShutdownGoesOn`: only a mutex lost to a cancelled thread can stall it; `EndsOrWedges`: after a SIGINT the process ends or the mutex was orphaned |
| `light_failure` | `SupervisionLock` | `ImplementsLock`: the three loops refine `CancelLock`, whose owner may end inside - here the light task, in the theorem any; `LightFailureHandled`: a failed light sensor ends the light task, though any report on the way may be dropped; the task repeats it each cycle, and that suffices |
| `restart` | `Restart` | `CauseOrLeftover`: in a process that runs on old queues a task is cancelled for a cause of its own process or for an old message that names it; the process may end in any state, and by the `exit` of `sensor_init` |
| `dataflow` | `Dataflow` | `OneLabel`: never two units on one reading; `ChangesAlerted`: a change of light is alerted in the cycle that sees it, as what it is, unless a request is served or the queue is full; `AnswersReadBack`: answers are written as what was asked, except a luminosity of 1, 2 or 3; `ImplementsLightChannel`: requests and answers refine `LossyFifo` |
| `sensing` | `MCSensing` | temperature: `ReadingsAreHonest` (less than a degree off; or a frost without its sign; or garbage or the configuration after a failure nobody checks), `RemovalIsNoticed`, `NoFalseAlarm`, `LeaksAreReported`; light: `LumenIsNotNegative`, `CleanFailureIsDim` (when all transfers went well the failure is raised only if the low byte of channel 1 is 0), `RegistersKept`, `AnswersEarned`; schedule: `TemperatureIsHeard`: no more than four requests in a row come before the temperature, or before the response that the light task waits for; `EveryCommandIsAsked`: a command whose turn is taken by another gets one within 7, 22, 39 or 68 cycles; and the three type invariants |

The following runs end in a counterexample, each against a sentence of the
repository (quoted in `PROJECT.json`, "findings"):

| Run | Claim | What the code does |
|---|---|---|
| `exits_on_sigint` | README "Press CTRL + C to exit" | a thread is cancelled with the mutex locked, another waits for it for ever, main waits in `pthread_join` |
| `light_spared` | comment 1100 "to kill temp thread" | the silence of the temperature task cancels the light task (1105) |
| `consecutive_silence` | comment 1062 "10 consecutive seconds" | misses are never reset, so any ten of them count |
| `labelled_right` | comment 99 "f is 1 when given temperature is in Fahrenheit" | a reading is written with the unit of a later one (as in `src/log.txt` line 5) |
| `changes_logged` | README "If there is a change it logs a message" | a cycle that serves a request forgets the change of light it saw (731) |
| `failure_reported` | README "In case of sensor failure a message will be sent" | a light sensor that was removed reads as 22.28 lumen: FAIL is 65535 in a `uint16_t` and is taken for a reading |

Further differences, stated here without a run:

- The header comment (22-23) names the LEDs the other way round than 1056 and
  1094. `LedsTell` holds for either reading of it.
- "`temp_alive` is set when sigint is caught or if sensor fails responding" (439):
  the branch for it (268-283) is never reached, since main answers the failure
  with CRITICAL. The thread is cancelled, but `temp_alive` stays 0 and main goes
  on polling it, until `temp_life` reaches 10 and the light task is cancelled.
  `StoppedForCause` allows what the comment says, and the code does not do it.
- "checks if atleat 1 thread is alive. If no thread alive it closes" (1028-1030),
  "IF there is no sigint but want to close everything" (1115): the loop goes on
  until a SIGINT, so `clean_everything()` is never called.
- `sensor_init` ends the process where the light task expects FAIL.
- "For every 11 second" (532), 13 (547) and 17 (562): a cycle makes one request,
  and in second 77 it is that of every 7 seconds (see `EveryCommandIsAsked`).
- "close all queues" (992): at most one of them, see Restart above.
- "fetches the 12/13 bit temperature" (`tmp102.c:114`): the low bits come from
  the high byte, and a frost reads 256 degrees too high, although `convert_temp`
  (155-163) knows of a sign. `ReadingsAreHonest` holds for either.
- Channel 1 of the light sensor gets the high byte of channel 0
  (`apds9301.c:362`), and no infrared light in the low byte (darkness, but also
  lamps) is FAIL: a sensor that works gets `light_failure`, where the README
  (13) speaks of a failed sensor. `CleanFailureIsDim` bounds it.
- "On a successful read and write" (753): failed reads go unseen, only writes
  and thresholds count.
- `write_interrupt_thresholdreg` (`apds9301.c:193-197`) returns FAIL at its third
  byte at the latest; nothing calls it.

### Bounds

| Bound | Code | Runs | Why it is enough |
|---|---|---|---|
| `MaxMsg` | 10 | 1 (2 in the data claims) | full and empty queues, the two special cases, are both reached; with one slot messages of different age still meet, in different queues; the theorems hold for every `MaxMsg` |
| `LifeLimit` | 10 | 1 or 2 | 2 separates "missed", "missed again" and "reported"; liveness, signals and `restart` need only that the limit can be reached; `life` stops at `LifeLimit + 1`, since the code only compares it with 10 |
| `MaxSignals` | unbounded | 0, 1, 2 | 2 gives a signal after the shutdown that another began; all further ones meet the same states; 0 in `supervision_faults` and `restart`, where the theorems cover signals |
| `MaxStarts` | unbounded | 1 | what a restart hands on is what the queues hold, and the one restart may happen in any state; the theorem holds for every number |
| `Faults` | any | per run | `light`, `temp` in `supervision_faults` and `dataflow`, `light` in `light_failure`, `temp` and `bus` in `restart`, `bus` in `supervision_signals` |
| `Commands` | 4 | `LUMEN`, `RW_ALL_REGS` | the one answered with a reading, and one of those that are answered with their own number |
| `Lumens` | floats | 0, 1, 5 | below, at and above the threshold 1; 1 is also the number of a command |
| `MaxCycle` | `INT_MAX`, 68 years | 17100 | 7 * 11 * 13 * 17 = 17017: after that the schedule repeats itself; the theorems hold for every number |
| `Temps` | 12 bit | 0, 400, 4000 | freezing point, 25 C, a frost |
| `Garbage` | 16 bit | 0, 400, 65535 | the least, a plausible and the greatest content of a fresh `malloc` |
| `Lights` | 2 x 16 bit | five pairs | darkness; the classes of the luminosity formula; a lamp whose channel 1 has a low byte of 0 |
| `MaxOpen` | limit of the process | 2 | one descriptor leaked, and one more, after which `open` fails |

The theorems cover all temperatures, all contents of memory and all pairs of
channels. In `sensing` one of the two sensors and the schedule moves while the
others are at rest: they share nothing but the mutex. Deadlock is checked except
in the runs with signals or restarts, in which the process may end, or wedge, and
in `sensing`, where the schedule is over when the sensor failed or `MaxCycle` is
reached.

### Fairness

`WeakFairSpec` (`supervision_signals`): each of the three threads, and the main
thread, on which main or the handler runs, takes a step in the end if it can
keep doing so - the scheduler runs every thread. No fairness is assumed of
sensors that fail, signals, the bus or cancellation at a point where the thread may also go on. `FairSpec` (`light_failure`,
`exits_on_sigint`) adds strong fairness of `Lock` for each thread: a thread
that finds the mutex free again and again gets it. A pthread mutex does not
promise that, but each holder sleeps a second between two critical sections of
some milliseconds, so a waiting thread wins. The fairness conditions are stated
over the variables that such a step always changes (`pc`, `handler`, ...).
Both liveness properties say that one thing leads to another, and both things are
final, so they are written `[]<>(~one \/ other)`, which TLC checks in half the
time of `one ~> other`.

## 4. What is proved

TLAPS proves the following for every queue length, life limit, set of faults,
number of signals and restarts, set of commands, of readings, of temperatures
and of light. The only assumptions are those named in the modules: the bounds
are natural numbers, `MaxMsg`, `LifeLimit` and `MaxOpen` positive; commands are
those of `message.h`; readings are natural numbers; temperatures have 12 bits,
garbage and channels 16.

**Types** (`SupervisionProofs!TypeCorrect`, `DataflowProofs!TypeCorrect`,
`TempTypeCorrect`, `LightTypeCorrect`). `TypeOK` of `Supervision` is not
inductive: the log task cancels `inHand.task` and main polls `toMain[watched]`.
`TypeInv` adds that the log task holds a report where it handles one, and that
main watches a sensor task until it joins.

**The mutex** (`LockIsDisciplined`, `LockRefinement`).
`LockDiscipline` is inductive with `TypeInv`: each action either leaves the
mutex and the program counters of the other threads alone (`ElsewhereFrame`) or
is one of lock, unlock and die. It gives the refinement step by step; every
action is a `Request`, `Acquire`, `Release`, `End` or stutter of the abstract
lock. `CancelLockProofs` proves of the abstract lock that it excludes and that a
lost mutex stays lost.

**Causes** (`CancellationHasACause`, `StopsHaveACause`, `FailuresAreFinal`).
A cancellation is four hops away from its cause, so `CauseInv` says of each hop
what it carries: a FAILURE in a queue to main means that the flag of its task is
set; a report in `main_to_log`, or in the hand of the log task, has a cause of
the kind its level and task call for; the handler runs only after a signal.
Causes never go away (`CausesStay`), which makes each part stable, and one lemma
per variable (`ToMainChanges`, `CanceledChanges`, ...) lists the actions that
can change it.

The proof of `StopsHaveACause` shows more than the property says: an ALERT is
only ever about the light task, so the handler alone sets `temp_alive`.

**LEDs** (`LedsCanBeTrusted`, `CleanupLeavesOneLed`). The LED is written after
the report, in a step of its own; `LampJustified` carries the cause over that
gap, and `SilenceLit` says that main, once a task has been silent for
`LifeLimit` polls, is about to turn its LED on or has done so. After the cleanup
only main writes an LED, in the round in which it was interrupted, which is about
the task it watches (`RelitInv`).

**Cleanup** (`NoWriteAfterClose`). `CleanupInv` says what the handler has done at
each of its steps, though threads and main move in between and it may run twice:
the threads are cancelled before anything is closed, the queues are closed one
by one, and everything is closed and every `*_alive` is 1 once `caught_signal`
is. A cancelled log task does not get past the calls before its writes, which
are cancellation points.

**The end of a shutdown** (`ShutdownIsBounded`, `OnlyALostMutexStallsShutdown`).
`EndsOrWedges` is a liveness property, and TLAPS 1.4.5 has no rules for fairness
and `ENABLED`. What can be said without them is proved: once `caught_signal` is 1,
`StepsLeft`, a natural number, falls with every step (`ShutdownAdvances`; at most
19 steps are left, and nine more for each SIGINT that follows), and as long as
the process is there and no thread took the mutex with it, somebody can move
(`ShutdownGoesOn`). The cleanup
has set every `alive` to 1 and cancelled every thread (`CleanupInv`), so no loop
goes round again and the points of a thread are passed in order; main finishes
its round, whose second half is about the temperature task (`ChecksTemp`), and
goes on to its joins. What is left to fairness is that a thread which can move
does.

**Restarts** (`LeftoversNameTheirVictims`, `CleanShutdown`). `RestartInv` says of each hop what
`CauseInv` does, with one more cause, `leftover`: right after a restart every old
message that could harm a task has that task in `leftover`, and from then on
the argument is the one above. `CleanShutdown` carries `CleanupInv` and
`NothingLeftBehind` (a closed queue stays empty) over restarts: of a process that
was ended after its handler had set the flags the next one finds nothing
(`ShutdownIsClean`). A run of `Restart` with a signal would show it only in
minutes, so it is stated without one.

**Data** (`NeverTwoLabels`, `ChangesAreAlerted`, `AnswersAreReadBack`). `OneLabel` is strengthened by the fact that only the flag
of the latest reading can be set; `ChangesAreAlerted` rests on `AlertsSettled`
(no flag is left while the sensor works), since a flag left by an earlier cycle would be sent first; `AnswersReadBack`
rests on the type of the light task's messages, which says that an answer
carries its own command or a reading.

**The request channel** (`LightChannelRefinement`). The refinement mapping takes
the commands out of three queues (`CmdsOf`) and puts them in a row. `CmdsOf` is
defined by recursion on the length of a queue, and the provers have no
induction schema; so the lemmas about it are proved by well-founded induction over
sets (`SetInduction`): what `CmdsOf` returns, that a message put into a queue
appends at most its command, that one taken out takes at most the first. With
these each action is a `Prepare`, `Ask`, `Lose`, `Deliver`, `Forget` or a stutter
of `LossyFifo`. The steps that need care touch two queues: a request that the
log task or the light task takes out of one and puts into the next stays where
it is in the row, and is lost if the next queue is full.

**The schedule** (`TempScheduleProofs!TypeCorrect`, `TemperatureIsNeverStarved`,
`NoCommandIsStarved`). Of five cycles in a row each period can take one at most,
and there are four periods (`OneInFive`). Of two turns of 11 in a row the period 7
can take one at most, of three turns of 13 the periods 7 and 11 one each, and so
on (`TurnsTaken`), which gives `Gap`. `QuietInv` and `SinceInv` tie the two
histories to the counter: the cycles they count are the ones just before it. The bounds
are the least ones: TLC finds each of them reached.

**Sensors** (`ReadingIsHonest`, `RemovedSensorIsNoticed`, `LeakIsReported`,
`NoAlarmIsFalse`; `LumenNeverNegative`, `CleanCyclesFailDimly`, `RegistersAreKept`,
`AnswersAreEarned`). The work is in lemmas on outcomes: what a transfer can come
to, what a call after another can (`AfterOutcome`), and one lemma for each
function of the drivers. A temperature cycle ends with the reading, garbage,
FAIL or the configuration, and with the reading if all was clean
(`CycleOutcome`). `Kin(chip)` is the set of chips that a function of the light
sensor's driver may leave: the same channels, and no register with a value not
meant for it. `Stage` follows `rw_allregs_apds` call by call and says which
registers are written if no failure was seen. `TempInv` and `LightInv` are
conjunctions of the properties themselves, but for one: `Darkness` says of all
cycles, clean or not, that FAIL comes from two bytes that were read as 0, which
gives `CleanFailureIsDim`. `TempSensing` and `LightSensing` are
proved one by one; `sensing` interleaves them.

Only model-checked: the liveness properties `EndsOrWedges` and
`LightFailureHandled`, for the reason given above. All other properties of all
passing runs are stated by a theorem.

## 5. What is not modelled, and the plan

Done: supervision, the mutex, silence, data flow, the schedule, restarts and both
drivers, each with its runs and proofs. Left for later, in this order:

1. `System`: `Supervision` and `Dataflow` composed, to show what a cancelled
   task, or an earlier process, leaves in the data queues.
2. The other half of the data flow as a refinement: the requests of the light
   task and the temperatures that answer them.

Not modelled, with the reason:

- How fast the threads run. `light_to_log` fills up if all of them keep one
  cycle a second, since the light task sends two messages in every tenth cycle
  and the log task takes one; but the rates depend on work of unknown length, so
  every thread may be as slow as it likes and no property bounds a delay.
- `convert_temp`, the wording of log lines and the console output: text.
- `write_interrupt_thresholdreg` and `change_resolution`: nothing calls them.
- Sysfs writes of the LEDs, and the crash when the LED files do not exist: pure
  I/O.
- The leak of two bytes a second in `print_temperature`: the heap has no model.
- `src/unit_tests`: copies of the sources with their tests, and the cmocka
  library, which the program does not contain. They are most of the lines of C
  in the repository; the program itself has about 2400, comments included.
