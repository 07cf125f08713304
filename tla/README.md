# TLA+ models of the glimpse client

glimpse is a measurement probe: it registers with a server, receives schedules,
executes network measurements at the times they name, keeps the results and uploads
them. This directory holds TLA+ models of its library (`src/src/libclient`) and of the
console program around it (`src/src/console`), TLC runs that check them on small
instances, and TLAPS proofs about eight of the specifications.

`PROJECT.json` is the machine-readable index: components, runs, the source lines
behind every definition, one mutant per checked property, findings and hazards.

    tlc -workers 2 -config MCScheduler.cfg MCScheduler
    tlapm TaskExecutorProofs.tla

## 1. Inventory

The client has two threads that matter: the **main thread** (all controllers, the
scheduler, the storages, the user interface) and the **TaskExecutorThread** (the
measurements; some of them have threads of their own). On the main thread signals
are direct calls; between the threads they are queued events.

| component | state | operations | interacts with | what makes it hard / correct |
|---|---|---|---|---|
| TaskExecutor | `running`, `queue`; worker: `currentTest`, `measurement` | `execute`, `onStarted`, `onFinished`; worker: `execute`, `measurementFinished`, `measurementError` | called by Scheduler, NetworkManager; tells Client | two threads, events under way. One measurement at a time, in order, none lost |
| Scheduler | sorted `tests`, `onDemandTests`, `testIds`, `allTestIds`, a QTimer, `tasks` | `enqueue`, `dequeue`, `timeout`, `executeOnDemandTest` | TaskController, Client, TaskExecutor, SchedulerStorage | order by a quantity that changes with time, two clocks, ids kept in three places |
| SchedulerStorage | one file per schedule | store, remove, load | Scheduler's signals | crash between steps |
| timings (periodic, on/off, immediate, on-demand, calendar) | start, end, period, lists, delay, last execution | `nextRun`, `reset`, `timeLeft` | Scheduler, Timer | boundaries, random delay, network time |
| Timer | a timing, a QTimer | `start`, `stop`, `onTimeout` | controllers, TrafficBudgetManager | intervals beyond `INT_MAX`, restart after firing |
| NtpController | network and local time of the last answer | request, reply | all timings | UDP, no retry, an offset that jumps |
| WebRequester | `status`, `currentReply`, timeout timer, `Response` | `start`, `requestFinished`, `timeout` | every controller | late and overlapping replies; no one waits for ever |
| ReportController, ReportScheduler, ReportStorage | list of reports, files, `isImmediate`, timer | `taskFinished`, `sendReports`, `onFinished`, load | Client, WebRequester, history | results that arrive during an upload, lost replies, restart |
| ResultStorage, ResultScheduler | history per task and day | add, load | ReportScheduler, ResultController | same result twice or never; a day removed while it is listed |
| TrafficBudgetManager | two counters, a mutex | `addUsedTraffic`, `reset`, `saveTraffic` | measurements (other thread), Settings | unlocked reset, 32-bit arithmetic, restart |
| TaskController | two requesters, a Timer | `fetchTasks`, instruction and schedule replies | Scheduler | chain of requests, withdrawn schedules, kill switch |
| ConfigController, LoginController, CrashController | a requester each, settings | fetch, login, register, upload | WebRequester | one requester for several requests; what is stored before the answer |
| console program | options, three watchers | `main`, the watchers' slots | all controllers | a chain of asynchronous steps that has to end |
| NetworkManager | keepalive socket, handled uuids | `establishConnection`, `processDatagram`, `created` | TaskExecutor, BTC, packet trains | repeated, lost, reordered datagrams; two clients that want each other |
| BTC, packet trains | counters and samples of an agent and a peer | `prepare`, `start`, replies, timers, evaluation | NetworkManager, traffic budget | two-sided protocols, division by nothing, waits |
| HTTPDownload | workers, counters, a timer | `prepare`, `start`, tracking slots, `downloadFinished` | TaskExecutor | workers that connect, fail and end in every order |
| Ping, Traceroute | sockets, probes, counters, hops | `prepare`, `start`, per platform; slots of the probes' signals | traffic budget | three implementations, lost and late answers, a capture thread |
| ConnectionTester and its model | rows | `start`, checks, slots | user interface | a pool thread whose signals are queued |
| ResultController | - | `rotate` | results and tasks on the disk, Scheduler's tasks | deletes old files whenever a result comes |
| DNS, UPnP, WiFi measurements | - | `prepare`, `start` | TaskExecutor | calls of libraries |
| Settings, storages, list models | values, files | get/set | all | plain storage |

The hazards this gives rise to are listed, with their lines and the properties
aimed at them, under `hazards` in `PROJECT.json`.

## 2. Modules

| module | models | uses |
|---|---|---|
| `TaskExecutor` | task/taskexecutor.cpp, precondition.cpp | |
| `SerialExecutor` | abstract: what callers of the executor rely on | |
| `Scheduler` | scheduler/, timing/ | `PeriodicTiming` |
| `PeriodicTiming`, `CalendarTiming` | the two `nextRun` algorithms | |
| `Timer` | timing/timer.cpp, the scheduler's use of a timing, ntpcontroller.cpp | `CalendarTiming`, `PeriodicTiming` |
| `WebRequester` | webrequester.cpp | |
| `Reports` | client.cpp (`taskFinished`), report/, result/, controller/reportcontroller.cpp | instance of `WebRequester` |
| `TrafficBudget` | trafficbudgetmanager.cpp, part of settings.cpp | |
| `Session` | console/main.cpp, client.cpp, settings.cpp, the config, login, task and crash controllers | |
| `NetworkManager` | network/networkmanager.cpp on two clients | |
| `BulkTransport`, `PacketTrains` | measurement/btc/, measurement/packettrains/ | `NetworkManager`; together one specification |
| `PingCapture`, `Ping` | measurement/ping/ for Linux, OS X and Windows | |
| `Traceroute` | measurement/traceroute/ | `Ping` |
| `HTTPDownload` | measurement/http/ | |
| `ConnectionTester` | connectiontester.cpp, networkhelper.cpp | |
| `MC...` | small instances for TLC | |
| `TaskExecutorProofs`, `SchedulerProofs`, `TimerProofs`, `ReportsProofs`, `HTTPDownloadProofs`, `TracerouteProofs` | theorems about the module of that name | |
| `ServiceProofs` | theorems about `Session`, `WebRequester`, `TrafficBudget` and `ConnectionTester` | |
| `PeersProofs` | theorems about `PacketTrains` with `NetworkManager` and `BulkTransport` | |

Definitions named `X_fault` next to a definition `X`, marked "Fault", are deliberately
wrong variants of it. No specification uses them; they exist to show that a property can
fail (`mutants` in `PROJECT.json`).

### TaskExecutor
Each thread has its program position and its event queue. `calls` are the queued
invocations of the worker's `execute`, `signals` the events posted back, each twice:
to `Private` and to the public object. An action is what one thread does without
the other being able to observe a middle state: `execute` (the caller, with both
early returns), `onStarted`, `onFinished`, the two re-emitted signals; on the worker
`beginExecute`, then one action per way `execute` goes on (`createFailed`,
`startFailed`, `started`, or `measurementEnded` inside `start`), and `clear`. A measurement
is the choice of how it ends: known to the factory or not, ending inside `start()`
(`Blocking`), later, or perhaps never (`Hanging`). `accepted`, `delivered` and
`overlapped` are history variables.

`SerialExecutor` is the abstract specification: accept, begin, end, deliver, in
order. `ImplementsSerial` is the refinement mapping: waiting = posted plus queued,
active = the execution inside the worker, outbox = finished signals on their way.

### Scheduler
Time is counted in ticks of 500 ms, so the guard of 1500 ms is three ticks and the
100 ms minimum of the timer is none. `now` is network time. `Offset` is the
difference between the clocks: at -1 the local clock is half a second ahead and the
timer, which counts local time, fires early. A queued test has its definition, the
random delay drawn by its constructor and its last execution, which a restart, or a removal and a new
addition, forgets; the history variable `ran` keeps it per schedule. `Tick` waits at most
`MaxLate` ticks with a timer that is due (the event loop is busy). `files` is the
storage: written by testAdded, removed by testRemoved in the same step.
`Restart(clean)` is the destructor (or a crash) and a new process that reads the
files one by one and offers each to the queue; `StoredIds` takes them in the order of their numbers, the code
in that of their names as strings, which decides nothing that is checked. The 64 to 32 bit conversion of the timer's
interval is `toInt` with `TimerMax` for `INT_MAX`.

### Timings and Timer
`CalendarTiming` has a calendar of its own, small enough for TLC: the lengths of the
months per year of a cycle (one year has a day the others lack), hours, minutes and seconds
of a few units, ticks of half a second. `calendarNextRun` follows the code's search; its
reference is `Asked`, the set of all instants the lists name. `Timer` puts a timing to use
twice: in the `Timer` class (in parts, when the interval exceeds `MaxInt`; started again after
each signal) and in the scheduler, where a test is queued again after its run. The
local clock ticks, the offset of the network time changes at any moment.

### WebRequester
`replies` are the requests under way, `currentReply` the one the timer aborts. Every
reply carries what was sent and ends in one of five ways. `signal` is what the last
step emitted; a controller's slot, being a direct call, is part of the same step in
a composed module. The code stops the timer after the signals, the model before: the two differ only for
a slot that starts the requester that called it, and the library and the console program have none.

### Reports
Every public step of the chain from a result to the server; `W == INSTANCE
WebRequester` gives the upload. The server is external: what it inserted is decided
when its reply comes, and a reply may be lost after the insertion. `isImmediate` is
uninitialised in the code and starts as either value. A new process reads the report
files in whatever order the directory lists them. The history is a sequence of results per task and day, as
it is on the disk (`saved`) and as it is listed (`shown`); every result, and the end of a process that is not killed, makes
`ResultController` remove the files older than the backlog (`rotate`), which the lists still show. The date goes
forward only. `produced`, `producedOn`, `server` and `exposed` are history variables.

### TrafficBudget
`addUsedTraffic` runs on the executor's thread under a mutex that `reset()` does not
take and asks three times which connection is in use, so it is split where another
thread can come between: check, load, add, save. Arithmetic is modulo `Word`. The
constants `MidCall` (the connection may change during a call) and `Lowering` (the
user may lower an allowance) name the two circumstances under which
`BudgetRespected` is not true of the code.

### Session
One process after the other, each with the options it was called with. `req` has, for each
of the six requesters, its status and the replies under way; the end of a reply is one
action together with every slot that its signal reaches, since all are direct calls.
A reply that does not change the status is not announced, as in `WebRequester`. `disk` is what survives
(QSettings writes are taken as immediate), `config` is what the process has in memory:
"lost" means settings whose addresses are gone. `loginData.type` is uninitialised when no
option is given, so a process without options may also register. `quit()` ends the event loop and not the process: until
`main()` has deleted the client in a second loop, replies that were under way and runs of schedules are still handled
(phase "quitting"); a request begun in that moment gets no answer. `ghost` holds history, with what
could still lead to a login when the kill switch was obeyed (`late`).

### NetworkManager, BulkTransport, PacketTrains
Two clients, each with an executor taken as the serial queue `SerialExecutor` describes. An
offer may be seen by the peer and by its own sender, any number of times; an "ack" is any
datagram from the peer's host. Dereferencing a socket that the main thread has replaced
takes the client down. The agent of a bulk transfer counts in units of a few bytes; how TCP
cuts the data is a choice, and a speed computed from no time may be any value, one computed from no bytes is not a
number, which converts to the smallest number of 64 bits or to 0. Widths are kept: what is asked for has 64 bits, what is
charged 32 (`UintRange`), what is sent is an `int` (`answered`). The receiver of packet trains keeps per train the number of packets that arrived; the rates it
computes are left out.

### Ping, PingCapture, Traceroute
A probe's pair of times is reduced to what the evaluation tells apart (good, equal, bad). The
platforms differ where the code does: `initSocket`, `receiveData` and so on have one
operator per platform. The estimate that is charged is a product of 32 bits, as in the code. On Windows a thread captures packets; `PingCapture` has the filter and the
matching of requests and answers, checked against a definition of a matching. `Traceroute`
uses one `Ping` for every ttl and handles its signals in the same step; with `owner = "task"` the
ping is a measurement of its own.

### HTTPDownload
The workers stay in the measurement's thread (Qt refuses to move an object that has a
parent), so their slots are called one after the other; the QThreads run empty event loops and
still have to end. The executor destroys the measurement inside its `finished` or `error`.

### ConnectionTester
A machine (a constant) says what the operating system and the network answer; the operators
compute what each check of the code makes of it. The pool's job emits signals that are queued
to the main thread, where the model keeps rows; the user interface may call single checks in between.
`startTests` and `setFuture` are the two statements of `start()`: the job may send signals between them.

## 3. Runs

Every specification has a `TypeOK`, which documents its variables. Where a proof module has a
`TypeCorrect` (`CountersTyped` for the traffic budget) it is proved; the runs do not repeat them and check what could really be wrong.

| run | result | shows |
|---|---|---|
| `executor` | pass | one execution in flight and `running` says so; no queue entry stranded; refines `SerialExecutor`: nothing is lost, repeated or overtaken; each accepted execution is delivered unless a hanging measurement blocks the worker |
| `scheduler` | pass | the three views of the ids agree; the timer is armed for the first test; one execution per instant though the clock is ahead, and, unless the first was early, also when the test was loaded or added again; restarts keep what is queued |
| `timing` | pass | a calendar's next run is the first instant its lists ask for; periodic runs keep their bounds; the scheduler executes no run of a calendar twice; intervals in parts add up; a periodic Timer stays alive |
| `timer_dead` | violation | a Timer with a calendar timing fires, starts itself again for the run it just announced and is dead |
| `requester` | pass | the timer is active exactly while Running, and Running ends |
| `reports` | pass | files mirror memory; only results produced during an upload can be lost; the history has every result once, and what it lost are whole days older than the backlog |
| `budget` | pass | allowances respected, restarts forget nothing |
| `session` | pass | the api key is that of the stored user; no readable crash dump is lost; the kill switch leaves no login behind, also in the second event loop, unless one was under way; a registering process ends; the schedules converge to the server's |
| `peers` | pass | an offer is executed once; nothing is sent that was not paid for; a finished measurement has a speed, in at most as many slices as announced; measurements end except where the code cannot end them |
| `traceroute` | pass | the loss is a fraction; captured packets are matched once; probes are paid for as long as the estimate fits; measurements end except where nobody is told |
| `httpdownload` | pass | finished means data, in a known window; slots cut the reads without gap or overlap; one report; a started download reports and its threads end |
| `connectiontester` | pass | a row shows its own check's result; rows are complete and in order; a test ends |

### Finding
`timer_dead`: `Timer::Private::onTimeout` calls `start()` again in the second of the run
it just announced (the run's property looks at that call only; the trace starts the Timer, waits, fires and starts it again). A calendar's next run has no milliseconds and, without `reset()`, is still that
same second: `timeLeft()` is negative, which QTimer refuses (the Timer says active and nothing runs), or 0 (the
Timer becomes inactive). The comment says "If we're still active, start the timer again". The
monthly reset of the traffic budget, a calendar timing, therefore happens once per
process. With a local clock a second or more ahead of the network time, periodic timers stop in the same
way, until the next configuration calls `updateTimer()`; `PeriodicAlive` is checked for the other case.

### Observations
Behaviours of the code that the models show and that are not asserted by a run.

* *Executor.* The check for mobile connections is made when a test is submitted and is stale
  when the measurement starts. A measurement that never ends blocks all later ones.
* *Scheduler.* The list is ordered by the time left at insertion; a periodic test whose instant passes
  before it is executed jumps by a period, loses that run and may block an earlier test. A
  refused test is announced as added and its file replaces that of the queued test with the same
  id. `QTimer::start(int)` gets 64-bit milliseconds: a test more than 24.8 days ahead
  stops or shortens the timer (`TimerArmed` is checked with `TimerMax` out of reach). When a last run was
  early, the repeated timeout is skipped for 1.5 s and then executed after all (`timeLeft()` of no next run is 0);
  `OncePerPeriod` leaves that case out. The last execution is in memory only: with a local clock that is ahead of the
  network's, a test that is executed early and then loaded or added again before its instant is executed twice for it.
* *Timings.* The random delay is added after the end was looked at. A calendar run that was executed makes the search go on with
  the next day, so the other times of that day are skipped. The search ends two years ahead and drops what it finds in the
  last listed month of that year: the 29th of February may never be found.
* *Network time.* An invalid answer updates the local time and not the network time, so the offset jumps by
  the time since the last valid answer.
* *WebRequester.* With overlapping requests, the end of the first stops the timer of the
  second.
* *Reports.* A result produced while a POST of its task is under way is removed with the report
  and never uploaded.
* *Traffic budget.* The monthly reset is not saved and is undone by a restart, or by an addition under way.
  A lowered allowance wraps around and grants everything.
* *History.* `rotate` removes old files and not the lists, which show those days until the next start. It goes by the date in a
  file's name.
* *Login.* The user id is stored before the server agrees; a failed login leaves it beside the key of
  another user. Without options, the uninitialised `loginData.type` may register a new anonymous user in place of the stored one.
  The error branch of `ConfigWatcher` is dead: it is connected to `finished()` only.
* *Settings.* A process that ends before its first configuration leaves settings without addresses; the next start
  sets the configuration server where it means the supervisor (`settings.cpp:102`), and logins fail until a configuration arrives.
* *Console.* `--allow-mobile` sets the mobile traffic allowance. After the device was registered,
  the controller is not told, so the first instructions wait for the timer. A passive probe still executes
  schedules it has stored.
* *Kill switch.* "settings" clears files and settings, and then `~Client` and `~Settings` write schedules and
  configuration back. User and key stay gone, unless a login request, or the configuration that `ConfigWatcher` waits
  for, was under way: its reply is handled in the second event loop and stores the key, or the user, again.
* *Crash reports.* A dump that could not be read is deleted with the others.
* *Bulk transport.* The agent only logs that the peer is gone, and waits for ever, as does a peer nobody connects to. A pretest
  in one piece divides nothing by nothing. The charge is truncated to 32 bits, and so, to an `int`, is the answer: no more is sent than
  was charged, but a request for 2 GiB or more is answered with less, and the agent waits for the rest for ever. The samples of the pretest count for the result.
* *Packet trains.* A train of which nothing arrived makes the evaluation read the first element of an empty list. The guard
  against infinite rates compares a sending with a receiving time. The peer binds port 5106 whatever was offered.
* *HTTP download.* After an error, threads that have not ended yet are destroyed, which ends the program.
  Slots longer than two seconds overflow an int, as do more than 2 GiB in one slot (`httpdownload.cpp:290`). The least and the greatest element
  of an empty list of slots are read (`httpdownload.cpp:690`).
* *Ping and traceroute.* Nothing bounds the number of probes, and an estimate that wraps charges next to nothing. A traceroute whose ping cannot be started waits for ever. A probe without signal shifts all
  later groups of hops. On Windows probes count as sent although sending failed.
* *Connection tester.* Results go to the last row, whatever they are of; rows of checks that are faster than the watcher are
  cleared; a result for an empty table is undefined.

### Bounds
* Executor: three calls suffice for one running, one queued and one arriving; three
  kinds of test cover the ways an execution can go; one change of environment puts
  a change between any two steps. The theorems need no bound.
* Scheduler: four schedules on nine ticks contain two periodic tests due at the same
  two instants, one of them with a random delay and an end, a one-shot test between, an on-demand test
  and the removal of each. The clock is one tick ahead and a timeout up to two ticks late, which is what the guard of three ticks covers, so
  executions are early, punctual or late. The period of seven ticks is more
  than the property leaves for lateness, clocks and delay (three ticks, five with the random delay). `TimerMax` is out of reach.
* Timing: two periodic and three calendar timings, of which one has an end, one a start and one names a day that only the long
  year has; starts at the beginning of the calendar and near the end of a year; `MaxInt` of five ticks makes intervals of up to several parts.
* Requester: four starts allow three overlapping replies and a fourth after them.
* Reports: three results over two server tasks and a user task, two POSTs per process,
  one restart: a result before, during and after an upload. Two days and a backlog of none, so that a result of the
  second day removes those of the first.
* Budget: 4-bit counters, so that the arithmetic wraps within a few calls; sizes below,
  at and above the allowances; two restarts.
* Session: two processes (the second finds what the first left), two users, one schedule that the
  server may add and withdraw. One instruction reply and two schedule replies may be under way when one more is asked for, one of every
  other requester (`MaxReplies`).
* Peers: plans of two tasks (each client wants the other; one asks twice; an offer for another port), one change
  of configuration, trains of two packets, two slices instead of ten. With numbers of three bits (`UintRange` is 8) the sizes 1, 3, 5 and 9 are
  one that is answered in full, one more of them, one that is negative as an `int` and one that is truncated.
* Traceroute: two times to live of two probes, so that a Ping is used again; one tolerated timeout of the
  capture instead of ten; 2^30 values of an unsigned number, the largest power of two TLC can compute with.
* HTTP download: two workers, three reads each, `int` of 16 values so that a slot length of nine overflows.
* Connection tester: two tests, one direct call, five machines of one or two checks each; together they
  contain all operating systems and a machine without network.

Deadlock is not checked: these systems rest when the bounded inputs are used up, and
the real ones rest when there is nothing to do. What must go on is stated as liveness.

### Fairness
* Executor: weak fairness of the main thread's event handlers and of the worker, the
  event loops Qt keeps running. No fairness for a measurement in `Hanging` that has
  been started and waits: the code has no timer that would end it.
* Requester: weak fairness of `timeout` only: an active QTimer fires. Replies may never
  come. `start()` restarts the timer, so progress needs that it is not called for ever;
  the bound on the number of starts stands for that.
* Session: timers fire, requests end (with their timeout at the latest), and a server that is asked again
  and again answers now and then (strong fairness of a reply with a body): without that no client
  could converge. Crashes, signals, kill switches and changes on the server are not fair.
* Peers: each client's executor thread and the peer's event loop go on. No datagram has to arrive.
* Traceroute, HTTP download, connection tester: the measurement's threads and timers go on; every wait of the code has
  a timeout (`poll`, `waitForConnected`, the capture), except those the properties name. Answers need not come.

## 4. Proofs

All theorems hold for every value of the constants that satisfies the named
assumptions of the modules.

**TaskExecutor.** `TypeCorrect`, `AtMostOneInFlight`, `NoStrandedEntry`,
`NoMeasurementReplaced` follow from one inductive invariant (`Invariance`):

    TypeOK /\ MeasurementIsCurrent /\ OneInFlight /\ StartedBeforeFinished /\ QueueWaits /\ NoOverlap

`OneInFlight` is not inductive alone. `onStarted` sets `running` unconditionally, so
one needs that a pending started signal belongs to an execution that is still inside the
worker or is followed by its finished signal (`StartedBeforeFinished`). The worker reports
`currentTest`, so the measurement must be that one (`MeasurementIsCurrent`), and a call
is only posted by `onFinished` when the previous measurement can no longer emit: the
"ending" state of the worker. Lemmas describe what appending to and taking from the
signal queue does to the set of pending signals.

**Services.** `ServiceProofs` extends four specifications that know nothing of each other, `Session`, `WebRequester`,
`TrafficBudget` and `ConnectionTester`; the initial state, next-state relation and type invariant of all but `WebRequester`
therefore have names of their own (`SessionSpec`, `BudgetSpec`, `TesterSpec`).

**WebRequester.** `LatestRequestWatched` is `RunningIsWatched` for any number of
overlapping requests. The strengthening says that a requester without a URL is not
running (`start` with an invalid URL sets Error and leaves the timer alone, which is
right only then).

**ConnectionTester.** `RowsShowOwnTest` is `OwnResult` for any machines and any number of tests and single checks. A row is
right because of the order of the signals that wait for the model, so the invariant reads the queue as a path (`Stream`): each event
leads from the check that is open before it to the one that is open after it (`Openings`), the first state is the check the rows have open, the last one the
check the jobs have open. `Stream` grows at its end with a job's signal, loses its head when the model handles an event, and survives
the removal of the watcher's events, which open and close nothing (`StreamAppend`, `StreamTail`, `StreamSelected`).
`RowsCompleteAndInOrder` is `CompleteAndInOrder`, by another path through the same queue (`Counting`): its states are the number of
signals the model has seen and whether the watcher's `started` was among the events. Before `setFuture` the queue holds the signals 0, 1, 2, ... of
the job (`Launching`), and none of them is removed; from then on the last state is the number of signals sent, and the rows are those of the
signals seen after `started` (`RowsFrom`). An odd number of signals before it would put a result into an empty list.

**The executor's refinement.** `SerialExecution` is `Spec => ImplementsSerial`: every step of the
two threads is a step of `SerialExecutor` under the mapping, or a stutter. Beyond the invariant above it needs
`ReportsPaired`: a finished signal for `Private` is followed immediately by one for the public object about the same
execution, and one for the public object alone is the very next event. So the execution that the caller is told of is
the one that `onFinished` has just ended, in the order the abstract outbox has.

**Scheduler.** `TypeCorrect`, `ViewsAgree`, `TimerServesQueue`, `RestartsKeepQueue` and `ExecutedOncePerPeriod`, for every
finite set of schedules and every `Offset`. The inductive invariant `SInv` has the queue (entries with a delay their
schedule allows, no id twice), the sets of ids, files that hold schedules under their own id, and the timer off when nothing waits,
without which `timeout()` would read the first element of an empty list. `ViewsAgree` includes that no id stays known after its test has gone (`NoStaleId`): such
a schedule could never be added again.

* `TimerServesQueue` adds that the next run of a timing only moves on as time passes (`PeriodicRuns`), so a timer that
  was armed in time still is. It assumes `WithinTimer`: the instants of the schedules fit the `int` of
  `QTimer::start`. The code does not ensure that (see Observations); `TimerArmed` is false without it.
* `RestartsKeepQueue` adds `QueuedHasFile`: a queued test has its file from the step that queues it to the one that takes
  it out. Loading is characterised by `LoadedQueue`: whatever the order, the ids of the loaded
  queue are those of the files whose schedule has another run, and `DelayIndependent` says that the newly drawn delay does not decide
  whether there is one. It assumes `UniqueIds`, since a refused test replaces the file of the queued test with its id.
* `ExecutedOncePerPeriod` needs how the timer came to be set, as the state keeps only when it fires (`PeriodInv`): there was an
  instant `s`, not before the first test's last execution, at which it was set for the run that test then had; the last
  execution of a queued test was itself one for such a run (`LastJustified`); and the timer is not later than `MaxLate`.
  Between two such instants the next run stays or moves on by a period (`PeriodicMovesOn`), and if it stayed the
  second execution would come within 1.5 s of the first, which `timeout()` refuses (`PeriodBetween`).
  An entry that was loaded or added again does not know its last execution, so the invariant also says what the
  executions of a schedule were (`RanForRun`: each came when the local clock had reached a run of the schedule, by no
  more than the lateness later), and `PeriodicAcross` and `FirstRunsAgain` that the next one, if the last was not
  early (`NotEarly`), is for a run a period later, up to a delay drawn again.
  The theorem assumes `WithinTimer` and `GuardCovers`: a local clock that is ahead is so, together with the
  lateness, by 1.5 s at most (one that is behind may be so by any amount). Without `GuardCovers` the property is
  false: a clock one second ahead and a timeout one second late repeat a run.

**Reports.** `TypeCorrect`, `FilesMirrorReports`, `NoQuietLoss` and `HistoryRight`, for every set of tasks and any number of
results, POSTs and restarts. `LostOnlyInFlight` is not inductive: a reply removes whole reports, so one has to know what its POST
carried. `Covered` says that every POST under way carries all results that are in a report now, except those produced
meanwhile (`exposed`). With `Mirror` (files are what the list is, one report per task) and `Own` (a report has results of its own task)
this is kept by every step; the requester's part is used through `W`. `HistoryRight` is inductive as it stands: a day that the rotation
removed stays older than the backlog, and no result is added to it.

**TrafficBudget.** `CountersTyped` needs nothing more. `SettingsNotBehind` assumes `~MidCall` (the connection does not change
during a call), with the invariant that only the present counter may be ahead of Settings, and only before it is saved. `BudgetKept` assumes
also `~Lowering`. Its invariant says that a call past its check still fits the allowance it was checked against, which an unlocked
`reset()` can only help, and that the saved values fit, since a restart restores them. The two hypotheses are the circumstances in which
the code does exceed an allowance.

**Session.** `LoggedInWithOwnKey`, `NoDumpLost`, `KillSwitchForgets` follow from one invariant about the requests under
way: until the kill switch is obeyed every login request is for the stored user (`ConfigWatcher`, which stores the user,
is gone once it was sent), and every crash upload holds what `init` listed except files that could not be read. After the
kill switch only what was under way then (`late`) can start a login or end one, in the second event loop.

**Peers.** `SentIsGranted` and `ResultHasSpeed` rest on the accounting of the bulk transfer: what was sent, with what a request under way
will be answered with, was charged, because the answer keeps less of the size than the charge does; and a second request is sent only with a
sample or for what is not a number. `TakesPartOnce` rests on
`UuidsKept`: an accepted offer that waits or runs is among the handled uuids, no other queued entry has its uuid, and one
that has not been created has not been counted.

**HTTPDownload.** `TypeCorrect`, `FinishedWithData`, `OneReport` and `SlotsCutReads` for any number of workers. The code counts answers twice, in
counters of the measurement and in the workers' status, and compares one with the other; `HInv` ties each counter to the
number of workers in the states it counts. `SlotsCutReads` is `SlotsPartition`: after every read of a worker the closed slots and the
open one are the reads so far, cut into pieces (`CutRight`), whatever the limit of the slot is, so also when it has overflowed. The proof
is by induction on the reads.

**Timer and timings.** The five properties of `Timer`, for all lists of a calendar timing, all lengths of the units of time in the
assumptions, and any waiting.

* `CalendarFirst`: `findTime` finds the first time of a day that is not before the one asked for (`FindTimeFirst`, one case per loop
  that is entered again from its first value), a later day is after an earlier one whatever its times (`InstantOfDay`), and so the search
  of `nextRun` ends with the least of the instants the lists ask for, or with none (`FoundIsAsked`, `FoundIsFirst`).
* `PeriodicWithinBounds` has the hypothesis that a timing ends no earlier than it starts.
* `PartsAddUp` rests on `TimerInv`: a timer that waits for more than `MaxInt` has left the sum of whole parts and a rest
  (`PartsOver(k)`, k parts still to come), each of which may be late.
* `PeriodicStaysAlive` and `RunsOnce` assume `Offsets \subseteq Nat`: the local clock is not ahead of the network time. The finding
  above is what happens otherwise. `RunsInOrder` says that what was executed lies before what is aimed at, which is at most what is due.

**Ping and Traceroute.** `LossBounded`, `CapturesMatched` and `ProbesCharged`, for any number of probes, hops and captured packets, from
one invariant of the Ping, `PingInv`; `ProbesCharged` as long as the estimate of one start fits an unsigned number (`EstimateFits`).

* `AnswersCounted`: an answer that is not yet counted belongs to a probe that was. On Linux and OS X that is the probe
  being waited for; on Windows, where the capture runs beside the sender, answers counted before, captured requests
  and probes not yet captured together are at most the probes sent. At the end no more answers are counted
  than pairs were made, and no more pairs than there are captured requests. The difference that
  `result()` computes with unsigned numbers therefore never wraps, on any width.
* `CapturesMatched` needs of the state only that packets were captured. A pass is a chain of calls of `pairUp` (`PassChain`); every call
  keeps `Paired` (the pairs are of a request and a response that fits, and what is marked is what they use), and once a request was left
  alone no response that fits it comes back (`Exhausted`), so what the first pass could not pair the second leaves unpaired too.
* `ChargeCovers`: what was charged covers the probes sent and those this start may still send, since every
  start is charged for all its probes, with at least the payload and the headers that need no address. Beyond `EstimateFits` it is false.

**Assumptions.** The constants' assumptions are types and bounds of parameters. `Scheduler` assumes finitely many schedules with natural ids
(file names are sorted by them), `Session` that the calls are made of known options, `Timer` that lists of a calendar are not
empty and hold hours, minutes and seconds (`TimingsAssumption`), `Ping` that the width of an unsigned number (`UintRange`) is not zero, `BulkTransport`
that the first request is within it, `Reports` that there is a day (`DaysAssumption`), `Session` that some instruction and schedule requests may be made; TLC evaluates all of them in the runs.

**Lists and induction.** What a recursive function over a list computes is proved by the least counterexample (`LeastNumber`,
`InductionOnSet`, from the well-foundedness of the naturals), with a lemma that the recursion has a solution (`FiltersExists`,
`LoadsExists`, `SelectsExists`, `CutsExist`, `PassedExists`, `AnnouncingExists`). For that `without`, `load`, `responses` and the executor's outbox are functions over positions, not recursive operators.

**Only model-checked:**

* Liveness (`EventuallyDelivered`, `RunningEnds`, `SchedulesConverge`, `MeasurementEnds` and so on), which is out of the prover's reach.
* `TypeOK` of the peers, whose bounds on numbers of packets depend on how the
  plan of tasks and the repetitions add up.

## 5. Not modelled

* Failing file operations (the code only logs them) and crashes inside one handler.
* The battery level in `Precondition`; logging, formats, encodings, packet headers and checksums.
* The keepalive messages of NetworkManager and its lookup of peers through the alive server, which the code disables.
* The scheduler's list of tasks, `TaskStorage` and the part of `rotate` that removes tasks which have neither schedule nor result.
  User-started measurements take a task id from the list; schedules, results and reports carry their own.
* What a slot of an HTTP download does while it waits for bytes takes no time in the model (up to 5 s in the code); the Android
  way to find the default gateway in ConnectionTester.
* The UDP exchange of NtpController: its effect, an offset that changes at any time, is in `Timer`.
* DNS, reverse DNS, UPnP and WiFi measurements: calls of system libraries; the executor's model covers how they end.
* Configuration requests after the client has a full configuration; empty bodies of instruction and schedule
  replies (`WebRequester` has them); the ids of on-demand tests.
* A periodic timing without start: the configuration controller makes one, and its first evaluation sets the start.
* Daemon and user options of the console program; the mobile program; list models.

## 6. Plan

The models cover the parts of the program that change state in ways worth checking, and every invariant and every action
property that a passing run checks is proved. What is left would need another prover or a finer model:

1. The liveness properties, beyond their small instances: the provers have no rules for fairness.
2. A `TypeOK` of the peers that is inductive, from the plan of tasks and its repetitions.
