----------------------------- MODULE Scheduler -----------------------------
(***************************************************************************)
(* The scheduler of measurements (libclient/scheduler/scheduler.cpp), the  *)
(* timings it asks for the next run (libclient/timing) and the files in    *)
(* which schedules survive a restart (libclient/scheduler/                 *)
(* schedulerstorage.cpp).                                                  *)
(*                                                                         *)
(* `tests' is kept in the order the remaining times had when each test was *)
(* inserted; one single-shot timer runs for its first element.  Time is    *)
(* counted in ticks of 500 ms; the 100 ms the scheduler waits before it    *)
(* runs a test that is due are less than a tick.                           *)
(***************************************************************************)
EXTENDS PeriodicTiming, Sequences, SequencesExt, FiniteSets

CONSTANTS
  Schedules,    \* schedule definitions [id, type, start, end, period, spread]
  Offset,       \* network time minus local time, in ticks (NtpController)
  TimerMax,     \* the largest interval QTimer::start(int) takes, in ticks
  MaxLate,      \* bound: how late the event loop may deliver the timeout
  MaxTime       \* bound: the last instant of the model

Ids == {d.id : d \in Schedules}

ASSUME ConstantsAssumption ==
  /\ IsFiniteSet(Schedules)
  /\ \A d \in Schedules : d.id \in Nat
  /\ \A d \in Schedules : d.type \in {"periodic", "onoff", "immediate", "ondemand"}
  /\ \A d \in Schedules : d.period \in Nat \ {0} /\ d.start \in Nat /\ d.end \in Nat /\ d.spread \in Nat
  /\ Offset \in Int /\ TimerMax \in Nat
  /\ MaxLate \in Nat /\ MaxTime \in Nat

VARIABLES
  now,            \* the network time, which nextRun() counts in
  tests,          \* Private::tests: the queue
  onDemandTests,  \* Private::onDemandTests (and the ids of onDemandTestIds)
  testIds, allTestIds,
  timer,          \* when the QTimer fires, Never when it does not run
  files,          \* SchedulerStorage: id -> the definition in its file
  ran             \* history: definition -> when it was executed last, in any process

vars == <<now, tests, onDemandTests, testIds, allTestIds, timer, files, ran>>

NoFile == [id |-> -1]
Queued == [def : {d \in Schedules : d.type # "ondemand"}, delay : Nat, last : Nat \cup {Never}]

(* The queue, the sets of ids, the timer and the files have their types; no on-demand test is queued. *)
TypeOK ==
  /\ now \in 0..MaxTime
  /\ tests \in Seq(Queued)
  /\ onDemandTests \subseteq Schedules
  /\ testIds \subseteq Ids /\ allTestIds \subseteq Ids
  /\ timer \in Nat \cup {Never}
  /\ files \in [Ids -> Schedules \cup {NoFile}]
  /\ ran \in [Schedules -> Nat \cup {Never}]

-----------------------------------------------------------------------------
(* Timings.                                                                  *)

nextRun(x) ==
  CASE x.def.type = "periodic" -> periodicNextRun(x.def, x.delay, now)
    [] x.def.type = "onoff"    -> x.def.start
    [] OTHER                   -> now

(* Local time to the next run, which is in network time; 0 when there is none. *)
timeLeft(x) == IF nextRun(x) = Never THEN 0 ELSE nextRun(x) - now + Offset

(* Timing::reset: what is queued again, after lastExecution was set. *)
reset(x) == IF x.def.type = "periodic" THEN [x EXCEPT !.last = now] ELSE x
runsAgain(x) == x.def.type = "periodic" /\ nextRun(x) # Never

-----------------------------------------------------------------------------
(* Scheduler::Private.                                                       *)

(* The qint64 of milliseconds is narrowed to the int of QTimer::start. *)
toInt(ms) == ((ms + TimerMax + 1) % (2 * (TimerMax + 1))) - (TimerMax + 1)

(* A QTimer started with a negative interval never fires. *)
firesAt(x) ==
  IF timeLeft(x) <= 0 THEN now
  ELSE IF toInt(timeLeft(x)) < 0 THEN Never ELSE now + toInt(timeLeft(x))

updatedTimer(ts) == IF ts = <<>> THEN Never ELSE firesAt(Head(ts))

rejected(x, ids) == x.def.id \in ids \/ nextRun(x) = Never

(* The position before the first test with more time left. *)
position(ts, x) ==
  LET later == {i \in 1..Len(ts) : timeLeft(x) < timeLeft(ts[i])}
  IN  IF later = {} THEN Len(ts) + 1 ELSE CHOOSE i \in later : \A j \in later : i <= j

insert(ts, x) == InsertAt(ts, position(ts, x), x)

\* Faults: the timer is not updated for a new first element; the set of all ids is forgotten.
privateEnqueue_timerNotUpdated(x) ==
  IF rejected(x, testIds) THEN UNCHANGED <<tests, testIds, allTestIds, timer>>
  ELSE /\ tests' = insert(tests, x)
       /\ testIds' = testIds \cup {x.def.id} /\ allTestIds' = allTestIds \cup {x.def.id}
       /\ timer' = IF tests = <<>> THEN updatedTimer(tests') ELSE timer

privateEnqueue_allIdsForgotten(x) ==
  IF rejected(x, testIds) THEN UNCHANGED <<tests, testIds, allTestIds, timer>>
  ELSE /\ tests' = insert(tests, x)
       /\ testIds' = testIds \cup {x.def.id} /\ UNCHANGED allTestIds
       /\ timer' = IF position(tests, x) = 1 THEN updatedTimer(tests') ELSE timer

privateEnqueue(x) ==
  IF rejected(x, testIds) THEN UNCHANGED <<tests, testIds, allTestIds, timer>>
  ELSE /\ tests' = insert(tests, x)
       /\ testIds' = testIds \cup {x.def.id} /\ allTestIds' = allTestIds \cup {x.def.id}
       /\ timer' = IF position(tests, x) = 1 THEN updatedTimer(tests') ELSE timer

Fresh(d, delay) == [def |-> d, delay |-> delay, last |-> Never]
Delays(d) == IF d.spread = 0 THEN {0} ELSE 0..(d.spread - 1)

(***************************************************************************)
(* Scheduler::enqueue: a schedule of the server, a measurement started by  *)
(* the user (Client::ping, ...) or an on-demand test.  testAdded is        *)
(* emitted, and the file written, also when the queue rejected the test.   *)
(***************************************************************************)
enqueue(d, delay) ==
  /\ IF d.type # "ondemand"
       THEN /\ privateEnqueue(Fresh(d, delay))
            /\ files' = [files EXCEPT ![d.id] = d]
            /\ UNCHANGED onDemandTests
       ELSE /\ onDemandTests' = onDemandTests \cup {d}
            /\ allTestIds' = allTestIds \cup {d.id}
            /\ UNCHANGED <<tests, testIds, timer, files>>
  /\ UNCHANGED <<now, ran>>

indexOf(id) == {i \in 1..Len(tests) : tests[i].def.id = id}

(* Scheduler::dequeue, which TaskController calls for the ids it knows. *)
dequeue(id) ==
  /\ id \in allTestIds
  /\ LET at == indexOf(id) IN
       /\ tests' = IF at = {} THEN tests ELSE RemoveAt(tests, CHOOSE i \in at : \A j \in at : i <= j)
       /\ timer' = IF 1 \in at THEN updatedTimer(tests') ELSE timer
  /\ testIds' = testIds \ {id} /\ allTestIds' = allTestIds \ {id}
  /\ files' = [files EXCEPT ![id] = NoFile]
  /\ UNCHANGED <<now, onDemandTests, ran>>

\* Fault: the time of the last execution is not looked at.
tooSoon_never(x) == FALSE

(* 1500 ms are three ticks. *)
tooSoon(x) == x.last # Never /\ now - x.last < 3

(* Scheduler::Private::timeout, executing the first test. *)
runFirst(x) ==
  LET ts == Tail(tests)  y == reset(x)  ids == testIds \ {x.def.id} IN
  /\ ran' = [ran EXCEPT ![x.def] = now]
  /\ IF runsAgain(x)
       THEN /\ tests' = insert(ts, y)
            /\ UNCHANGED <<testIds, allTestIds, files>>
       ELSE /\ tests' = ts
            /\ testIds' = ids /\ allTestIds' = allTestIds \ {x.def.id}
            /\ files' = [files EXCEPT ![x.def.id] = NoFile]
  /\ timer' = updatedTimer(tests')

timeout ==
  /\ timer # Never /\ timer <= now
  /\ LET x == Head(tests) IN
       IF tooSoon(x)
         THEN timer' = firesAt(x) /\ UNCHANGED <<tests, testIds, allTestIds, files, ran>>
         ELSE runFirst(x)
  /\ UNCHANGED <<now, onDemandTests>>

executeOnDemandTest(id) ==
  /\ \E d \in onDemandTests : d.id = id /\ ran' = [ran EXCEPT ![d] = now]
  /\ UNCHANGED <<now, tests, onDemandTests, testIds, allTestIds, timer, files>>

-----------------------------------------------------------------------------
(* Client::~Client (a clean end writes the queue once more), then a new      *)
(* process: SchedulerStorage::loadData in the order of the file names, and   *)
(* Client::init for the on-demand tests.                                     *)

StoredIds(fs) ==
  {ids \in SetToSeqs({i \in Ids : fs[i] # NoFile}) : \A k, m \in DOMAIN ids : k < m => ids[k] < ids[m]}

\* Fault: loading ends at the first file that is not accepted.
load_stopsAtRejected(fs, delays, ids) ==
  LET after[n \in 0..Len(ids)] ==
        IF n = 0 THEN <<>>
        ELSE IF \E m \in 1..n : nextRun(Fresh(fs[ids[m]], 0)) = Never THEN after[n - 1]
        ELSE insert(after[n - 1], Fresh(fs[ids[n]], delays[ids[n]]))
  IN  after[Len(ids)]

(* The queue after test x was offered to it. *)
offered(ts, x) == IF rejected(x, {ts[k].def.id : k \in DOMAIN ts}) THEN ts ELSE insert(ts, x)

(* The queue once the files of ids, in this order, are loaded. *)
load(fs, delays, ids) ==
  LET after[n \in 0..Len(ids)] ==
        IF n = 0 THEN <<>> ELSE offered(after[n - 1], Fresh(fs[ids[n]], delays[ids[n]]))
  IN  after[Len(ids)]

(* The constructor of each loaded timing draws a new delay. *)
DrawnDelays(fs) ==
  LET spread == {i \in Ids : fs[i] # NoFile /\ fs[i].spread > 0} IN
  {[i \in Ids |-> IF i \in spread THEN f[i] ELSE 0] :
     f \in {f \in [spread -> UNION {Delays(d) : d \in Schedules}] :
              \A i \in spread : f[i] \in Delays(fs[i])}}

stored == [i \in Ids |-> IF indexOf(i) = {} THEN files[i] ELSE tests[CHOOSE k \in indexOf(i) : TRUE].def]

Restart(clean) ==
  /\ files' = IF clean THEN stored ELSE files
  /\ \E delays \in DrawnDelays(files'), ids \in StoredIds(files') : tests' = load(files', delays, ids)
  /\ timer' = updatedTimer(tests')
  /\ testIds' = {tests'[k].def.id : k \in DOMAIN tests'}
  /\ onDemandTests' = {d \in Schedules : d.type = "ondemand"}
  /\ allTestIds' = testIds' \cup {d.id : d \in onDemandTests'}
  /\ UNCHANGED <<now, ran>>

Init ==
  /\ now = 0 /\ tests = <<>> /\ testIds = {}
  /\ onDemandTests = {d \in Schedules : d.type = "ondemand"}
  /\ allTestIds = {d.id : d \in onDemandTests}
  /\ timer = Never
  /\ files = [i \in Ids |-> NoFile]
  /\ ran = [d \in Schedules |-> Never]

Tick ==
  /\ now < MaxTime
  /\ timer # Never => now < timer + MaxLate
  /\ now' = now + 1
  /\ UNCHANGED <<tests, onDemandTests, testIds, allTestIds, timer, files, ran>>

Next ==
  \/ Tick
  \/ \E d \in Schedules : \E delay \in Delays(d) : enqueue(d, delay)
  \/ \E id \in Ids : dequeue(id) \/ executeOnDemandTest(id)
  \/ timeout
  \/ \E clean \in BOOLEAN : Restart(clean)

Spec == Init /\ [][Next]_vars

-----------------------------------------------------------------------------
(* Properties.                                                               *)

QueuedIds == {tests[k].def.id : k \in DOMAIN tests}

(***************************************************************************)
(* The three views of the queue agree: the ids in testIds, by which        *)
(* Private::enqueue refuses a second test with the same id, are those of   *)
(* the list, each id is in the list once, and the ids TaskController asks  *)
(* for (knownTestId) are these and ids of on-demand tests, none of a test  *)
(* that is gone, which the server could then never schedule again.         *)
(***************************************************************************)
IdsMatch ==
  /\ testIds = QueuedIds
  /\ Cardinality(testIds) = Len(tests)
  /\ testIds \subseteq allTestIds
  /\ allTestIds \subseteq testIds \cup {d.id : d \in onDemandTests}

(***************************************************************************)
(* The single-shot timer runs whenever a test waits, never when the list   *)
(* is empty (timeout() reads tests.at(0)), and fires no later than the     *)
(* first test is due, whatever was inserted, removed or re-queued.         *)
(***************************************************************************)
TimerArmed ==
  IF tests = <<>> THEN timer = Never
  ELSE /\ timer # Never
       /\ nextRun(Head(tests)) # Never =>
            (timer <= now \/ timer <= now + timeLeft(Head(tests)))

(***************************************************************************)
(* A restart, clean or not, brings every queued test back that has another *)
(* run, with the same definition (SchedulerStorage::loadData; as long as   *)
(* no two schedules have the same id: a refused one is stored, too).       *)
(***************************************************************************)
RestartKeeps ==
  [][(\E k \in DOMAIN tests : /\ nextRun(tests[k]) # Never
                              /\ \A m \in DOMAIN tests' : tests'[m].def # tests[k].def)
       => \A clean \in BOOLEAN : ~Restart(clean)]_vars

Abs(n) == IF n < 0 THEN -n ELSE n

(* This step executes the queued test x. *)
Executes(x) == timeout /\ x = Head(tests) /\ ~tooSoon(x)

(* The entry does not know its last execution: it was loaded or added again since. *)
Readded(x) == x.last # ran[x.def]

(***************************************************************************)
(* The last execution of d was not early: no run was still to come then    *)
(* that the local clock had reached.                                       *)
(***************************************************************************)
NotEarly(d) ==
  \A delay \in Delays(d) :
    LET next == periodicNextRun(d, delay, ran[d])
    IN  next # Never => ran[d] < next + Offset

(* A timing made again draws its delay again. *)
Slack(x) == MaxLate + Abs(Offset) + (IF Readded(x) THEN x.def.spread ELSE 0)
PeriodPassed(x) == ran[x.def] # Never => now - ran[x.def] >= x.def.period - Slack(x)

(***************************************************************************)
(* A periodic test is executed once for each of its instants.  In one      *)
(* process this holds even though the timer, which counts local time,      *)
(* fires before the instant comes in network time when the local clock is  *)
(* ahead, and timeout() then finds the same instant still to come.  Across *)
(* a restart, or a removal and a new addition, which forget the last       *)
(* execution, it holds unless that execution was early, as it may be when  *)
(* the local clock is ahead: then its instant may be executed once more.   *)
(* Two executions are a period apart up to the lateness of the timer, the  *)
(* difference of the clocks and a delay drawn again.  (A test that has no  *)
(* run left is left out: nothing keeps its last run from being repeated    *)
(* 1.5 s later.)                                                           *)
(***************************************************************************)
OncePerPeriod ==
  [][\A k \in DOMAIN tests :
       /\ Executes(tests[k])
       /\ tests[k].def.type = "periodic" /\ nextRun(tests[k]) # Never
       /\ Readded(tests[k]) => NotEarly(tests[k].def)
       => PeriodPassed(tests[k])]_vars
=============================================================================
