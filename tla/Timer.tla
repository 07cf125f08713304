------------------------------- MODULE Timer -------------------------------
(***************************************************************************)
(* What waits for a timing: the Timer of the controllers and of the        *)
(* traffic budget (libclient/timing/timer.cpp), which starts itself again  *)
(* when it has fired, and the scheduler's way with a test (scheduler.cpp), *)
(* which tells the timing of every execution.  Both wait on the local      *)
(* clock for an instant of the network time (NtpController), whose offset  *)
(* is measured again now and then.                                         *)
(***************************************************************************)
EXTENDS CalendarTiming

CONSTANTS
  Timings,   \* the timings a controller or a schedule may have
  Offsets,   \* network time minus local time that NTP may measure, in ticks
  Starts,    \* instants at which the process may start
  MaxInt,    \* the largest interval QTimer::start(int) takes, in ticks
  MaxLate,   \* bound: how late the event loop may deliver a timeout
  MaxTicks   \* bound: how long the process runs

ASSUME TimerAssumption ==
  /\ Offsets \subseteq {TicksPerSecond * o : o \in -10..10} /\ 0 \in Offsets
  /\ Starts \subseteq Nat /\ MaxInt \in Nat \ {0} /\ MaxLate \in Nat /\ MaxTicks \in Nat

(* What the two isValid ask of a timing; the numbers of the lists are those a QTime can have. *)
ASSUME TimingsAssumption ==
  \A t \in Timings :
    \/ /\ t.type = "periodic" /\ t.period \in Nat \ {0}
       /\ t.start \in Nat /\ t.end \in Nat /\ t.delay \in Nat
    \/ /\ t.type = "calendar" /\ t.start \in Nat \cup {Never} /\ t.end \in Nat \cup {Never}
       /\ t.hours \in (SUBSET (0..(HoursPerDay - 1))) \ {{}}
       /\ t.minutes \in (SUBSET (0..(MinutesPerHour - 1))) \ {{}}
       /\ t.seconds \in (SUBSET (0..(SecondsPerMinute - 1))) \ {{}}

VARIABLES
  clock,    \* the local time
  ticks,    \* how long the process has run
  offset,   \* NtpController::offset()
  timing,   \* Timer::Private::timing
  active,   \* Timer::Private::active
  qtimer,   \* when Timer::Private::qtimer fires, Never when it does not run
  rest,     \* Timer::Private::timeLeft
  wait,     \* history: the instant the Timer was started for, the time left then, and if it started itself
  test,     \* the timing of the test the scheduler waits for
  last,     \* its lastExecution
  due,      \* when the scheduler runs it, Never when it was removed
  target,   \* history: the run it waits for
  done      \* history: the runs it executed

timerVars == <<timing, active, qtimer, rest, wait>>
testVars == <<test, last, due, target, done>>
vars == <<clock, ticks, offset, timerVars, testVars>>

Instants == Nat \cup {Never}

(* Everything has its type; the rest of an interval in parts is never negative. *)
TypeOK ==
  /\ clock \in Nat /\ ticks \in 0..MaxTicks /\ offset \in Offsets
  /\ timing \in Timings /\ active \in BOOLEAN /\ qtimer \in Instants /\ rest \in Nat
  /\ wait.target \in Instants /\ wait.left \in Int /\ wait.again \in BOOLEAN
  /\ test \in Timings /\ last \in Instants /\ due \in Instants
  /\ target \in Instants /\ done \subseteq Nat

(* NtpController::currentDateTime *)
currentDateTime == clock + offset

nextRun(t, l) ==
  IF t.type = "calendar" THEN calendarNextRun(t, currentDateTime, l)
  ELSE periodicNextRun(t, t.delay, currentDateTime)

(* Timing::timeLeft: from the local time to an instant of the network time; 0 when there is none. *)
timeLeft(run) == IF run = Never THEN 0 ELSE run - clock

-----------------------------------------------------------------------------
(***************************************************************************)
(* Timer::Private::start: an interval that no int can hold is waited for   *)
(* in parts.  A QTimer does not start with a negative interval.            *)
(***************************************************************************)
\* Fault: the rest is forgotten.
privateStart_oneChunk(ms) ==
  /\ rest' = 0
  /\ qtimer' = IF ms < 0 THEN Never ELSE clock + IF ms > MaxInt THEN MaxInt ELSE ms
privateStart(ms) ==
  IF ms > MaxInt
    THEN rest' = ms - MaxInt /\ qtimer' = clock + MaxInt
    ELSE rest' = 0 /\ qtimer' = IF ms < 0 THEN Never ELSE clock + ms

(***************************************************************************)
(* Timer::start with timing t.  When no time is left it becomes inactive   *)
(* and a QTimer that runs is left alone; again says who starts it.         *)
(***************************************************************************)
start(t, running, again) ==
  LET run == nextRun(t, Never) ms == timeLeft(run)
  IN  IF ms = 0
        THEN active' = FALSE /\ qtimer' = running /\ UNCHANGED <<rest, wait>>
        ELSE active' = TRUE /\ privateStart(ms)
             /\ wait' = [target |-> run, left |-> ms, again |-> again]

(* A controller's updateTimer: a new configuration, with another timing perhaps. *)
updateTimer(t) ==
  /\ timing' = t /\ start(t, qtimer, FALSE)
  /\ UNCHANGED <<clock, ticks, offset, testVars>>

(* TaskController's updateTimer without a timing. *)
stop ==
  /\ qtimer' = Never /\ active' = FALSE
  /\ UNCHANGED <<clock, ticks, offset, timing, rest, wait, testVars>>

(* Timer::Private::onTimeout: the next part, or the signal and a new start. *)
onTimeout ==
  /\ qtimer # Never /\ clock >= qtimer
  /\ IF rest > 0
       THEN privateStart(rest) /\ UNCHANGED <<active, wait>>
       ELSE IF active THEN start(timing, Never, TRUE)
            ELSE qtimer' = Never /\ UNCHANGED <<active, rest, wait>>
  /\ UNCHANGED <<clock, ticks, offset, timing, testVars>>

-----------------------------------------------------------------------------
(* Scheduler::Private::updateTimer for a test: one that is overdue runs at once. *)
waitFor(l) ==
  LET run == nextRun(test, l)
  IN  /\ target' = run
      /\ due' = IF run = Never THEN Never ELSE IF run < clock THEN clock ELSE run

(***************************************************************************)
(* Scheduler::Private::timeout: not within 1.5 s of the last execution;    *)
(* else the test is executed, its timing reset, and it is queued again     *)
(* when it has a next run.                                                 *)
(***************************************************************************)
timeout ==
  /\ due # Never /\ clock >= due
  /\ IF last # Never /\ currentDateTime - last < 3
       THEN waitFor(last) /\ UNCHANGED <<last, done>>
       ELSE /\ last' = currentDateTime /\ waitFor(currentDateTime)
            /\ done' = done \cup {target}
  /\ UNCHANGED <<clock, ticks, offset, timerVars, test>>

-----------------------------------------------------------------------------
(* NtpController::readResponse: the offset, in whole seconds, is measured again. *)
readResponse(o) ==
  /\ offset' = o
  /\ UNCHANGED <<clock, ticks, timerVars, testVars>>

(* external: time passes; a timeout is not delivered more than MaxLate late. *)
Tick ==
  /\ ticks < MaxTicks
  /\ \A x \in {qtimer, due} \ {Never} : clock < x + MaxLate
  /\ clock' = clock + 1 /\ ticks' = ticks + 1
  /\ UNCHANGED <<offset, timerVars, testVars>>

Init ==
  /\ clock \in Starts /\ ticks = 0 /\ offset = 0
  /\ timing \in Timings /\ active = FALSE /\ qtimer = Never /\ rest = 0
  /\ wait = [target |-> Never, left |-> 0, again |-> FALSE]
  /\ test \in Timings /\ last = Never /\ done = {}
  /\ target = nextRun(test, Never)
  /\ due = IF target = Never THEN Never ELSE IF target < clock THEN clock ELSE target

Next ==
  \/ Tick
  \/ \E t \in Timings : updateTimer(t)
  \/ stop \/ onTimeout \/ timeout
  \/ \E o \in Offsets : readResponse(o)

Spec == Init /\ [][Next]_vars

-----------------------------------------------------------------------------
(***************************************************************************)
(* A calendar's next run is an instant its lists ask for, not over and     *)
(* within its bounds; and it is the first of them unless that one was      *)
(* executed already or lies in the last month that is searched             *)
(* (CalendarTiming::nextRun, findTime).                                    *)
(***************************************************************************)
CalendarRight ==
  \A c \in {t \in Timings : t.type = "calendar"}, l \in {last, Never} :
    LET run   == calendarNextRun(c, currentDateTime, l)
        asked == Asked(c, currentDateTime)
        first == Min(asked)
    IN  /\ run # Never => run \in asked /\ (c.end = Never \/ run <= c.end)
        /\ (l = Never \/ secsTo(l, first) > 1) /\ asked # {} /\ ~InLastMonth(c, currentDateTime, first) =>
             run = IF c.end # Never /\ c.end < first THEN Never ELSE first

(***************************************************************************)
(* A periodic next run lies after the present, not before the start, and   *)
(* passes the end by no more than the random delay, which is added after   *)
(* the end was looked at (PeriodicTiming::nextRun).                        *)
(***************************************************************************)
PeriodicBounded ==
  \A p \in {t \in Timings : t.type = "periodic"} :
    LET run == periodicNextRun(p, p.delay, currentDateTime)
    IN  run # Never => /\ run > currentDateTime /\ run >= p.start
                       /\ run <= p.end + p.delay

(***************************************************************************)
(* As long as the local clock is not ahead of the network's, the scheduler *)
(* does not execute a run of a calendar twice, although the run is still   *)
(* the next one for the rest of its second (CalendarTiming::reset and the  *)
(* comparison with lastExecution in nextRun).                              *)
(***************************************************************************)
NotTwice == test.type = "calendar" => target \notin done

(***************************************************************************)
(* A Timer does not fire before the instant it was started for, however    *)
(* many parts its interval has, and each part makes it later by no more    *)
(* than its own delay (Timer::Private::start and onTimeout).               *)
(***************************************************************************)
WaitsInParts ==
  qtimer # Never =>
    /\ qtimer + rest >= wait.target
    /\ qtimer + rest <= wait.target + MaxLate * (wait.left \div MaxInt)

(***************************************************************************)
(* As long as the local clock is not ahead of the network's, a Timer with  *)
(* a periodic timing that is active has its QTimer running: it starts      *)
(* itself again for the next period (Timer::Private::onTimeout).           *)
(***************************************************************************)
PeriodicAlive == active /\ timing.type = "periodic" => qtimer # Never

(***************************************************************************)
(* "If we're still active, start the timer again" (the comment in          *)
(* Timer::Private::onTimeout): whatever its timing, a Timer that is active *)
(* after it has started itself again has its QTimer running.               *)
(***************************************************************************)
StartsAgain == active /\ wait.again => qtimer # Never
=============================================================================
