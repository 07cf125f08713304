---------------------------- MODULE TaskExecutor ----------------------------
(***************************************************************************)
(* The execution of measurements (libclient/task/taskexecutor.cpp).        *)
(*                                                                         *)
(* Two threads share nothing but their event queues.  The main thread owns *)
(* TaskExecutor::Private: the flag `running' and the list `queue'.  The    *)
(* TaskExecutorThread owns InternalTaskExecutor: `currentTest' and         *)
(* `measurement'.  The main thread posts "execute" invocations to the      *)
(* worker (`calls'); the worker's signals started and finished are posted  *)
(* back to the main thread (`signals'), each one twice: to the slot of     *)
(* Private and to the re-emitted signal of TaskExecutor, to which          *)
(* Client::taskFinished is connected.                                      *)
(*                                                                         *)
(* An execution is one call of TaskExecutor::execute.  It is identified by *)
(* the number of the call (the code has no such number; it lets properties *)
(* speak of one particular call).                                          *)
(***************************************************************************)
EXTENDS Integers, Sequences, FiniteSets

CONSTANTS
  Tests,        \* the schedule definitions that are handed to execute()
  Creatable,    \* those whose name the measurement factory knows
  Blocking,     \* those whose start() runs the measurement to its end
  Hanging,      \* those whose measurement may never emit finished or error
  Modes,        \* the connection modes of the device
  Allowed,      \* Allowed[t]: the modes the precondition of t accepts
  Mobile,       \* the mode that onMobileConnection() answers true to
  Down,         \* the mode in which allInterfacesDown() holds
  MaxCalls,     \* bound: calls of execute()
  MaxChanges    \* bound: changes of the device's environment

ASSUME ConstantsAssumption ==
  /\ Creatable \subseteq Tests /\ Blocking \subseteq Tests /\ Hanging \subseteq Tests
  /\ Mobile \in Modes /\ Down \in Modes /\ Mobile # Down
  /\ Allowed \in [Tests -> SUBSET Modes]
  /\ MaxCalls \in Nat /\ MaxChanges \in Nat

VARIABLES
  mode,         \* current connection mode (QNetworkInfo)
  mobileActive, \* Settings::mobileMeasurementsActive
  running,      \* Private::running
  queue,        \* Private::queue
  calls,        \* execute invocations posted to the worker thread
  worker,       \* where the worker thread is
  currentTest,  \* InternalTaskExecutor::currentTest
  measurement,  \* InternalTaskExecutor::measurement, None when null
  signals,      \* events posted to the main thread
  observers,    \* the executions whose MeasurementObserver is not deleted
  accepted,     \* history: executions that passed the checks of execute()
  delivered,    \* history: executions Client::taskFinished was called for
  overlapped,   \* history: a live measurement was replaced by another one
  ncalls, nchanges

envVars  == <<mode, mobileActive, nchanges>>
mainVars == <<running, queue>>
workVars == <<worker, currentTest, measurement>>
vars == <<mode, mobileActive, running, queue, calls, worker, currentTest, measurement,
          signals, observers, accepted, delivered, overlapped, ncalls, nchanges>>

None == [id |-> 0]  \* a null pointer
Executions == [id : 1..MaxCalls, test : Tests, observer : BOOLEAN]

(***************************************************************************)
(* "loop": in the event loop of the thread; "execute": inside execute();   *)
(* "ending": finished was emitted, stop() and clear() are still to come.   *)
(***************************************************************************)
WorkerStates == {"loop", "execute", "ending"}

Signal(name, receiver, e) == [name |-> name, to |-> receiver, exec |-> e]
Signals == [name : {"started", "finished"}, to : {"Private", "q"}, exec : Executions]

(* The state of both threads and the events between them have their types. *)
TypeOK ==
  /\ mode \in Modes /\ mobileActive \in BOOLEAN
  /\ running \in BOOLEAN /\ queue \in Seq(Executions)
  /\ calls \in Seq(Executions)
  /\ worker \in WorkerStates
  /\ currentTest \in Executions \cup {None}
  /\ measurement \in Executions \cup {None}
  /\ signals \in Seq(Signals)
  /\ observers \subseteq 1..MaxCalls
  /\ accepted \in Seq(Executions) /\ delivered \in Seq(Executions)
  /\ overlapped \in BOOLEAN
  /\ ncalls \in 0..MaxCalls /\ nchanges \in 0..MaxChanges

Init ==
  /\ mode \in Modes /\ mobileActive \in BOOLEAN
  /\ running = FALSE /\ queue = <<>> /\ calls = <<>>
  /\ worker = "loop" /\ currentTest = None /\ measurement = None
  /\ signals = <<>> /\ observers = {}
  /\ accepted = <<>> /\ delivered = <<>> /\ overlapped = FALSE
  /\ ncalls = 0 /\ nchanges = 0

-----------------------------------------------------------------------------
(* The environment: the device changes networks, the user changes the setting. *)

ChangeEnvironment ==
  /\ nchanges < MaxChanges
  /\ nchanges' = nchanges + 1
  /\ mode' \in Modes /\ mobileActive' \in BOOLEAN
  /\ <<mode, mobileActive>>' # <<mode, mobileActive>>
  /\ UNCHANGED <<mainVars, calls, workVars, signals, observers, accepted, delivered,
                 overlapped, ncalls>>

-----------------------------------------------------------------------------
(* The main thread.                                                          *)

precondition_check(t) == mode \in Allowed[t]
mobileProhibited == ~mobileActive /\ mode = Mobile

(***************************************************************************)
(* TaskExecutor::execute.  The caller may pass an observer (NetworkManager *)
(* does, the scheduler does not).  A rejected call returns early and does  *)
(* not delete its observer.                                                *)
(***************************************************************************)
Post(e)    == calls' = Append(calls, e) /\ UNCHANGED queue
Enqueue(e) == queue' = Append(queue, e) /\ UNCHANGED calls

\* Faults: the flag is not looked at; a new entry is put in front of the queue.
Submit_alwaysPosts(e) ==
  accepted' = Append(accepted, e) /\ running' = TRUE /\ Post(e)
Submit_prepends(e) ==
  /\ accepted' = Append(accepted, e) /\ running' = TRUE
  /\ IF running THEN queue' = <<e>> \o queue /\ UNCHANGED calls ELSE Post(e)

Submit(e) ==
  /\ accepted' = Append(accepted, e)
  /\ running' = TRUE
  /\ IF running THEN Enqueue(e) ELSE Post(e)

execute(t, observed) ==
  LET e == [id |-> ncalls + 1, test |-> t, observer |-> observed] IN
  /\ ncalls < MaxCalls
  /\ ncalls' = ncalls + 1
  /\ observers' = IF observed THEN observers \cup {e.id} ELSE observers
  /\ IF precondition_check(t) /\ ~mobileProhibited
       THEN Submit(e)
       ELSE UNCHANGED <<mainVars, calls, accepted>>
  /\ UNCHANGED <<envVars, workVars, signals, delivered, overlapped>>

Receive(name, receiver) ==
  /\ signals # <<>>
  /\ Head(signals).name = name /\ Head(signals).to = receiver
  /\ signals' = Tail(signals)
  /\ UNCHANGED <<envVars, workVars, observers, accepted, overlapped, ncalls>>

onStarted ==
  /\ Receive("started", "Private")
  /\ running' = TRUE
  /\ UNCHANGED <<queue, calls, delivered>>

startNext == calls' = Append(calls, Head(queue)) /\ queue' = Tail(queue)

\* Fault: the test for an empty queue is off by one.
onFinished_offByOne ==
  /\ Receive("finished", "Private")
  /\ IF Len(queue) <= 1 THEN running' = FALSE /\ UNCHANGED <<queue, calls>>
                        ELSE startNext /\ UNCHANGED running
  /\ UNCHANGED delivered

onFinished ==
  /\ Receive("finished", "Private")
  /\ IF queue = <<>> THEN running' = FALSE /\ UNCHANGED <<queue, calls>>
                     ELSE startNext /\ UNCHANGED running
  /\ UNCHANGED delivered

(* TaskExecutor::started, re-emitted on the main thread; libclient connects nothing to it. *)
qStarted ==
  /\ Receive("started", "q")
  /\ UNCHANGED <<mainVars, calls, delivered>>

(* TaskExecutor::finished, re-emitted on the main thread: Client::taskFinished. *)
qFinished ==
  /\ Receive("finished", "q")
  /\ delivered' = Append(delivered, Head(signals).exec)
  /\ UNCHANGED <<mainVars, calls>>

-----------------------------------------------------------------------------
(* The worker thread.                                                        *)

emit(name, e) ==
  signals' = Append(Append(signals, Signal(name, "Private", e)), Signal(name, "q", e))

(* execute(), up to the creation of the measurement and the observer's callback. *)
beginExecute ==
  /\ worker = "loop" /\ calls # <<>>
  /\ calls' = Tail(calls)
  /\ worker' = "execute"
  /\ LET e == Head(calls) IN
       /\ emit("started", e)
       /\ currentTest' = e
       /\ measurement' = IF e.test \in Creatable THEN e ELSE None
       /\ observers' = IF e.test \in Creatable THEN observers \ {e.id} ELSE observers
  /\ overlapped' = (overlapped \/ measurement # None)
  /\ UNCHANGED <<envVars, mainVars, accepted, delivered, ncalls>>

workerStep ==
  UNCHANGED <<envVars, mainVars, calls, currentTest, observers, accepted, delivered,
              overlapped, ncalls>>

\* Fault: the error path forgets the signal.
createFailed_silent ==
  worker = "execute" /\ measurement = None /\ worker' = "loop" /\ UNCHANGED <<signals, measurement>> /\ workerStep

(* execute(): the factory returned a null pointer. *)
createFailed ==
  /\ worker = "execute" /\ measurement = None
  /\ emit("finished", currentTest)
  /\ worker' = "loop"
  /\ UNCHANGED measurement /\ workerStep

(* execute(): prepare() or start() answered false. *)
startFailed ==
  /\ worker = "execute" /\ measurement # None /\ mode # Down
  /\ emit("finished", currentTest)
  /\ worker' = "ending"
  /\ UNCHANGED measurement /\ workerStep

(* execute(): start() answered true and the measurement goes on by itself. *)
started ==
  /\ worker = "execute" /\ measurement # None /\ mode # Down
  /\ currentTest.test \notin Blocking
  /\ worker' = "loop"
  /\ UNCHANGED <<measurement, signals>> /\ workerStep

(***************************************************************************)
(* measurementFinished and measurementError: in both, the slots are        *)
(* disconnected first and finished is emitted once.  They are called from  *)
(* inside execute() when no interface is up or start() blocks until the    *)
(* end, and else from the event loop.                                      *)
(***************************************************************************)
measurementEnded ==
  /\ measurement # None
  /\ \/ worker = "execute" /\ mode = Down
     \/ worker = "execute" /\ mode # Down /\ currentTest.test \in Blocking
     \/ worker = "loop"
  /\ emit("finished", currentTest)
  /\ worker' = "ending"
  /\ UNCHANGED measurement /\ workerStep

(* stop() and measurement.clear(). *)
clear ==
  /\ worker = "ending"
  /\ measurement' = None
  /\ worker' = "loop"
  /\ UNCHANGED signals /\ workerStep

-----------------------------------------------------------------------------
MainThread == onStarted \/ onFinished \/ qStarted \/ qFinished

WorkerThread ==
  beginExecute \/ createFailed \/ startFailed \/ started \/ measurementEnded \/ clear

Next ==
  \/ ChangeEnvironment
  \/ \E t \in Tests, observed \in BOOLEAN : execute(t, observed)
  \/ MainThread
  \/ WorkerThread

(***************************************************************************)
(* Both event loops keep running and execute() returns.  A measurement     *)
(* that was left alone ends by itself only when it is not one of Hanging:  *)
(* the executor has no timer that would end it.                            *)
(***************************************************************************)
Waiting == worker = "loop" /\ calls = <<>> /\ measurement # None
Fairness ==
  /\ WF_vars(MainThread)
  /\ WF_vars(WorkerThread /\ (Waiting => measurement.test \notin Hanging))

Spec == Init /\ [][Next]_vars
FairSpec == Spec /\ Fairness

-----------------------------------------------------------------------------
(* Properties.                                                               *)

InExecute == worker = "execute" \/ (worker = "loop" /\ measurement # None)
Pending(name) == {i \in 1..Len(signals) : signals[i].name = name /\ signals[i].to = "Private"}
FinishedPending == Pending("finished")

(***************************************************************************)
(* At most one execution is under way: a posted call, an execution of the  *)
(* worker and a finished signal the main thread has not handled exclude    *)
(* each other, and there is one of them exactly while `running' is set     *)
(* (the flag TaskExecutor::execute decides on whether to post or to queue).*)
(***************************************************************************)
OneInFlight ==
  /\ Len(calls) <= 1
  /\ InExecute => calls = <<>> /\ FinishedPending = {}
  /\ calls # <<>> => FinishedPending = {}
  /\ \A i, j \in FinishedPending : i = j
  /\ running <=> (calls # <<>> \/ InExecute \/ FinishedPending # {})

(***************************************************************************)
(* A started signal the main thread has not handled belongs to an          *)
(* execution that still occupies the worker, or is followed by its         *)
(* finished signal: onStarted never sets `running' for work that is over.  *)
(***************************************************************************)
StartedBeforeFinished ==
  \A i \in Pending("started") : InExecute \/ \E j \in FinishedPending : i < j

(***************************************************************************)
(* No queued execution is stranded: entries wait in the queue only while   *)
(* an execution is under way whose end will take them out.                 *)
(***************************************************************************)
QueueServed == queue # <<>> => (calls # <<>> \/ InExecute \/ FinishedPending # {})

(***************************************************************************)
(* InternalTaskExecutor::execute never overwrites the pointer of a         *)
(* measurement that has not been stopped and cleared.                      *)
(***************************************************************************)
NoOverlap == ~overlapped

(***************************************************************************)
(* The reports on their way to Client::taskFinished.  finished is posted   *)
(* for Private and, behind it, for q: the report of an execution is that   *)
(* of the signal Private has not handled yet or, when it has, the first    *)
(* event of the queue.                                                     *)
(***************************************************************************)
ReportIsNext == signals # <<>> /\ Head(signals).name = "finished" /\ Head(signals).to = "q"
Outbox == (IF ReportIsNext THEN <<Head(signals).exec>> ELSE <<>>)
          \o (IF FinishedPending = {} THEN <<>>
              ELSE <<signals[CHOOSE i \in FinishedPending : TRUE].exec>>)

(***************************************************************************)
(* Every accepted execution is eventually reported to Client::taskFinished *)
(* unless a measurement that never signals its end occupies the worker     *)
(* forever (nothing else can block the executor).                          *)
(***************************************************************************)
Hung == Waiting /\ measurement.test \in Hanging
EventuallyDelivered ==
  \A i \in 1..MaxCalls :
    (\E k \in DOMAIN accepted : accepted[k].id = i)
      ~> ((\E k \in DOMAIN delivered : delivered[k].id = i) \/ Hung)

(* The promise of the component: a serial executor (see SerialExecutor). *)
Serial == INSTANCE SerialExecutor WITH
  Items <- Executions, Nothing <- None,
  waiting <- calls \o queue,
  active <- IF InExecute THEN currentTest ELSE None,
  outbox <- Outbox,
  delivered <- delivered
ImplementsSerial == Serial!Spec
=============================================================================
