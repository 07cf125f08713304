------------------------- MODULE TaskExecutorProofs -------------------------
(* Proofs of the safety properties of TaskExecutor, for every number of     *)
(* calls, tests and environment changes.                                    *)
EXTENDS TaskExecutor, TLAPS

(* The null pointer is not an execution: executions are numbered from 1. *)
LEMMA NoneIsNoExecution == None \notin Executions
BY DEF None, Executions

(* Appending to and removing from a queue of executions or of signals gives a queue again. *)
LEMMA QueueTypes ==
  ASSUME NEW S, NEW q \in Seq(S)
  PROVE  /\ \A x \in S : Append(q, x) \in Seq(S)
         /\ q # <<>> => Head(q) \in S /\ Tail(q) \in Seq(S)
OBVIOUS

(***************************************************************************)
(* The inductive invariant.  TypeOK alone is not inductive (the worker     *)
(* emits currentTest, which must not be null by then), and OneInFlight     *)
(* needs StartedBeforeFinished: a late onStarted would set `running' for   *)
(* an execution that is over.                                              *)
(***************************************************************************)
MeasurementIsCurrent ==
  /\ measurement # None => measurement = currentTest
  /\ worker # "loop" => currentTest # None

QueueWaits == queue # <<>> => running

IInv == /\ TypeOK /\ MeasurementIsCurrent
        /\ OneInFlight /\ StartedBeforeFinished /\ QueueWaits /\ NoOverlap

-----------------------------------------------------------------------------
(* How the pending signals change when the main thread takes an event. *)
LEMMA PendingReceive ==
  ASSUME TypeOK, NEW n, NEW r, Receive(n, r)
  PROVE  /\ \A m, i : i \in Pending(m)' <=> i \in Nat \ {0} /\ i + 1 \in Pending(m)
         /\ \A m : 1 \in Pending(m) <=> m = n /\ r = "Private"
<1>1. /\ signals \in Seq(Signals) /\ signals # <<>> /\ signals' = Tail(signals)
      /\ Head(signals).name = n /\ Head(signals).to = r
  BY DEF TypeOK, Receive
<1>2. Len(signals') = Len(signals) - 1 /\ Len(signals) \in Nat \ {0}
      /\ \A i \in 1..Len(signals') : signals'[i] = signals[i + 1]
  BY <1>1
<1>3. signals[1] = Head(signals)
  BY <1>1
<1> QED BY <1>1, <1>2, <1>3 DEF Pending

(* How they change when the worker emits a signal. *)
LEMMA PendingEmit ==
  ASSUME TypeOK, NEW n \in {"started", "finished"}, NEW e \in Executions, emit(n, e)
  PROVE  /\ signals' \in Seq(Signals)
         /\ \A m, i : i \in Pending(m)' <=> i \in Pending(m) \/ (m = n /\ i = Len(signals) + 1)
         /\ \A m, i : i \in Pending(m) => i \in Nat /\ i <= Len(signals)
<1> DEFINE a == Signal(n, "Private", e)
           b == Signal(n, "q", e)
<1>1. a \in Signals /\ b \in Signals
  BY DEF Signal, Signals
<1>2. a.name = n /\ a.to = "Private" /\ b.to = "q"
  BY DEF Signal
<1> HIDE DEF a, b
<1>3. signals \in Seq(Signals) /\ signals' = Append(Append(signals, a), b)
  BY DEF TypeOK, emit, a, b
<1>4. /\ signals' \in Seq(Signals) /\ Len(signals) \in Nat /\ Len(signals') = Len(signals) + 2
      /\ \A i \in 1..Len(signals) : signals'[i] = signals[i]
      /\ signals'[Len(signals) + 1] = a /\ signals'[Len(signals) + 2] = b
  BY <1>1, <1>3
<1> QED BY <1>2, <1>4 DEF Pending

(***************************************************************************)
(* Taking an event that is not onFinished keeps the finished signals and   *)
(* their order with the started ones.                                      *)
(***************************************************************************)
LEMMA ReceiveOther ==
  ASSUME TypeOK, OneInFlight, StartedBeforeFinished,
         NEW n, NEW r, Receive(n, r), ~(n = "finished" /\ r = "Private")
  PROVE  /\ FinishedPending' # {} <=> FinishedPending # {}
         /\ \A i, j \in FinishedPending' : i = j
         /\ StartedBeforeFinished'
<1>1. /\ \A m, i : i \in Pending(m)' <=> i \in Nat \ {0} /\ i + 1 \in Pending(m)
      /\ 1 \notin Pending("finished")
  BY PendingReceive
<1>2. \A m, i : i \in Pending(m) => i \in Nat \ {0}
  BY DEF Pending, TypeOK
<1>3. InExecute' = InExecute
  BY DEF Receive, workVars, InExecute
<1>4. \A i \in Pending("finished") : i - 1 \in Pending("finished")'
  BY <1>1, <1>2
<1>5. FinishedPending' # {} <=> FinishedPending # {}
  BY <1>1, <1>4 DEF FinishedPending
<1>6. ASSUME NEW i \in Pending("finished")', NEW j \in Pending("finished")' PROVE i = j
  BY <1>1, <1>6 DEF OneInFlight, FinishedPending
<1>7. ASSUME NEW i \in Pending("started")', ~InExecute
      PROVE  \E j \in Pending("finished")' : i < j
  <2>1. i \in Nat /\ i + 1 \in Pending("started")
    BY <1>1
  <2>2. PICK j \in Pending("finished") : i + 1 < j
    BY <2>1, <1>7 DEF StartedBeforeFinished, FinishedPending
  <2> QED BY <1>2, <1>4, <2>1, <2>2
<1> QED BY <1>3, <1>5, <1>6, <1>7 DEF FinishedPending, StartedBeforeFinished

(* A new executor: no call posted, no signal pending, no measurement. *)
LEMMA InitIInv == Init => IInv
<1> SUFFICES ASSUME Init PROVE IInv
  OBVIOUS
<1>1. TypeOK
  <2>1. ncalls \in 0..MaxCalls /\ nchanges \in 0..MaxChanges
    BY ConstantsAssumption DEF Init
  <2>2. \A S : <<>> \in Seq(S)
    OBVIOUS
  <2> QED BY <2>1, <2>2, Zenon DEF Init, TypeOK, WorkerStates
<1>2. \A m : Pending(m) = {} 
  BY DEF Init, Pending
<1>3. ~InExecute
  BY DEF Init, InExecute
<1> QED BY <1>1, <1>2, <1>3 DEF Init, IInv, MeasurementIsCurrent, OneInFlight,
      StartedBeforeFinished, QueueWaits, NoOverlap, FinishedPending

(* Every step of both threads keeps the variables within their types. *)
LEMMA TypeStep == TypeOK /\ MeasurementIsCurrent /\ [Next]_vars => TypeOK'
<1> SUFFICES ASSUME TypeOK, MeasurementIsCurrent, [Next]_vars PROVE TypeOK'
  OBVIOUS
<1> USE DEF TypeOK
<1>1. CASE ChangeEnvironment
  BY <1>1, ConstantsAssumption DEF ChangeEnvironment, mainVars, workVars
<1>2. ASSUME NEW t \in Tests, NEW o \in BOOLEAN, execute(t, o) PROVE TypeOK'
  <2> DEFINE e == [id |-> ncalls + 1, test |-> t, observer |-> o]
  <2>1. e \in Executions /\ ncalls + 1 \in 1..MaxCalls
    BY <1>2, ConstantsAssumption DEF execute, Executions
  <2>2. Append(queue, e) \in Seq(Executions) /\ Append(calls, e) \in Seq(Executions)
        /\ Append(accepted, e) \in Seq(Executions)
    BY <2>1, QueueTypes
  <2> HIDE DEF e
  <2>3. /\ UNCHANGED <<mode, mobileActive, nchanges, worker, currentTest, measurement,
                       signals, delivered, overlapped>>
        /\ ncalls' = ncalls + 1 /\ observers' \subseteq 1..MaxCalls
        /\ Submit(e) \/ UNCHANGED <<running, queue, calls, accepted>>
    BY <1>2, <2>1 DEF execute, envVars, workVars, mainVars, e
  <2>4. running' \in BOOLEAN /\ queue' \in Seq(Executions) /\ calls' \in Seq(Executions)
        /\ accepted' \in Seq(Executions)
    BY <2>2, <2>3 DEF Submit, Post, Enqueue
  <2> QED BY <2>1, <2>3, <2>4
<1>3. ASSUME NEW n, NEW r, Receive(n, r)
      PROVE  /\ signals # <<>> /\ Head(signals) \in Signals /\ signals' \in Seq(Signals)
             /\ UNCHANGED <<mode, mobileActive, nchanges, worker, currentTest, measurement,
                            observers, accepted, overlapped, ncalls>>
  BY <1>3, QueueTypes DEF Receive, envVars, workVars
<1>4. CASE onStarted
  BY <1>3, <1>4 DEF onStarted
<1>5. CASE onFinished
  <2>1. queue # <<>> => Append(calls, Head(queue)) \in Seq(Executions) /\ Tail(queue) \in Seq(Executions)
    BY QueueTypes
  <2> QED BY <1>3, <1>5, <2>1 DEF onFinished, startNext
<1>6. CASE qStarted
  BY <1>3, <1>6 DEF qStarted, mainVars
<1>7. CASE qFinished
  <2>1. Receive("finished", "q") BY <1>7 DEF qFinished
  <2>2. Head(signals).exec \in Executions BY <1>3, <2>1 DEF Signals
  <2>3. Append(delivered, Head(signals).exec) \in Seq(Executions) BY <2>2, QueueTypes
  <2> QED BY <1>3, <1>7, <2>1, <2>3 DEF qFinished, mainVars
<1>8. ASSUME NEW n \in {"started", "finished"}, NEW e \in Executions, emit(n, e)
      PROVE  signals' \in Seq(Signals)
  <2>1. Signal(n, "Private", e) \in Signals /\ Signal(n, "q", e) \in Signals
    BY DEF Signal, Signals
  <2> QED BY <1>8, <2>1, QueueTypes DEF emit
<1>9. CASE beginExecute
  <2>1. Head(calls) \in Executions /\ Tail(calls) \in Seq(Executions)
    BY <1>9, QueueTypes DEF beginExecute
  <2>2. signals' \in Seq(Signals)
    BY <1>8, <1>9, <2>1 DEF beginExecute
  <2> QED BY <1>9, <2>1, <2>2 DEF beginExecute, envVars, mainVars, WorkerStates
<1>10. CASE createFailed \/ startFailed \/ started \/ measurementEnded \/ clear
  <2>1. /\ workerStep
        /\ worker' \in WorkerStates /\ measurement' \in {measurement, None}
        /\ UNCHANGED signals \/ (emit("finished", currentTest) /\ currentTest # None)
    BY <1>10 DEF createFailed, startFailed, started, measurementEnded, clear, WorkerStates,
         MeasurementIsCurrent
  <2>2. signals' \in Seq(Signals)
    BY <1>8, <2>1
  <2> QED BY <2>1, <2>2 DEF workerStep, envVars, mainVars
<1>11. CASE UNCHANGED vars
  BY <1>11 DEF vars
<1> QED BY <1>1, <1>2, <1>4, <1>5, <1>6, <1>7, <1>9, <1>10, <1>11 DEF Next, MainThread, WorkerThread

(***************************************************************************)
(* Every step keeps the invariant.  The cases are grouped by what they do  *)
(* to the two event queues: taking an event, posting one, or neither.      *)
(***************************************************************************)
LEMMA StepIInv == IInv /\ [Next]_vars => IInv'
<1> SUFFICES ASSUME IInv, [Next]_vars PROVE IInv'
  OBVIOUS
<1> USE DEF IInv
<1>0. TypeOK'
  BY TypeStep
<1> DEFINE Rest == MeasurementIsCurrent /\ OneInFlight /\ StartedBeforeFinished /\ QueueWaits /\ NoOverlap
<1> SUFFICES Rest'
  BY <1>0
<1> USE DEF MeasurementIsCurrent, OneInFlight, StartedBeforeFinished, QueueWaits, NoOverlap, FinishedPending
<1>1. ASSUME UNCHANGED <<signals, worker, measurement>>
      PROVE  InExecute' = InExecute /\ \A m : Pending(m)' = Pending(m)
  BY <1>1 DEF InExecute, Pending
<1>2. CASE ChangeEnvironment
  BY <1>1, <1>2 DEF ChangeEnvironment, mainVars, workVars
<1>3. ASSUME NEW t \in Tests, NEW o \in BOOLEAN, execute(t, o) PROVE Rest'
  <2>1. UNCHANGED <<signals, worker, measurement, currentTest, overlapped>>
    BY <1>3 DEF execute, workVars
  <2>2. CASE UNCHANGED <<running, queue, calls>>
    BY <1>1, <2>1, <2>2
  <2>3. ASSUME NEW e, Submit(e) PROVE Rest'
    <3>1. CASE running
      BY <1>1, <2>1, <2>3, <3>1 DEF Submit, Enqueue
    <3>2. CASE ~running
      <4>1. calls = <<>> /\ ~InExecute /\ Pending("finished") = {}
        BY <3>2
      <4>2. calls' = Append(calls, e) /\ running' = TRUE
        BY <2>3, <3>2 DEF Submit, Post
      <4>3. Len(calls') = 1 /\ calls' # <<>>
        BY <4>1, <4>2
      <4> QED BY <1>1, <2>1, <4>1, <4>2, <4>3
    <3> QED BY <3>1, <3>2
  <2> QED BY <1>3, <2>2, <2>3 DEF execute, mainVars
<1>4. ASSUME NEW n, NEW r, Receive(n, r)
      PROVE  UNCHANGED <<worker, currentTest, measurement, overlapped>> /\ InExecute' = InExecute
  BY <1>4 DEF Receive, workVars, InExecute
<1>5. CASE onStarted
  <2>1. Receive("started", "Private") /\ running' = TRUE /\ UNCHANGED <<queue, calls>>
    BY <1>5 DEF onStarted
  <2>2. 1 \in Pending("started") /\ 1 \notin Pending("finished")
    BY <2>1, PendingReceive
  <2>3. running
    BY <2>2
  <2> QED BY <1>4, <2>1, <2>3, ReceiveOther
<1>6. CASE onFinished
  <2>1. Receive("finished", "Private")
    BY <1>6 DEF onFinished
  <2>2. 1 \in Pending("finished") /\ \A m, i : i \in Pending(m)' <=> i \in Nat \ {0} /\ i + 1 \in Pending(m)
    BY <2>1, PendingReceive
  <2>3. calls = <<>> /\ ~InExecute /\ running
    BY <2>2
  <2>4. Pending("finished")' = {}
    BY <2>2
  <2>5. Pending("started")' = {}
    <3> SUFFICES ASSUME NEW i \in Pending("started")' PROVE FALSE
      OBVIOUS
    <3>1. i \in Nat \ {0} /\ i + 1 \in Pending("started")
      BY <2>2
    <3>2. PICK j \in Pending("finished") : i + 1 < j
      BY <2>3, <3>1
    <3> QED BY <2>2, <3>1, <3>2
  <2>6. CASE queue = <<>>
    BY <1>4, <1>6, <2>1, <2>3, <2>4, <2>5, <2>6 DEF onFinished
  <2>7. CASE queue # <<>>
    <3>1. calls' = Append(calls, Head(queue)) /\ running' = running
      BY <1>6, <2>7 DEF onFinished, startNext
    <3>2. Len(calls') = 1 /\ calls' # <<>>
      BY <2>3, <3>1
    <3> QED BY <1>4, <2>1, <2>3, <2>4, <2>5, <3>1, <3>2
  <2> QED BY <2>6, <2>7
<1>7. CASE qStarted \/ qFinished
  <2>1. /\ Receive("started", "q") \/ Receive("finished", "q")
        /\ UNCHANGED <<running, queue, calls>>
    BY <1>7 DEF qStarted, qFinished, mainVars
  <2> QED BY <1>4, <2>1, ReceiveOther
<1>8. CASE beginExecute
  <2>1. /\ worker = "loop" /\ calls # <<>> /\ worker' = "execute" /\ UNCHANGED <<running, queue>>
        /\ calls' = Tail(calls) /\ emit("started", Head(calls)) /\ currentTest' = Head(calls)
        /\ measurement' = Head(calls) \/ measurement' = None
        /\ overlapped' = (overlapped \/ measurement # None)
    BY <1>8 DEF beginExecute, mainVars
  <2>2. Head(calls) \in Executions
    BY <2>1 DEF TypeOK
  <2>3. calls' = <<>>
    BY <2>1 DEF TypeOK
  <2>4. measurement = None /\ running /\ Pending("finished") = {}
    BY <2>1 DEF InExecute
  <2>5. Pending("finished")' = {}
    BY <2>1, <2>2, <2>4, PendingEmit
  <2>6. InExecute'
    BY <2>1 DEF InExecute
  <2>7. ~overlapped'
    BY <2>1, <2>4
  <2> QED BY <2>1, <2>2, <2>3, <2>4, <2>5, <2>6, <2>7, NoneIsNoExecution
<1>9. CASE createFailed \/ startFailed \/ measurementEnded
  <2>1. /\ worker' \in {"loop", "ending"} /\ (worker' = "loop" => measurement' = None)
        /\ UNCHANGED measurement /\ currentTest' = currentTest /\ currentTest # None
        /\ emit("finished", currentTest) /\ InExecute
        /\ UNCHANGED <<running, queue, calls, overlapped>>
    BY <1>9 DEF createFailed, startFailed, measurementEnded, workerStep, mainVars, InExecute
  <2>2. currentTest \in Executions
    BY <2>1 DEF TypeOK
  <2>3. ~InExecute'
    BY <2>1 DEF InExecute
  <2>4. \A m, i : i \in Pending(m)' <=> i \in Pending(m) \/ (m = "finished" /\ i = Len(signals) + 1)
    BY <2>1, <2>2, PendingEmit
  <2>5. \A i \in Pending("started") : i \in Nat /\ i < Len(signals) + 1
    BY <2>1, <2>2, PendingEmit DEF TypeOK
  <2>6. Pending("finished") = {} /\ calls = <<>> /\ running
    BY <2>1
  <2>7. Pending("finished")' = {Len(signals) + 1}
    BY <2>4, <2>6
  <2>8. \A i \in Pending("started")' : i \in Pending("started")
    BY <2>4
  <2> QED BY <2>1, <2>3, <2>5, <2>6, <2>7, <2>8
<1>10. CASE started \/ clear
  <2>1. /\ UNCHANGED <<running, queue, calls, overlapped, currentTest, signals>>
        /\ worker' = "loop" /\ measurement' \in {measurement, None}
    BY <1>10 DEF started, clear, workerStep, mainVars
  <2>2. InExecute' = InExecute
    BY <1>10 DEF started, clear, InExecute
  <2>3. \A m : Pending(m)' = Pending(m)
    BY <2>1 DEF Pending
  <2> QED BY <2>1, <2>2, <2>3
<1>11. CASE UNCHANGED vars
  BY <1>1, <1>11 DEF vars
<1> QED BY <1>2, <1>3, <1>5, <1>6, <1>7, <1>8, <1>9, <1>10, <1>11 DEF Next, MainThread, WorkerThread

(***************************************************************************)
(* The inductive invariant holds in every state of every behaviour of the  *)
(* executor's two threads.                                                 *)
(***************************************************************************)
THEOREM Invariance == Spec => []IInv
BY InitIInv, StepIInv, PTL DEF Spec

(* TaskExecutor keeps its variables within their types. *)
THEOREM TypeCorrect == Spec => []TypeOK
<1>1. IInv => TypeOK BY DEF IInv
<1> QED BY <1>1, Invariance, PTL

(***************************************************************************)
(* At most one execution is under way, and `running' tells whether there   *)
(* is one, whatever the interleaving of the main and the worker thread.    *)
(***************************************************************************)
THEOREM AtMostOneInFlight == Spec => []OneInFlight
<1>1. IInv => OneInFlight BY DEF IInv
<1> QED BY <1>1, Invariance, PTL

(***************************************************************************)
(* An entry waits in Private::queue only while an execution is under way   *)
(* whose finished signal will take it out.                                 *)
(***************************************************************************)
THEOREM NoStrandedEntry == Spec => []QueueServed
<1>1. IInv => QueueServed BY DEF IInv, OneInFlight, QueueWaits, QueueServed
<1> QED BY <1>1, Invariance, PTL

(* InternalTaskExecutor::execute never replaces a measurement that is alive. *)
THEOREM NoMeasurementReplaced == Spec => []NoOverlap
<1>1. IInv => NoOverlap BY DEF IInv
<1> QED BY <1>1, Invariance, PTL
-----------------------------------------------------------------------------
(***************************************************************************)
(* The refinement of SerialExecutor.  Outbox reads the report of an        *)
(* execution off the signal for Private or, once that one is handled, off  *)
(* the signal for q.  That both carry the same execution, and that the     *)
(* signal for q is the very next event, is an invariant of its own.        *)
(***************************************************************************)
ReportIndices == {i \in 1..Len(signals) : signals[i].name = "finished" /\ signals[i].to = "q"}

ReportsPaired ==
  /\ \A i \in FinishedPending : i + 1 \in ReportIndices /\ signals[i + 1].exec = signals[i].exec
  /\ \A i \in ReportIndices : i = 1 \/ i - 1 \in FinishedPending

(* What remains in the event queue of the main thread after it took one event. *)
LEMMA TakeEvent ==
  ASSUME TypeOK, NEW n, NEW r, Receive(n, r)
  PROVE  /\ signals \in Seq(Signals) /\ Len(signals) \in Nat \ {0}
         /\ signals[1].name = n /\ signals[1].to = r /\ Head(signals) = signals[1]
         /\ Len(signals') = Len(signals) - 1
         /\ \A i \in 1..Len(signals') : signals'[i] = signals[i + 1]
         /\ \A i : i \in ReportIndices' <=> i \in Nat \ {0} /\ i + 1 \in ReportIndices
         /\ \A i : i \in FinishedPending' <=> i \in Nat \ {0} /\ i + 1 \in FinishedPending
         /\ ReportIsNext' <=> 2 \in ReportIndices
<1>1. /\ signals \in Seq(Signals) /\ signals # <<>> /\ signals' = Tail(signals)
      /\ Head(signals).name = n /\ Head(signals).to = r
  BY DEF TypeOK, Receive
<1>2. /\ Len(signals') = Len(signals) - 1 /\ Len(signals) \in Nat \ {0}
      /\ \A i \in 1..Len(signals') : signals'[i] = signals[i + 1]
      /\ signals[1] = Head(signals) /\ signals' \in Seq(Signals)
  BY <1>1
<1>3. \A i : i \in ReportIndices' <=> i \in Nat \ {0} /\ i + 1 \in ReportIndices
  BY <1>2 DEF ReportIndices
<1>4. \A i : i \in FinishedPending' <=> i \in Nat \ {0} /\ i + 1 \in FinishedPending
  BY PendingReceive DEF FinishedPending
<1>5. ReportIsNext' <=> 1 \in ReportIndices'
  <2>1. signals' # <<>> => Len(signals') # 0 /\ Head(signals') = signals'[1]
    BY <1>2
  <2>2. Len(signals') # 0 => signals' # <<>>
    OBVIOUS
  <2> QED BY <1>2, <2>1, <2>2 DEF ReportIsNext, ReportIndices
<1> QED BY <1>1, <1>2, <1>3, <1>4, <1>5

(* What the event queue of the main thread holds after the worker emitted a signal. *)
LEMMA PostEvents ==
  ASSUME TypeOK, NEW n \in {"started", "finished"}, NEW e \in Executions, emit(n, e)
  PROVE  /\ Len(signals) \in Nat /\ Len(signals') = Len(signals) + 2
         /\ \A i \in 1..Len(signals) : signals'[i] = signals[i]
         /\ signals'[Len(signals) + 1].exec = e /\ signals'[Len(signals) + 2].exec = e
         /\ \A i : i \in ReportIndices' <=>
                     i \in ReportIndices \/ (n = "finished" /\ i = Len(signals) + 2)
         /\ \A i : i \in FinishedPending' <=>
                     i \in FinishedPending \/ (n = "finished" /\ i = Len(signals) + 1)
         /\ ReportIsNext' <=> ReportIsNext
         /\ ReportIsNext => Head(signals') = Head(signals)
<1> DEFINE a == Signal(n, "Private", e)
           b == Signal(n, "q", e)
<1>1. a \in Signals /\ b \in Signals
  BY DEF Signal, Signals
<1>2. a.name = n /\ a.to = "Private" /\ b.name = n /\ b.to = "q" /\ a.exec = e /\ b.exec = e
  BY DEF Signal
<1> HIDE DEF a, b
<1>3. signals \in Seq(Signals) /\ signals' = Append(Append(signals, a), b)
  BY DEF TypeOK, emit, a, b
<1>4. /\ signals' \in Seq(Signals) /\ Len(signals) \in Nat /\ Len(signals') = Len(signals) + 2
      /\ \A i \in 1..Len(signals) : signals'[i] = signals[i]
      /\ signals'[Len(signals) + 1] = a /\ signals'[Len(signals) + 2] = b
  BY <1>1, <1>3
<1>5. \A i : i \in ReportIndices' <=>
               i \in ReportIndices \/ (n = "finished" /\ i = Len(signals) + 2)
  BY <1>2, <1>4 DEF ReportIndices
<1>6. \A i : i \in FinishedPending' <=>
               i \in FinishedPending \/ (n = "finished" /\ i = Len(signals) + 1)
  BY PendingEmit DEF FinishedPending
<1>7. signals' # <<>> /\ Head(signals') = signals'[1]
  BY <1>4
<1>8. CASE signals = <<>>
  <2>1. signals'[1] = a
    BY <1>4, <1>8
  <2> QED BY <1>2, <1>4, <1>5, <1>6, <1>7, <1>8, <2>1 DEF ReportIsNext
<1>9. CASE signals # <<>>
  <2>1. Head(signals) = signals[1] /\ signals'[1] = signals[1]
    BY <1>3, <1>4, <1>9
  <2> QED BY <1>2, <1>4, <1>5, <1>6, <1>7, <1>9, <2>1 DEF ReportIsNext
<1> QED BY <1>8, <1>9

(* Which steps take an event, emit a signal, or leave the event queue alone. *)
LEMMA EventSteps ==
  ASSUME TypeOK, MeasurementIsCurrent, [Next]_vars
  PROVE  \/ UNCHANGED signals
         \/ \E n, r : Receive(n, r)
         \/ \E n \in {"started", "finished"}, e \in Executions : emit(n, e)
<1>1. CASE ChangeEnvironment \/ UNCHANGED vars
  BY <1>1 DEF ChangeEnvironment, vars
<1>2. CASE \E t \in Tests, o \in BOOLEAN : execute(t, o)
  BY <1>2 DEF execute
<1>3. CASE MainThread
  BY <1>3 DEF MainThread, onStarted, onFinished, qStarted, qFinished
<1>4. CASE beginExecute
  <2>1. calls \in Seq(Executions) /\ calls # <<>> /\ emit("started", Head(calls))
    BY <1>4 DEF beginExecute, TypeOK
  <2>2. Head(calls) \in Executions
    BY <2>1
  <2> QED BY <2>1, <2>2
<1>5. CASE createFailed \/ startFailed \/ measurementEnded
  <2>1. emit("finished", currentTest) /\ currentTest \in Executions
    BY <1>5 DEF createFailed, startFailed, measurementEnded, MeasurementIsCurrent, TypeOK
  <2> QED BY <2>1
<1>6. CASE started \/ clear
  BY <1>6 DEF started, clear
<1> QED BY <1>1, <1>2, <1>3, <1>4, <1>5, <1>6 DEF Next, WorkerThread

(* Every step keeps the two halves of a finished signal together. *)
LEMMA StepPaired == IInv /\ ReportsPaired /\ [Next]_vars => ReportsPaired'
<1> SUFFICES ASSUME IInv, ReportsPaired, [Next]_vars PROVE ReportsPaired'
  OBVIOUS
<1>0. TypeOK /\ MeasurementIsCurrent
  BY DEF IInv
<1>1. \A i : i \in FinishedPending \/ i \in ReportIndices => i \in Nat /\ i >= 1 /\ i <= Len(signals)
  <2>1. Len(signals) \in Nat
    BY <1>0 DEF TypeOK
  <2> QED BY <2>1 DEF FinishedPending, Pending, ReportIndices
<1>2. CASE UNCHANGED signals
  BY <1>2 DEF ReportsPaired, ReportIndices, FinishedPending, Pending
<1>3. ASSUME NEW n, NEW r, Receive(n, r) PROVE ReportsPaired'
  <2>1. /\ Len(signals) \in Nat /\ Len(signals') = Len(signals) - 1
        /\ \A i \in 1..Len(signals') : signals'[i] = signals[i + 1]
        /\ \A i : i \in ReportIndices' <=> i \in Nat \ {0} /\ i + 1 \in ReportIndices
        /\ \A i : i \in FinishedPending' <=> i \in Nat \ {0} /\ i + 1 \in FinishedPending
    BY <1>0, <1>3, TakeEvent
  <2>2. ASSUME NEW i \in FinishedPending'
        PROVE  i + 1 \in ReportIndices' /\ signals'[i + 1].exec = signals'[i].exec
    <3>1. i \in Nat \ {0} /\ i + 1 \in FinishedPending
      BY <2>1
    <3>2. i + 2 \in ReportIndices /\ signals[i + 2].exec = signals[i + 1].exec
      BY <3>1 DEF ReportsPaired
    <3>3. i + 2 <= Len(signals)
      BY <1>1, <3>2
    <3> QED BY <2>1, <3>1, <3>2, <3>3
  <2>3. ASSUME NEW i \in ReportIndices' PROVE i = 1 \/ i - 1 \in FinishedPending'
    <3>1. i \in Nat \ {0} /\ i + 1 \in ReportIndices
      BY <2>1
    <3>2. i \in FinishedPending
      BY <3>1 DEF ReportsPaired
    <3> QED BY <2>1, <3>1, <3>2
  <2> QED BY <2>2, <2>3 DEF ReportsPaired
<1>4. ASSUME NEW n \in {"started", "finished"}, NEW e \in Executions, emit(n, e)
      PROVE  ReportsPaired'
  <2>1. /\ Len(signals) \in Nat /\ Len(signals') = Len(signals) + 2
        /\ \A i \in 1..Len(signals) : signals'[i] = signals[i]
        /\ signals'[Len(signals) + 1].exec = e /\ signals'[Len(signals) + 2].exec = e
        /\ \A i : i \in ReportIndices' <=>
                    i \in ReportIndices \/ (n = "finished" /\ i = Len(signals) + 2)
        /\ \A i : i \in FinishedPending' <=>
                    i \in FinishedPending \/ (n = "finished" /\ i = Len(signals) + 1)
    BY <1>0, <1>4, PostEvents
  <2>2. ASSUME NEW i \in FinishedPending'
        PROVE  i + 1 \in ReportIndices' /\ signals'[i + 1].exec = signals'[i].exec
    <3>1. CASE i \in FinishedPending
      <4>1. i + 1 \in ReportIndices /\ signals[i + 1].exec = signals[i].exec
        BY <3>1 DEF ReportsPaired
      <4> QED BY <1>1, <2>1, <3>1, <4>1
    <3>2. CASE n = "finished" /\ i = Len(signals) + 1
      BY <2>1, <3>2
    <3> QED BY <2>1, <3>1, <3>2
  <2>3. ASSUME NEW i \in ReportIndices' PROVE i = 1 \/ i - 1 \in FinishedPending'
    <3>1. CASE i \in ReportIndices
      BY <2>1, <3>1 DEF ReportsPaired
    <3>2. CASE n = "finished" /\ i = Len(signals) + 2
      BY <2>1, <3>2
    <3> QED BY <2>1, <3>1, <3>2
  <2> QED BY <2>2, <2>3 DEF ReportsPaired
<1> QED BY <1>0, <1>2, <1>3, <1>4, EventSteps

(* The report of the one finished signal Private has not handled is its execution. *)
LEMMA PendingReport ==
  ASSUME OneInFlight, NEW i \in FinishedPending
  PROVE  Outbox = (IF ReportIsNext THEN <<Head(signals).exec>> ELSE <<>>) \o <<signals[i].exec>>
<1>1. (CHOOSE j \in FinishedPending : TRUE) = i
  <2>1. (CHOOSE j \in FinishedPending : TRUE) \in FinishedPending
    OBVIOUS
  <2> QED BY <2>1 DEF OneInFlight
<1> QED BY <1>1 DEF Outbox

(* A step that leaves the event queue of the main thread alone leaves the outbox alone. *)
LEMMA OutboxKept == ASSUME UNCHANGED signals PROVE Outbox' = Outbox
BY DEF Outbox, ReportIsNext, FinishedPending, Pending

(* The event queue holds at most the report at its head and the one of the pending signal. *)
LEMMA OutboxParts ==
  ASSUME IInv
  PROVE  \E h, p \in Seq(Executions) :
           /\ Outbox = h \o p
           /\ h = IF ReportIsNext THEN <<Head(signals).exec>> ELSE <<>>
           /\ FinishedPending = {} => p = <<>>
           /\ \A i \in FinishedPending : p = <<signals[i].exec>>
<1>1. signals \in Seq(Signals)
  BY DEF IInv, TypeOK
<1>2. \A i \in 1..Len(signals) : signals[i].exec \in Executions
  <2>1. \A i \in 1..Len(signals) : signals[i] \in Signals
    BY <1>1
  <2> QED BY <2>1 DEF Signals
<1>3. signals # <<>> => Head(signals).exec \in Executions
  <2>1. signals # <<>> => Head(signals) \in Signals
    BY <1>1
  <2> QED BY <2>1 DEF Signals
<1> DEFINE h == IF ReportIsNext THEN <<Head(signals).exec>> ELSE <<>>
           p == IF FinishedPending = {} THEN <<>>
                ELSE <<signals[CHOOSE i \in FinishedPending : TRUE].exec>>
<1>4. h \in Seq(Executions)
  BY <1>3 DEF ReportIsNext
<1>5. \A i \in FinishedPending : i \in 1..Len(signals) /\ p = <<signals[i].exec>>
  <2> SUFFICES ASSUME NEW i \in FinishedPending PROVE i \in 1..Len(signals) /\ p = <<signals[i].exec>>
    OBVIOUS
  <2>1. (CHOOSE j \in FinishedPending : TRUE) = i
    <3>1. (CHOOSE j \in FinishedPending : TRUE) \in FinishedPending
      OBVIOUS
    <3> QED BY <3>1 DEF IInv, OneInFlight
  <2> QED BY <2>1 DEF FinishedPending, Pending
<1>6. p \in Seq(Executions)
  <2>1. CASE FinishedPending = {}
    BY <2>1
  <2>2. ASSUME NEW i \in FinishedPending PROVE p \in Seq(Executions)
    <3>1. p = <<signals[i].exec>> /\ signals[i].exec \in Executions
      BY <1>2, <1>5
    <3> HIDE DEF p
    <3> QED BY <3>1
  <2> QED BY <2>1, <2>2
<1> QED BY <1>4, <1>5, <1>6 DEF Outbox

(* Taking an event other than a finished signal leaves the outbox alone. *)
LEMMA OutboxOther ==
  ASSUME IInv, ReportsPaired, NEW n, NEW r, Receive(n, r), n # "finished", OneInFlight'
  PROVE  Outbox' = Outbox
<1>1. TypeOK /\ OneInFlight
  BY DEF IInv
<1>2. /\ Len(signals) \in Nat \ {0}
      /\ signals[1].name = n /\ signals[1].to = r /\ Head(signals) = signals[1]
      /\ Len(signals') = Len(signals) - 1
      /\ \A i \in 1..Len(signals') : signals'[i] = signals[i + 1]
      /\ \A i : i \in FinishedPending' <=> i \in Nat \ {0} /\ i + 1 \in FinishedPending
      /\ ReportIsNext' <=> 2 \in ReportIndices
  BY <1>1, TakeEvent
<1>3. 1 \notin FinishedPending
  BY <1>2 DEF FinishedPending, Pending
<1>4. ~ReportIsNext /\ ~ReportIsNext'
  BY <1>2, <1>3 DEF ReportIsNext, ReportsPaired
<1>5. CASE FinishedPending = {}
  <2>1. FinishedPending' = {}
    BY <1>2, <1>5
  <2> QED BY <1>4, <1>5, <2>1 DEF Outbox
<1>6. CASE FinishedPending # {}
  <2>1. PICK i \in FinishedPending : TRUE
    BY <1>6
  <2>2. i \in 2..Len(signals)
    BY <1>3, <1>2, <2>1 DEF FinishedPending, Pending
  <2>3. i - 1 \in FinishedPending' /\ signals'[i - 1] = signals[i]
    BY <1>2, <2>1, <2>2
  <2>4. (CHOOSE j \in FinishedPending : TRUE) = i
    <3>1. (CHOOSE j \in FinishedPending : TRUE) \in FinishedPending
      BY <1>6
    <3> QED BY <3>1, <1>1 DEF OneInFlight
  <2>5. (CHOOSE j \in FinishedPending : TRUE)' = i - 1
    <3>1. (CHOOSE j \in FinishedPending : TRUE)' \in FinishedPending'
      BY <2>3
    <3> QED BY <3>1, <2>3 DEF OneInFlight
  <2> QED BY <1>4, <1>6, <2>3, <2>4, <2>5 DEF Outbox
<1> QED BY <1>5, <1>6

(* onFinished takes the signal for Private: the report is now read off the one for q. *)
LEMMA OutboxHandled ==
  ASSUME IInv, ReportsPaired, Receive("finished", "Private")
  PROVE  Outbox' = Outbox
<1>1. TypeOK /\ OneInFlight
  BY DEF IInv
<1>2. /\ Len(signals) \in Nat \ {0}
      /\ signals[1].name = "finished" /\ signals[1].to = "Private" /\ Head(signals) = signals[1]
      /\ Len(signals') = Len(signals) - 1 /\ signals' = Tail(signals)
      /\ \A i \in 1..Len(signals') : signals'[i] = signals[i + 1]
      /\ \A i : i \in FinishedPending' <=> i \in Nat \ {0} /\ i + 1 \in FinishedPending
      /\ ReportIsNext' <=> 2 \in ReportIndices
  BY <1>1, TakeEvent DEF Receive
<1>3. 1 \in FinishedPending /\ ~ReportIsNext
  BY <1>2 DEF FinishedPending, Pending, ReportIsNext
<1>4. 2 \in ReportIndices /\ signals[2].exec = signals[1].exec
  BY <1>3 DEF ReportsPaired
<1>5. FinishedPending' = {}
  BY <1>1, <1>2, <1>3 DEF OneInFlight
<1>6. Head(signals') = signals[2]
  <2>1. 2 \in 1..Len(signals)
    BY <1>4 DEF ReportIndices
  <2> QED BY <1>2, <2>1
<1>7. Outbox = <<>> \o <<signals[1].exec>>
  BY <1>1, <1>3, PendingReport
<1>8. Outbox' = <<signals[1].exec>> \o <<>>
  BY <1>2, <1>4, <1>5, <1>6 DEF Outbox
<1> QED BY <1>7, <1>8

(* qFinished takes the first report out of the outbox. *)
LEMMA OutboxDelivered ==
  ASSUME IInv, ReportsPaired, Receive("finished", "q"), OneInFlight'
  PROVE  Outbox # <<>> /\ Head(Outbox) = Head(signals).exec /\ Outbox' = Tail(Outbox)
<1>1. TypeOK /\ OneInFlight
  BY DEF IInv
<1>2. /\ Len(signals) \in Nat \ {0} /\ signals # <<>>
      /\ signals[1].name = "finished" /\ signals[1].to = "q" /\ Head(signals) = signals[1]
      /\ Len(signals') = Len(signals) - 1
      /\ \A i \in 1..Len(signals') : signals'[i] = signals[i + 1]
      /\ \A i : i \in FinishedPending' <=> i \in Nat \ {0} /\ i + 1 \in FinishedPending
      /\ ReportIsNext' <=> 2 \in ReportIndices
  BY <1>1, TakeEvent DEF Receive
<1>3. 1 \notin FinishedPending /\ ReportIsNext
  BY <1>2 DEF FinishedPending, Pending, ReportIsNext
<1>4. ~ReportIsNext'
  BY <1>2, <1>3 DEF ReportsPaired
<1>5. PICK h, p \in Seq(Executions) :
        /\ Outbox = h \o p
        /\ h = IF ReportIsNext THEN <<Head(signals).exec>> ELSE <<>>
        /\ FinishedPending = {} => p = <<>>
        /\ \A i \in FinishedPending : p = <<signals[i].exec>>
  BY OutboxParts
<1> DEFINE x == Head(signals).exec
<1> HIDE DEF x
<1>6. h = <<x>> /\ x \in Executions
  <2>1. h = <<x>>
    BY <1>3, <1>5 DEF x
  <2>2. h[1] = x /\ Len(h) = 1
    BY <2>1
  <2> QED BY <1>5, <2>1, <2>2
<1>7. <<x>> \o p # <<>> /\ Head(<<x>> \o p) = x /\ Tail(<<x>> \o p) = p
  BY <1>5, <1>6
<1>8. Outbox' = p
  <2>1. <<>> \o p = p
    BY <1>5
  <2>2. CASE FinishedPending = {}
    <3>1. FinishedPending' = {}
      BY <1>2, <2>2
    <3> QED BY <1>4, <1>5, <2>1, <2>2, <3>1 DEF Outbox
  <2>3. CASE FinishedPending # {}
    <3>1. PICK i \in FinishedPending : TRUE
      BY <2>3
    <3>2. i \in 2..Len(signals)
      BY <1>3, <1>2, <3>1 DEF FinishedPending, Pending
    <3>3. i - 1 \in FinishedPending' /\ signals'[i - 1] = signals[i]
      BY <1>2, <3>1, <3>2
    <3>4. (CHOOSE j \in FinishedPending : TRUE)' = i - 1
      <4>1. (CHOOSE j \in FinishedPending : TRUE)' \in FinishedPending'
        BY <3>3
      <4> QED BY <4>1, <3>3 DEF OneInFlight
    <3>5. p = <<signals[i].exec>>
      BY <1>5, <3>1
    <3> QED BY <1>4, <2>1, <3>3, <3>4, <3>5 DEF Outbox
  <2> QED BY <2>2, <2>3
<1> QED BY <1>5, <1>6, <1>7, <1>8 DEF x

(* A started signal carries no report. *)
LEMMA OutboxStarted ==
  ASSUME IInv, NEW e \in Executions, emit("started", e), FinishedPending = {}
  PROVE  Outbox' = Outbox
<1>1. /\ \A i : i \in FinishedPending' <=> i \in FinishedPending
      /\ ReportIsNext' <=> ReportIsNext
      /\ ReportIsNext => Head(signals') = Head(signals)
  BY PostEvents DEF IInv
<1>2. FinishedPending' = {}
  BY <1>1
<1> QED BY <1>1, <1>2 DEF Outbox

(* The finished signal of the worker puts its execution behind the outbox. *)
LEMMA OutboxFinished ==
  ASSUME IInv, NEW e \in Executions, emit("finished", e), FinishedPending = {}
  PROVE  Outbox' = Append(Outbox, e)
<1>1. /\ Len(signals) \in Nat
      /\ \A i : i \in FinishedPending' <=> i = Len(signals) + 1
      /\ signals'[Len(signals) + 1].exec = e
      /\ ReportIsNext' <=> ReportIsNext
      /\ ReportIsNext => Head(signals') = Head(signals)
  BY PostEvents DEF IInv
<1>2. (CHOOSE j \in FinishedPending : TRUE)' = Len(signals) + 1
  <2>1. (CHOOSE j \in FinishedPending : TRUE)' \in FinishedPending'
    BY <1>1
  <2> QED BY <1>1, <2>1
<1>3. PICK h, p \in Seq(Executions) :
        /\ Outbox = h \o p
        /\ h = IF ReportIsNext THEN <<Head(signals).exec>> ELSE <<>>
        /\ FinishedPending = {} => p = <<>>
  BY OutboxParts
<1>4. Outbox' = h \o <<e>>
  BY <1>1, <1>2, <1>3 DEF Outbox
<1>5. h \o <<e>> = Append(h \o <<>>, e)
  BY <1>3
<1> QED BY <1>3, <1>4, <1>5

(* The executor starts as a serial executor that has nothing to do. *)
LEMMA InitSerial == Init => ReportsPaired /\ Serial!Init
<1> SUFFICES ASSUME Init PROVE ReportsPaired /\ Serial!Init
  OBVIOUS
<1>1. FinishedPending = {} /\ ReportIndices = {} /\ ~ReportIsNext /\ ~InExecute
  BY DEF Init, FinishedPending, Pending, ReportIndices, ReportIsNext, InExecute
<1>2. Outbox = <<>>
  BY <1>1 DEF Outbox
<1>3. calls \o queue = <<>> /\ delivered = <<>>
  BY DEF Init
<1> QED BY <1>1, <1>2, <1>3 DEF ReportsPaired, Serial!Init

(***************************************************************************)
(* Every step of the two threads is a step of the serial executor or       *)
(* changes nothing the serial executor knows of: an accepted execute() is  *)
(* Accept, the worker taking a call is Begin, the emission of finished is  *)
(* End, Client::taskFinished is Deliver; moving the next entry from the    *)
(* queue to the worker's event queue is invisible.                         *)
(***************************************************************************)
LEMMA StepSerial ==
  IInv /\ ReportsPaired /\ [Next]_vars /\ IInv' => [Serial!Next]_(Serial!vars)
<1> SUFFICES ASSUME IInv, ReportsPaired, [Next]_vars, IInv' PROVE [Serial!Next]_(Serial!vars)
  OBVIOUS
<1> DEFINE waiting == calls \o queue
           active == IF InExecute THEN currentTest ELSE None
<1>0. /\ TypeOK /\ OneInFlight /\ OneInFlight' /\ QueueWaits /\ MeasurementIsCurrent
      /\ calls \in Seq(Executions) /\ queue \in Seq(Executions)
  BY DEF IInv, TypeOK
<1>1. ASSUME UNCHANGED <<signals, worker, measurement, currentTest>>
      PROVE  Outbox' = Outbox /\ active' = active
  BY <1>1, OutboxKept DEF InExecute
<1>2. ASSUME UNCHANGED <<waiting, active, Outbox, delivered>> PROVE [Serial!Next]_(Serial!vars)
  BY <1>2 DEF Serial!vars
<1>3. CASE ChangeEnvironment
  BY <1>1, <1>2, <1>3 DEF ChangeEnvironment, mainVars, workVars
<1>4. ASSUME NEW t \in Tests, NEW o \in BOOLEAN, execute(t, o) PROVE [Serial!Next]_(Serial!vars)
  <2> DEFINE e == [id |-> ncalls + 1, test |-> t, observer |-> o]
  <2>1. e \in Executions
    BY <1>0, <1>4, ConstantsAssumption DEF execute, Executions, TypeOK
  <2>2. /\ UNCHANGED <<signals, worker, measurement, currentTest, delivered>>
        /\ Submit(e) \/ UNCHANGED <<queue, calls>>
    BY <1>4 DEF execute, workVars, mainVars
  <2> HIDE DEF e
  <2>3. CASE UNCHANGED <<queue, calls>>
    BY <1>1, <1>2, <2>2, <2>3
  <2>4. CASE Submit(e)
    <3>1. waiting' = Append(waiting, e)
      <4>1. CASE running
        <5>1. calls' = calls /\ queue' = Append(queue, e)
          BY <2>4, <4>1 DEF Submit, Enqueue
        <5>2. calls \o Append(queue, e) = Append(calls \o queue, e)
          BY <1>0, <2>1
        <5> QED BY <5>1, <5>2
      <4>2. CASE ~running
        <5>1. calls' = Append(calls, e) /\ queue' = queue
          BY <2>4, <4>2 DEF Submit, Post
        <5>2. queue = <<>>
          BY <1>0, <4>2 DEF QueueWaits
        <5>3. Append(calls, e) \o <<>> = Append(calls \o <<>>, e)
          BY <1>0, <2>1
        <5> QED BY <5>1, <5>2, <5>3
      <4> QED BY <4>1, <4>2
    <3>2. UNCHANGED <<active, Outbox, delivered>>
      BY <1>1, <2>2
    <3>3. Serial!Accept(e)
      BY <3>1, <3>2 DEF Serial!Accept
    <3> QED BY <2>1, <3>3 DEF Serial!Next
  <2> QED BY <2>2, <2>3, <2>4
<1>5. ASSUME NEW n, NEW r, Receive(n, r) PROVE active' = active
  BY <1>5 DEF Receive, workVars, InExecute
<1>6. CASE onStarted \/ qStarted
  <2>1. /\ Receive("started", "Private") \/ Receive("started", "q")
        /\ UNCHANGED <<queue, calls, delivered>>
    BY <1>6 DEF onStarted, qStarted, mainVars
  <2>2. Outbox' = Outbox /\ active' = active
    BY <1>0, <1>5, <2>1, OutboxOther
  <2> QED BY <1>2, <2>1, <2>2
<1>7. CASE onFinished
  <2>1. Receive("finished", "Private") /\ UNCHANGED delivered
    BY <1>7 DEF onFinished
  <2>2. Outbox' = Outbox /\ active' = active
    BY <1>5, <2>1, OutboxHandled
  <2>3. waiting' = waiting
    <3>1. CASE queue = <<>>
      BY <1>7, <3>1 DEF onFinished
    <3>2. CASE queue # <<>>
      <4>1. 1 \in FinishedPending
        BY <1>0, <2>1, PendingReceive DEF FinishedPending
      <4>2. calls = <<>>
        BY <1>0, <4>1 DEF OneInFlight
      <4>3. calls' = Append(<<>>, Head(queue)) /\ queue' = Tail(queue)
        BY <1>7, <3>2, <4>2 DEF onFinished, startNext
      <4>4. Append(<<>>, Head(queue)) \o Tail(queue) = queue /\ <<>> \o queue = queue
        BY <1>0, <3>2
      <4> QED BY <4>2, <4>3, <4>4
    <3> QED BY <3>1, <3>2
  <2> QED BY <1>2, <2>1, <2>2, <2>3
<1>8. CASE qFinished
  <2>1. /\ Receive("finished", "q") /\ UNCHANGED <<queue, calls>>
        /\ delivered' = Append(delivered, Head(signals).exec)
    BY <1>8 DEF qFinished, mainVars
  <2>2. Outbox # <<>> /\ Head(Outbox) = Head(signals).exec /\ Outbox' = Tail(Outbox)
    BY <1>0, <2>1, OutboxDelivered
  <2>3. active' = active
    BY <1>5, <2>1
  <2>4. Serial!Deliver
    BY <2>1, <2>2, <2>3 DEF Serial!Deliver
  <2> QED BY <2>4 DEF Serial!Next
<1>9. CASE beginExecute
  <2>1. /\ worker = "loop" /\ calls # <<>> /\ worker' = "execute" /\ UNCHANGED <<queue, delivered>>
        /\ calls' = Tail(calls) /\ emit("started", Head(calls)) /\ currentTest' = Head(calls)
    BY <1>9 DEF beginExecute, mainVars
  <2>2. Head(calls) \in Executions
    BY <1>0, <2>1
  <2>3. FinishedPending = {} /\ ~InExecute
    BY <1>0, <2>1 DEF OneInFlight
  <2>4. Outbox' = Outbox
    BY <2>1, <2>2, <2>3, OutboxStarted
  <2>5. active = None /\ active' = Head(calls)
    BY <2>1, <2>3 DEF InExecute
  <2>6. waiting # <<>> /\ Head(waiting) = Head(calls) /\ waiting' = Tail(waiting)
    BY <1>0, <2>1
  <2>7. Serial!Begin
    BY <2>1, <2>4, <2>5, <2>6 DEF Serial!Begin
  <2> QED BY <2>7 DEF Serial!Next
<1>10. CASE createFailed \/ startFailed \/ measurementEnded
  <2>1. /\ worker' \in {"loop", "ending"} /\ (worker' = "loop" => measurement' = None)
        /\ currentTest # None /\ emit("finished", currentTest) /\ InExecute
        /\ UNCHANGED <<queue, calls, delivered>>
    BY <1>0, <1>10 DEF createFailed, startFailed, measurementEnded, workerStep, mainVars,
         InExecute, MeasurementIsCurrent
  <2>2. currentTest \in Executions
    BY <1>0, <2>1 DEF TypeOK
  <2>3. FinishedPending = {}
    BY <1>0, <2>1 DEF OneInFlight
  <2>4. Outbox' = Append(Outbox, currentTest)
    BY <2>1, <2>2, <2>3, OutboxFinished
  <2>5. active = currentTest /\ active' = None
    BY <2>1 DEF InExecute
  <2>6. Serial!End
    BY <2>1, <2>4, <2>5 DEF Serial!End
  <2> QED BY <2>6 DEF Serial!Next
<1>11. CASE started \/ clear
  <2>1. UNCHANGED <<queue, calls, delivered, currentTest, signals>>
    BY <1>11 DEF started, clear, workerStep, mainVars
  <2>2. InExecute' = InExecute
    BY <1>11 DEF started, clear, InExecute
  <2>3. Outbox' = Outbox
    BY <2>1, OutboxKept
  <2> QED BY <1>2, <2>1, <2>2, <2>3
<1>12. CASE UNCHANGED vars
  BY <1>1, <1>2, <1>12 DEF vars
<1> QED BY <1>3, <1>4, <1>6, <1>7, <1>8, <1>9, <1>10, <1>11, <1>12 DEF Next, MainThread, WorkerThread

(***************************************************************************)
(* The two threads of the executor implement a serial executor: whatever   *)
(* their interleaving, the executions accepted by TaskExecutor::execute    *)
(* run one at a time and Client::taskFinished is called once for each, in  *)
(* the order in which they were accepted.                                  *)
(***************************************************************************)
THEOREM SerialExecution == Spec => ImplementsSerial
<1>1. Init => ReportsPaired /\ Serial!Init
  BY InitSerial
<1>2. IInv /\ ReportsPaired /\ [Next]_vars => ReportsPaired'
  BY StepPaired
<1>3. IInv /\ ReportsPaired /\ [Next]_vars /\ IInv' => [Serial!Next]_(Serial!vars)
  BY StepSerial
<1> QED BY <1>1, <1>2, <1>3, Invariance, PTL DEF Spec, ImplementsSerial, Serial!Spec
=============================================================================
