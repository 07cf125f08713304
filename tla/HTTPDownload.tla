---------------------------- MODULE HTTPDownload ----------------------------
(***************************************************************************)
(* The HTTP download measurement                                           *)
(* (libclient/measurement/http/httpdownload.cpp).                          *)
(*                                                                         *)
(* startThreads() gives every DownloadThread its QThread as parent and then *)
(* calls moveToThread(), which Qt refuses for an object with a parent.  The *)
(* workers therefore stay in the thread of the measurement: every signal   *)
(* between them and the measurement is a direct call, a worker's blocking  *)
(* wait blocks all, and the QThreads only run empty event loops.           *)
(*                                                                         *)
(* The executor's slots for finished() and error() call stop() and drop    *)
(* the only reference: the measurement is destroyed inside the emission.   *)
(***************************************************************************)
EXTENDS Integers, Sequences, SequencesExt, FiniteSets, FiniteSetsExt

CONSTANTS
  Threads,      \* definition->threads
  RampUp,       \* definition->rampUpTime
  Target,       \* definition->targetTime
  SlotLengths,  \* values of definition->slotLength, in the units of the clock
  IntRange,     \* number of values of int, 2^32
  MaxTime,      \* bound on the clock
  MaxSamples    \* bound on the reads of a worker

ASSUME HTTPConstants ==
  /\ {Threads, Target, IntRange} \cup SlotLengths \subseteq Nat \ {0}
  /\ {RampUp, MaxTime, MaxSamples} \subseteq Nat /\ IntRange % 2 = 0

Workers == 1..Threads
WorkerStatus == {"Inactive", "ConnectedTCP", "DownloadInProgress", "FinishedSuccess", "FinishedError"}

VARIABLES
  pc,          \* "new", "prepared", "refused", "lookup", "connect", "first", "running" or "over"
  slotLength,  \* definition->slotLength
  turn,        \* the worker whose slot is called next
  now,         \* the clock
  tStatus,     \* status of each worker
  startTime,   \* when each worker sent its request
  timeIntervals, \* times of each worker's reads, relative to startTime
  missed,      \* workers whose disconnection was signalled before it mattered
  connectedThreads, unconnectedThreads, downloadingThreads, notDownloadingThreads, finishedThreads,
  downloadStartTime,  \* start of the measuring window, or Unset
  deadline,    \* when the single shot timer fires, or Unset
  threads,     \* state of each QThread
  results,     \* the results, or Unset
  reports,     \* signals finished() and error() so far
  aborted      \* a running QThread was destroyed: Qt ends the program

Unset == -1
NoResults == [threads |-> Unset]

tracking == <<connectedThreads, unconnectedThreads, downloadingThreads, notDownloadingThreads, finishedThreads>>
vars == <<pc, slotLength, turn, now, tStatus, startTime, timeIntervals, missed, tracking, downloadStartTime, deadline,
          threads, results, reports, aborted>>

Init ==
  /\ pc = "new" /\ slotLength \in SlotLengths /\ turn = 1 /\ now = 0
  /\ tStatus = [w \in Workers |-> "Inactive"] /\ startTime = [w \in Workers |-> 0]
  /\ timeIntervals = [w \in Workers |-> <<>>] /\ missed = {}
  /\ connectedThreads = 0 /\ unconnectedThreads = 0
  /\ downloadingThreads = 0 /\ notDownloadingThreads = 0 /\ finishedThreads = 0
  /\ downloadStartTime = Unset /\ deadline = Unset
  /\ threads = [w \in Workers |-> "none"] /\ results = NoResults
  /\ reports = <<>> /\ aborted = FALSE

-----------------------------------------------------------------------------
(* What calculateResults() makes of the reads of a worker. *)

(* A product of two ints. *)
toInt(n) == ((n + IntRange \div 2) % IntRange) - IntRange \div 2

(* Fault: the read before a slot is counted again. *)
measurementSlots_doubles(ts) ==
  LET state[i \in 0..Len(ts)] ==
        IF i = 0 THEN [limit |-> toInt(slotLength), open |-> <<>>, slots |-> <<>>]
        ELSE LET s == state[i - 1]  next == s.limit + toInt(slotLength) IN
             IF ts[i] > s.limit /\ i # 1
             THEN [limit |-> IF ts[i] > next THEN ts[i] ELSE next, open |-> <<i - 1, i>>, slots |-> Append(s.slots, s.open)]
             ELSE [s EXCEPT !.open = Append(@, i)]
  IN  state[Len(ts)].slots

(***************************************************************************)
(* measurementSlots(): the reads of each slot, by index.  A slot ends with *)
(* the first read after its limit; the last, open slot is not reported.    *)
(* slotLength * 1000000 is computed as an int.                             *)
(***************************************************************************)
measurementSlots(ts) ==
  LET state[i \in 0..Len(ts)] ==
        IF i = 0 THEN [limit |-> toInt(slotLength), open |-> <<>>, slots |-> <<>>]
        ELSE LET s == state[i - 1]  next == s.limit + toInt(slotLength) IN
             IF ts[i] > s.limit /\ i # 1
             THEN [limit |-> IF ts[i] > next THEN ts[i] ELSE next, open |-> <<i>>, slots |-> Append(s.slots, s.open)]
             ELSE [s EXCEPT !.open = Append(@, i)]
  IN  state[Len(ts)].slots

(* The reads that averageThroughput() counts for a window of absolute times. *)
averageThroughput(ts, start, from, to) ==
  {i \in DOMAIN ts : ts[i] >= from - start /\ ts[i] <= to - start}

runTime(w) == timeIntervals[w][Len(timeIntervals[w])]

(* Every successful worker has read for 75% of the window, and there is one. *)
resultsTrustable(status) ==
  LET ok == {w \in Workers : status[w] = "FinishedSuccess"} IN
  /\ ok # {}
  /\ \A w \in ok : 4 * (runTime(w) - (downloadStartTime - startTime[w])) >= 3 * Target

calculateResults(status) ==
  LET ok == {w \in Workers : status[w] = "FinishedSuccess"} IN
  [threads |-> Cardinality(ok), ok |-> resultsTrustable(status),
   avg |-> [w \in ok |-> averageThroughput(timeIntervals[w], startTime[w], downloadStartTime, downloadStartTime + Target)],
   slots |-> [w \in ok |-> measurementSlots(timeIntervals[w])]]

-----------------------------------------------------------------------------
(* The end of the measurement. *)

quit(t) == [w \in Workers |-> IF t[w] = "running" THEN "quitting" ELSE t[w]]

(***************************************************************************)
(* error(): the executor destroys the measurement, whose destructor deletes*)
(* the threads.  They were told to quit a moment before; one that has not  *)
(* finished yet is destroyed while it runs.                                *)
(***************************************************************************)
fail ==
  /\ pc' = "over" /\ reports' = Append(reports, "error")
  /\ \E slow \in SUBSET {w \in Workers : threads[w] # "none"} : aborted' = (slow # {})
  /\ threads' = [w \in Workers |-> "deleted"]

(***************************************************************************)
(* downloadFinished(): called by the timer, or when every connected worker *)
(* was disconnected.  downloadTimer itself is never active (singleShot is  *)
(* static), so the timer is cancelled only by the destruction that follows *)
(* finished().  The list of threads is emptied before, so the destructor   *)
(* deletes none; they delete themselves and their worker when they end.    *)
(***************************************************************************)
downloadFinished(status) ==
  /\ pc' = "over" /\ reports' = Append(reports, "finished")
  /\ tStatus' = [w \in Workers |-> IF status[w] = "DownloadInProgress" THEN "FinishedSuccess" ELSE status[w]]
  /\ results' = calculateResults(tStatus')
  /\ threads' = quit(threads)
  /\ UNCHANGED aborted

ending == <<pc, reports, threads, aborted>>

-----------------------------------------------------------------------------
(* Starting: the name lookup, the connections, the first bytes. *)

(* Numbers of threads, times and slot lengths out of bounds, and invalid URLs, are refused. *)
prepare ==
  /\ pc = "new" /\ pc' \in {"prepared", "refused"}
  /\ UNCHANGED <<turn, now, tStatus, startTime, timeIntervals, missed, tracking, downloadStartTime, deadline,
                 threads, results, reports, aborted>>

start ==
  /\ pc = "prepared" /\ pc' = "lookup"
  /\ UNCHANGED <<turn, now, tStatus, startTime, timeIntervals, missed, tracking, downloadStartTime, deadline,
                 threads, results, reports, aborted>>

(* Fault: a failing lookup is not reported. *)
startThreads_silent ==
  /\ pc = "lookup"
  /\ \/ pc' = "over" /\ UNCHANGED <<threads, reports, aborted>>
     \/ pc' = "connect" /\ threads' = [w \in Workers |-> "running"] /\ UNCHANGED <<reports, aborted>>
  /\ UNCHANGED <<turn, now, tStatus, startTime, timeIntervals, missed, tracking, downloadStartTime, deadline, results>>

(* The slot of the lookup: an error, or the threads are started and connectTCP() emitted. *)
startThreads ==
  /\ pc = "lookup"
  /\ \/ fail
     \/ pc' = "connect" /\ threads' = [w \in Workers |-> "running"] /\ UNCHANGED <<reports, aborted>>
  /\ UNCHANGED <<turn, now, tStatus, startTime, timeIntervals, missed, tracking, downloadStartTime, deadline, results>>

(* After the last worker's answer the download starts, if any is connected. *)
TCPConnectionTracking(success) ==
  /\ connectedThreads' = connectedThreads + (IF success THEN 1 ELSE 0)
  /\ unconnectedThreads' = unconnectedThreads + (IF success THEN 0 ELSE 1)
  /\ UNCHANGED <<downloadingThreads, notDownloadingThreads, finishedThreads>>
  /\ IF connectedThreads' + unconnectedThreads' # Threads
       THEN turn' = turn + 1 /\ UNCHANGED ending
     ELSE IF connectedThreads' = 0
       THEN fail /\ UNCHANGED turn
       ELSE pc' = "first" /\ turn' = 1 /\ UNCHANGED <<reports, threads, aborted>>

(* Blocks for up to five seconds; binding the source port may fail too. *)
startTCPConnection ==
  /\ pc = "connect"
  /\ \E ok \in BOOLEAN :
       /\ tStatus' = [tStatus EXCEPT ![turn] = IF ok THEN "ConnectedTCP" ELSE "FinishedError"]
       /\ TCPConnectionTracking(ok)
  /\ UNCHANGED <<now, startTime, timeIntervals, missed, downloadStartTime, deadline, results>>

(* Fault: nobody notices that no worker downloads. *)
downloadStartedTracking_unchecked(success) ==
  /\ downloadingThreads' = downloadingThreads + (IF success THEN 1 ELSE 0)
  /\ notDownloadingThreads' = notDownloadingThreads + (IF success THEN 0 ELSE 1)
  /\ UNCHANGED <<connectedThreads, unconnectedThreads, finishedThreads>>
  /\ IF downloadingThreads' + notDownloadingThreads' # Threads
     THEN turn' = turn + 1 /\ UNCHANGED <<ending, downloadStartTime, deadline>>
     ELSE /\ pc' = "running" /\ UNCHANGED <<turn, reports, threads, aborted>>
          /\ downloadStartTime' = now' + RampUp /\ deadline' = now' + RampUp + Target

(* After the last worker's answer the timer is started, if any downloads. *)
downloadStartedTracking(success) ==
  /\ downloadingThreads' = downloadingThreads + (IF success THEN 1 ELSE 0)
  /\ notDownloadingThreads' = notDownloadingThreads + (IF success THEN 0 ELSE 1)
  /\ UNCHANGED <<connectedThreads, unconnectedThreads, finishedThreads>>
  /\ IF downloadingThreads' + notDownloadingThreads' # Threads
       THEN turn' = turn + 1 /\ UNCHANGED <<ending, downloadStartTime, deadline>>
     ELSE IF notDownloadingThreads' = Threads
       THEN fail /\ UNCHANGED <<turn, downloadStartTime, deadline>>
       ELSE /\ pc' = "running" /\ UNCHANGED <<turn, reports, threads, aborted>>
            /\ downloadStartTime' = now' + RampUp /\ deadline' = now' + RampUp + Target

(***************************************************************************)
(* startDownload(): a worker without connection, or whose request cannot be *)
(* written, or that gets no byte in time, reports a failure; the first read *)
(* tells the response code.  If the peer closes during the wait the        *)
(* disconnected signal comes too early to be counted.                      *)
(***************************************************************************)
noByte ==
  /\ tStatus' = [tStatus EXCEPT ![turn] = "FinishedError"]
  /\ UNCHANGED <<now, startTime, timeIntervals, missed>>
  /\ downloadStartedTracking(FALSE)

firstByte(wait, code, closed) ==
  /\ tStatus[turn] = "ConnectedTCP" /\ now + wait <= MaxTime
  /\ now' = now + wait
  /\ startTime' = [startTime EXCEPT ![turn] = now]
  /\ timeIntervals' = [timeIntervals EXCEPT ![turn] = <<wait>>]
  /\ tStatus' = [tStatus EXCEPT ![turn] = IF code = 200 THEN "DownloadInProgress" ELSE "FinishedError"]
  /\ missed' = IF closed THEN missed \cup {turn} ELSE missed
  /\ downloadStartedTracking(code = 200)

startDownload ==
  /\ pc = "first"
  /\ noByte \/ \E wait \in 0..1, code \in {200, 404}, closed \in BOOLEAN : firstByte(wait, code, closed)
  /\ UNCHANGED results

-----------------------------------------------------------------------------
(* The event loop while the downloads run. *)

(* Every worker that got a byte keeps reading, successful or not. *)
read(w) ==
  /\ pc = "running" /\ w \notin missed
  /\ timeIntervals[w] # <<>> /\ Len(timeIntervals[w]) < MaxSamples
  /\ timeIntervals' = [timeIntervals EXCEPT ![w] = Append(@, now - startTime[w])]
  /\ UNCHANGED <<pc, turn, now, tStatus, startTime, missed, tracking, downloadStartTime, deadline,
                 threads, results, reports, aborted>>

(* Only a worker that downloads announces its disconnection. *)
disconnectionHandling(w) == tStatus[w] = "DownloadInProgress"

prematureDisconnectedTracking(w) ==
  /\ finishedThreads' = finishedThreads + 1
  /\ IF finishedThreads' = connectedThreads
     THEN downloadFinished([tStatus EXCEPT ![w] = "FinishedSuccess"])
     ELSE tStatus' = [tStatus EXCEPT ![w] = "FinishedSuccess"] /\ UNCHANGED <<ending, results>>

(* Fault: a disconnection is handled while other workers still start. *)
disconnected_early(w) ==
  /\ pc \in {"first", "running"} /\ w \notin missed /\ missed' = missed \cup {w}
  /\ timeIntervals[w] # <<>>
  /\ IF disconnectionHandling(w)
     THEN prematureDisconnectedTracking(w)
     ELSE UNCHANGED <<ending, finishedThreads, tStatus, results>>
  /\ UNCHANGED <<turn, now, startTime, timeIntervals, connectedThreads, unconnectedThreads,
                 downloadingThreads, notDownloadingThreads, downloadStartTime, deadline>>

disconnected(w) ==
  /\ pc = "running" /\ w \notin missed /\ missed' = missed \cup {w}
  /\ timeIntervals[w] # <<>>
  /\ IF disconnectionHandling(w)
     THEN prematureDisconnectedTracking(w)
     ELSE UNCHANGED <<ending, finishedThreads, tStatus, results>>
  /\ UNCHANGED <<turn, now, startTime, timeIntervals, connectedThreads, unconnectedThreads,
                 downloadingThreads, notDownloadingThreads, downloadStartTime, deadline>>

(* Fault: the measurement outlives its end. *)
timeout_again ==
  /\ pc \in {"running", "over"} /\ deadline # Unset /\ now >= deadline /\ Len(reports) < 2
  /\ downloadFinished(tStatus)
  /\ UNCHANGED <<turn, now, startTime, timeIntervals, missed, tracking, downloadStartTime, deadline>>

(* The timer; with the measurement destroyed it does not fire. *)
timeout ==
  /\ pc = "running" /\ now >= deadline
  /\ downloadFinished(tStatus)
  /\ UNCHANGED <<turn, now, startTime, timeIntervals, missed, tracking, downloadStartTime, deadline>>

(* The clock stops for a timer that is due. *)
Tick ==
  /\ pc = "running" /\ now < deadline /\ now' = now + 1
  /\ UNCHANGED <<pc, turn, tStatus, startTime, timeIntervals, missed, tracking, downloadStartTime, deadline,
                 threads, results, reports, aborted>>

(* A thread that was told to quit ends and deletes itself and its worker. *)
threadFinished(w) ==
  /\ threads[w] = "quitting" /\ threads' = [threads EXCEPT ![w] = "deleted"]
  /\ UNCHANGED <<pc, turn, now, tStatus, startTime, timeIntervals, missed, tracking, downloadStartTime, deadline,
                 results, reports, aborted>>

Step ==
  \/ prepare \/ start \/ startThreads \/ startTCPConnection \/ startDownload
  \/ timeout \/ Tick
  \/ \E w \in Workers : read(w) \/ disconnected(w) \/ threadFinished(w)
Next == Step /\ UNCHANGED slotLength

(* The event loop, the lookup and the waits with their timeouts go on, and so do the threads. *)
Fairness ==
  /\ WF_vars(Next /\ (start \/ startThreads \/ startTCPConnection \/ startDownload \/ timeout \/ Tick))
  /\ \A w \in Workers : WF_vars(Next /\ threadFinished(w))
Spec == Init /\ [][Next]_vars /\ Fairness

-----------------------------------------------------------------------------
(* Properties *)

(* Values of the right type; the counters stay within the number of threads. *)
TypeOK ==
  /\ tStatus \in [Workers -> WorkerStatus] /\ now \in 0..(MaxTime + RampUp + Target)
  /\ connectedThreads + unconnectedThreads \in 0..Threads
  /\ downloadingThreads + notDownloadingThreads \in 0..Threads
  /\ finishedThreads \in 0..connectedThreads
  /\ \A w \in Workers : threads[w] \in {"none", "running", "quitting", "deleted"}

(* finished() is reported only with results that were computed over a known *)
(* measuring window and count exactly the workers that were told apart as   *)
(* downloading when they got their first byte: at least one, whoever was    *)
(* disconnected since, and each with a read (runTimeInNs() takes the last). *)
FinishedMeansData ==
  reports = <<"finished">> =>
    /\ downloadStartTime # Unset
    /\ results.threads = downloadingThreads /\ downloadingThreads > 0
    /\ \A w \in Workers : tStatus[w] = "FinishedSuccess" => timeIntervals[w] # <<>>

(* The slots of a worker are a prefix of its reads cut into pieces: no byte *)
(* is counted in two slots, none is left out between them, whatever the     *)
(* gaps between the reads are and even when the slot length overflows.      *)
SlotsPartition ==
  \A w \in Workers :
    LET whole == FlattenSeq(measurementSlots(timeIntervals[w])) IN
    whole = [k \in 1..Len(whole) |-> k] /\ Len(whole) <= Len(timeIntervals[w])

(* The end is reported once, though the timer is never stopped, and a       *)
(* measurement that has results to report never destroys a running thread   *)
(* (one that ends with an error can: it is deleted with its threads).       *)
ReportedOnce ==
  /\ Len(reports) <= 1 /\ (reports # <<>> => pc = "over")
  /\ aborted => reports = <<"error">>

(* A measurement that was started reports its end, and then no QThread of a *)
(* worker is left running.                                                  *)
Ends ==
  (pc = "lookup") ~> (reports # <<>> /\ \A w \in Workers : threads[w] \in {"none", "deleted"})
=============================================================================
