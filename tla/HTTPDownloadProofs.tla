------------------------ MODULE HTTPDownloadProofs ------------------------
(* Proofs of the safety properties of HTTPDownload, for every number of     *)
(* workers, every ramp-up and target time and every interleaving of reads,  *)
(* disconnections and the timer.                                            *)
EXTENDS HTTPDownload, FiniteSetTheorems, SequenceTheorems, WellFoundedInduction, TLAPS

(***************************************************************************)
(* The inductive invariant.  Every answer of the workers is counted twice: *)
(* in a counter of the measurement and in the worker's status.  The two    *)
(* are compared in prematureDisconnectedTracking (finishedThreads with     *)
(* connectedThreads) and in the results (the workers that succeeded), so   *)
(* the invariant has to tie each counter to the set of workers it counts.  *)
(***************************************************************************)
Downloaded == {w \in Workers : tStatus[w] \in {"DownloadInProgress", "FinishedSuccess"}}
Disconnected == {w \in Workers : tStatus[w] = "FinishedSuccess"}
Connected == {w \in Workers : tStatus[w] \in {"ConnectedTCP", "DownloadInProgress", "FinishedSuccess"}}

LastInstant == MaxTime + RampUp + Target

Shape ==
  /\ pc \in {"new", "prepared", "refused", "lookup", "connect", "first", "running", "over"}
  /\ now \in 0..LastInstant /\ turn \in Nat \ {0}
  /\ tStatus \in [Workers -> WorkerStatus] /\ startTime \in [Workers -> Nat]
  /\ timeIntervals \in [Workers -> Seq(Int)]
  /\ threads \in [Workers -> {"none", "running", "quitting", "deleted"}]

Sums ==
  /\ connectedThreads \in Nat /\ unconnectedThreads \in Nat /\ finishedThreads \in Nat
  /\ downloadingThreads \in Nat /\ notDownloadingThreads \in Nat
  /\ connectedThreads + unconnectedThreads <= Threads
  /\ downloadingThreads + notDownloadingThreads <= Threads
  /\ finishedThreads <= connectedThreads

Counts ==
  /\ Cardinality(Connected) <= connectedThreads
  /\ Cardinality(Downloaded) = downloadingThreads
  /\ Cardinality(Disconnected) = finishedThreads
  /\ \A w \in Downloaded : timeIntervals[w] # <<>>

Phases ==
  /\ pc # "running" => now <= MaxTime /\ turn <= Threads
  /\ pc \in {"new", "prepared", "refused", "lookup"} =>
       turn = 1 /\ connectedThreads + unconnectedThreads = 0
  /\ pc \in {"new", "prepared", "refused", "lookup", "connect"} =>
       downloadingThreads + notDownloadingThreads = 0
  /\ pc = "connect" => connectedThreads + unconnectedThreads = turn - 1
  /\ pc = "first" =>
       /\ downloadingThreads + notDownloadingThreads = turn - 1
       /\ \A w \in Downloaded : w < turn
  /\ pc = "running" =>
       /\ downloadingThreads > 0 /\ downloadStartTime # Unset
       /\ deadline \in Nat /\ deadline <= LastInstant

Reported ==
  /\ pc # "over" => reports = <<>> /\ aborted = FALSE
  /\ pc = "over" => reports \in {<<"finished">>, <<"error">>}
  /\ aborted => reports = <<"error">>

HInv == /\ Shape /\ Sums /\ Reported
        /\ pc # "over" => Counts /\ Phases
        /\ FinishedMeansData

-----------------------------------------------------------------------------
(* The numbers of the definition, and the workers they stand for. *)
LEMMA Numbers ==
  /\ Threads \in Nat \ {0} /\ Target \in Nat \ {0} /\ RampUp \in Nat /\ MaxTime \in Nat
  /\ LastInstant \in Nat /\ MaxTime <= LastInstant
<1>1. Threads \in Nat \ {0} /\ Target \in Nat \ {0}
  BY HTTPConstants, Zenon
<1>2. RampUp \in Nat /\ MaxTime \in Nat
  BY HTTPConstants, Zenon
<1> QED BY <1>1, <1>2 DEF LastInstant

(* When not all of the workers answered no, one answered yes. *)
LEMMA SomeYes ==
  ASSUME NEW yes \in Nat, NEW no \in Nat, yes + no = Threads, no # Threads
  PROVE  yes > 0
BY Numbers

(* The measuring window of a download that begins within the bound of the clock. *)
LEMMA Window ==
  ASSUME NEW t \in Nat, t <= MaxTime
  PROVE  t + RampUp # Unset /\ t + RampUp + Target \in Nat /\ t + RampUp + Target <= LastInstant
BY Numbers DEF Unset, LastInstant

(* Sets of workers are finite, and counting them gives a natural number. *)
LEMMA WorkersFinite ==
  ASSUME NEW S \in SUBSET Workers
  PROVE  IsFiniteSet(S) /\ Cardinality(S) \in Nat
<1>1. IsFiniteSet(Workers)
  <2>1. 1 \in Int /\ Threads \in Int
    BY Numbers
  <2> QED BY <2>1, FS_Interval DEF Workers
<1>2. IsFiniteSet(S)
  BY <1>1, FS_Subset
<1> QED BY <1>2, FS_CardinalityType

(* One more worker makes the number of workers one more. *)
LEMMA OneMore ==
  ASSUME NEW S \in SUBSET Workers, NEW w \in Workers
  PROVE  /\ w \notin S => Cardinality(S \cup {w}) = Cardinality(S) + 1
         /\ Cardinality(S \cup {w}) <= Cardinality(S) + 1
<1>1. IsFiniteSet(S) /\ Cardinality(S) \in Nat
  BY WorkersFinite
<1>2. w \notin S => Cardinality(S \cup {w}) = Cardinality(S) + 1
  BY <1>1, FS_AddElement
<1>3. CASE w \in S
  <2>1. S \cup {w} = S
    BY <1>3
  <2>2. Cardinality(S) <= Cardinality(S) + 1
    BY <1>1
  <2> QED BY <1>3, <2>1, <2>2
<1>4. CASE w \notin S
  <2>1. Cardinality(S) + 1 <= Cardinality(S) + 1
    BY <1>1
  <2> QED BY <1>2, <1>4, <2>1
<1> QED BY <1>3, <1>4

(* Fewer workers, smaller number. *)
LEMMA Fewer ==
  ASSUME NEW S \in SUBSET Workers, NEW T \in SUBSET S
  PROVE  Cardinality(T) <= Cardinality(S)
BY WorkersFinite, FS_Subset

(* The sets of workers that are counted are sets of workers. *)
LEMMA CountedSets ==
  /\ Downloaded \in SUBSET Workers /\ Disconnected \in SUBSET Workers /\ Connected \in SUBSET Workers
  /\ Disconnected \subseteq Downloaded /\ Downloaded \subseteq Connected
BY DEF Downloaded, Disconnected, Connected

(* What the first status of a worker, or the one after its first byte, does to the sets. *)
LEMMA StatusSet ==
  ASSUME tStatus \in [Workers -> WorkerStatus], NEW w \in Workers, w \notin Downloaded,
         NEW st \in {"ConnectedTCP", "DownloadInProgress", "FinishedError"},
         tStatus' = [tStatus EXCEPT ![w] = st]
  PROVE  /\ tStatus' \in [Workers -> WorkerStatus] /\ tStatus'[w] = st
         /\ Disconnected' = Disconnected
         /\ st # "DownloadInProgress" => Downloaded' = Downloaded
         /\ st = "DownloadInProgress" => Downloaded' = Downloaded \cup {w}
         /\ st = "FinishedError" => Connected' \subseteq Connected
         /\ Connected' \subseteq Connected \cup {w}
         /\ st = "DownloadInProgress" /\ tStatus[w] = "ConnectedTCP" => Connected' = Connected
<1>1. /\ tStatus' \in [Workers -> WorkerStatus]
      /\ \A v \in Workers : tStatus'[v] = IF v = w THEN st ELSE tStatus[v]
  BY DEF WorkerStatus
<1>2. tStatus[w] # "DownloadInProgress" /\ tStatus[w] # "FinishedSuccess"
  BY DEF Downloaded
<1> QED BY <1>1, <1>2 DEF Downloaded, Disconnected, Connected

-----------------------------------------------------------------------------
(* error(): the one report of the measurement, and no results are promised. *)
LEMMA ErrorReported ==
  ASSUME Reported, pc # "over", fail
  PROVE  /\ pc' = "over" /\ Reported' /\ FinishedMeansData'
         /\ threads' \in [Workers -> {"none", "running", "quitting", "deleted"}]
<1>1. reports' = <<"error">> /\ pc' = "over" /\ threads' = [w \in Workers |-> "deleted"]
  BY DEF fail, Reported
<1>2. reports' # <<"finished">>
  <2>1. <<"error">>[1] # <<"finished">>[1]
    OBVIOUS
  <2> QED BY <1>1, <2>1
<1> QED BY <1>1, <1>2 DEF Reported, FinishedMeansData

(* downloadFinished(): the one report, with the results of every worker that downloaded. *)
LEMMA ResultsReported ==
  ASSUME Shape, Reported, Counts, Phases, pc = "running",
         NEW st \in [Workers -> WorkerStatus], downloadFinished(st),
         {w \in Workers : st[w] \in {"DownloadInProgress", "FinishedSuccess"}} = Downloaded,
         UNCHANGED <<timeIntervals, downloadStartTime, downloadingThreads>>
  PROVE  /\ pc' = "over" /\ Reported' /\ FinishedMeansData'
         /\ tStatus' \in [Workers -> WorkerStatus]
         /\ threads' \in [Workers -> {"none", "running", "quitting", "deleted"}]
<1>1. reports' = <<"finished">> /\ pc' = "over" /\ aborted' = FALSE
  BY DEF downloadFinished, Reported
<1>2. tStatus' = [w \in Workers |-> IF st[w] = "DownloadInProgress" THEN "FinishedSuccess" ELSE st[w]]
  BY DEF downloadFinished
<1>3. tStatus' \in [Workers -> WorkerStatus]
  BY <1>2 DEF WorkerStatus
<1>4. Disconnected' = Downloaded
  BY <1>2 DEF Disconnected
<1>5. results'.threads = Cardinality(Disconnected')
  BY DEF downloadFinished, calculateResults, Disconnected
<1>6. threads' \in [Workers -> {"none", "running", "quitting", "deleted"}]
  BY DEF downloadFinished, quit, Shape
<1>7. FinishedMeansData'
  <2>1. downloadStartTime' # Unset /\ downloadingThreads' > 0
    BY DEF Phases, Unset
  <2>2. results'.threads = downloadingThreads'
    BY <1>4, <1>5 DEF Counts
  <2>3. \A w \in Workers : tStatus'[w] = "FinishedSuccess" => timeIntervals'[w] # <<>>
    BY <1>4 DEF Counts, Disconnected
  <2> QED BY <2>1, <2>2, <2>3 DEF FinishedMeansData, Unset
<1> QED BY <1>1, <1>3, <1>6, <1>7 DEF Reported

(* A step that leaves the status and the reads of the workers alone leaves the counts alone. *)
LEMMA CountsKept ==
  ASSUME Counts, UNCHANGED <<tStatus, timeIntervals, tracking>>
  PROVE  Counts' /\ Downloaded' = Downloaded
BY DEF Counts, Downloaded, Disconnected, Connected, tracking

(* A new measurement: nobody is connected. *)
LEMMA InitHInv == Init => HInv
<1> SUFFICES ASSUME Init PROVE HInv
  OBVIOUS
<1>1. Shape
  <2>1. <<>> \in Seq(Int) /\ 0 \in 0..LastInstant
    BY Numbers
  <2> QED BY <2>1 DEF Init, Shape, WorkerStatus
<1>2. Connected = {} /\ Downloaded = {} /\ Disconnected = {}
  BY DEF Init, Connected, Downloaded, Disconnected
<1>3. Counts
  BY <1>2, FS_EmptySet DEF Init, Counts
<1>4. Sums /\ Phases
  BY Numbers DEF Init, Sums, Phases
<1>5. <<>> # <<"finished">>
  OBVIOUS
<1> QED BY <1>1, <1>3, <1>4, <1>5 DEF HInv, Reported, FinishedMeansData, Init

(* The steps before the workers are asked to connect. *)
LEMMA StepStart ==
  ASSUME HInv, prepare \/ start \/ startThreads
  PROVE  HInv'
<1>0. Shape /\ Sums /\ Reported /\ Counts /\ Phases /\ pc # "over"
  BY DEF HInv, prepare, start, startThreads
<1>1. UNCHANGED <<turn, now, tStatus, startTime, timeIntervals, tracking, downloadStartTime, deadline, results>>
  BY DEF prepare, start, startThreads
<1>2. Counts' /\ Downloaded' = Downloaded
  BY <1>0, <1>1, CountsKept
<1>3. Sums'
  BY <1>0, <1>1 DEF Sums, tracking
<1>4. CASE fail /\ pc = "lookup"
  <2>1. pc' = "over" /\ Reported' /\ FinishedMeansData'
        /\ threads' \in [Workers -> {"none", "running", "quitting", "deleted"}]
    BY <1>0, <1>4, ErrorReported
  <2>2. Shape'
    BY <1>0, <1>1, <2>1 DEF Shape
  <2> QED BY <1>3, <2>1, <2>2 DEF HInv
<1>5. CASE /\ pc' \in {"prepared", "refused", "lookup", "connect"}
           /\ pc \in {"new", "prepared", "lookup"}
           /\ threads' \in {threads, [w \in Workers |-> "running"]}
           /\ UNCHANGED <<reports, aborted>>
  <2>1. Shape'
    BY <1>0, <1>1, <1>5 DEF Shape
  <2>2. Reported' /\ FinishedMeansData'
    <3>1. reports' = <<>> /\ <<>> # <<"finished">>
      BY <1>0, <1>5 DEF Reported
    <3> QED BY <1>0, <1>5, <3>1 DEF Reported, FinishedMeansData
  <2>3. Phases'
    BY <1>0, <1>1, <1>2, <1>5 DEF Phases, tracking, Shape, Sums
  <2> QED BY <1>2, <1>3, <2>1, <2>2, <2>3 DEF HInv
<1> QED BY <1>4, <1>5 DEF prepare, start, startThreads

(* A worker answers whether it is connected; after the last answer the download starts. *)
LEMMA StepConnect == ASSUME HInv, startTCPConnection PROVE HInv'
<1>0. Shape /\ Sums /\ Reported /\ Counts /\ Phases /\ pc = "connect"
  BY DEF HInv, startTCPConnection
<1>1. PICK ok \in BOOLEAN :
        /\ tStatus' = [tStatus EXCEPT ![turn] = IF ok THEN "ConnectedTCP" ELSE "FinishedError"]
        /\ TCPConnectionTracking(ok)
        /\ UNCHANGED <<now, startTime, timeIntervals, missed, downloadStartTime, deadline, results>>
  BY DEF startTCPConnection
<1> DEFINE st == IF ok THEN "ConnectedTCP" ELSE "FinishedError"
           c == IF ok THEN 1 ELSE 0
           u == IF ok THEN 0 ELSE 1
<1>2. /\ turn \in Workers /\ connectedThreads + unconnectedThreads = turn - 1
      /\ downloadingThreads + notDownloadingThreads = 0 /\ now <= MaxTime
  BY <1>0, Numbers DEF Phases, Shape, Workers
<1>3. Downloaded = {} /\ Disconnected = {}
  <2>1. Cardinality(Downloaded) = 0
    BY <1>0, <1>2 DEF Counts, Sums
  <2>2. Downloaded = {}
    BY <2>1, CountedSets, WorkersFinite, FS_EmptySet
  <2> QED BY <2>2, CountedSets
<1>4. /\ tStatus' \in [Workers -> WorkerStatus]
      /\ Disconnected' = Disconnected /\ Downloaded' = Downloaded
      /\ ~ok => Connected' \subseteq Connected
      /\ Connected' \subseteq Connected \cup {turn}
  <2>1. st \in {"ConnectedTCP", "DownloadInProgress", "FinishedError"} /\ st # "DownloadInProgress"
        /\ (~ok => st = "FinishedError") /\ tStatus' = [tStatus EXCEPT ![turn] = st]
        /\ turn \notin Downloaded /\ tStatus \in [Workers -> WorkerStatus]
    BY <1>0, <1>1, <1>3 DEF Shape
  <2> HIDE DEF st
  <2> QED BY <1>2, <2>1, StatusSet
<1>5. /\ connectedThreads' = connectedThreads + c /\ unconnectedThreads' = unconnectedThreads + u
      /\ UNCHANGED <<downloadingThreads, notDownloadingThreads, finishedThreads>>
      /\ \/ turn' = turn + 1 /\ UNCHANGED ending /\ connectedThreads' + unconnectedThreads' # Threads
         \/ fail /\ UNCHANGED turn
         \/ pc' = "first" /\ turn' = 1 /\ UNCHANGED <<reports, threads, aborted>>
  BY <1>1 DEF TCPConnectionTracking
<1>6. /\ connectedThreads' + unconnectedThreads' = turn
      /\ connectedThreads' \in Nat /\ unconnectedThreads' \in Nat
      /\ connectedThreads <= connectedThreads'
  <2>1. c \in 0..1 /\ u = 1 - c
    OBVIOUS
  <2> HIDE DEF c, u
  <2>2. turn \in Nat
    BY <1>0 DEF Shape
  <2> QED BY <1>0, <1>2, <1>5, <2>1, <2>2 DEF Sums
<1>7. Sums'
  BY <1>0, <1>2, <1>5, <1>6, Numbers DEF Sums, Workers
<1>8. Counts'
  <2>1. Cardinality(Connected') <= connectedThreads'
    <3>1. CASE ok
      <4>1. Cardinality(Connected \cup {turn}) <= Cardinality(Connected) + 1
            /\ Cardinality(Connected') <= Cardinality(Connected \cup {turn})
        <5>1. Connected \cup {turn} \in SUBSET Workers /\ Connected' \in SUBSET (Connected \cup {turn})
          BY <1>2, <1>4, CountedSets
        <5> QED BY <1>2, <5>1, CountedSets, OneMore, Fewer
      <4>2. Cardinality(Connected) \in Nat /\ Cardinality(Connected \cup {turn}) \in Nat
            /\ Cardinality(Connected') \in Nat
        <5>1. Connected \cup {turn} \in SUBSET Workers /\ Connected' \in SUBSET Workers
          BY <1>2, <1>4, CountedSets
        <5> QED BY <5>1, CountedSets, WorkersFinite
      <4> QED BY <1>0, <1>5, <3>1, <4>1, <4>2 DEF Counts, Sums
    <3>2. CASE ~ok
      <4>1. Cardinality(Connected') <= Cardinality(Connected)
        BY <1>4, <3>2, CountedSets, Fewer
      <4>2. Cardinality(Connected) \in Nat /\ Cardinality(Connected') \in Nat
        <5>1. Connected' \in SUBSET Workers
          BY <1>4, <3>2, CountedSets
        <5> QED BY <5>1, CountedSets, WorkersFinite
      <4> QED BY <1>0, <1>6, <4>1, <4>2 DEF Counts, Sums
    <3> QED BY <1>1, <3>1, <3>2
  <2> QED BY <1>0, <1>1, <1>3, <1>4, <1>5, <2>1 DEF Counts
<1>9. CASE fail /\ UNCHANGED turn
  <2>1. pc' = "over" /\ Reported' /\ FinishedMeansData'
        /\ threads' \in [Workers -> {"none", "running", "quitting", "deleted"}]
    BY <1>0, <1>9, ErrorReported
  <2>2. Shape'
    BY <1>0, <1>1, <1>4, <1>9, <2>1 DEF Shape
  <2> QED BY <1>7, <2>1, <2>2 DEF HInv
<1>10. CASE /\ UNCHANGED <<reports, threads, aborted>>
            /\ \/ pc' = "first" /\ turn' = 1
               \/ pc' = "connect" /\ turn' = turn + 1 /\ connectedThreads' + unconnectedThreads' # Threads
  <2>1. Shape'
    BY <1>0, <1>1, <1>4, <1>10 DEF Shape
  <2>2. Reported' /\ FinishedMeansData'
    <3>1. reports' = <<>> /\ <<>> # <<"finished">>
      BY <1>0, <1>10 DEF Reported
    <3> QED BY <1>0, <1>10, <3>1 DEF Reported, FinishedMeansData
  <2>3. Phases'
    <3>1. CASE pc' = "first" /\ turn' = 1
      BY <1>0, <1>1, <1>2, <1>3, <1>4, <1>5, <3>1, Numbers DEF Phases
    <3>2. CASE pc' = "connect" /\ turn' = turn + 1 /\ connectedThreads' + unconnectedThreads' # Threads
      <4>1. turn + 1 <= Threads
        <5>1. turn # Threads
          BY <1>6, <3>2
        <5> QED BY <1>2, <5>1, Numbers DEF Workers
      <4> QED BY <1>0, <1>1, <1>2, <1>5, <1>6, <3>2, <4>1, Numbers DEF Phases, Workers
    <3> QED BY <1>10, <3>1, <3>2
  <2> QED BY <1>7, <1>8, <2>1, <2>2, <2>3 DEF HInv
<1> QED BY <1>0, <1>5, <1>9, <1>10 DEF ending

(***************************************************************************)
(* A worker tells whether its download began.  The timer is started after  *)
(* the last answer, and only when one of them was yes.                     *)
(***************************************************************************)
LEMMA StepFirst == ASSUME HInv, startDownload PROVE HInv'
<1>0. Shape /\ Sums /\ Reported /\ Counts /\ Phases /\ pc = "first" /\ UNCHANGED results
  BY DEF HInv, startDownload
<1>1. /\ turn \in Workers /\ turn \in Nat /\ turn <= Threads
      /\ downloadingThreads + notDownloadingThreads = turn - 1
      /\ turn \notin Downloaded /\ \A w \in Downloaded : w < turn
  BY <1>0, Numbers DEF Phases, Shape, Workers
<1> DEFINE Answered(d) ==
      /\ downloadingThreads' = downloadingThreads + d
      /\ notDownloadingThreads' = notDownloadingThreads + (1 - d)
      /\ UNCHANGED <<connectedThreads, unconnectedThreads, finishedThreads>>
      /\ \/ fail /\ UNCHANGED <<turn, downloadStartTime, deadline>>
         \/ /\ pc' = "first" /\ turn' = turn + 1 /\ UNCHANGED <<reports, threads, aborted>>
            /\ downloadingThreads' + notDownloadingThreads' # Threads
         \/ /\ pc' = "running" /\ UNCHANGED <<turn, reports, threads, aborted>>
            /\ downloadStartTime' = now' + RampUp /\ deadline' = now' + RampUp + Target
            /\ downloadingThreads' + notDownloadingThreads' = Threads /\ notDownloadingThreads' # Threads
<1>2. PICK d \in 0..1, st \in {"DownloadInProgress", "FinishedError"} :
        /\ tStatus' = [tStatus EXCEPT ![turn] = st]
        /\ d = 1 <=> st = "DownloadInProgress"
        /\ d = 1 => tStatus[turn] = "ConnectedTCP" /\ timeIntervals'[turn] # <<>>
        /\ now' \in Nat /\ now' <= MaxTime /\ startTime' \in [Workers -> Nat]
        /\ timeIntervals' \in [Workers -> Seq(Int)]
        /\ \A w \in Workers : w # turn => timeIntervals'[w] = timeIntervals[w]
        /\ Answered(d)
  <2>1. CASE noByte
    <3>1. now \in Nat /\ now <= MaxTime
      BY <1>0, Numbers DEF Shape, Phases
    <3>2. Answered(0)
      BY <1>0, <2>1 DEF noByte, downloadStartedTracking, ending
    <3> HIDE DEF Answered
    <3> QED BY <1>0, <2>1, <3>1, <3>2 DEF noByte, Shape
  <2>2. ASSUME NEW wait \in 0..1, NEW code \in {200, 404}, NEW closed \in BOOLEAN,
               firstByte(wait, code, closed)
        PROVE  \E d \in 0..1, st \in {"DownloadInProgress", "FinishedError"} :
                 /\ tStatus' = [tStatus EXCEPT ![turn] = st]
                 /\ d = 1 <=> st = "DownloadInProgress"
                 /\ tStatus[turn] = "ConnectedTCP" /\ timeIntervals'[turn] # <<>>
                 /\ now' \in Nat /\ now' <= MaxTime /\ startTime' \in [Workers -> Nat]
                 /\ timeIntervals' \in [Workers -> Seq(Int)]
                 /\ \A w \in Workers : w # turn => timeIntervals'[w] = timeIntervals[w]
                 /\ Answered(d)
    <3>1. now \in Nat /\ <<wait>> \in Seq(Int) /\ <<wait>> # <<>>
      BY <1>0, Numbers DEF Shape
    <3>2. now' \in Nat /\ now' <= MaxTime
      BY <2>2, <3>1, Numbers DEF firstByte
    <3>3. startTime' \in [Workers -> Nat]
      BY <1>0, <2>2, <3>1 DEF firstByte, Shape
    <3>4. /\ timeIntervals' \in [Workers -> Seq(Int)] /\ timeIntervals'[turn] # <<>>
          /\ \A w \in Workers : w # turn => timeIntervals'[w] = timeIntervals[w]
      <4> DEFINE first == <<wait>>
      <4>1. first \in Seq(Int) /\ first # <<>> /\ timeIntervals' = [timeIntervals EXCEPT ![turn] = first]
        BY <2>2, <3>1 DEF firstByte
      <4> HIDE DEF first
      <4> QED BY <1>0, <1>1, <4>1 DEF Shape
    <3>5. CASE code = 200
      <4>1. Answered(1)
        BY <1>0, <2>2, <3>5 DEF firstByte, downloadStartedTracking, ending
      <4>2. tStatus' = [tStatus EXCEPT ![turn] = "DownloadInProgress"] /\ tStatus[turn] = "ConnectedTCP"
        BY <2>2, <3>5 DEF firstByte
      <4> HIDE DEF Answered
      <4> QED BY <3>2, <3>3, <3>4, <4>1, <4>2
    <3>6. CASE code = 404
      <4>1. Answered(0)
        BY <1>0, <2>2, <3>6 DEF firstByte, downloadStartedTracking, ending
      <4>2. tStatus' = [tStatus EXCEPT ![turn] = "FinishedError"] /\ tStatus[turn] = "ConnectedTCP"
        BY <2>2, <3>6 DEF firstByte
      <4> HIDE DEF Answered
      <4> QED BY <3>2, <3>3, <3>4, <4>1, <4>2
    <3> QED BY <3>5, <3>6
  <2> HIDE DEF Answered
  <2> QED BY <2>1, <2>2 DEF startDownload
<1>3. /\ tStatus' \in [Workers -> WorkerStatus] /\ Disconnected' = Disconnected
      /\ d = 0 => Downloaded' = Downloaded /\ Connected' \subseteq Connected
      /\ d = 1 => Downloaded' = Downloaded \cup {turn} /\ Connected' = Connected
  <2>1. /\ tStatus \in [Workers -> WorkerStatus] /\ st \in {"ConnectedTCP", "DownloadInProgress", "FinishedError"}
        /\ d = 0 => st = "FinishedError" /\ st # "DownloadInProgress"
        /\ d = 1 => st = "DownloadInProgress" /\ tStatus[turn] = "ConnectedTCP"
    BY <1>0, <1>2 DEF Shape
  <2> HIDE DEF Answered
  <2> QED BY <1>1, <1>2, <2>1, StatusSet
<1>4. /\ downloadingThreads' = downloadingThreads + d
      /\ notDownloadingThreads' = notDownloadingThreads + (1 - d)
      /\ UNCHANGED <<connectedThreads, unconnectedThreads, finishedThreads>>
  BY <1>2
<1>5. /\ downloadingThreads' + notDownloadingThreads' = turn
      /\ downloadingThreads' \in Nat /\ notDownloadingThreads' \in Nat
  BY <1>0, <1>1, <1>4 DEF Sums
<1>6. Sums'
  BY <1>0, <1>1, <1>4, <1>5 DEF Sums
<1>7. Counts'
  <2>1. Cardinality(Connected') <= connectedThreads'
    <3>1. Connected' \in SUBSET Connected /\ Connected' \in SUBSET Workers
      BY <1>3, CountedSets
    <3>2. Cardinality(Connected') <= Cardinality(Connected) /\ Cardinality(Connected) \in Nat
          /\ Cardinality(Connected') \in Nat
      BY <3>1, CountedSets, Fewer, WorkersFinite
    <3> QED BY <1>0, <1>4, <3>2 DEF Counts, Sums
  <2>2. Cardinality(Downloaded') = downloadingThreads'
    <3>1. CASE d = 1
      <4>1. Cardinality(Downloaded \cup {turn}) = Cardinality(Downloaded) + 1
        BY <1>1, CountedSets, OneMore
      <4> QED BY <1>0, <1>3, <1>4, <3>1, <4>1 DEF Counts
    <3>2. CASE d = 0
      <4>1. downloadingThreads' = downloadingThreads
        BY <1>0, <1>4, <3>2 DEF Sums
      <4> QED BY <1>0, <1>3, <3>2, <4>1 DEF Counts
    <3> QED BY <3>1, <3>2
  <2>3. \A w \in Downloaded' : timeIntervals'[w] # <<>>
    <3> SUFFICES ASSUME NEW w \in Downloaded' PROVE timeIntervals'[w] # <<>>
      OBVIOUS
    <3>1. CASE d = 1 /\ w = turn
      BY <1>2, <3>1
    <3>2. CASE w \in Downloaded
      <4>1. w # turn /\ w \in Workers
        BY <1>1, <3>2, CountedSets
      <4> QED BY <1>0, <1>2, <3>2, <4>1 DEF Counts
    <3> QED BY <1>3, <3>1, <3>2
  <2> QED BY <1>0, <1>3, <1>4, <2>1, <2>2, <2>3 DEF Counts
<1>8. /\ now' \in 0..LastInstant /\ startTime' \in [Workers -> Nat]
      /\ timeIntervals' \in [Workers -> Seq(Int)]
  BY <1>2, Numbers
<1>9. \/ fail /\ UNCHANGED <<turn, downloadStartTime, deadline>>
      \/ /\ pc' = "first" /\ turn' = turn + 1 /\ UNCHANGED <<reports, threads, aborted>>
         /\ downloadingThreads' + notDownloadingThreads' # Threads
      \/ /\ pc' = "running" /\ UNCHANGED <<turn, reports, threads, aborted>>
         /\ downloadStartTime' = now' + RampUp /\ deadline' = now' + RampUp + Target
         /\ downloadingThreads' + notDownloadingThreads' = Threads /\ notDownloadingThreads' # Threads
  BY <1>2
<1>10. CASE fail /\ UNCHANGED <<turn, downloadStartTime, deadline>>
  <2>1. pc' = "over" /\ Reported' /\ FinishedMeansData'
        /\ threads' \in [Workers -> {"none", "running", "quitting", "deleted"}]
    BY <1>0, <1>10, ErrorReported
  <2>2. Shape'
    BY <1>0, <1>3, <1>8, <1>10, <2>1 DEF Shape
  <2> QED BY <1>6, <2>1, <2>2 DEF HInv
<1>11. ASSUME UNCHANGED <<reports, threads, aborted>>, pc' \in {"first", "running"},
              turn' \in {turn, turn + 1}
       PROVE  Shape' /\ Reported' /\ FinishedMeansData'
  <2>1. Shape'
    BY <1>0, <1>1, <1>3, <1>8, <1>11 DEF Shape
  <2>2. reports' = <<>> /\ <<>> # <<"finished">>
    BY <1>0, <1>11 DEF Reported
  <2> QED BY <1>0, <1>11, <2>1, <2>2 DEF Reported, FinishedMeansData
<1>12. CASE /\ pc' = "first" /\ turn' = turn + 1 /\ UNCHANGED <<reports, threads, aborted>>
            /\ downloadingThreads' + notDownloadingThreads' # Threads
  <2>1. turn + 1 <= Threads
    <3>1. turn # Threads
      BY <1>5, <1>12
    <3> QED BY <1>1, <3>1, Numbers
  <2>2. \A w \in Downloaded' : w < turn'
    <3>1. \A w \in Downloaded' : w \in Downloaded \/ w = turn
      BY <1>3
    <3>2. \A w \in Downloaded : w \in Nat
      BY CountedSets, Numbers DEF Workers
    <3> QED BY <1>1, <1>12, <3>1, <3>2
  <2>3. downloadingThreads' + notDownloadingThreads' = turn' - 1
    <3>1. (turn + 1) - 1 = turn
      BY <1>1
    <3> QED BY <1>5, <1>12, <3>1
  <2>4. Phases'
    BY <1>2, <1>12, <2>1, <2>2, <2>3 DEF Phases
  <2> QED BY <1>6, <1>7, <1>11, <1>12, <2>4 DEF HInv
<1>13. CASE /\ pc' = "running" /\ UNCHANGED <<turn, reports, threads, aborted>>
            /\ downloadStartTime' = now' + RampUp /\ deadline' = now' + RampUp + Target
            /\ downloadingThreads' + notDownloadingThreads' = Threads /\ notDownloadingThreads' # Threads
  <2>1. downloadingThreads' > 0
    <3>1. downloadingThreads' + notDownloadingThreads' = Threads /\ notDownloadingThreads' # Threads
      BY <1>13
    <3> QED BY <1>5, <3>1, SomeYes
  <2>2. downloadStartTime' # Unset /\ deadline' \in Nat /\ deadline' <= LastInstant
    <3>1. now' \in Nat /\ now' <= MaxTime
      BY <1>2
    <3>2. downloadStartTime' = now' + RampUp /\ deadline' = now' + RampUp + Target
      BY <1>13
    <3> QED BY <3>1, <3>2, Window
  <2>3. Phases'
    BY <1>13, <2>1, <2>2 DEF Phases, Unset, LastInstant
  <2> QED BY <1>6, <1>7, <1>11, <1>13, <2>3 DEF HInv
<1> QED BY <1>9, <1>10, <1>12, <1>13

(* Reads, the clock and the end of a thread leave the counts alone. *)
LEMMA StepQuiet ==
  ASSUME HInv, Tick \/ \E w \in Workers : read(w) \/ threadFinished(w)
  PROVE  HInv'
<1>0. Shape /\ Sums /\ Reported /\ (pc # "over" => Counts /\ Phases) /\ FinishedMeansData
  BY DEF HInv
<1>1. CASE Tick
  <2>1. pc = "running" /\ now < deadline /\ now' = now + 1
        /\ UNCHANGED <<pc, turn, tStatus, startTime, timeIntervals, missed, tracking, downloadStartTime,
                       deadline, threads, results, reports, aborted>>
    BY <1>1 DEF Tick
  <2>2. now' \in 0..LastInstant
    <3>1. now \in Nat /\ deadline \in Nat /\ deadline <= LastInstant
      BY <1>0, <2>1, Numbers DEF Shape, Phases
    <3> QED BY <2>1, <3>1, Numbers
  <2>3. Shape' /\ Sums' /\ Reported' /\ FinishedMeansData'
    BY <1>0, <2>1, <2>2 DEF Shape, Sums, tracking, Reported, FinishedMeansData
  <2>4. Counts' /\ Downloaded' = Downloaded
    BY <1>0, <2>1, CountsKept
  <2>5. Phases'
    BY <1>0, <2>1 DEF Phases, tracking
  <2> QED BY <2>3, <2>4, <2>5 DEF HInv
<1>2. ASSUME NEW w \in Workers, threadFinished(w) PROVE HInv'
  <2>1. /\ threads' = [threads EXCEPT ![w] = "deleted"]
        /\ UNCHANGED <<pc, turn, now, tStatus, startTime, timeIntervals, missed, tracking,
                       downloadStartTime, deadline, results, reports, aborted>>
    BY <1>2 DEF threadFinished
  <2>2. Shape' /\ Sums' /\ Reported' /\ FinishedMeansData'
    BY <1>0, <2>1 DEF Shape, Sums, tracking, Reported, FinishedMeansData
  <2>3. pc # "over" => Counts' /\ Downloaded' = Downloaded
    BY <1>0, <2>1, CountsKept
  <2>4. pc # "over" => Phases'
    BY <1>0, <2>1, <2>3 DEF Phases, tracking
  <2> QED BY <2>1, <2>2, <2>3, <2>4 DEF HInv
<1>3. ASSUME NEW w \in Workers, read(w) PROVE HInv'
  <2>1. /\ pc = "running"
        /\ timeIntervals' = [timeIntervals EXCEPT ![w] = Append(timeIntervals[w], now - startTime[w])]
        /\ UNCHANGED <<pc, turn, now, tStatus, startTime, missed, tracking, downloadStartTime,
                       deadline, threads, results, reports, aborted>>
    BY <1>3 DEF read
  <2> DEFINE rs == Append(timeIntervals[w], now - startTime[w])
  <2>2. rs \in Seq(Int) /\ rs # <<>>
    <3>1. timeIntervals[w] \in Seq(Int) /\ now - startTime[w] \in Int
      BY <1>0, Numbers DEF Shape
    <3> QED BY <3>1
  <2> HIDE DEF rs
  <2>3. /\ timeIntervals' \in [Workers -> Seq(Int)]
        /\ \A v \in Workers : timeIntervals'[v] = IF v = w THEN rs ELSE timeIntervals[v]
    BY <1>0, <2>1, <2>2 DEF Shape, rs
  <2>4. Shape' /\ Sums' /\ Reported'
    BY <1>0, <2>1, <2>3 DEF Shape, Sums, tracking, Reported
  <2>5. FinishedMeansData'
    <3>1. reports' = <<>> /\ <<>> # <<"finished">>
      BY <1>0, <2>1 DEF Reported
    <3> QED BY <3>1 DEF FinishedMeansData
  <2>6. Downloaded' = Downloaded /\ Connected' = Connected /\ Disconnected' = Disconnected
    BY <2>1 DEF Downloaded, Connected, Disconnected
  <2>7. Counts'
    BY <1>0, <2>1, <2>2, <2>3, <2>6, CountedSets DEF Counts, tracking
  <2>8. Phases'
    BY <1>0, <2>1, <2>6 DEF Phases, tracking
  <2> QED BY <2>4, <2>5, <2>7, <2>8 DEF HInv
<1> QED BY <1>1, <1>2, <1>3

(***************************************************************************)
(* The end of the measuring window, and the disconnection of a worker,     *)
(* which ends the measurement when it is the last of the connected ones.   *)
(***************************************************************************)
LEMMA StepEnd ==
  ASSUME HInv, timeout \/ \E w \in Workers : disconnected(w)
  PROVE  HInv'
<1>0. Shape /\ Sums /\ Reported /\ Counts /\ Phases /\ pc = "running"
  BY DEF HInv, timeout, disconnected
<1>1. CASE timeout
  <2>1. /\ downloadFinished(tStatus)
        /\ UNCHANGED <<turn, now, startTime, timeIntervals, tracking, downloadStartTime>>
    BY <1>1 DEF timeout
  <2>2. /\ pc' = "over" /\ Reported' /\ FinishedMeansData'
        /\ tStatus' \in [Workers -> WorkerStatus]
        /\ threads' \in [Workers -> {"none", "running", "quitting", "deleted"}]
    <3>1. tStatus \in [Workers -> WorkerStatus] /\ UNCHANGED downloadingThreads
      BY <1>0, <2>1 DEF Shape, tracking
    <3>2. {w \in Workers : tStatus[w] \in {"DownloadInProgress", "FinishedSuccess"}} = Downloaded
      BY DEF Downloaded
    <3> QED BY <1>0, <2>1, <3>1, <3>2, ResultsReported
  <2>3. Shape' /\ Sums'
    BY <1>0, <2>1, <2>2 DEF Shape, Sums, tracking
  <2> QED BY <2>2, <2>3 DEF HInv
<1>2. ASSUME NEW w \in Workers, disconnected(w) PROVE HInv'
  <2>1. UNCHANGED <<turn, now, startTime, timeIntervals, connectedThreads, unconnectedThreads,
                    downloadingThreads, notDownloadingThreads, downloadStartTime, deadline>>
    BY <1>2 DEF disconnected
  <2>2. CASE ~disconnectionHandling(w)
    <3>1. UNCHANGED <<pc, reports, threads, aborted, finishedThreads, tStatus, results>>
      BY <1>2, <2>2 DEF disconnected, ending
    <3>2. Shape' /\ Sums' /\ Reported'
      BY <1>0, <2>1, <3>1 DEF Shape, Sums, Reported
    <3>3. Counts' /\ Downloaded' = Downloaded
      BY <1>0, <2>1, <3>1, CountsKept DEF tracking
    <3>4. Phases'
      BY <1>0, <2>1, <3>1 DEF Phases
    <3>5. FinishedMeansData'
      <4>1. reports' = <<>> /\ <<>> # <<"finished">>
        BY <1>0, <3>1 DEF Reported
      <4> QED BY <4>1 DEF FinishedMeansData
    <3> QED BY <3>2, <3>3, <3>4, <3>5 DEF HInv
  <2>3. CASE disconnectionHandling(w)
    <3> DEFINE status == [tStatus EXCEPT ![w] = "FinishedSuccess"]
    <3>1. /\ tStatus[w] = "DownloadInProgress" /\ finishedThreads' = finishedThreads + 1
          /\ \/ finishedThreads' = connectedThreads /\ downloadFinished(status)
             \/ tStatus' = status /\ UNCHANGED <<pc, reports, threads, aborted, results>>
      BY <1>2, <2>3 DEF disconnected, disconnectionHandling, prematureDisconnectedTracking, ending
    <3>2. /\ status \in [Workers -> WorkerStatus]
          /\ \A v \in Workers : status[v] = IF v = w THEN "FinishedSuccess" ELSE tStatus[v]
      BY <1>0 DEF Shape, WorkerStatus
    <3> HIDE DEF status
    <3>3. finishedThreads + 1 <= connectedThreads /\ Cardinality(Disconnected \cup {w}) = finishedThreads + 1
      <4>1. w \notin Disconnected /\ Disconnected \cup {w} \in SUBSET Connected
        BY <3>1, CountedSets DEF Disconnected, Connected
      <4>2. Cardinality(Disconnected \cup {w}) = Cardinality(Disconnected) + 1
        BY <4>1, CountedSets, OneMore
      <4>3. Cardinality(Disconnected \cup {w}) <= Cardinality(Connected) /\ Cardinality(Connected) \in Nat
        BY <4>1, CountedSets, Fewer, WorkersFinite
      <4> QED BY <1>0, <4>2, <4>3 DEF Counts, Sums
    <3>4. Sums'
      BY <1>0, <2>1, <3>1, <3>3 DEF Sums
    <3>5. {v \in Workers : status[v] \in {"DownloadInProgress", "FinishedSuccess"}} = Downloaded
      BY <3>1, <3>2 DEF Downloaded
    <3>6. CASE downloadFinished(status)
      <4>1. /\ pc' = "over" /\ Reported' /\ FinishedMeansData'
            /\ tStatus' \in [Workers -> WorkerStatus]
            /\ threads' \in [Workers -> {"none", "running", "quitting", "deleted"}]
        BY <1>0, <2>1, <3>2, <3>5, <3>6, ResultsReported
      <4>2. Shape'
        BY <1>0, <2>1, <4>1 DEF Shape
      <4> QED BY <3>4, <4>1, <4>2 DEF HInv
    <3>7. CASE tStatus' = status /\ UNCHANGED <<pc, reports, threads, aborted, results>>
      <4>1. Shape' /\ Reported'
        BY <1>0, <2>1, <3>2, <3>7 DEF Shape, Reported
      <4>2. Downloaded' = Downloaded /\ Connected' = Connected /\ Disconnected' = Disconnected \cup {w}
        BY <3>1, <3>2, <3>7 DEF Downloaded, Connected, Disconnected
      <4>3. Counts'
        BY <1>0, <2>1, <3>1, <3>3, <4>2 DEF Counts
      <4>4. Phases'
        BY <1>0, <2>1, <3>7 DEF Phases
      <4>5. FinishedMeansData'
        <5>1. reports' = <<>> /\ <<>> # <<"finished">>
          BY <1>0, <3>7 DEF Reported
        <5> QED BY <5>1 DEF FinishedMeansData
      <4> QED BY <3>4, <4>1, <4>3, <4>4, <4>5 DEF HInv
    <3> QED BY <3>1, <3>6, <3>7
  <2> QED BY <2>2, <2>3
<1> QED BY <1>1, <1>2

(* Every step keeps the invariant. *)
LEMMA StepHInv == HInv /\ [Next]_vars => HInv'
<1> SUFFICES ASSUME HInv, [Next]_vars PROVE HInv'
  OBVIOUS
<1>1. CASE Next
  BY <1>1, StepStart, StepConnect, StepFirst, StepQuiet, StepEnd DEF Next, Step
<1>2. CASE UNCHANGED vars
  <2>1. UNCHANGED <<pc, turn, now, tStatus, startTime, timeIntervals, tracking, downloadStartTime,
                    deadline, threads, results, reports, aborted>>
    BY <1>2 DEF vars, tracking
  <2>2. Shape' /\ Sums' /\ Reported' /\ FinishedMeansData'
    BY <2>1 DEF HInv, Shape, Sums, tracking, Reported, FinishedMeansData
  <2>3. pc # "over" => Counts' /\ Downloaded' = Downloaded
    BY <2>1, CountsKept DEF HInv
  <2>4. pc # "over" => Phases'
    BY <2>1, <2>3 DEF HInv, Phases, tracking
  <2> QED BY <2>1, <2>2, <2>3, <2>4 DEF HInv
<1> QED BY <1>1, <1>2

(* The inductive invariant holds in every state of a download. *)
THEOREM Invariance == Spec => []HInv
BY InitHInv, StepHInv, PTL DEF Spec

(***************************************************************************)
(* The variables keep their types, and finishedThreads, which              *)
(* prematureDisconnectedTracking compares with connectedThreads for        *)
(* equality, never gets past it.                                           *)
(***************************************************************************)
THEOREM TypeCorrect == Spec => []TypeOK
<1>1. HInv => TypeOK
  BY Numbers DEF HInv, Shape, Sums, TypeOK, LastInstant
<1> QED BY <1>1, Invariance, PTL

(***************************************************************************)
(* However many workers there are and in whatever order they fail, finish  *)
(* or are disconnected: finished() comes with results over a known window  *)
(* that count exactly the workers that began to download, at least one.    *)
(***************************************************************************)
THEOREM FinishedWithData == Spec => []FinishedMeansData
<1>1. HInv => FinishedMeansData
  BY DEF HInv
<1> QED BY <1>1, Invariance, PTL

(***************************************************************************)
(* The measurement reports its end once, though its single-shot timer is   *)
(* never stopped, and destroys running threads only with an error.         *)
(***************************************************************************)
THEOREM OneReport == Spec => []ReportedOnce
<1>1. HInv => ReportedOnce
  <2>1. Len(<<>>) = 0 /\ Len(<<"finished">>) = 1 /\ Len(<<"error">>) = 1
    OBVIOUS
  <2>2. HInv => reports \in {<<>>, <<"finished">>, <<"error">>} /\ (reports # <<>> => pc = "over")
                /\ (aborted => reports = <<"error">>)
    BY Zenon DEF HInv, Reported
  <2>3. HInv => Len(reports) <= 1
    BY <2>1, <2>2
  <2> QED BY <2>2, <2>3, Zenon DEF ReportedOnce
<1> QED BY <1>1, Invariance, PTL

-----------------------------------------------------------------------------
(***************************************************************************)
(* measurementSlots(): an induction over the reads, stated with a set.     *)
(***************************************************************************)
LEMMA InductionOnSet ==
  ASSUME NEW T, 0 \in T, \A n \in Nat : n \in T => n + 1 \in T
  PROVE  \A n \in Nat : n \in T
<1> DEFINE R == OpToRel(<, Nat)
           M == Nat \ T
<1> SUFFICES ASSUME M # {} PROVE FALSE
  OBVIOUS
<1>1. IsWellFoundedOn(R, Nat)
  BY NatLessThanWellFounded
<1>2. \A x, y \in Nat : y < x => <<y, x>> \in R
  BY DEF OpToRel
<1> HIDE DEF R
<1>3. PICK x \in M : \A y \in M : ~(<<y, x>> \in R)
  <2>1. M \subseteq Nat
    OBVIOUS
  <2> HIDE DEF M
  <2> QED BY <1>1, <2>1, WFMin
<1>4. \A y \in Nat : y < x => y \in T
  BY <1>2, <1>3
<1>5. x # 0 /\ x - 1 \in Nat /\ x - 1 < x
  BY <1>3
<1>6. x - 1 \in T
  BY <1>3, <1>4, <1>5
<1> QED BY <1>3, <1>5, <1>6

(* What the i-th of the reads ts makes of the slots: it joins the open one, or closes it. *)
Cut(s, ts, i) ==
  LET next == s.limit + toInt(slotLength) IN
  IF ts[i] > s.limit /\ i # 1
  THEN [limit |-> IF ts[i] > next THEN ts[i] ELSE next, open |-> <<i>>, slots |-> Append(s.slots, s.open)]
  ELSE [s EXCEPT !.open = Append(@, i)]

Uncut == [limit |-> toInt(slotLength), open |-> <<>>, slots |-> <<>>]

(* g[i] is what measurementSlots() has made of the first i of the reads ts. *)
Cuts(g, ts, n) == g = [i \in 0..n |-> IF i = 0 THEN Uncut ELSE Cut(g[i - 1], ts, i)]

(* The recursion of measurementSlots() has a solution, for any number of reads. *)
LEMMA CutsExist ==
  ASSUME NEW ts
  PROVE  \A n \in Nat : \E g : Cuts(g, ts, n)
<1> DEFINE T == {n \in Nat : \E g : Cuts(g, ts, n)}
<1>1. 0 \in T
  <2> DEFINE g == [i \in 0..0 |-> Uncut]
  <2>1. g = [i \in 0..0 |-> IF i = 0 THEN Uncut ELSE Cut(g[i - 1], ts, i)]
    OBVIOUS
  <2> HIDE DEF g
  <2>2. Cuts(g, ts, 0)
    BY <2>1 DEF Cuts
  <2> QED BY <2>2
<1>2. ASSUME NEW n \in Nat, n \in T PROVE n + 1 \in T
  <2>1. PICK g : Cuts(g, ts, n)
    BY <1>2
  <2> DEFINE h == [i \in 0..(n + 1) |-> IF i = n + 1 THEN Cut(g[n], ts, n + 1) ELSE g[i]]
  <2>2. \A i \in 0..n : g[i] = IF i = 0 THEN Uncut ELSE Cut(g[i - 1], ts, i)
    BY <2>1 DEF Cuts
  <2>3. \A i \in 0..n : h[i] = g[i]
    OBVIOUS
  <2>4. h[n + 1] = Cut(g[n], ts, n + 1)
    OBVIOUS
  <2>5. ASSUME NEW i \in 0..(n + 1) PROVE h[i] = IF i = 0 THEN Uncut ELSE Cut(h[i - 1], ts, i)
    <3> HIDE DEF h
    <3>1. CASE i = n + 1
      <4>1. i - 1 = n /\ i # 0 /\ n \in 0..n
        BY <3>1
      <4>2. h[i - 1] = g[n]
        BY <2>3, <4>1
      <4> QED BY <2>4, <3>1, <4>1, <4>2
    <3>2. CASE i \in 0..n /\ i # 0
      <4>1. i - 1 \in 0..n
        BY <3>2
      <4>2. h[i] = g[i] /\ h[i - 1] = g[i - 1]
        BY <2>3, <3>2, <4>1
      <4> QED BY <2>2, <3>2, <4>2
    <3>3. CASE i = 0
      <4>1. h[0] = g[0] /\ g[0] = Uncut
        BY <2>2, <2>3
      <4> QED BY <3>3, <4>1
    <3> QED BY <3>1, <3>2, <3>3
  <2>6. h = [i \in 0..(n + 1) |-> IF i = 0 THEN Uncut ELSE Cut(h[i - 1], ts, i)]
    BY <2>5
  <2>7. Cuts(h, ts, n + 1)
    BY <2>6 DEF Cuts
  <2> QED BY <2>7
<1> HIDE DEF T
<1>3. \A n \in Nat : n \in T
  BY <1>1, <1>2, InductionOnSet
<1> QED BY <1>3 DEF T

(* measurementSlots() is what the recursion gives for all of the reads. *)
LEMMA SlotsCut ==
  ASSUME NEW ts, Len(ts) \in Nat
  PROVE  \E g : Cuts(g, ts, Len(ts)) /\ measurementSlots(ts) = g[Len(ts)].slots
<1> DEFINE k == CHOOSE g : Cuts(g, ts, Len(ts))
<1>1. Cuts(k, ts, Len(ts))
  BY CutsExist
<1>2. measurementSlots(ts) = k[Len(ts)].slots
  BY Zenon DEF measurementSlots, Cuts, Cut, Uncut
<1> QED BY <1>1, <1>2

(* g[i] is the concatenation of the first i of the sequences ss. *)
Joins(g, ss, n) == g = [i \in 1..n |-> IF i = 1 THEN ss[i] ELSE g[i - 1] \o ss[i]]

(* The recursion of FlattenSeq has a solution, for a list of any length. *)
LEMMA JoinsExist ==
  ASSUME NEW ss
  PROVE  \A n \in Nat : \E g : Joins(g, ss, n)
<1> DEFINE T == {n \in Nat : \E g : Joins(g, ss, n)}
<1>1. 0 \in T
  <2> DEFINE g == [i \in 1..0 |-> <<>>]
  <2>1. g = [i \in 1..0 |-> IF i = 1 THEN ss[i] ELSE g[i - 1] \o ss[i]]
    OBVIOUS
  <2> HIDE DEF g
  <2>2. Joins(g, ss, 0)
    BY <2>1 DEF Joins
  <2> QED BY <2>2
<1>2. ASSUME NEW n \in Nat, n \in T PROVE n + 1 \in T
  <2>1. PICK g : Joins(g, ss, n)
    BY <1>2
  <2> DEFINE last == IF n = 0 THEN ss[n + 1] ELSE g[n] \o ss[n + 1]
             h == [i \in 1..(n + 1) |-> IF i = n + 1 THEN last ELSE g[i]]
  <2>2. \A i \in 1..n : g[i] = IF i = 1 THEN ss[i] ELSE g[i - 1] \o ss[i]
    BY <2>1, Zenon DEF Joins
  <2> HIDE DEF last
  <2>3. \A i \in 1..n : h[i] = g[i]
    OBVIOUS
  <2>4. h[n + 1] = last
    OBVIOUS
  <2> HIDE DEF h
  <2>5. ASSUME NEW i \in 1..(n + 1) PROVE h[i] = IF i = 1 THEN ss[i] ELSE h[i - 1] \o ss[i]
    <3>1. CASE i = n + 1 /\ n = 0
      <4>1. i = 1
        BY <3>1
      <4> QED BY <2>4, <3>1, <4>1, Zenon DEF last
    <3>2. CASE i = n + 1 /\ n # 0
      <4>1. i - 1 = n /\ i # 1 /\ n \in 1..n
        BY <3>2
      <4>2. h[i - 1] = g[n]
        BY <2>3, <4>1
      <4> QED BY <2>4, <3>2, <4>1, <4>2, Zenon DEF last
    <3>3. CASE i \in 1..n /\ i # 1
      <4>1. i - 1 \in 1..n
        BY <3>3
      <4>2. h[i] = g[i] /\ h[i - 1] = g[i - 1]
        BY <2>3, <3>3, <4>1
      <4> QED BY <2>2, <3>3, <4>2, Zenon
    <3>4. CASE i \in 1..n /\ i = 1
      <4>1. h[i] = g[i]
        BY <2>3, <3>4
      <4> QED BY <2>2, <3>4, <4>1, Zenon
    <3> QED BY <3>1, <3>2, <3>3, <3>4
  <2>6. h = [i \in 1..(n + 1) |-> IF i = 1 THEN ss[i] ELSE h[i - 1] \o ss[i]]
    <3> DEFINE Rec(i) == IF i = 1 THEN ss[i] ELSE h[i - 1] \o ss[i]
    <3>1. \A i \in 1..(n + 1) : h[i] = Rec(i)
      BY <2>5, Zenon
    <3>2. h = [i \in 1..(n + 1) |-> h[i]]
      BY DEF h
    <3> HIDE DEF Rec
    <3>3. h = [i \in 1..(n + 1) |-> Rec(i)]
      BY <3>1, <3>2
    <3> QED BY <3>3, Zenon DEF Rec
  <2>7. Joins(h, ss, n + 1)
    BY <2>6, Zenon DEF Joins
  <2> QED BY <2>7
<1> HIDE DEF T
<1>3. \A n \in Nat : n \in T
  BY <1>1, <1>2, InductionOnSet
<1> QED BY <1>3 DEF T

(* FlattenSeq is what the recursion gives for the whole list. *)
LEMMA FlattenJoins ==
  ASSUME NEW ss, Len(ss) \in Nat, Len(ss) # 0
  PROVE  \E g : Joins(g, ss, Len(ss)) /\ FlattenSeq(ss) = g[Len(ss)]
<1> DEFINE k == CHOOSE g : Joins(g, ss, Len(ss))
<1>1. Joins(k, ss, Len(ss))
  BY JoinsExist
<1>2. FlattenSeq(ss) = k[Len(ss)]
  BY Zenon DEF FlattenSeq, Joins
<1> QED BY <1>1, <1>2

(* The first n reads, by index. *)
Reads(n) == [k \in 1..n |-> k]

(* One more read. *)
LEMMA NextRead ==
  ASSUME NEW n \in Nat
  PROVE  Reads(n) \in Seq(Nat) /\ Len(Reads(n)) = n /\ Append(Reads(n), n + 1) = Reads(n + 1)
<1>1. Reads(n) \in Seq(Nat) /\ Len(Reads(n)) = n /\ \A k \in 1..n : Reads(n)[k] = k
  BY DEF Reads
<1>2. Reads(n + 1) \in Seq(Nat) /\ Len(Reads(n + 1)) = n + 1 /\ \A k \in 1..(n + 1) : Reads(n + 1)[k] = k
  BY DEF Reads
<1>3. /\ Append(Reads(n), n + 1) \in Seq(Nat) /\ Len(Append(Reads(n), n + 1)) = n + 1
      /\ \A k \in 1..(n + 1) : Append(Reads(n), n + 1)[k] = k
  BY <1>1
<1> QED BY <1>1, <1>2, <1>3

(* A single read that is joined is appended. *)
LEMMA JoinLast ==
  ASSUME NEW q \in Seq(Nat), NEW k \in Nat
  PROVE  q \o <<k>> = Append(q, k)
OBVIOUS

(* To append after joining is to join what was appended to. *)
LEMMA AppendAfter ==
  ASSUME NEW p \in Seq(Nat), NEW q \in Seq(Nat), NEW k \in Nat
  PROVE  p \o Append(q, k) = Append(p \o q, k)
<1>1. <<k>> \in Seq(Nat) /\ p \o q \in Seq(Nat)
  OBVIOUS
<1>2. p \o (q \o <<k>>) = (p \o q) \o <<k>>
  BY <1>1, ConcatAssociative
<1> QED BY <1>1, <1>2, JoinLast, Zenon

(* f joins the sequences ss one by one; the whole they make. *)
Joined(f, ss) == \A j \in 1..Len(ss) : f[j] = IF j = 1 THEN ss[j] ELSE f[j - 1] \o ss[j]
Whole(f, ss) == IF Len(ss) = 0 THEN <<>> ELSE f[Len(ss)]

(* One more sequence: it joins the whole at its end. *)
LEMMA JoinOne ==
  ASSUME NEW ss \in Seq(Seq(Nat)), NEW x \in Seq(Nat), NEW f, Joined(f, Append(ss, x))
  PROVE  Joined(f, ss) /\ Whole(f, Append(ss, x)) = Whole(f, ss) \o x
<1> DEFINE tt == Append(ss, x)
           m == Len(ss)
<1>1. /\ m \in Nat /\ Len(tt) = m + 1 /\ tt[m + 1] = x
      /\ \A j \in 1..m : tt[j] = ss[j]
  OBVIOUS
<1>2. \A j \in 1..(m + 1) : f[j] = IF j = 1 THEN tt[j] ELSE f[j - 1] \o tt[j]
  BY <1>1, Zenon DEF Joined
<1> HIDE DEF tt
<1>3. Joined(f, ss)
  <2>1. \A j \in 1..m : j \in 1..(m + 1)
    BY <1>1
  <2>2. \A j \in 1..m : f[j] = IF j = 1 THEN ss[j] ELSE f[j - 1] \o ss[j]
    BY <1>1, <1>2, <2>1, Zenon
  <2> QED BY <2>2, Zenon DEF Joined
<1>4. Whole(f, tt) = f[m + 1]
  <2>1. Len(tt) # 0 /\ Len(tt) = m + 1
    BY <1>1
  <2> QED BY <2>1, Zenon DEF Whole
<1>5. m + 1 \in 1..(m + 1) /\ (m + 1) - 1 = m
  BY <1>1
<1>6. CASE m = 0
  <2>1. m + 1 = 1
    BY <1>6
  <2>2. f[m + 1] = x
    BY <1>1, <1>2, <1>5, <2>1, Zenon
  <2>3. <<>> \o x = x
    OBVIOUS
  <2>4. Whole(f, ss) = <<>>
    BY <1>6, Zenon DEF Whole
  <2> QED BY <1>3, <1>4, <2>2, <2>3, <2>4, Zenon DEF tt
<1>7. CASE m # 0
  <2>1. m + 1 # 1
    BY <1>1, <1>7
  <2>2. f[m + 1] = f[m] \o x
    BY <1>1, <1>2, <1>5, <2>1, Zenon
  <2>3. Whole(f, ss) = f[m]
    BY <1>7, Zenon DEF Whole
  <2> QED BY <1>3, <1>4, <2>2, <2>3, Zenon DEF tt
<1> QED BY <1>6, <1>7

(***************************************************************************)
(* After any number n of reads the slots and the open one, joined, are the *)
(* first n reads: this is what each read keeps.                            *)
(***************************************************************************)
CutRight(s, n) ==
  /\ \E l : s = [limit |-> l, open |-> s.open, slots |-> s.slots]
  /\ s.open \in Seq(Nat) /\ s.slots \in Seq(Seq(Nat))
  /\ \A f : Joined(f, s.slots) => Whole(f, s.slots) \in Seq(Nat) /\ Whole(f, s.slots) \o s.open = Reads(n)

(* The next read joins the open slot, or closes it and opens one. *)
LEMMA CutOne ==
  ASSUME NEW ts, NEW n \in Nat, NEW s, CutRight(s, n)
  PROVE  CutRight(Cut(s, ts, n + 1), n + 1)
<1>1. s.open \in Seq(Nat) /\ s.slots \in Seq(Seq(Nat)) /\ n + 1 \in Nat
  BY DEF CutRight
<1>2. ASSUME NEW l, NEW t, t = [limit |-> l, open |-> <<n + 1>>, slots |-> Append(s.slots, s.open)]
      PROVE  CutRight(t, n + 1)
  <2>1. t.open = <<n + 1>> /\ t.slots = Append(s.slots, s.open)
    BY <1>2
  <2>2. t.open \in Seq(Nat) /\ t.slots \in Seq(Seq(Nat))
    BY <1>1, <2>1
  <2>3. ASSUME NEW f, Joined(f, t.slots)
        PROVE  Whole(f, t.slots) \in Seq(Nat) /\ Whole(f, t.slots) \o t.open = Reads(n + 1)
    <3>1. Joined(f, s.slots) /\ Whole(f, t.slots) = Whole(f, s.slots) \o s.open
      <4>1. Joined(f, Append(s.slots, s.open))
        BY <2>1, <2>3, Zenon
      <4>2. Joined(f, s.slots) /\ Whole(f, Append(s.slots, s.open)) = Whole(f, s.slots) \o s.open
        BY <1>1, <4>1, JoinOne
      <4> QED BY <2>1, <4>2, Zenon
    <3>2. Whole(f, t.slots) = Reads(n)
      BY <3>1, Zenon DEF CutRight
    <3>3. \A q \in Seq(Nat) : q \o <<n + 1>> = Append(q, n + 1)
      BY <1>1, JoinLast, Zenon
    <3> QED BY <2>1, <3>2, <3>3, NextRead, Zenon
  <2>4. \E k : t = [limit |-> k, open |-> t.open, slots |-> t.slots]
    BY <1>2, <2>1, Zenon
  <2> QED BY <2>2, <2>3, <2>4, Zenon DEF CutRight
<1>3. ASSUME NEW t, t = [s EXCEPT !.open = Append(s.open, n + 1)]
      PROVE  CutRight(t, n + 1)
  <2>1. PICK l : s = [limit |-> l, open |-> s.open, slots |-> s.slots]
    BY Zenon DEF CutRight
  <2>2. t = [limit |-> l, open |-> Append(s.open, n + 1), slots |-> s.slots]
    <3> DEFINE o == s.open
               q == s.slots
               x == Append(s.open, n + 1)
    <3>1. s = [limit |-> l, open |-> o, slots |-> q] /\ t = [s EXCEPT !.open = x]
      BY <1>3, <2>1
    <3> HIDE DEF o, q, x
    <3>2. t = [limit |-> l, open |-> x, slots |-> q]
      BY <3>1
    <3> QED BY <3>2, Zenon DEF q, x
  <2>3. t.open = Append(s.open, n + 1) /\ t.slots = s.slots
    BY <2>2
  <2>4. t.open \in Seq(Nat) /\ t.slots \in Seq(Seq(Nat))
    BY <1>1, <2>3
  <2>5. ASSUME NEW f, Joined(f, t.slots)
        PROVE  Whole(f, t.slots) \in Seq(Nat) /\ Whole(f, t.slots) \o t.open = Reads(n + 1)
    <3>1. Whole(f, s.slots) \in Seq(Nat) /\ Whole(f, s.slots) \o s.open = Reads(n)
      BY <2>3, <2>5, Zenon DEF CutRight
    <3>2. Whole(f, s.slots) \o Append(s.open, n + 1) = Append(Whole(f, s.slots) \o s.open, n + 1)
      BY <1>1, <3>1, AppendAfter, Zenon
    <3>3. Whole(f, s.slots) \o Append(s.open, n + 1) = Append(Reads(n), n + 1)
      BY <3>1, <3>2, Zenon
    <3> QED BY <2>3, <3>1, <3>3, NextRead, Zenon
  <2>6. \E k : t = [limit |-> k, open |-> t.open, slots |-> t.slots]
    BY <2>2, <2>3, Zenon
  <2> QED BY <2>4, <2>5, <2>6, Zenon DEF CutRight
<1>4. \/ \E l : Cut(s, ts, n + 1) = [limit |-> l, open |-> <<n + 1>>, slots |-> Append(s.slots, s.open)]
      \/ Cut(s, ts, n + 1) = [s EXCEPT !.open = Append(s.open, n + 1)]
  BY Zenon DEF Cut
<1> QED BY <1>2, <1>3, <1>4, Zenon

(* measurementSlots() cuts the reads into pieces, whatever the limits are. *)
LEMMA SlotsRight ==
  ASSUME NEW ts \in Seq(Int)
  PROVE  LET whole == FlattenSeq(measurementSlots(ts)) IN
         whole = Reads(Len(whole)) /\ Len(whole) <= Len(ts)
<1>1. Len(ts) \in Nat
  OBVIOUS
<1>2. PICK g : Cuts(g, ts, Len(ts)) /\ measurementSlots(ts) = g[Len(ts)].slots
  BY <1>1, SlotsCut
<1> DEFINE T == {n \in Nat : n <= Len(ts) => CutRight(g[n], n)}
<1>3. \A i \in 0..Len(ts) : g[i] = IF i = 0 THEN Uncut ELSE Cut(g[i - 1], ts, i)
  BY <1>2, Zenon DEF Cuts
<1>4. 0 \in T
  <2>1. g[0] = Uncut
    BY <1>1, <1>3
  <2>2. Uncut.open = <<>> /\ Uncut.slots = <<>> /\ Uncut = [limit |-> toInt(slotLength), open |-> <<>>, slots |-> <<>>]
    BY DEF Uncut
  <2>3. <<>> \in Seq(Nat) /\ <<>> \in Seq(Seq(Nat)) /\ Len(<<>>) = 0 /\ <<>> \o <<>> = Reads(0)
    BY DEF Reads
  <2>4. \A f : Whole(f, <<>>) = <<>>
    BY <2>3, Zenon DEF Whole
  <2>5. CutRight(Uncut, 0)
    BY <2>2, <2>3, <2>4, Zenon DEF CutRight
  <2> QED BY <2>1, <2>5
<1>5. ASSUME NEW n \in Nat, n \in T PROVE n + 1 \in T
  <2> SUFFICES ASSUME n + 1 <= Len(ts) PROVE CutRight(g[n + 1], n + 1)
    OBVIOUS
  <2>1. CutRight(g[n], n)
    BY <1>1, <1>5
  <2>2. n + 1 \in 0..Len(ts) /\ n + 1 # 0 /\ (n + 1) - 1 = n
    BY <1>1
  <2>3. g[n + 1] = Cut(g[n], ts, n + 1)
    BY <1>3, <2>2, Zenon
  <2> QED BY <2>1, <2>3, CutOne, Zenon
<1> HIDE DEF T
<1>6. Len(ts) \in T
  BY <1>1, <1>4, <1>5, InductionOnSet
<1> DEFINE s == g[Len(ts)]
           whole == FlattenSeq(s.slots)
<1>7. CutRight(s, Len(ts))
  BY <1>1, <1>6 DEF T
<1> HIDE DEF s
<1>8. s.open \in Seq(Nat) /\ s.slots \in Seq(Seq(Nat))
  BY <1>7, Zenon DEF CutRight
<1>9. whole \in Seq(Nat) /\ whole \o s.open = Reads(Len(ts))
  <2>1. CASE Len(s.slots) = 0
    <3>1. s.slots = <<>>
      BY <1>8, <2>1
    <3>2. whole = <<>>
      BY <2>1, <3>1, Zenon DEF FlattenSeq
    <3>3. \A f : Joined(f, s.slots)
      BY <2>1 DEF Joined
    <3>4. \A f : Whole(f, s.slots) = <<>>
      BY <2>1, Zenon DEF Whole
    <3> QED BY <1>7, <3>2, <3>3, <3>4, Zenon DEF CutRight
  <2>2. CASE Len(s.slots) # 0
    <3>1. Len(s.slots) \in Nat
      BY <1>8
    <3>2. PICK f : Joins(f, s.slots, Len(s.slots)) /\ whole = f[Len(s.slots)]
      BY <2>2, <3>1, FlattenJoins
    <3>3. Joined(f, s.slots)
      BY <3>2, Zenon DEF Joins, Joined
    <3>4. Whole(f, s.slots) = whole
      BY <2>2, <3>2, Zenon DEF Whole
    <3> QED BY <1>7, <3>3, <3>4, Zenon DEF CutRight
  <2> QED BY <2>1, <2>2
<1> HIDE DEF whole
<1>10. whole = Reads(Len(whole)) /\ Len(whole) <= Len(ts)
  <2>1. Len(whole) \in Nat /\ Len(s.open) \in Nat
    BY <1>8, <1>9
  <2>2. Len(whole) + Len(s.open) = Len(ts)
    <3>1. Len(whole \o s.open) = Len(whole) + Len(s.open)
      BY <1>8, <1>9
    <3> QED BY <1>1, <1>9, <3>1, NextRead
  <2>3. Len(whole) <= Len(ts)
    BY <1>1, <2>1, <2>2
  <2>4. \A k \in 1..Len(whole) : whole[k] = k
    <3>1. \A k \in 1..Len(whole) : (whole \o s.open)[k] = whole[k]
      BY <1>8, <1>9
    <3>2. \A k \in 1..Len(ts) : Reads(Len(ts))[k] = k
      BY DEF Reads
    <3>3. \A k \in 1..Len(whole) : k \in 1..Len(ts)
      BY <1>1, <2>1, <2>3
    <3> QED BY <1>9, <3>1, <3>2, <3>3, Zenon
  <2>5. whole = Reads(Len(whole))
    <3>1. /\ Reads(Len(whole)) \in Seq(Nat) /\ Len(Reads(Len(whole))) = Len(whole)
          /\ \A k \in 1..Len(whole) : Reads(Len(whole))[k] = k
      BY <2>1, NextRead DEF Reads
    <3>2. \A k \in 1..Len(whole) : whole[k] = Reads(Len(whole))[k]
      BY <2>4, <3>1, Zenon
    <3> QED BY <1>9, <3>1, <3>2, SeqEqual
  <2> QED BY <2>3, <2>5
<1> QED BY <1>2, <1>10, Zenon DEF whole, s

(***************************************************************************)
(* The slots of a worker are a prefix of its reads cut into pieces         *)
(* (HTTPDownload::calculateResults), for every slot length, overflowed or  *)
(* not, and any gaps between any number of reads.                          *)
(***************************************************************************)
THEOREM SlotsCutReads == Spec => []SlotsPartition
<1>1. HInv => SlotsPartition
  <2>1. HInv => \A w \in Workers : timeIntervals[w] \in Seq(Int)
    BY DEF HInv, Shape
  <2> QED BY <2>1, SlotsRight, Zenon DEF SlotsPartition, Reads
<1> QED BY <1>1, Invariance, PTL
=============================================================================
