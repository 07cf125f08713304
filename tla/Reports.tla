------------------------------ MODULE Reports ------------------------------
(***************************************************************************)
(* From a measurement's result to the server: Client::taskFinished, the    *)
(* list of reports (report/reportscheduler.cpp), their files               *)
(* (report/reportstorage.cpp), the history of results                      *)
(* (result/resultstorage.cpp, result/resultscheduler.cpp), which           *)
(* controller/resultcontroller.cpp rotates, and the upload                 *)
(* (controller/reportcontroller.cpp), which uses a WebRequester.           *)
(*                                                                         *)
(* All of it runs on the main thread; signals between the parts are direct *)
(* calls, so what they change belongs to the step that emits them.  The    *)
(* results are numbered in the order they are produced.  The server is     *)
(* external: what it inserted of a POST is decided when its reply comes.   *)
(* The date of the device goes forward.                                    *)
(***************************************************************************)
EXTENDS Integers, Sequences, SequencesExt, FiniteSets

CONSTANTS
  Tasks,        \* task ids; those of the toolbox are negative
  MaxResults,   \* bound: results produced
  MaxStarts,    \* bound: POSTs in the life of one process
  MaxRestarts,  \* bound: restarts of the process
  MaxDays,      \* bound: the days it lives
  Backlog       \* Settings::backlog, the days that results are kept

ASSUME TasksAssumption == Tasks \subseteq Int /\ MaxResults \in Nat /\ MaxStarts \in Nat /\ MaxRestarts \in Nat
ASSUME DaysAssumption == MaxDays \in Nat \ {0} /\ Backlog \in Nat

VARIABLES
  reports,      \* ReportScheduler::reports
  reportFiles,  \* ReportStorage: task -> the results in its file
  saved,        \* ResultStorage: task -> day -> the results in the file <task>_<day>.json
  shown,        \* ResultScheduler: task -> day -> the results it lists, in this order
  today,        \* the date of the device
  isImmediate,  \* ReportController::isImmediate
  timerOn,      \* the report timer is active
  produced,     \* history: the task of each result
  producedOn,   \* history: the day of each result
  server,       \* history: the results the server has inserted
  exposed,      \* history: the results produced while a POST was under way
  restarts,
  status, url, replies, currentReply, timer, response, errorString, signal, nstarts

storeVars == <<reports, reportFiles>>
historyVars == <<saved, shown>>
configVars == <<isImmediate, timerOn>>
ghostVars == <<today, produced, producedOn, server, exposed, restarts>>
webVars == <<status, url, replies, currentReply, timer, response, errorString, signal, nstarts>>
vars == <<storeVars, historyVars, configVars, ghostVars, webVars>>

Results == 1..MaxResults
Days == 1..MaxDays
Report == [taskId : Tasks, results : Seq(Results)]
NoFile == <<>>

W == INSTANCE WebRequester WITH
  Payloads <- Seq(Report), Contents <- SUBSET Tasks, NoContent <- {}

(* Lists, files and histories hold results of the known tasks; the bounds are kept. *)
TypeOK ==
  /\ reports \in Seq(Report)
  /\ reportFiles \in [Tasks -> Seq(Results)]
  /\ saved \in [Tasks -> [Days -> Seq(Results)]] /\ shown \in [Tasks -> [Days -> Seq(Results)]]
  /\ today \in Days /\ producedOn \in Seq(Days) /\ Len(producedOn) = Len(produced)
  /\ isImmediate \in BOOLEAN /\ timerOn \in BOOLEAN
  /\ produced \in Seq(Tasks) /\ Len(produced) <= MaxResults
  /\ server \subseteq Results /\ exposed \subseteq Results
  /\ restarts \in 0..MaxRestarts
  /\ W!TypeOK

(* isImmediate is not initialised: before the first configuration it may be either. *)
Init ==
  /\ reports = <<>> /\ reportFiles = [t \in Tasks |-> NoFile]
  /\ saved = [t \in Tasks |-> [d \in Days |-> NoFile]] /\ shown = saved /\ today = 1
  /\ isImmediate \in BOOLEAN /\ timerOn = FALSE
  /\ produced = <<>> /\ producedOn = <<>> /\ server = {} /\ exposed = {} /\ restarts = 0
  /\ W!Init

-----------------------------------------------------------------------------
(* ReportScheduler and ReportStorage.                                        *)

IndexOf(t) == {i \in DOMAIN reports : reports[i].taskId = t}
reportByTaskId(t) == reports[CHOOSE i \in IndexOf(t) : \A j \in IndexOf(t) : i <= j]

(* addReport for a new task, else modifyReport. *)
withReport(t, rs) ==
  IF IndexOf(t) = {} THEN Append(reports, [taskId |-> t, results |-> rs])
  ELSE [i \in DOMAIN reports |-> IF i \in IndexOf(t) THEN [taskId |-> t, results |-> rs] ELSE reports[i]]

(* What removeReport, called for each of the tasks ts, leaves of the list rs. *)
without(rs, ts) ==
  LET kept[i \in 0..Len(rs)] ==
        IF i = 0 THEN <<>>
        ELSE IF rs[i].taskId \in ts THEN kept[i - 1] ELSE Append(kept[i - 1], rs[i])
  IN  kept[Len(rs)]
TaskIds(rs) == {rs[i].taskId : i \in DOMAIN rs}
filesWithout(files, ts) == [t \in Tasks |-> IF t \in ts THEN NoFile ELSE files[t]]

-----------------------------------------------------------------------------
(* ReportController.                                                         *)

Toolbox == {t \in Tasks : t <= 0}

(* sendReports, on the list rs with the files fs. *)
sendReports(rs, fs) ==
  LET posted == without(rs, Toolbox) IN
  /\ reports' = posted
  /\ reportFiles' = filesWithout(fs, Toolbox \cap TaskIds(rs))
  /\ IF posted = <<>> THEN UNCHANGED webVars ELSE W!start(posted)

ReportTimeout ==
  /\ timerOn
  /\ sendReports(reports, reportFiles)
  /\ UNCHANGED <<historyVars, configVars, ghostVars>>

(***************************************************************************)
(* A new configuration with no report timing, with an immediate timing or  *)
(* with another one.  An immediate timing leaves the timer as it is.       *)
(***************************************************************************)
updateTimer(timing) ==
  /\ W!setUrl
  /\ isImmediate' = IF timing = "none" THEN isImmediate ELSE timing = "immediate"
  /\ timerOn' = CASE timing = "none" -> FALSE
                  [] timing = "immediate" -> timerOn
                  [] OTHER -> TRUE
  /\ UNCHANGED <<storeVars, historyVars, ghostVars>>

\* Fault: the reports are removed from the list, but not their files.
onFinished_keepsFiles ==
  reports' = without(reports, response') /\ UNCHANGED reportFiles

(* onFinished: the reports of the tasks in the response are removed as they are now. *)
onFinished ==
  /\ reports' = without(reports, response')
  /\ reportFiles' = filesWithout(reportFiles, response' \cap TaskIds(reports))

ResultsOf(rs, ts) == UNION {ToSet(rs[i].results) : i \in {i \in DOMAIN rs : rs[i].taskId \in ts}}

\* Fault: the reports are removed whatever came of the upload.
ReplyArrives_removesAlways(r, outcome, ids) ==
  /\ W!requestFinished(r, outcome, ids)
  /\ reports' = without(reports, TaskIds(r.payload))
  /\ reportFiles' = filesWithout(reportFiles, TaskIds(r.payload))
  /\ server' = server \cup ResultsOf(r.payload, ids)
  /\ UNCHANGED <<historyVars, configVars, today, produced, producedOn, exposed, restarts>>

(***************************************************************************)
(* A reply to a POST.  Its body lists the tasks the server inserted; one   *)
(* without a body has inserted everything (2xx); in case of an error the   *)
(* server may have inserted a part.                                        *)
(***************************************************************************)
ReplyArrives(r, outcome, ids) ==
  /\ W!requestFinished(r, outcome, ids)
  /\ IF signal' = "finished" THEN onFinished ELSE UNCHANGED storeVars
  /\ server' = server \cup ResultsOf(r.payload, ids)
  /\ UNCHANGED <<historyVars, configVars, today, produced, producedOn, exposed, restarts>>

Reply ==
  \E r \in replies : \E ids \in SUBSET TaskIds(r.payload) :
    \/ \E outcome \in {"filled", "failed", "network"} : ReplyArrives(r, outcome, ids)
    \/ ids = TaskIds(r.payload) /\ ReplyArrives(r, "empty", ids)

(* The request is aborted; what the server makes of it is lost. *)
RequestTimeout ==
  /\ W!timeout
  /\ \E r \in replies \ replies' : \E ids \in SUBSET TaskIds(r.payload) :
       server' = server \cup ResultsOf(r.payload, ids)
  /\ UNCHANGED <<storeVars, historyVars, configVars, today, produced, producedOn, exposed, restarts>>

-----------------------------------------------------------------------------
(***************************************************************************)
(* ResultController::rotate removes the files that are older than the      *)
(* backlog.  The list shown is left alone.                                 *)
(***************************************************************************)
rotate(fs) ==
  [t \in Tasks |-> [d \in Days |-> IF d < today - Backlog THEN NoFile ELSE fs[t][d]]]

\* What ResultStorage::store and ResultScheduler::addResult do with a result of today.
withResult(rs, t, n) == [rs EXCEPT ![t][today] = Append(@, n)]

(***************************************************************************)
(* Client::taskFinished: the result joins the report of its task, which is *)
(* stored; ResultStorage appends the report's last result to the history,  *)
(* and ResultController rotates it; ReportController sends at once if the  *)
(* timing is immediate.                                                    *)
(***************************************************************************)
taskFinished(t) ==
  LET n == Len(produced) + 1
      rs == withReport(t, IF IndexOf(t) = {} THEN <<n>> ELSE Append(reportByTaskId(t).results, n))
      fs == [reportFiles EXCEPT ![t] = IF IndexOf(t) = {} THEN <<n>>
                                       ELSE Append(reportByTaskId(t).results, n)]
  IN
  /\ n <= MaxResults
  /\ produced' = Append(produced, t) /\ producedOn' = Append(producedOn, today)
  /\ exposed' = IF replies = {} THEN exposed ELSE exposed \cup {n}
  /\ saved' = rotate(withResult(saved, t, n))
  /\ shown' = withResult(shown, t, n)
  /\ IF isImmediate THEN sendReports(rs, fs)
                    ELSE reports' = rs /\ reportFiles' = fs /\ UNCHANGED webVars
  /\ UNCHANGED <<configVars, today, server, restarts>>

\* external: midnight.
dayPasses ==
  /\ today < MaxDays /\ today' = today + 1
  /\ UNCHANGED <<storeVars, historyVars, configVars, produced, producedOn, server, exposed, restarts, webVars>>

(* The WebRequester of a new process. *)
newRequester ==
  /\ status' = "Unknown" /\ url' = FALSE /\ replies' = {} /\ currentReply' = 0
  /\ timer' = FALSE /\ response' = {} /\ errorString' = "none"
  /\ signal' = "none" /\ nstarts' = 0

(* ReportStorage::loadData: a report for every file, in whatever order the directory lists them. *)
loaded(fs) ==
  {[i \in DOMAIN ids |-> [taskId |-> ids[i], results |-> fs[ids[i]]]] :
     ids \in SetToSeqs({t \in Tasks : fs[t] # NoFile})}

\* Fault: ResultStorage is connected before the reports are loaded.
Restart_connectedEarly ==
  /\ restarts < MaxRestarts /\ restarts' = restarts + 1
  /\ reports' \in loaded(reportFiles)
  /\ saved' = [t \in Tasks |-> IF reportFiles[t] = NoFile THEN saved[t]
                               ELSE withResult(saved, t, Last(reportFiles[t]))[t]]
  /\ shown' = saved'
  /\ isImmediate' \in BOOLEAN /\ timerOn' = FALSE
  /\ newRequester
  /\ UNCHANGED <<reportFiles, today, produced, producedOn, server, exposed>>

(***************************************************************************)
(* The process ends, by itself (Client::~Client writes the same reports    *)
(* again, ~ResultController rotates the history) or not, and Client::init  *)
(* loads the reports and the history, whose files are sorted by their day. *)
(***************************************************************************)
Restart ==
  /\ restarts < MaxRestarts /\ restarts' = restarts + 1
  /\ reports' \in loaded(reportFiles)
  /\ saved' \in {saved, rotate(saved)} /\ shown' = saved'
  /\ isImmediate' \in BOOLEAN /\ timerOn' = FALSE
  /\ newRequester
  /\ UNCHANGED <<reportFiles, today, produced, producedOn, server, exposed>>

Next ==
  \/ \E t \in Tasks : taskFinished(t)
  \/ \E timing \in {"none", "immediate", "periodic"} : updateTimer(timing)
  \/ ReportTimeout
  \/ Reply
  \/ RequestTimeout
  \/ dayPasses
  \/ Restart

Spec == Init /\ [][Next]_vars

-----------------------------------------------------------------------------
(* Properties.                                                               *)

(***************************************************************************)
(* The files mirror the list: there is one report for each task that has a *)
(* file and it holds the results of the file.  A crash between two steps   *)
(* therefore neither loses a result nor brings an uploaded one back.       *)
(***************************************************************************)
DiskMirrorsMemory ==
  /\ \A i, j \in DOMAIN reports : reports[i].taskId = reports[j].taskId => i = j
  /\ \A t \in Tasks :
       reportFiles[t] = IF IndexOf(t) = {} THEN NoFile ELSE reportByTaskId(t).results

Held == ResultsOf(reports, Tasks)
Uploadable == {n \in DOMAIN produced : produced[n] \notin Toolbox}

(***************************************************************************)
(* Whatever replies, errors, timeouts, overlapping POSTs and restarts      *)
(* happen, a result that was produced while no POST was under way stays in *)
(* a report until the server has it.                                       *)
(***************************************************************************)
LostOnlyInFlight == Uploadable \subseteq server \cup Held \cup exposed

(***************************************************************************)
(* The history has every result of a task once and in order, until a       *)
(* rotation removes the whole day because it is older than the backlog,    *)
(* also after restarts, which load reports that already are in it ("only   *)
(* add the last (latest) result to avoid duplicates").  What is listed and *)
(* no longer on the disk was rotated away in the life of this process.     *)
(***************************************************************************)
Of(t, d) == {n \in DOMAIN produced : produced[n] = t /\ producedOn[n] = d}
IsWhole(s, t, d) == ToSet(s) = Of(t, d) /\ \A i, j \in DOMAIN s : i < j => s[i] < s[j]
HistoryComplete ==
  \A t \in Tasks, d \in Days :
    /\ IsWhole(saved[t][d], t, d) \/ (saved[t][d] = NoFile /\ d < today - Backlog)
    /\ shown[t][d] = saved[t][d] \/ (IsWhole(shown[t][d], t, d) /\ d < today - Backlog)
=============================================================================
