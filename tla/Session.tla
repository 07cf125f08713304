------------------------------ MODULE Session ------------------------------
(***************************************************************************)
(* The console client from its start to its end (console/main.cpp, with    *)
(* ConfigController, LoginController, TaskController and CrashController   *)
(* of libclient): get the configuration, log in or register, register the  *)
(* device, then fetch instructions and schedules again and again.  Every   *)
(* controller owns a WebRequester (see that module), of which only what    *)
(* matters to the controllers is kept: its status and the replies under    *)
(* way, any of which may be the next to finish.  A finished or error       *)
(* signal is emitted only when the status changes, and the slots connected *)
(* to it run in the same step.                                             *)
(*                                                                         *)
(* The process may crash, be ended or end itself, and be started again.    *)
(***************************************************************************)
EXTENDS Naturals, FiniteSets, SequencesExt

CONSTANTS
  Ids,         \* the schedule ids the server uses
  Users,       \* who may log in
  Calls,       \* the options the process is started with, a subset of Options
  Nobody,      \* an empty user id or api key
  MaxReplies,  \* bound: instruction and schedule replies under way when one more is asked for
  MaxLaunches, \* bound: starts of the process
  MaxChanges   \* bound: schedules the server adds or removes

ASSUME SessionAssumption ==
  /\ Nobody \notin Users /\ {MaxLaunches, MaxChanges} \subseteq Nat \ {0}
  /\ MaxReplies \in [{"instruction", "schedule"} -> Nat \ {0}]

VARIABLES
  app,      \* the process: its phase, how often it was started, how it was called
  disk,     \* what survives it: the QSettings, the scheduler directory, the crash dumps
  config,   \* GetConfigResponse in memory
  req,      \* the WebRequesters
  watch,    \* the watchers of main.cpp that have not been deleted
  loggedIn, \* LoginController::Private::loggedIn
  files,    \* CrashController::Private::reportFiles
  known,    \* Scheduler::Private::allTestIds, without the on-demand tests
  server,   \* external: the schedules it wants run, those it withdrew
  over,     \* schedules whose last run is over
  ghost     \* crash dumps written, received by the server, unreadable; kill switch obeyed,
            \* and what could lead to a login was under way then

sessionVars == <<app, disk, config, req, watch, loggedIn, files, known, server, over, ghost>>

Requesters == {"config", "login", "device", "instruction", "schedule", "crash"}
Kills == {"none", "data", "settings"}
Configs == {"none", "lost", "defaults", "full"}

(***************************************************************************)
(* How main() was called.  Registering (a name or anonymously) and logging *)
(* in end the process when they are done; otherwise the stored login data  *)
(* is used.                                                                *)
(***************************************************************************)
Options == [type : {"register", "login"}, user : Users, passive : {FALSE}]
           \cup [type : {"auto"}, user : {Nobody}, passive : BOOLEAN]
ASSUME CallsAssumption == Calls \subseteq Options
NoCall == [type |-> "auto", user |-> Nobody, passive |-> FALSE]
quits == app.opts.type # "auto"

limit(r) == IF r \in DOMAIN MaxReplies THEN MaxReplies[r] ELSE 1
Payload(r) == CASE r \in {"config", "device"} -> {"request"}
                [] r = "login"       -> [type : {"register", "login", "check"}, user : Users, acceptable : BOOLEAN]
                [] r = "instruction" -> [wanted : SUBSET Ids, withdrawn : SUBSET Ids]
                [] r = "schedule"    -> SUBSET Ids
                [] r = "crash"       -> [files : SUBSET (1..MaxLaunches), addressed : BOOLEAN]

(* Everything has its type, and a requester that is Running waits for a reply. *)
SessionTypeOK ==
  /\ app.phase \in {"down", "up", "quitting"} /\ app.starts \in 0..MaxLaunches
  /\ app.opts \in IF app.phase = "down" THEN {NoCall} ELSE Calls
  /\ disk \in [device : BOOLEAN, user : Users \cup {Nobody}, key : Users \cup {Nobody},
               config : Configs, tests : SUBSET Ids, dumps : SUBSET (1..MaxLaunches)]
  /\ config \in Configs \ {"none"}
  /\ \A r \in Requesters :
       /\ req[r].status \in {"Unknown", "Running", "Finished", "Error"}
       /\ Len(req[r].replies) <= limit(r) + 1
       /\ Range(req[r].replies) \subseteq Payload(r)
       /\ req[r].status = "Running" => req[r].replies # <<>>
  /\ watch \subseteq {"config", "login"} /\ loggedIn \in BOOLEAN
  /\ files \subseteq 1..MaxLaunches
  /\ known \subseteq Ids /\ over \subseteq Ids
  /\ server.wanted \cap server.withdrawn = {} /\ server.changes \in 0..MaxChanges
  /\ ghost.received \cup ghost.unreadable \subseteq ghost.dumps /\ ghost.killed \in BOOLEAN
  /\ ghost.late \subseteq {"config", "login"}

NoRequests == [r \in Requesters |-> [status |-> "Unknown", replies |-> <<>>]]

SessionInit ==
  /\ app = [phase |-> "down", starts |-> 0, opts |-> NoCall]
  /\ disk = [device |-> FALSE, user |-> Nobody, key |-> Nobody, config |-> "none", tests |-> {}, dumps |-> {}]
  /\ config = "defaults" /\ req = NoRequests /\ watch = {} /\ loggedIn = FALSE /\ files = {}
  /\ known = {} /\ over = {}
  /\ server = [wanted |-> {}, withdrawn |-> {}, changes |-> 0]
  /\ ghost = [dumps |-> {}, received |-> {}, unreadable |-> {}, killed |-> FALSE, late |-> {}]

-----------------------------------------------------------------------------
(***************************************************************************)
(* WebRequester: start() and the end of reply i.                           *)
(***************************************************************************)
begin(rq, r, payload) ==
  [rq EXCEPT ![r] = [status |-> "Running", replies |-> Append(@.replies, payload)]]
free(r) == Len(req[r].replies) < limit(r)

ReplyOutcomes == {"filled", "empty", "failed"}
StatusOf(outcome) == IF outcome = "failed" THEN "Error" ELSE "Finished"
end(r, i, outcome) ==
  [req EXCEPT ![r] = [status |-> StatusOf(outcome), replies |-> RemoveAt(@.replies, i)]]
signals(r, outcome) == req[r].status # StatusOf(outcome)

(***************************************************************************)
(* Settings::init: a device id is drawn for new settings, which also get   *)
(* the default addresses.  Settings that have a device id but no config    *)
(* (the process ended before the first sync) lose the supervisor address:  *)
(* both branches that notice a lost address set the config server's.       *)
(***************************************************************************)
initConfig == IF ~disk.device THEN "defaults"
              ELSE IF disk.config = "none" THEN "lost" ELSE disk.config

hasLoginData(d) == d.user # Nobody /\ d.key # Nobody

(***************************************************************************)
(* CrashController::uploadReports: the dumps in a file that can be read.   *)
(* The report address is known only from a configuration the server sent.  *)
(***************************************************************************)
uploadReports(rq, dumps, readable) ==
  IF dumps = {} THEN rq
  ELSE begin(rq, "crash", [files |-> dumps \cap readable, addressed |-> initConfig = "full"])

(***************************************************************************)
(* main() and Client::init: settings, stored schedules (enqueue drops what *)
(* has no next run), the configuration request, the crash reports.         *)
(***************************************************************************)
main(opts, readable) ==
  /\ app.phase = "down" /\ app.starts < MaxLaunches
  /\ app' = [phase |-> "up", starts |-> app.starts + 1, opts |-> opts]
  /\ disk' = [disk EXCEPT !.device = TRUE]
  /\ config' = initConfig
  /\ known' = disk.tests \ over
  /\ files' = disk.dumps
  /\ req' = uploadReports(begin(NoRequests, "config", "request"), disk.dumps, readable)
  /\ watch' = {"config", "login"} /\ loggedIn' = FALSE
  /\ ghost' = [ghost EXCEPT !.killed = FALSE, !.late = {}, !.unreadable = @ \cup (disk.dumps \ readable)]
  /\ UNCHANGED <<server, over>>

(***************************************************************************)
(* QCoreApplication::quit ends the event loop, not the process: main()     *)
(* runs a second one until the Client is deleted, a moment later.  What is *)
(* posted or has arrived before that is still handled; a request that a    *)
(* timer begins in that moment gets no answer and is left out.             *)
(***************************************************************************)
running == app.phase # "down"
quit == app' = [app EXCEPT !.phase = "quitting"]

\* What was in memory is gone.
gone ==
  /\ app' = [app EXCEPT !.phase = "down", !.opts = NoCall]
  /\ config' = "defaults" /\ req' = NoRequests /\ watch' = {} /\ loggedIn' = FALSE
  /\ files' = {} /\ known' = {}
  /\ UNCHANGED <<server, over>>

(***************************************************************************)
(* The end of a process that quits: ~Client stores the schedules,          *)
(* ~Settings the configuration.                                            *)
(***************************************************************************)
shutDown ==
  /\ app.phase = "quitting" /\ gone
  /\ disk' = [disk EXCEPT !.tests = @ \cup known, !.config = config]
  /\ UNCHANGED ghost

\* A signal makes the process quit.
handleSigTerm ==
  /\ app.phase = "up" /\ quit
  /\ UNCHANGED <<disk, config, req, watch, loggedIn, files, known, server, over, ghost>>

\* external: the process dies and breakpad writes a dump.
crash ==
  /\ running /\ gone
  /\ disk' = [disk EXCEPT !.dumps = @ \cup {app.starts}]
  /\ ghost' = [ghost EXCEPT !.dumps = @ \cup {app.starts}]

-----------------------------------------------------------------------------
(***************************************************************************)
(* ConfigController::update, on its timer: there is always a timing, the   *)
(* server's or one of ten minutes.  Once the client has a configuration of *)
(* the server and ConfigWatcher is gone, another one changes nothing that  *)
(* is modelled here, and the requests are left out.                        *)
(***************************************************************************)
update ==
  /\ app.phase = "up" /\ free("config")
  /\ "config" \in watch \/ config # "full"
  /\ req' = begin(req, "config", "request")
  /\ UNCHANGED <<app, disk, config, watch, loggedIn, files, known, server, over, ghost>>

(***************************************************************************)
(* LoginController::registration and login store the user before the       *)
(* server has agreed; checkApiKey has the server check what is stored.     *)
(* The server can accept a request only when the supervisor's address is   *)
(* known, and a stored key only when it is the stored user's; a password   *)
(* it is asked to check may be right.                                      *)
(***************************************************************************)
loginRequest(type, user, cfg, key) ==
  [type |-> type, user |-> user, acceptable |-> cfg # "lost" /\ (type # "check" \/ key = user)]

\* Fault: the request names the user, the settings do not.
logIn_notStored(rq, cfg, d, type, user) ==
  req' = begin(rq, "login", loginRequest(type, user, cfg, d.key)) /\ disk' = d /\ UNCHANGED app
logIn(rq, cfg, d, type, user) ==
  /\ req' = begin(rq, "login", loginRequest(type, user, cfg, d.key))
  /\ disk' = [d EXCEPT !.user = user]
  /\ UNCHANGED app
autoLogin(rq, cfg, d) ==
  /\ disk' = d
  /\ IF hasLoginData(d)
       THEN req' = begin(rq, "login", loginRequest("check", d.user, cfg, d.key)) /\ UNCHANGED app
       ELSE req' = rq /\ quit

(***************************************************************************)
(* ConfigWatcher::onStatusChanged.  Without a register or login option     *)
(* main() leaves loginData.type uninitialized, and a value that happens to *)
(* be AnonymousRegister registers a new user in place of the stored one.   *)
(***************************************************************************)
onStatusChanged(rq, cfg, d) ==
  IF quits THEN logIn(rq, cfg, d, app.opts.type, app.opts.user)
  ELSE \/ autoLogin(rq, cfg, d)
       \/ \E user \in Users \ {d.user} : logIn(rq, cfg, d, "register", user)

(***************************************************************************)
(* The end of a configuration request: GetConfigResponse::finished stores  *)
(* the configuration (also the old one, when the body was empty), and the  *)
(* first finished signal makes ConfigWatcher log in.                       *)
(***************************************************************************)
configFinished(i, outcome) ==
  LET cfg  == IF outcome = "filled" THEN "full" ELSE config
      d    == IF outcome = "failed" THEN disk ELSE [disk EXCEPT !.config = cfg]
      done == end("config", i, outcome)
  IN  /\ config' = cfg
      /\ IF "config" \in watch /\ outcome # "failed" /\ signals("config", outcome)
           THEN /\ onStatusChanged(done, cfg, d)
                /\ watch' = watch \ {"config"}
           ELSE disk' = d /\ req' = done /\ UNCHANGED <<app, watch>>
      /\ UNCHANGED <<loggedIn, files, known, server, over, ghost>>

-----------------------------------------------------------------------------
(***************************************************************************)
(* LoginController::onFinished with the slots of its finished signal, in   *)
(* the order they were connected: Client::loginStatusChanged fetches the   *)
(* tasks, DeviceRegistrationWatcher registers the device unless the server *)
(* knows it, and quits when that is all the process was called for.        *)
(***************************************************************************)
Snapshot == [wanted |-> server.wanted, withdrawn |-> server.withdrawn]
loginStatusChanged(rq, registered) ==
  IF ~app.opts.passive /\ registered THEN begin(rq, "instruction", Snapshot) ELSE rq

\* Fault: an already registered device does not end the process.
onLoginOrRegistrationFinished_stays(rq, registered) ==
  IF registered THEN req' = rq /\ UNCHANGED app
  ELSE req' = begin(rq, "device", "request") /\ UNCHANGED app
onLoginOrRegistrationFinished(rq, registered) ==
  IF registered
    THEN req' = rq /\ IF quits THEN quit ELSE UNCHANGED app
    ELSE req' = begin(rq, "device", "request") /\ UNCHANGED app

(***************************************************************************)
(* The end of the login request.  LoginResponse::finished stores the key;  *)
(* an empty body leaves it empty.  LoginWatcher quits on an error.         *)
(***************************************************************************)
loginFinished(i, outcome, registered) ==
  LET request == req["login"].replies[i]
      key == IF outcome = "empty" THEN Nobody ELSE request.user
      isRegistered == registered /\ request.type # "register" /\ outcome = "filled"
      done == end("login", i, outcome)
  IN  /\ IF outcome = "failed"
           THEN req' = done /\ quit /\ UNCHANGED <<disk, watch, loggedIn>>
           ELSE /\ request.acceptable
                /\ disk' = [disk EXCEPT !.key = key]
                /\ watch' = watch \ {"login"} /\ loggedIn' = TRUE
                /\ onLoginOrRegistrationFinished(loginStatusChanged(done, isRegistered), isRegistered)
      /\ UNCHANGED <<config, files, known, server, over, ghost>>

\* DeviceRegistrationWatcher::onStatusChanged
deviceFinished(i, outcome) ==
  /\ req' = end("device", i, outcome)
  /\ IF outcome = "failed" \/ quits THEN quit ELSE UNCHANGED app
  /\ UNCHANGED <<disk, config, watch, loggedIn, files, known, server, over, ghost>>

-----------------------------------------------------------------------------
(***************************************************************************)
(* TaskController::fetchTasks, on its timer, which runs once a             *)
(* configuration has given it a timing.  The server's answer is what it    *)
(* wants when it is asked; it may arrive much later.                       *)
(***************************************************************************)
fetchTasks ==
  /\ app.phase = "up" /\ ~app.opts.passive /\ config = "full" /\ free("instruction")
  /\ req' = begin(req, "instruction", Snapshot)
  /\ UNCHANGED <<app, disk, config, watch, loggedIn, files, known, server, over, ghost>>

(***************************************************************************)
(* TaskController::instructionFinished: obey the kill switch, ask for the  *)
(* schedules that are not known, drop those withdrawn.  Storage::deleteData*)
(* removes the files, Settings::clear what QSettings holds; the schedules  *)
(* and the configuration stay in memory.                                   *)
(***************************************************************************)
\* Fault: the settings stay.
killed_keepsSettings(d, kill) == IF kill = "none" THEN d ELSE [d EXCEPT !.tests = {}]
killed(d, kill) ==
  CASE kill = "none"     -> d
    [] kill = "data"     -> [d EXCEPT !.tests = {}]
    [] kill = "settings" -> [d EXCEPT !.tests = {}, !.device = FALSE, !.user = Nobody,
                                      !.key = Nobody, !.config = "none"]

\* What may still lead to a login: a login request, or a configuration that ConfigWatcher waits for.
loginsUnderWay ==
  {r \in {"config", "login"} : req[r].replies # <<>> /\ (r = "config" => "config" \in watch)}

\* Fault: nothing is removed.
instructionFinished_keeps(rq, c, kill) ==
  LET needed == c.wanted \ known
  IN  /\ needed = {} \/ free("schedule")
      /\ disk' = killed(disk, kill)
      /\ UNCHANGED known
      /\ req' = IF needed = {} THEN rq ELSE begin(rq, "schedule", needed)
      /\ IF kill = "settings" THEN quit /\ ghost' = [ghost EXCEPT !.killed = TRUE, !.late = loginsUnderWay]
         ELSE UNCHANGED <<app, ghost>>
instructionFinished(rq, c, kill) ==
  LET needed == c.wanted \ known
  IN  /\ needed = {} \/ free("schedule")
      /\ disk' = [killed(disk, kill) EXCEPT !.tests = @ \ (c.withdrawn \cap known)]
      /\ known' = known \ c.withdrawn
      /\ req' = IF needed = {} THEN rq ELSE begin(rq, "schedule", needed)
      /\ IF kill = "settings" THEN quit /\ ghost' = [ghost EXCEPT !.killed = TRUE, !.late = loginsUnderWay]
         ELSE UNCHANGED <<app, ghost>>

(***************************************************************************)
(* The end of an instruction request; the server answers it with a body.   *)
(* A reply that comes when the status is Finished already is not announced:*)
(* its instructions are never looked at.                                   *)
(***************************************************************************)
instructionReply(i, outcome, kill) ==
  /\ outcome # "empty"
  /\ IF outcome = "filled" /\ signals("instruction", outcome)
       THEN instructionFinished(end("instruction", i, outcome), req["instruction"].replies[i], kill)
       ELSE req' = end("instruction", i, outcome) /\ UNCHANGED <<app, disk, known, ghost>>
  /\ UNCHANGED <<config, watch, loggedIn, files, server, over>>

(***************************************************************************)
(* The end of a schedule request: GetScheduleResponse keeps what           *)
(* TaskValidator accepts (a schedule with a next run), scheduleFinished    *)
(* enqueues it, and testAdded stores it even when it was not enqueued.     *)
(***************************************************************************)
validate(ids) == ids \ over
scheduleReply(i, outcome) ==
  LET tasks == validate(req["schedule"].replies[i])
  IN  /\ outcome # "empty"
      /\ IF outcome = "filled" /\ signals("schedule", outcome)
           THEN known' = known \cup tasks /\ disk' = [disk EXCEPT !.tests = @ \cup tasks]
           ELSE UNCHANGED <<known, disk>>
      /\ req' = end("schedule", i, outcome)
      /\ UNCHANGED <<app, config, watch, loggedIn, files, server, over, ghost>>

(***************************************************************************)
(* The end of the crash upload: onFinished removes every file it tried,    *)
(* also those it could not read.                                           *)
(***************************************************************************)
\* Fault: the files are removed whatever the answer.
crashReply_always(i, outcome) ==
  /\ req' = end("crash", i, outcome)
  /\ disk' = [disk EXCEPT !.dumps = @ \ files] /\ files' = {}
  /\ ghost' = [ghost EXCEPT !.received = @ \cup (IF outcome = "failed" THEN {} ELSE req["crash"].replies[i].files)]
  /\ UNCHANGED <<app, config, watch, loggedIn, known, server, over>>
crashReply(i, outcome) ==
  /\ req' = end("crash", i, outcome)
  /\ IF outcome = "failed" THEN UNCHANGED <<disk, files, ghost>>
     ELSE /\ req["crash"].replies[i].addressed
          /\ disk' = [disk EXCEPT !.dumps = @ \ files] /\ files' = {}
          /\ ghost' = [ghost EXCEPT !.received = @ \cup req["crash"].replies[i].files]
  /\ UNCHANGED <<app, config, watch, loggedIn, known, server, over>>

-----------------------------------------------------------------------------
\* external: the server adds a schedule or withdraws one.
serverChanges(id) ==
  /\ server.changes < MaxChanges
  /\ server' = IF id \in server.wanted
                 THEN [server EXCEPT !.wanted = @ \ {id}, !.withdrawn = @ \cup {id}, !.changes = @ + 1]
                 ELSE [server EXCEPT !.wanted = @ \cup {id}, !.withdrawn = @ \ {id}, !.changes = @ + 1]
  /\ UNCHANGED <<app, disk, config, req, watch, loggedIn, files, known, over, ghost>>

\* Scheduler::timeout for the last run of a schedule: there is no next one, its file is removed.
lastRun(id) ==
  /\ running /\ id \in known
  /\ over' = over \cup {id} /\ known' = known \ {id}
  /\ disk' = [disk EXCEPT !.tests = @ \ {id}]
  /\ UNCHANGED <<app, config, req, watch, loggedIn, files, server, ghost>>

(***************************************************************************)
(* The end of a reply of requester r.                                      *)
(***************************************************************************)
replyOf(r, i, outcome) ==
  CASE r = "config"      -> configFinished(i, outcome)
    [] r = "login"       -> \E registered \in BOOLEAN : loginFinished(i, outcome, registered)
    [] r = "device"      -> deviceFinished(i, outcome)
    [] r = "instruction" -> \E kill \in Kills : instructionReply(i, outcome, kill)
    [] r = "schedule"    -> scheduleReply(i, outcome)
    [] r = "crash"       -> crashReply(i, outcome)
reply(r, outcome) ==
  /\ running
  /\ \E i \in 1..Len(req[r].replies) : replyOf(r, i, outcome)
ReplyArrives(r) == \E outcome \in ReplyOutcomes : reply(r, outcome)

SessionNext ==
  \/ \E opts \in Calls, readable \in SUBSET disk.dumps : main(opts, readable)
  \/ shutDown \/ handleSigTerm \/ crash
  \/ update \/ fetchTasks
  \/ \E r \in Requesters : ReplyArrives(r)
  \/ \E id \in Ids : serverChanges(id) \/ lastRun(id)

(***************************************************************************)
(* Timers fire, a request ends (at the latest with its timeout), and a     *)
(* server that is asked again and again answers now and then.              *)
(***************************************************************************)
Fairness ==
  /\ WF_sessionVars(update) /\ WF_sessionVars(fetchTasks) /\ WF_sessionVars(shutDown)
  /\ \A r \in {"login", "device"} : WF_sessionVars(ReplyArrives(r))
  /\ \A r \in {"config", "instruction", "schedule"} : SF_sessionVars(reply(r, "filled"))

SessionSpec == SessionInit /\ [][SessionNext]_sessionVars /\ Fairness

-----------------------------------------------------------------------------
(***************************************************************************)
(* A client that is logged in has the api key of the user it has stored,   *)
(* or none: the user is stored before the server answers, and the key of   *)
(* an earlier user may still be there (LoginController::login,             *)
(* LoginResponse::finished).  A kill switch that is obeyed while the login *)
(* is under way removes the user and not the key that comes after it.      *)
(***************************************************************************)
KeyOfUser == loggedIn /\ disk.key # Nobody /\ ~ghost.killed => disk.key = disk.user

(***************************************************************************)
(* No crash dump that could be read is deleted before the server got it,   *)
(* whatever crashes and restarts come between (CrashController::onFinished *)
(* removes the list that init read).                                       *)
(***************************************************************************)
DumpsReported == ghost.dumps \subseteq disk.dumps \cup ghost.received \cup ghost.unreadable

(***************************************************************************)
(* A process that obeyed the kill switch "settings" leaves no login data   *)
(* behind (TaskController::instructionFinished), whatever its slots, its   *)
(* timers and the destructors that write to the disk do afterwards, except *)
(* what was under way when it obeyed: the reply to a login request stores  *)
(* its key, and the first configuration makes ConfigWatcher store a user.  *)
(***************************************************************************)
KilledForgetsUser ==
  ghost.killed => /\ disk.user # Nobody => "config" \in ghost.late
                  /\ disk.key # Nobody => ghost.late # {}

(***************************************************************************)
(* A process called with --register, --register-anonymous or --login ends  *)
(* (main.cpp: "... on server and exit application").                       *)
(***************************************************************************)
RegistrationEnds == app.phase = "up" /\ quits ~> app.phase = "down"

(***************************************************************************)
(* When the server stops changing its mind, a client that stays up and is  *)
(* not passive ends up with exactly the schedules the server wants and     *)
(* that have runs left, although replies overlap, overtake one another,    *)
(* come with an empty body or are not announced at all.                    *)
(***************************************************************************)
SchedulesConverge ==
  <>[](app.phase # "up" \/ app.opts.passive \/ known = server.wanted \ over)
=============================================================================
