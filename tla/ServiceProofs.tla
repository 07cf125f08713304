--------------------------- MODULE ServiceProofs ---------------------------
(***************************************************************************)
(* The safety properties of the client's session with its server and of    *)
(* three services that know nothing of it: WebRequester, TrafficBudget and *)
(* ConnectionTester, each with the names of its own module.                *)
(***************************************************************************)
EXTENDS Session, WebRequester, TrafficBudget, ConnectionTester,
        WellFoundedInduction, FiniteSetTheorems, TLAPS

-----------------------------------------------------------------------------
(***************************************************************************)
(* WebRequester: the timeout covers the latest request, for any number of  *)
(* requests and replies in any order.  The invariant is not inductive as   *)
(* it stands: start() without a valid url sets the status and leaves the   *)
(* timer alone, which is harmless because no request can be Running before *)
(* the url is set, and the url stays.                                      *)
(***************************************************************************)
NotRunningWithoutUrl == ~url => status # "Running"
RequestInv == TypeOK /\ RunningIsWatched /\ NotRunningWithoutUrl

(* The bound on the number of requests is a natural number. *)
LEMMA MaxStartsNat == MaxStarts \in Nat /\ 0 \in 0..MaxStarts
<1>1. MaxStarts \in Nat
  BY ConstantsAssumption
<1>2. QED
  BY <1>1

(* The initial state: nothing runs, no reply exists, the timer is off. *)
LEMMA InitRequest == Init => RequestInv
<1> SUFFICES ASSUME Init PROVE RequestInv
  OBVIOUS
<1>1. TypeOK
  <2>1. /\ status \in Statuses /\ url \in BOOLEAN /\ timer \in BOOLEAN
        /\ replies \subseteq Reply /\ response \in Contents \cup {NoContent}
        /\ errorString \in {"none", "timed out", "other"}
        /\ signal \in {"none", "started", "finished", "error"}
    BY Zenon DEF Init, Statuses
  <2>2. currentReply \in 0..MaxStarts /\ nstarts \in 0..MaxStarts
    BY MaxStartsNat DEF Init
  <2>3. QED
    BY <2>1, <2>2, Zenon DEF TypeOK
<1>2. QED
  BY <1>1 DEF Init, RequestInv, RunningIsWatched, NotRunningWithoutUrl

(* The types of setStatus: the new status and the signal it emits. *)
LEMMA SetStatusTypes ==
  ASSUME NEW s \in Statuses \ {"Unknown"}, setStatus(s)
  PROVE  status' = s /\ signal' \in {"none", "started", "finished", "error"}
BY DEF setStatus, Statuses

(* start(): a sent request is the current one, and the timer runs for it. *)
LEMMA StartRequest ==
  ASSUME RequestInv, NEW p \in Payloads, start(p)
  PROVE  RequestInv'
<1> USE DEF RequestInv
<1>1. CASE ~url
  <2>1. setStatus("Error") /\ errorString' = "other"
        /\ UNCHANGED <<url, replies, currentReply, timer, response, nstarts>>
    BY <1>1 DEF start
  <2>2. status' = "Error" /\ signal' \in {"none", "started", "finished", "error"}
    BY <2>1, SetStatusTypes DEF Statuses
  <2>3. TypeOK'
    BY <2>1, <2>2 DEF TypeOK, Statuses
  <2>4. QED
    BY <1>1, <2>1, <2>2, <2>3 DEF RunningIsWatched, NotRunningWithoutUrl, TypeOK
<1>2. CASE url
  <2> DEFINE r == [nr |-> nstarts + 1, payload |-> p]
  <2>1. /\ nstarts < MaxStarts /\ setStatus("Running") /\ nstarts' = nstarts + 1
        /\ replies' = replies \cup {r} /\ currentReply' = nstarts + 1 /\ timer' = TRUE
        /\ UNCHANGED <<url, response, errorString>>
    BY <1>2 DEF start
  <2>2. status' = "Running" /\ signal' \in {"none", "started", "finished", "error"}
    BY <2>1, SetStatusTypes DEF Statuses
  <2>3. nstarts + 1 \in 1..MaxStarts
    <3>1. nstarts \in 0..MaxStarts
      BY Zenon DEF TypeOK
    <3>2. QED
      BY <2>1, <3>1, MaxStartsNat
  <2>4. r \in Reply /\ r.nr = nstarts + 1
    BY <2>3 DEF Reply
  <2>5. TypeOK'
    <3>1. replies' \subseteq Reply
      BY <2>1, <2>4 DEF TypeOK
    <3>2. currentReply' \in 0..MaxStarts /\ nstarts' \in 0..MaxStarts
      BY <2>1, <2>3
    <3>3. timer' \in BOOLEAN /\ url' \in BOOLEAN /\ status' \in Statuses
      BY <2>1, <2>2, Zenon DEF TypeOK, Statuses
    <3>4. QED
      BY <2>1, <2>2, <3>1, <3>2, <3>3, Zenon DEF TypeOK
  <2>6. RunningIsWatched'
    BY <2>1, <2>2, <2>4 DEF RunningIsWatched
  <2>7. QED
    BY <1>2, <2>1, <2>5, <2>6 DEF NotRunningWithoutUrl
<1>3. QED
  BY <1>1, <1>2 DEF TypeOK

(* requestFinished(): whichever reply ended, neither the timer nor the status is left over. *)
LEMMA FinishedRequest ==
  ASSUME RequestInv, NEW r \in replies, NEW o \in Outcomes, NEW c \in Contents, requestFinished(r, o, c)
  PROVE  RequestInv'
<1> USE DEF RequestInv
<1> DEFINE s == IF o \in {"filled", "empty"} THEN "Finished" ELSE "Error"
<1>1. /\ replies' = replies \ {r} /\ timer' = FALSE /\ setStatus(s)
      /\ currentReply' = (IF r.nr = currentReply THEN 0 ELSE currentReply)
      /\ response' = (IF o \in {"filled", "refused"} THEN c ELSE response)
      /\ UNCHANGED <<url, nstarts>>
  BY DEF requestFinished
<1>2. s \in {"Finished", "Error"}
  OBVIOUS
<1>3. status' = s /\ signal' \in {"none", "started", "finished", "error"}
  BY <1>1, <1>2, SetStatusTypes DEF Statuses
<1>4. errorString' \in {"none", "timed out", "other"}
  BY DEF requestFinished, TypeOK, Outcomes
<1>5. TypeOK'
  <2>1. replies' \subseteq Reply /\ response' \in Contents \cup {NoContent}
    BY <1>1 DEF TypeOK
  <2>2. currentReply' \in 0..MaxStarts
    BY <1>1, MaxStartsNat DEF TypeOK
  <2>3. timer' \in BOOLEAN /\ url' \in BOOLEAN /\ nstarts' \in 0..MaxStarts
    BY <1>1, Zenon DEF TypeOK
  <2>4. status' \in Statuses
    BY <1>2, <1>3 DEF Statuses
  <2>5. QED
    BY <1>3, <1>4, <2>1, <2>2, <2>3, <2>4, Zenon DEF TypeOK
<1>6. QED
  BY <1>1, <1>2, <1>3, <1>5 DEF RunningIsWatched, NotRunningWithoutUrl

(* Every step keeps the invariant. *)
LEMMA StepRequest == RequestInv /\ [Next]_vars => RequestInv'
<1> SUFFICES ASSUME RequestInv, [Next]_vars PROVE RequestInv'
  OBVIOUS
<1>1. CASE setUrl
  BY <1>1 DEF setUrl, RequestInv, TypeOK, RunningIsWatched, NotRunningWithoutUrl
<1>2. CASE Call
  BY <1>2, StartRequest DEF Call
<1>3. CASE Arrives
  BY <1>3, FinishedRequest DEF Arrives
<1>4. CASE timeout
  <2>1. /\ \E r \in replies : replies' = replies \ {r}
        /\ currentReply' = 0 /\ timer' = FALSE /\ errorString' = "timed out"
        /\ setStatus("Error") /\ UNCHANGED <<url, response, nstarts>>
    BY <1>4 DEF timeout
  <2>2. status' = "Error" /\ signal' \in {"none", "started", "finished", "error"}
    BY <2>1, SetStatusTypes DEF Statuses
  <2>3. TypeOK'
    BY <2>1, <2>2, MaxStartsNat DEF RequestInv, TypeOK, Statuses
  <2>4. QED
    BY <2>1, <2>2, <2>3 DEF RequestInv, RunningIsWatched, NotRunningWithoutUrl
<1>5. CASE UNCHANGED vars
  BY <1>5 DEF vars, RequestInv, TypeOK, RunningIsWatched, NotRunningWithoutUrl
<1>6. QED
  BY <1>1, <1>2, <1>3, <1>4, <1>5 DEF Next

(***************************************************************************)
(* The timer is active exactly while the status is Running, with a current *)
(* reply it can abort (WebRequester::start, requestFinished, timeout), for *)
(* every set of payloads and every number of overlapping requests.         *)
(***************************************************************************)
THEOREM LatestRequestWatched == Spec => []RunningIsWatched
<1>1. Spec => []RequestInv
  BY InitRequest, StepRequest, PTL DEF Spec
<1>2. RequestInv => RunningIsWatched
  BY DEF RequestInv
<1>3. QED
  BY <1>1, <1>2, PTL

-----------------------------------------------------------------------------
(* TrafficBudget: for every width of the counters, all sizes and allowances *)
(* and any number of calls.                                                 *)

(* A sum or difference of counters that fits the counter's width does not wrap. *)
LEMMA FitsWord == \A x \in 0..(Word - 1) : x % Word = x
BY BudgetAssumption

(* Whatever is computed modulo the counter's width is a counter's value. *)
LEMMA ModWord == \A x \in Int : x % Word \in 0..(Word - 1)
BY BudgetAssumption

(* Sizes and allowances are numbers of the counters' width. *)
LEMMA Widths ==
  /\ Word \in Nat \ {0} /\ 0 \in 0..(Word - 1)
  /\ \A t \in Sizes : t \in 0..(Word - 1)
  /\ \A a \in Allowances : a \in 0..(Word - 1)
BY BudgetAssumption

-----------------------------------------------------------------------------
(* Initially the counters have their types. *)
LEMMA InitCounters == BudgetInit => BudgetTypeOK
BY BudgetAssumption DEF BudgetInit, BudgetTypeOK, Zero, NotLoaded, Counters

(* Every step keeps the counters within their width. *)
LEMMA StepCounters == BudgetTypeOK /\ [BudgetNext]_budgetVars => BudgetTypeOK'
<1> SUFFICES ASSUME BudgetTypeOK, [BudgetNext]_budgetVars PROVE BudgetTypeOK'
  OBVIOUS
<1> USE DEF BudgetTypeOK
<1>1. ASSUME NEW t \in Sizes, addUsedTraffic(t) PROVE BudgetTypeOK'
  BY <1>1, BudgetAssumption DEF addUsedTraffic
<1>2. CASE load
  BY <1>2 DEF load
<1>3. CASE add
  <2>1. loaded.value + traffic \in Int
    BY BudgetAssumption
  <2>2. (loaded.value + traffic) % Word \in 0..(Word - 1)
    BY <2>1, ModWord
  <2> QED BY <1>3, <2>2 DEF add
<1>4. CASE saveTraffic
  BY <1>4 DEF saveTraffic
<1>5. CASE resetTraffic \/ ChangeConnection
  BY <1>5, BudgetAssumption DEF resetTraffic, ChangeConnection, callVars, Zero
<1>6. CASE Restart
  BY <1>6, BudgetAssumption DEF Restart, NotLoaded, Counters
<1>7. ASSUME NEW c \in Counters, NEW a \in Allowances, setAllowed(c, a) PROVE BudgetTypeOK'
  BY <1>7 DEF setAllowed, callVars
<1>8. CASE UNCHANGED budgetVars
  BY <1>8 DEF budgetVars, callVars
<1> QED BY <1>1, <1>2, <1>3, <1>4, <1>5, <1>6, <1>7, <1>8 DEF BudgetNext

(***************************************************************************)
(* The counters and the values Settings holds stay within their width,     *)
(* even when the connection changes during a call and allowances go down.  *)
(***************************************************************************)
THEOREM CountersTyped == BudgetSpec => []BudgetTypeOK
BY InitCounters, StepCounters, PTL DEF BudgetSpec

-----------------------------------------------------------------------------
(***************************************************************************)
(* NothingForgotten is not inductive: between add and saveTraffic the      *)
(* counter is ahead of Settings, and only the counter of the present       *)
(* connection may be, since that is the one saveTraffic writes.            *)
(***************************************************************************)
OnlyPresentAhead ==
  /\ \A c \in Counters : used[c] > saved[c] => pc = "save" /\ c = connection
  /\ pc = "add" => loaded.counter = connection

(* A step keeps every counter but the present one no higher than Settings. *)
LEMMA StepAhead ==
  ASSUME ~MidCall, BudgetTypeOK, OnlyPresentAhead, [BudgetNext]_budgetVars
  PROVE  OnlyPresentAhead'
<1> USE DEF BudgetTypeOK, OnlyPresentAhead
<1>1. ASSUME NEW t \in Sizes, addUsedTraffic(t) PROVE OnlyPresentAhead'
  BY <1>1 DEF addUsedTraffic
<1>2. CASE load
  BY <1>2 DEF load
<1>3. CASE add
  <2>1. (loaded.value + traffic) % Word \in 0..(Word - 1)
    BY ModWord, BudgetAssumption
  <2> QED BY <1>3, <2>1 DEF add
<1>4. CASE saveTraffic
  BY <1>4 DEF saveTraffic
<1>5. CASE resetTraffic
  BY <1>5 DEF resetTraffic, callVars, Zero
<1>6. CASE ChangeConnection
  BY <1>6 DEF ChangeConnection, callVars
<1>7. CASE Restart
  BY <1>7 DEF Restart
<1>8. ASSUME NEW c \in Counters, NEW a \in Allowances, setAllowed(c, a) PROVE OnlyPresentAhead'
  BY <1>8 DEF setAllowed, callVars
<1>9. CASE UNCHANGED budgetVars
  BY <1>9 DEF budgetVars, callVars
<1> QED BY <1>1, <1>2, <1>3, <1>4, <1>5, <1>6, <1>7, <1>8, <1>9 DEF BudgetNext

(***************************************************************************)
(* While the connection does not change during a call, Settings is never   *)
(* behind a counter between calls, so that a restart forgets no traffic;   *)
(* it takes neither the lock in reset() nor a limit on the allowances.     *)
(***************************************************************************)
THEOREM SettingsNotBehind ==
  ASSUME ~MidCall
  PROVE  BudgetSpec => []NothingForgotten
<1>1. BudgetInit => OnlyPresentAhead
  BY DEF BudgetInit, OnlyPresentAhead, Zero
<1>2. BudgetTypeOK /\ OnlyPresentAhead /\ [BudgetNext]_budgetVars => OnlyPresentAhead'
  BY StepAhead
<1>3. BudgetTypeOK /\ OnlyPresentAhead => NothingForgotten
  BY DEF BudgetTypeOK, OnlyPresentAhead, NothingForgotten
<1> QED BY <1>1, <1>2, <1>3, CountersTyped, PTL DEF BudgetSpec

-----------------------------------------------------------------------------
(***************************************************************************)
(* BudgetRespected is not inductive either.  What the call was granted     *)
(* must still fit when it is added: in the counter while nothing is read   *)
(* yet, in the value read from then on, since reset() may clear the        *)
(* counter in between.  Settings is restored by a restart, so its values   *)
(* must fit as well.                                                       *)
(***************************************************************************)
GrantFits ==
  /\ pc = "charge" => used[connection] + traffic <= allowed[connection]
  /\ pc = "add" => loaded.counter = connection /\ loaded.value + traffic <= allowed[connection]

SavedFits == \A c \in Counters : saved[c] <= allowed[c]

BudgetInv == BudgetRespected /\ GrantFits /\ SavedFits

(* What is granted and what is allowed are numbers of the counters' width. *)
LEMMA GrantsTyped ==
  ASSUME BudgetTypeOK
  PROVE  /\ Word \in Nat \ {0} /\ traffic \in 0..(Word - 1)
         /\ \A c \in Counters : allowed[c] \in 0..(Word - 1)
<1>1. traffic \in Sizes \cup {0} /\ \A c \in Counters : allowed[c] \in Allowances
  BY DEF BudgetTypeOK
<1> QED BY <1>1, Widths, Zenon

(* A step of the call, the reset, the user or a restart keeps the grant within the allowance. *)
LEMMA StepBudget ==
  ASSUME ~MidCall, ~Lowering, BudgetTypeOK, BudgetInv, [BudgetNext]_budgetVars
  PROVE  BudgetInv'
<1>0. /\ Word \in Nat \ {0} /\ traffic \in 0..(Word - 1)
      /\ \A c \in Counters : allowed[c] \in 0..(Word - 1)
  BY GrantsTyped
<1> USE DEF BudgetTypeOK, BudgetInv, BudgetRespected, GrantFits, SavedFits
<1>1. ASSUME NEW t \in Sizes, addUsedTraffic(t) PROVE BudgetInv'
  <2>0. t \in 0..(Word - 1)
    BY Widths, Zenon
  <2>1. allowed[connection] - used[connection] \in 0..(Word - 1)
    BY <1>0
  <2>2. availableTraffic(connection) = allowed[connection] - used[connection]
    BY <2>1, FitsWord DEF availableTraffic
  <2> HIDE DEF availableTraffic
  <2> QED BY <1>0, <1>1, <2>0, <2>2 DEF addUsedTraffic
<1>2. CASE load
  BY <1>2 DEF load
<1>3. CASE add
  <2>1. loaded.counter = connection /\ loaded.value + traffic \in 0..(Word - 1)
    BY <1>3, <1>0 DEF add
  <2>2. (loaded.value + traffic) % Word = loaded.value + traffic
    BY <2>1, FitsWord
  <2> QED BY <1>3, <2>1, <2>2 DEF add
<1>4. CASE saveTraffic
  BY <1>4 DEF saveTraffic
<1>5. CASE resetTraffic
  BY <1>5, <1>0 DEF resetTraffic, callVars, Zero
<1>6. CASE ChangeConnection
  BY <1>6 DEF ChangeConnection, callVars
<1>7. CASE Restart
  BY <1>7 DEF Restart
<1>8. ASSUME NEW c \in Counters, NEW a \in Allowances, setAllowed(c, a) PROVE BudgetInv'
  <2>1. a \in 0..(Word - 1)
    BY Widths, Zenon
  <2> QED BY <1>0, <1>8, <2>1 DEF setAllowed, callVars
<1>9. CASE UNCHANGED budgetVars
  BY <1>9 DEF budgetVars, callVars
<1> QED BY <1>1, <1>2, <1>3, <1>4, <1>5, <1>6, <1>7, <1>8, <1>9 DEF BudgetNext

(***************************************************************************)
(* While the connection does not change during a call and the user does    *)
(* not lower an allowance, addUsedTraffic never takes a counter past what  *)
(* is allowed, although reset() runs without the lock.                     *)
(***************************************************************************)
THEOREM BudgetKept ==
  ASSUME ~MidCall, ~Lowering
  PROVE  BudgetSpec => []BudgetRespected
<1>1. BudgetInit => BudgetInv
  <2> SUFFICES ASSUME BudgetInit PROVE BudgetInv
    OBVIOUS
  <2>1. BudgetTypeOK
    BY InitCounters
  <2>2. \A c \in Counters : allowed[c] \in 0..(Word - 1)
    BY <2>1, GrantsTyped
  <2> QED BY <2>2 DEF BudgetInit, BudgetInv, BudgetRespected, GrantFits, SavedFits, Zero
<1>2. BudgetTypeOK /\ BudgetInv /\ [BudgetNext]_budgetVars => BudgetInv'
  BY StepBudget
<1>3. BudgetInv => BudgetRespected
  BY DEF BudgetInv
<1> QED BY <1>1, <1>2, <1>3, CountersTyped, PTL DEF BudgetSpec

-----------------------------------------------------------------------------
(* Session: for all users, calls, schedules and any number of starts,       *)
(* crashes and requests.                                                    *)

(***************************************************************************)
(* The inductive invariant.  Until a kill switch is obeyed, every login    *)
(* request is for the stored user (ConfigWatcher is gone once it was       *)
(* sent); afterwards the process is quitting, and what may still log in    *)
(* was under way.  Every crash upload holds what init listed, but for the  *)
(* files that it could not read.                                           *)
(***************************************************************************)
Shape ==
  /\ app \in [phase : {"down", "up", "quitting"}, starts : Nat, opts : Options]
  /\ disk = [device |-> disk.device, user |-> disk.user, key |-> disk.key,
             config |-> disk.config, tests |-> disk.tests, dumps |-> disk.dumps]
  /\ ghost = [dumps |-> ghost.dumps, received |-> ghost.received,
              unreadable |-> ghost.unreadable, killed |-> ghost.killed, late |-> ghost.late]
  /\ disk.dumps \subseteq ghost.dumps

LoginRequests(user) == [type : {"register", "login", "check"}, user : {user}, acceptable : BOOLEAN]
Uploads(listed, unreadable, dumps) ==
  {p \in [files : SUBSET dumps, addressed : BOOLEAN] : listed \subseteq p.files \cup unreadable}

RequestsShape(rq) == rq = [r \in Requesters |-> rq[r]]

RequestsKept ==
  running =>
    /\ RequestsShape(req)
    /\ ~ghost.killed => req["login"].replies \in Seq(LoginRequests(disk.user))
    /\ req["crash"].replies \in Seq(Uploads(files, ghost.unreadable, ghost.dumps))
    /\ "config" \in watch => ~loggedIn /\ req["login"].replies = <<>>

KilledIsOver == ghost.killed => app.phase # "up"
LateLogins ==
  ghost.killed /\ running =>
    /\ req["login"].replies # <<>> => ghost.late # {}
    /\ "config" \in watch /\ req["config"].replies # <<>> => "config" \in ghost.late

SessionInv == /\ Shape /\ RequestsKept /\ KilledIsOver /\ LateLogins
              /\ KeyOfUser /\ DumpsReported /\ KilledForgetsUser

-----------------------------------------------------------------------------
(* Removing a reply, wherever it is, leaves a sequence of the same kind of replies. *)
LEMMA RemoveAtType ==
  ASSUME NEW S, NEW s \in Seq(S), NEW i \in 1..Len(s)
  PROVE  RemoveAt(s, i) \in Seq(S) /\ s[i] \in S
BY DEF RemoveAt

(* WebRequester::start appends a reply to its requester and leaves the others alone. *)
LEMMA BeginOne ==
  ASSUME NEW rq, RequestsShape(rq), NEW r \in Requesters, NEW p
  PROVE  /\ RequestsShape(begin(rq, r, p))
         /\ begin(rq, r, p)[r].replies = Append(rq[r].replies, p)
         /\ \A s \in Requesters : s # r => begin(rq, r, p)[s] = rq[s]
BY DEF RequestsShape, begin

(* The end of a reply takes it from its requester. *)
LEMMA EndOne ==
  ASSUME RequestsShape(req), NEW r \in Requesters, NEW i, NEW outcome
  PROVE  /\ RequestsShape(end(r, i, outcome))
         /\ end(r, i, outcome)[r].replies = RemoveAt(req[r].replies, i)
         /\ \A s \in Requesters : s # r => end(r, i, outcome)[s] = req[s]
BY DEF RequestsShape, end

(***************************************************************************)
(* A step that keeps user, key and dumps and the login and crash requests, *)
(* begins no configuration request unless the process is up, and at most   *)
(* makes it quit.                                                          *)
(***************************************************************************)
LEMMA QuietStep ==
  ASSUME SessionInv, app' = app \/ (quit /\ running),
         disk' = [disk EXCEPT !.config = disk'.config, !.tests = disk'.tests],
         UNCHANGED <<loggedIn, files, ghost>>, watch' \subseteq watch,
         running =>
           /\ RequestsShape(req') /\ req'["login"] = req["login"] /\ req'["crash"] = req["crash"]
           /\ app.phase = "up" \/ req["config"].replies # <<>> \/ req'["config"] = req["config"]
  PROVE  SessionInv'
<1>1. /\ app' \in [phase : {"down", "up", "quitting"}, starts : Nat, opts : Options]
      /\ app'.phase = "up" => app.phase = "up"
      /\ running' => running
  BY DEF SessionInv, Shape, quit, running
<1>2. disk'.user = disk.user /\ disk'.key = disk.key /\ disk'.dumps = disk.dumps
  BY DEF SessionInv, Shape
<1>3. Shape'
  BY <1>1, <1>2 DEF SessionInv, Shape
<1>4. RequestsKept'
  BY <1>1, <1>2 DEF SessionInv, RequestsKept
<1>5. KilledIsOver'
  BY <1>1 DEF SessionInv, KilledIsOver
<1>6. LateLogins'
  BY <1>1 DEF SessionInv, KilledIsOver, LateLogins
<1> QED BY <1>2, <1>3, <1>4, <1>5, <1>6 DEF SessionInv, KeyOfUser, DumpsReported, KilledForgetsUser

-----------------------------------------------------------------------------
(* main(): nobody is logged in yet, and the dumps that are listed are uploaded or unreadable. *)
LEMMA MainStep ==
  ASSUME SessionInv, NEW opts \in Calls, NEW readable \in SUBSET disk.dumps, main(opts, readable)
  PROVE  SessionInv'
<1> DEFINE rq == begin(NoRequests, "config", "request")
           p == [files |-> disk.dumps \cap readable, addressed |-> initConfig = "full"]
<1>1. /\ app' = [phase |-> "up", starts |-> app.starts + 1, opts |-> opts]
      /\ disk' = [disk EXCEPT !.device = TRUE] /\ files' = disk.dumps
      /\ req' = uploadReports(rq, disk.dumps, readable)
      /\ watch' = {"config", "login"} /\ loggedIn' = FALSE
      /\ ghost' = [ghost EXCEPT !.killed = FALSE, !.late = {}, !.unreadable = @ \cup (disk.dumps \ readable)]
  BY DEF main
<1>2. /\ disk'.user = disk.user /\ disk'.key = disk.key /\ disk'.dumps = disk.dumps
      /\ ghost'.dumps = ghost.dumps /\ ghost'.received = ghost.received /\ ~ghost'.killed
      /\ ghost'.unreadable = ghost.unreadable \cup (disk.dumps \ readable)
  BY <1>1 DEF SessionInv, Shape
<1>3. Shape'
  <2>1. opts \in Options /\ app.starts \in Nat
    BY CallsAssumption DEF SessionInv, Shape
  <2>2. app' \in [phase : {"down", "up", "quitting"}, starts : Nat, opts : Options]
    BY <1>1, <2>1
  <2>3. ghost' = [dumps |-> ghost'.dumps, received |-> ghost'.received, unreadable |-> ghost'.unreadable,
                  killed |-> ghost'.killed, late |-> ghost'.late]
    BY <1>1 DEF SessionInv, Shape
  <2> QED BY <1>1, <1>2, <2>2, <2>3 DEF SessionInv, Shape
<1>4. RequestsKept'
  <2>1. RequestsShape(NoRequests) /\ \A r \in Requesters : NoRequests[r].replies = <<>>
    BY DEF RequestsShape, NoRequests
  <2>2. RequestsShape(rq) /\ rq["login"].replies = <<>> /\ rq["crash"].replies = <<>>
    BY <2>1, BeginOne DEF Requesters
  <2> HIDE DEF rq
  <2>3. <<>> \in Seq(LoginRequests(disk'.user))
        /\ <<>> \in Seq(Uploads(files', ghost'.unreadable, ghost'.dumps))
    OBVIOUS
  <2>4. CASE disk.dumps = {}
    <3>1. req' = rq
      BY <1>1, <2>4 DEF uploadReports
    <3> QED BY <1>1, <2>2, <2>3, <3>1 DEF RequestsKept
  <2>5. CASE disk.dumps # {}
    <3>1. req' = begin(rq, "crash", p)
      BY <1>1, <2>5 DEF uploadReports
    <3>2. p \in Uploads(files', ghost'.unreadable, ghost'.dumps)
      BY <1>1, <1>2 DEF Uploads, SessionInv, Shape
    <3> HIDE DEF p
    <3>3. RequestsShape(req') /\ req'["login"].replies = <<>> /\ req'["crash"].replies = Append(<<>>, p)
      BY <2>2, <3>1, BeginOne DEF Requesters
    <3>4. req'["crash"].replies \in Seq(Uploads(files', ghost'.unreadable, ghost'.dumps))
      BY <2>3, <3>2, <3>3
    <3> QED BY <1>1, <2>3, <3>3, <3>4 DEF RequestsKept
  <2> QED BY <2>4, <2>5
<1>5. KilledIsOver' /\ LateLogins' /\ KeyOfUser' /\ KilledForgetsUser'
  BY <1>1, <1>2 DEF KilledIsOver, LateLogins, KeyOfUser, KilledForgetsUser
<1>6. DumpsReported'
  BY <1>2 DEF SessionInv, DumpsReported
<1> QED BY <1>3, <1>4, <1>5, <1>6 DEF SessionInv

(* The end of the process, by itself or by a crash, leaves user and key, and adds to the dumps. *)
LEMMA EndStep ==
  ASSUME SessionInv, shutDown \/ crash
  PROVE  SessionInv'
<1>1. app' = [app EXCEPT !.phase = "down", !.opts = NoCall] /\ loggedIn' = FALSE
  BY DEF shutDown, crash, gone
<1>2. app' \in [phase : {"down", "up", "quitting"}, starts : Nat, opts : Options] /\ ~running'
  BY <1>1 DEF SessionInv, Shape, NoCall, Options, running
<1>3. \/ /\ disk' = [disk EXCEPT !.tests = @ \cup known, !.config = config]
         /\ ghost' = ghost
      \/ /\ disk' = [disk EXCEPT !.dumps = @ \cup {app.starts}]
         /\ ghost' = [ghost EXCEPT !.dumps = @ \cup {app.starts}]
  BY DEF shutDown, crash
<1>4. /\ disk'.user = disk.user /\ disk'.key = disk.key
      /\ ghost'.received = ghost.received /\ ghost'.unreadable = ghost.unreadable
      /\ ghost'.killed = ghost.killed /\ ghost'.late = ghost.late
      /\ \E X : disk'.dumps = disk.dumps \cup X /\ ghost'.dumps = ghost.dumps \cup X
  <2>1. CASE disk' = [disk EXCEPT !.tests = @ \cup known, !.config = config] /\ ghost' = ghost
    <3>1. disk'.dumps = disk.dumps \cup {} /\ ghost'.dumps = ghost.dumps \cup {}
      BY <2>1 DEF SessionInv, Shape
    <3> QED BY <2>1, <3>1 DEF SessionInv, Shape
  <2>2. CASE /\ disk' = [disk EXCEPT !.dumps = @ \cup {app.starts}]
             /\ ghost' = [ghost EXCEPT !.dumps = @ \cup {app.starts}]
    <3>1. disk'.dumps = disk.dumps \cup {app.starts} /\ ghost'.dumps = ghost.dumps \cup {app.starts}
      BY <2>2 DEF SessionInv, Shape
    <3> QED BY <2>2, <3>1 DEF SessionInv, Shape
  <2> QED BY <1>3, <2>1, <2>2
<1>5. Shape'
  <2>1. disk' = [device |-> disk'.device, user |-> disk'.user, key |-> disk'.key,
                 config |-> disk'.config, tests |-> disk'.tests, dumps |-> disk'.dumps]
        /\ ghost' = [dumps |-> ghost'.dumps, received |-> ghost'.received,
                     unreadable |-> ghost'.unreadable, killed |-> ghost'.killed, late |-> ghost'.late]
    BY <1>3 DEF SessionInv, Shape
  <2> QED BY <1>2, <1>4, <2>1 DEF SessionInv, Shape
<1>6. RequestsKept' /\ KilledIsOver' /\ LateLogins' /\ KeyOfUser'
  BY <1>1, <1>2 DEF RequestsKept, KilledIsOver, LateLogins, KeyOfUser, running
<1>7. DumpsReported' /\ KilledForgetsUser'
  BY <1>4 DEF SessionInv, DumpsReported, KilledForgetsUser
<1> QED BY <1>5, <1>6, <1>7 DEF SessionInv

(* The first configuration makes ConfigWatcher log in, for the user it stores. *)
LEMMA ConfigStep ==
  ASSUME SessionInv, running, NEW i \in 1..Len(req["config"].replies), NEW outcome \in ReplyOutcomes,
         configFinished(i, outcome)
  PROVE  SessionInv'
<1> DEFINE cfg == IF outcome = "filled" THEN "full" ELSE config
           d == IF outcome = "failed" THEN disk ELSE [disk EXCEPT !.config = cfg]
           done == end("config", i, outcome)
<1>1. RequestsShape(done) /\ done["login"] = req["login"] /\ done["crash"] = req["crash"]
  BY EndOne DEF SessionInv, RequestsKept, Requesters
<1>2. UNCHANGED <<loggedIn, files, ghost>> /\ req["config"].replies # <<>>
  BY DEF configFinished
<1>3. d = [disk EXCEPT !.config = d.config, !.tests = d.tests]
  BY DEF SessionInv, Shape
<1>4. \/ onStatusChanged(done, cfg, d) /\ watch' = watch \ {"config"} /\ "config" \in watch
      \/ disk' = d /\ req' = done /\ UNCHANGED <<app, watch>>
  BY DEF configFinished
<1> HIDE DEF cfg, d, done
<1>5. CASE disk' = d /\ req' = done /\ UNCHANGED <<app, watch>>
  BY <1>1, <1>2, <1>3, <1>5, QuietStep
<1>6. CASE disk' = d /\ req' = done /\ quit /\ watch' = watch \ {"config"}
  BY <1>1, <1>2, <1>3, <1>6, QuietStep
<1>7. ASSUME NEW type \in {"register", "login", "check"}, NEW user,
             req' = begin(done, "login", loginRequest(type, user, cfg, d.key)),
             disk' = [d EXCEPT !.user = user], UNCHANGED app,
             watch' = watch \ {"config"}, "config" \in watch
      PROVE  SessionInv'
  <2> DEFINE p == loginRequest(type, user, cfg, d.key)
  <2>1. /\ disk'.user = user /\ disk'.key = disk.key /\ disk'.dumps = disk.dumps
        /\ disk' = [device |-> disk'.device, user |-> disk'.user, key |-> disk'.key,
                    config |-> disk'.config, tests |-> disk'.tests, dumps |-> disk'.dumps]
    BY <1>3, <1>7 DEF SessionInv, Shape
  <2>2. p \in LoginRequests(disk'.user)
    BY <2>1 DEF loginRequest, LoginRequests
  <2> HIDE DEF p
  <2>3. RequestsShape(req') /\ req'["login"].replies = Append(<<>>, p) /\ req'["crash"] = req["crash"]
    BY <1>1, <1>7, BeginOne DEF SessionInv, RequestsKept, Requesters, p
  <2>4. <<>> \in Seq(LoginRequests(disk'.user))
    OBVIOUS
  <2>5. req'["login"].replies \in Seq(LoginRequests(disk'.user))
    BY <2>2, <2>3, <2>4
  <2>6. ~loggedIn'
    BY <1>2, <1>7 DEF SessionInv, RequestsKept
  <2>7. ghost.killed => app'.phase # "up" /\ "config" \in ghost.late
    BY <1>2, <1>7 DEF SessionInv, KilledIsOver, LateLogins
  <2>8. Shape' /\ DumpsReported'
    BY <1>2, <1>7, <2>1 DEF SessionInv, Shape, DumpsReported
  <2>9. RequestsKept'
    BY <1>2, <1>7, <2>3, <2>5 DEF SessionInv, RequestsKept
  <2>10. KilledIsOver' /\ LateLogins' /\ KeyOfUser' /\ KilledForgetsUser'
    BY <1>2, <1>7, <2>6, <2>7 DEF KilledIsOver, LateLogins, KeyOfUser, KilledForgetsUser
  <2> QED BY <2>8, <2>9, <2>10 DEF SessionInv
<1>8. ASSUME NEW type \in {"register", "login", "check"}, NEW user, logIn(done, cfg, d, type, user),
             watch' = watch \ {"config"}, "config" \in watch
      PROVE  SessionInv'
  BY <1>7, <1>8 DEF logIn
<1>9. CASE autoLogin(done, cfg, d) /\ watch' = watch \ {"config"} /\ "config" \in watch
  <2>1. CASE req' = begin(done, "login", loginRequest("check", d.user, cfg, d.key)) /\ UNCHANGED app
    <3>1. disk' = [d EXCEPT !.user = d.user]
      BY <1>3, <1>9 DEF autoLogin, SessionInv, Shape
    <3> QED BY <1>7, <1>9, <2>1, <3>1
  <2>2. CASE req' = done /\ quit
    BY <1>6, <1>9, <2>2 DEF autoLogin
  <2> QED BY <1>9, <2>1, <2>2 DEF autoLogin
<1>10. app.opts.type \in {"register", "login", "auto"}
  BY DEF SessionInv, Shape, Options
<1> QED BY <1>4, <1>5, <1>8, <1>9, <1>10 DEF onStatusChanged, quits

(* The server's answer to a login: the key is that of the user the request named. *)
LEMMA LoginStep ==
  ASSUME SessionInv, running, NEW i \in 1..Len(req["login"].replies), NEW outcome,
         NEW registered, loginFinished(i, outcome, registered)
  PROVE  SessionInv'
<1> DEFINE request == req["login"].replies[i]
           key == IF outcome = "empty" THEN Nobody ELSE request.user
           isRegistered == registered /\ request.type # "register" /\ outcome = "filled"
           done == end("login", i, outcome)
<1>1. /\ RequestsShape(done) /\ done["crash"] = req["crash"]
      /\ done["login"].replies = RemoveAt(req["login"].replies, i)
  BY EndOne DEF SessionInv, RequestsKept, Requesters
<1>2. ~ghost.killed =>
        request \in LoginRequests(disk.user) /\ done["login"].replies \in Seq(LoginRequests(disk.user))
  BY <1>1, RemoveAtType DEF SessionInv, RequestsKept
<1>3. ~ghost.killed => request.user = disk.user
  BY <1>2 DEF LoginRequests
<1>4. UNCHANGED <<files, ghost>> /\ (ghost.killed => ghost.late # {})
  BY DEF loginFinished, SessionInv, LateLogins
<1>5. watch' \subseteq watch
  BY DEF loginFinished
<1>6. "config" \notin watch
  <2>1. req["login"].replies # <<>>
    OBVIOUS
  <2> QED BY <2>1 DEF SessionInv, RequestsKept
<1>7. /\ disk' = disk \/ disk' = [disk EXCEPT !.key = key]
      /\ loggedIn' => (loggedIn /\ disk' = disk) \/ disk' = [disk EXCEPT !.key = key]
  BY DEF loginFinished
<1>8. app' = app \/ quit
  BY DEF loginFinished, onLoginOrRegistrationFinished
<1>9. RequestsShape(req') /\ req'["login"] = done["login"] /\ req'["crash"] = req["crash"]
  <2> DEFINE rq == loginStatusChanged(done, isRegistered)
  <2> HIDE DEF done, isRegistered
  <2>1. RequestsShape(rq) /\ rq["login"] = done["login"] /\ rq["crash"] = done["crash"]
    BY <1>1, BeginOne DEF loginStatusChanged, Requesters
  <2> HIDE DEF rq
  <2>2. /\ RequestsShape(begin(rq, "device", "request"))
        /\ begin(rq, "device", "request")["login"] = rq["login"]
        /\ begin(rq, "device", "request")["crash"] = rq["crash"]
    BY <2>1, BeginOne DEF Requesters
  <2>3. req' \in {done, rq, begin(rq, "device", "request")}
    BY DEF loginFinished, onLoginOrRegistrationFinished, rq, done, isRegistered
  <2> QED BY <1>1, <2>1, <2>2, <2>3
<1> HIDE DEF done, key, request, isRegistered
<1>10. /\ disk'.user = disk.user /\ disk'.dumps = disk.dumps
       /\ disk' = [device |-> disk'.device, user |-> disk'.user, key |-> disk'.key,
                   config |-> disk'.config, tests |-> disk'.tests, dumps |-> disk'.dumps]
  BY <1>7 DEF SessionInv, Shape
<1>11. app' \in [phase : {"down", "up", "quitting"}, starts : Nat, opts : Options]
  BY <1>8 DEF SessionInv, Shape, quit
<1>12. Shape' /\ DumpsReported'
  BY <1>4, <1>10, <1>11 DEF SessionInv, Shape, DumpsReported
<1>13. RequestsKept'
  BY <1>2, <1>4, <1>5, <1>6, <1>9, <1>10 DEF SessionInv, RequestsKept
<1>14. KeyOfUser'
  <2>1. CASE disk' = [disk EXCEPT !.key = key]
    <3>1. disk'.key = key
      BY <2>1 DEF SessionInv, Shape
    <3> QED BY <1>3, <1>4, <1>10, <3>1 DEF KeyOfUser, key
  <2>2. CASE disk' # [disk EXCEPT !.key = key]
    BY <1>4, <1>7, <2>2 DEF SessionInv, KeyOfUser
  <2> QED BY <2>1, <2>2
<1>15. KilledIsOver'
  BY <1>4, <1>8, <1>11 DEF SessionInv, KilledIsOver, quit
<1>16. LateLogins' /\ KilledForgetsUser'
  BY <1>4, <1>5, <1>6, <1>10 DEF SessionInv, LateLogins, KilledForgetsUser
<1> QED BY <1>12, <1>13, <1>14, <1>15, <1>16 DEF SessionInv

(* Instructions: the kill switch "settings" ends the process that obeys it. *)
LEMMA InstructionStep ==
  ASSUME SessionInv, running, NEW i, NEW outcome, NEW kill \in Kills,
         instructionReply(i, outcome, kill)
  PROVE  SessionInv'
<1> DEFINE done == end("instruction", i, outcome)
<1>1. /\ RequestsShape(done) /\ done["login"] = req["login"] /\ done["crash"] = req["crash"]
      /\ done["config"] = req["config"]
  BY EndOne DEF SessionInv, RequestsKept, Requesters
<1>2. UNCHANGED <<watch, loggedIn, files>>
  BY DEF instructionReply
<1>3. CASE req' = done /\ UNCHANGED <<app, disk, known, ghost>>
  <2>1. disk' = [disk EXCEPT !.config = disk'.config, !.tests = disk'.tests]
    BY <1>3 DEF SessionInv, Shape
  <2> QED BY <1>1, <1>2, <1>3, <2>1, QuietStep
<1>4. CASE instructionFinished(done, req["instruction"].replies[i], kill)
  <2> DEFINE c == req["instruction"].replies[i]
             needed == c.wanted \ known
  <2> HIDE DEF done, c
  <2>1. /\ RequestsShape(req') /\ req'["login"] = req["login"] /\ req'["crash"] = req["crash"]
        /\ req'["config"] = req["config"]
    <3>1. req' = done \/ req' = begin(done, "schedule", needed)
      BY <1>4 DEF instructionFinished, c
    <3>2. /\ RequestsShape(begin(done, "schedule", needed))
          /\ begin(done, "schedule", needed)["login"] = done["login"]
          /\ begin(done, "schedule", needed)["crash"] = done["crash"]
          /\ begin(done, "schedule", needed)["config"] = done["config"]
      BY <1>1, BeginOne DEF Requesters
    <3> QED BY <1>1, <3>1, <3>2
  <2>2. disk' = [killed(disk, kill) EXCEPT !.tests = @ \ (c.withdrawn \cap known)]
    BY <1>4 DEF instructionFinished, c
  <2>3. CASE kill # "settings"
    <3>1. UNCHANGED <<app, ghost>>
      BY <1>4, <2>3 DEF instructionFinished
    <3>2. killed(disk, kill) = disk \/ killed(disk, kill) = [disk EXCEPT !.tests = {}]
      BY <2>3 DEF killed, Kills
    <3>3. disk' = [disk EXCEPT !.config = disk'.config, !.tests = disk'.tests]
      BY <2>2, <3>2 DEF SessionInv, Shape
    <3> QED BY <1>2, <2>1, <3>1, <3>3, QuietStep
  <2>4. CASE kill = "settings"
    <3>1. quit /\ ghost' = [ghost EXCEPT !.killed = TRUE, !.late = loginsUnderWay]
      BY <1>4, <2>4 DEF instructionFinished
    <3>2. killed(disk, kill) = [disk EXCEPT !.tests = {}, !.device = FALSE, !.user = Nobody,
                                            !.key = Nobody, !.config = "none"]
      BY <2>4 DEF killed
    <3>3. /\ disk'.user = Nobody /\ disk'.key = Nobody /\ disk'.dumps = disk.dumps
          /\ disk' = [device |-> disk'.device, user |-> disk'.user, key |-> disk'.key,
                      config |-> disk'.config, tests |-> disk'.tests, dumps |-> disk'.dumps]
      BY <2>2, <3>2 DEF SessionInv, Shape
    <3>4. /\ app' \in [phase : {"down", "up", "quitting"}, starts : Nat, opts : Options]
          /\ app'.phase = "quitting"
      BY <3>1 DEF SessionInv, Shape, quit
    <3>5. /\ ghost'.dumps = ghost.dumps /\ ghost'.received = ghost.received
          /\ ghost'.unreadable = ghost.unreadable
          /\ ghost'.late = loginsUnderWay /\ ghost'.killed
          /\ ghost' = [dumps |-> ghost'.dumps, received |-> ghost'.received, unreadable |-> ghost'.unreadable,
                       killed |-> ghost'.killed, late |-> ghost'.late]
      BY <3>1 DEF SessionInv, Shape
    <3>6. Shape'
      BY <3>3, <3>4, <3>5 DEF SessionInv, Shape
    <3>7. RequestsKept'
      BY <1>2, <2>1, <3>5 DEF SessionInv, RequestsKept
    <3>8. LateLogins'
      BY <1>2, <2>1, <3>5 DEF LateLogins, loginsUnderWay
    <3> QED BY <3>3, <3>4, <3>5, <3>6, <3>7, <3>8
            DEF SessionInv, KilledIsOver, KeyOfUser, DumpsReported, KilledForgetsUser
  <2> QED BY <2>3, <2>4
<1> QED BY <1>3, <1>4 DEF instructionReply

(* The answer to a crash upload: what is removed was received, or could not be read. *)
LEMMA CrashStep ==
  ASSUME SessionInv, running, NEW i \in 1..Len(req["crash"].replies), NEW outcome,
         crashReply(i, outcome)
  PROVE  SessionInv'
<1> DEFINE p == req["crash"].replies[i]
           done == end("crash", i, outcome)
<1>1. /\ RequestsShape(done) /\ done["login"] = req["login"] /\ done["config"] = req["config"]
      /\ done["crash"].replies = RemoveAt(req["crash"].replies, i)
  BY EndOne DEF SessionInv, RequestsKept, Requesters
<1>2. /\ p \in Uploads(files, ghost.unreadable, ghost.dumps)
      /\ done["crash"].replies \in Seq(Uploads(files, ghost.unreadable, ghost.dumps))
  BY <1>1, RemoveAtType DEF SessionInv, RequestsKept
<1>3. files \subseteq p.files \cup ghost.unreadable
  BY <1>2 DEF Uploads
<1>4. UNCHANGED <<app, watch, loggedIn>> /\ req' = done
  BY DEF crashReply
<1> HIDE DEF done, p
<1>5. CASE UNCHANGED <<disk, files, ghost>>
  BY <1>1, <1>2, <1>4, <1>5 DEF SessionInv, Shape, RequestsKept, KilledIsOver, LateLogins, KeyOfUser,
                               DumpsReported, KilledForgetsUser
<1>6. CASE /\ disk' = [disk EXCEPT !.dumps = @ \ files] /\ files' = {}
           /\ ghost' = [ghost EXCEPT !.received = @ \cup p.files]
  <2>1. /\ disk'.user = disk.user /\ disk'.key = disk.key /\ disk'.dumps = disk.dumps \ files
        /\ disk' = [device |-> disk'.device, user |-> disk'.user, key |-> disk'.key,
                    config |-> disk'.config, tests |-> disk'.tests, dumps |-> disk'.dumps]
    BY <1>6 DEF SessionInv, Shape
  <2>2. /\ ghost'.dumps = ghost.dumps /\ ghost'.received = ghost.received \cup p.files
        /\ ghost'.unreadable = ghost.unreadable /\ ghost'.killed = ghost.killed
        /\ ghost'.late = ghost.late
        /\ ghost' = [dumps |-> ghost'.dumps, received |-> ghost'.received, unreadable |-> ghost'.unreadable,
                     killed |-> ghost'.killed, late |-> ghost'.late]
    BY <1>6 DEF SessionInv, Shape
  <2>3. Shape'
    BY <1>4, <2>1, <2>2 DEF SessionInv, Shape
  <2>4. \A q : q \in Uploads(files, ghost.unreadable, ghost.dumps)
                => q \in Uploads({}, ghost.unreadable, ghost.dumps)
    BY DEF Uploads
  <2>5. done["crash"].replies \in Seq(Uploads({}, ghost.unreadable, ghost.dumps))
    BY <1>2, <2>4
  <2>6. RequestsKept'
    BY <1>1, <1>4, <1>6, <2>1, <2>2, <2>5 DEF SessionInv, RequestsKept
  <2>7. DumpsReported'
    BY <1>3, <2>1, <2>2 DEF SessionInv, DumpsReported
  <2>8. KilledIsOver' /\ LateLogins'
    BY <1>1, <1>4, <2>2 DEF SessionInv, KilledIsOver, LateLogins, running
  <2> QED BY <1>4, <2>1, <2>2, <2>3, <2>6, <2>7, <2>8 DEF SessionInv, KeyOfUser, KilledForgetsUser
<1> QED BY <1>5, <1>6 DEF crashReply, p

(* Initially there is nothing on the disk and no process. *)
LEMMA InitSession == SessionInit => SessionInv
BY DEF SessionInit, SessionInv, Shape, RequestsKept, KilledIsOver, LateLogins, KeyOfUser,
       DumpsReported, KilledForgetsUser, NoCall, Options, running

(* Every step of the process, the server and the user keeps the invariant. *)
LEMMA StepSession == SessionInv /\ [SessionNext]_sessionVars => SessionInv'
<1> SUFFICES ASSUME SessionInv, [SessionNext]_sessionVars PROVE SessionInv'
  OBVIOUS
<1>1. ASSUME NEW opts \in Calls, NEW readable \in SUBSET disk.dumps, main(opts, readable)
      PROVE  SessionInv'
  BY <1>1, MainStep
<1>2. CASE shutDown \/ crash
  BY <1>2, EndStep
<1>3. disk = [disk EXCEPT !.config = disk.config, !.tests = disk.tests]
  BY DEF SessionInv, Shape
<1>4. running => RequestsShape(req)
  BY DEF SessionInv, RequestsKept
<1>11. CASE handleSigTerm
  <2>1. running /\ quit /\ UNCHANGED <<disk, req, watch, loggedIn, files, ghost>>
    BY <1>11 DEF handleSigTerm, running
  <2> QED BY <1>3, <1>4, <2>1, QuietStep
<1>5. CASE update
  <2>1. RequestsShape(req') /\ req'["login"] = req["login"] /\ req'["crash"] = req["crash"]
    BY <1>4, <1>5, BeginOne DEF update, Requesters, running
  <2> QED BY <1>3, <1>5, <2>1, QuietStep DEF update
<1>6. CASE fetchTasks
  <2>1. RequestsShape(req') /\ req'["login"] = req["login"] /\ req'["crash"] = req["crash"]
    BY <1>4, <1>6, BeginOne DEF fetchTasks, Requesters, running
  <2> QED BY <1>3, <1>6, <2>1, QuietStep DEF fetchTasks
<1>7. ASSUME NEW r \in Requesters, ReplyArrives(r) PROVE SessionInv'
  <2>1. running
    BY <1>7 DEF ReplyArrives, reply
  <2>2. PICK outcome \in ReplyOutcomes, i \in 1..Len(req[r].replies) : replyOf(r, i, outcome)
    BY <1>7 DEF ReplyArrives, reply
  <2>3. CASE r = "config"
    BY <2>1, <2>2, <2>3, ConfigStep DEF replyOf
  <2>4. CASE r = "login"
    BY <2>1, <2>2, <2>4, LoginStep DEF replyOf
  <2>5. CASE r = "device"
    <3>1. deviceFinished(i, outcome)
      BY <2>2, <2>5 DEF replyOf
    <3>2. /\ RequestsShape(req') /\ req'["login"] = req["login"] /\ req'["crash"] = req["crash"]
          /\ req'["config"] = req["config"]
      BY <1>4, <2>1, <3>1, EndOne DEF deviceFinished, Requesters
    <3> QED BY <1>3, <2>1, <3>1, <3>2, QuietStep DEF deviceFinished
  <2>6. CASE r = "instruction"
    BY <2>1, <2>2, <2>6, InstructionStep DEF replyOf
  <2>7. CASE r = "schedule"
    <3>1. scheduleReply(i, outcome)
      BY <2>2, <2>7 DEF replyOf
    <3>2. /\ RequestsShape(req') /\ req'["login"] = req["login"] /\ req'["crash"] = req["crash"]
          /\ req'["config"] = req["config"]
      BY <1>4, <2>1, <3>1, EndOne DEF scheduleReply, Requesters
    <3>3. disk' = [disk EXCEPT !.config = disk'.config, !.tests = disk'.tests]
      BY <3>1 DEF scheduleReply, SessionInv, Shape
    <3> QED BY <3>1, <3>2, <3>3, QuietStep DEF scheduleReply
  <2>8. CASE r = "crash"
    BY <2>1, <2>2, <2>8, CrashStep DEF replyOf
  <2> QED BY <2>3, <2>4, <2>5, <2>6, <2>7, <2>8 DEF Requesters
<1>8. ASSUME NEW id \in Ids, serverChanges(id) PROVE SessionInv'
  BY <1>3, <1>4, <1>8, QuietStep DEF serverChanges
<1>9. ASSUME NEW id \in Ids, lastRun(id) PROVE SessionInv'
  <2>1. disk' = [disk EXCEPT !.config = disk'.config, !.tests = disk'.tests]
    BY <1>9 DEF lastRun, SessionInv, Shape
  <2> QED BY <1>4, <1>9, <2>1, QuietStep DEF lastRun
<1>10. CASE UNCHANGED sessionVars
  BY <1>3, <1>4, <1>10, QuietStep DEF sessionVars
<1> QED BY <1>1, <1>2, <1>5, <1>6, <1>7, <1>8, <1>9, <1>10, <1>11 DEF SessionNext

(* The inductive invariant holds throughout, whatever crashes and restarts come. *)
LEMMA SessionInvariance == SessionSpec => []SessionInv
BY InitSession, StepSession, PTL DEF SessionSpec

(***************************************************************************)
(* A client that is logged in has the api key of the user it has stored,   *)
(* or none, although the user is stored before the server has agreed,      *)
(* unless it is quitting because of a kill switch.                         *)
(***************************************************************************)
THEOREM LoggedInWithOwnKey == SessionSpec => []KeyOfUser
<1>1. SessionInv => KeyOfUser BY DEF SessionInv
<1> QED BY <1>1, SessionInvariance, PTL

(***************************************************************************)
(* No crash dump that could be read is removed before the server has it,   *)
(* whatever crashes and restarts come between.                             *)
(***************************************************************************)
THEOREM NoDumpLost == SessionSpec => []DumpsReported
<1>1. SessionInv => DumpsReported BY DEF SessionInv
<1> QED BY <1>1, SessionInvariance, PTL

(***************************************************************************)
(* The kill switch leaves no login data: until the next start nothing but  *)
(* a login that was under way when it was obeyed brings user or key back,  *)
(* whatever replies, timers and destructors still run after quit().        *)
(***************************************************************************)
THEOREM KillSwitchForgets == SessionSpec => []KilledForgetsUser
<1>1. SessionInv => KilledForgetsUser BY DEF SessionInv
<1> QED BY <1>1, SessionInvariance, PTL

-----------------------------------------------------------------------------
(***************************************************************************)
(* Induction, stated with a set: the least counterexample.                 *)
(***************************************************************************)
LEMMA LeastNumber ==
  ASSUME NEW T \in SUBSET Nat, T # {}
  PROVE  \E m \in T : \A k \in T : m <= k
<1> DEFINE R == OpToRel(<, Nat)
<1>1. IsWellFoundedOn(R, Nat)
  BY NatLessThanWellFounded
<1>2. \A x, y \in Nat : y < x => <<y, x>> \in R
  BY DEF OpToRel
<1> HIDE DEF R
<1>3. PICK x \in T : \A y \in T : ~(<<y, x>> \in R)
  BY <1>1, WFMin
<1>4. \A y \in T : ~(y < x)
  BY <1>2, <1>3
<1>5. \A y \in T : x <= y
  BY <1>4
<1> QED BY <1>5

(* A set with 0 that has the successor of each of its numbers has all numbers. *)
LEMMA InductionOnSet ==
  ASSUME NEW T, 0 \in T, \A n \in Nat : n \in T => n + 1 \in T
  PROVE  \A n \in Nat : n \in T
<1> SUFFICES ASSUME Nat \ T # {} PROVE FALSE
  OBVIOUS
<1>1. PICK m \in Nat \ T : \A k \in Nat \ T : m <= k
  BY LeastNumber
<1>2. m # 0 /\ m - 1 \in Nat /\ m - 1 \in T
  BY <1>1
<1> QED BY <1>1, <1>2

-----------------------------------------------------------------------------
(* The entries of a list at some positions. *)

(* g[i] is what is selected of the first i entries. *)
Selects(g, list, positions, n) ==
  g = [i \in 0..n |-> IF i = 0 THEN <<>>
                      ELSE IF i \in positions THEN Append(g[i - 1], list[i]) ELSE g[i - 1]]

(* The recursion of selected() has a solution, for a list of any length. *)
LEMMA SelectsExists ==
  ASSUME NEW list, NEW positions
  PROVE  \A n \in Nat : \E g : Selects(g, list, positions, n)
<1> DEFINE T == {n \in Nat : \E g : Selects(g, list, positions, n)}
           New(a, i) == IF i \in positions THEN Append(a, list[i]) ELSE a
<1>1. 0 \in T
  <2> DEFINE g == [i \in 0..0 |-> <<>>]
  <2>1. g = [i \in 0..0 |-> IF i = 0 THEN <<>> ELSE New(g[i - 1], i)]
    <3> HIDE DEF New
    <3> QED OBVIOUS
  <2> HIDE DEF g
  <2>2. Selects(g, list, positions, 0)
    BY <2>1, Zenon DEF Selects
  <2> QED BY <2>2
<1>2. ASSUME NEW n \in Nat, n \in T PROVE n + 1 \in T
  <2>1. PICK g : Selects(g, list, positions, n)
    BY <1>2
  <2> DEFINE h == [i \in 0..(n + 1) |-> IF i = n + 1 THEN New(g[n], n + 1) ELSE g[i]]
  <2>2. \A i \in 0..n : g[i] = IF i = 0 THEN <<>> ELSE New(g[i - 1], i)
    BY <2>1, Zenon DEF Selects
  <2> HIDE DEF New
  <2>3. \A i \in 0..n : h[i] = g[i]
    OBVIOUS
  <2>4. h[n + 1] = New(g[n], n + 1)
    OBVIOUS
  <2>5. ASSUME NEW i \in 0..(n + 1) PROVE h[i] = IF i = 0 THEN <<>> ELSE New(h[i - 1], i)
    <3> HIDE DEF h
    <3>1. CASE i = n + 1
      <4>1. i - 1 = n /\ i # 0 /\ n \in 0..n
        BY <3>1
      <4>2. h[i - 1] = g[n]
        BY <2>3, <4>1
      <4> QED BY <2>4, <3>1, <4>1, <4>2
    <3>2. CASE i \in 0..n /\ i # 0
      <4>1. i - 1 \in 0..n
        BY <3>2
      <4>2. h[i] = g[i] /\ h[i - 1] = g[i - 1]
        BY <2>3, <3>2, <4>1
      <4> QED BY <2>2, <3>2, <4>2
    <3>3. CASE i = 0
      <4>1. h[0] = g[0] /\ g[0] = <<>>
        BY <2>2, <2>3
      <4> QED BY <3>3, <4>1
    <3> QED BY <3>1, <3>2, <3>3
  <2>6. h = [i \in 0..(n + 1) |-> IF i = 0 THEN <<>> ELSE New(h[i - 1], i)]
    BY <2>5
  <2>7. Selects(h, list, positions, n + 1)
    BY <2>6, Zenon DEF Selects, New
  <2> QED BY <2>7
<1> HIDE DEF T
<1>3. \A n \in Nat : n \in T
  BY <1>1, <1>2, InductionOnSet
<1> QED BY <1>3 DEF T

(* What selected() is computed by, one entry after the other. *)
SelectSteps(g, list, positions) ==
  /\ g[0] = <<>>
  /\ \A i \in 1..Len(list) : i \in positions => g[i] = Append(g[i - 1], list[i])
  /\ \A i \in 1..Len(list) : i \notin positions => g[i] = g[i - 1]

(* selected() is the last of such steps. *)
LEMMA SelectChain ==
  ASSUME NEW S, NEW list \in Seq(S), NEW positions
  PROVE  \E g : SelectSteps(g, list, positions) /\ selected(list, positions) = g[Len(list)]
<1> DEFINE g == CHOOSE g : Selects(g, list, positions, Len(list))
<1>0. Len(list) \in Nat
  OBVIOUS
<1>1. Selects(g, list, positions, Len(list))
  BY <1>0, SelectsExists
<1>2. selected(list, positions) = g[Len(list)]
  BY Zenon DEF selected, Selects
<1> HIDE DEF g
<1>3. \A i \in 0..Len(list) :
        g[i] = IF i = 0 THEN <<>> ELSE IF i \in positions THEN Append(g[i - 1], list[i]) ELSE g[i - 1]
  BY <1>1, Zenon DEF Selects
<1>4. 0 \in 0..Len(list) /\ \A i \in 1..Len(list) : i \in 0..Len(list) /\ i # 0
  BY <1>0
<1>5. g[0] = <<>>
  BY <1>3, <1>4, Zenon
<1>6. \A i \in 1..Len(list) : i \in positions => g[i] = Append(g[i - 1], list[i])
  BY <1>3, <1>4, Zenon
<1>7. \A i \in 1..Len(list) : i \notin positions => g[i] = g[i - 1]
  BY <1>3, <1>4, Zenon
<1>8. SelectSteps(g, list, positions)
  BY <1>5, <1>6, <1>7, Zenon DEF SelectSteps
<1> QED BY <1>2, <1>8, Zenon

(* The empty list is a list of anything. *)
LEMMA EmptyList == \A S : <<>> \in Seq(S) /\ Len(<<>>) = 0
OBVIOUS

(* A part of a list is a list of entries of the same kind. *)
LEMMA SelectedType ==
  ASSUME NEW S, NEW list \in Seq(S), NEW positions
  PROVE  selected(list, positions) \in Seq(S)
<1>0. PICK g : SelectSteps(g, list, positions) /\ selected(list, positions) = g[Len(list)]
  BY SelectChain, Zenon
<1>1. /\ g[0] = <<>>
      /\ \A i \in 1..Len(list) : i \in positions => g[i] = Append(g[i - 1], list[i])
      /\ \A i \in 1..Len(list) : i \notin positions => g[i] = g[i - 1]
  BY <1>0, Zenon DEF SelectSteps
<1> DEFINE T == {i \in Nat : i <= Len(list) => g[i] \in Seq(S)}
<1>2. 0 \in T
  BY <1>1, EmptyList
<1>3. ASSUME NEW n \in Nat, n \in T PROVE n + 1 \in T
  <2> SUFFICES ASSUME n + 1 <= Len(list) PROVE g[n + 1] \in Seq(S)
    OBVIOUS
  <2>1. n + 1 \in 1..Len(list) /\ (n + 1) - 1 = n /\ n <= Len(list) /\ list[n + 1] \in S
    OBVIOUS
  <2>2. g[n] \in Seq(S)
    BY <1>3, <2>1
  <2>3. g[n + 1] = Append(g[n], list[n + 1]) \/ g[n + 1] = g[n]
    BY <1>1, <2>1
  <2>4. Append(g[n], list[n + 1]) \in Seq(S)
    BY <2>1, <2>2
  <2> QED BY <2>2, <2>3, <2>4
<1> HIDE DEF T
<1>4. \A n \in Nat : n \in T
  BY <1>2, <1>3, InductionOnSet
<1> QED BY <1>0, <1>4 DEF T

(* A list with all its positions selected is itself. *)
LEMMA SelectedAll ==
  ASSUME NEW S, NEW list \in Seq(S), NEW positions, 1..Len(list) \subseteq positions
  PROVE  selected(list, positions) = list
<1>0. PICK g : SelectSteps(g, list, positions) /\ selected(list, positions) = g[Len(list)]
  BY SelectChain, Zenon
<1>1. /\ g[0] = <<>>
      /\ \A i \in 1..Len(list) : i \in positions => g[i] = Append(g[i - 1], list[i])
      /\ \A i \in 1..Len(list) : i \notin positions => g[i] = g[i - 1]
  BY <1>0, Zenon DEF SelectSteps
<1> DEFINE Prefix(x, n) == x \in Seq(S) /\ Len(x) = n /\ \A p \in 1..n : x[p] = list[p]
           T == {i \in Nat : i <= Len(list) => Prefix(g[i], i)}
<1>2. 0 \in T
  <2>1. Prefix(<<>>, 0)
    OBVIOUS
  <2> HIDE DEF Prefix
  <2> QED BY <1>1, <2>1
<1>3. ASSUME NEW n \in Nat, n \in T PROVE n + 1 \in T
  <2> SUFFICES ASSUME n + 1 <= Len(list) PROVE Prefix(g[n + 1], n + 1)
    OBVIOUS
  <2>1. n + 1 \in 1..Len(list) /\ (n + 1) - 1 = n /\ n <= Len(list) /\ list[n + 1] \in S
    OBVIOUS
  <2>2. Prefix(g[n], n)
    BY <1>3, <2>1
  <2>3. g[n + 1] = Append(g[n], list[n + 1])
    BY <1>1, <2>1
  <2> QED BY <2>1, <2>2, <2>3
<1>4. \A n \in Nat : n \in T
  <2> HIDE DEF T
  <2> QED BY <1>2, <1>3, InductionOnSet
<1>5. Prefix(g[Len(list)], Len(list))
  <2>1. Len(list) \in Nat /\ Len(list) <= Len(list)
    OBVIOUS
  <2> HIDE DEF Prefix
  <2> QED BY <1>4, <2>1
<1>6. ASSUME NEW x, Prefix(x, Len(list)) PROVE x = list
  BY <1>6
<1> HIDE DEF Prefix
<1> QED BY <1>0, <1>5, <1>6, Zenon

-----------------------------------------------------------------------------
(***************************************************************************)
(* A queue leads from a state to another: L has the triples of a state, an *)
(* event and the state after it, f the states between the events.          *)
(***************************************************************************)
Leads(f, L, q, a, b) ==
  f[0] = a /\ f[Len(q)] = b /\ \A p \in 1..Len(q) : <<f[p - 1], q[p], f[p]>> \in L
Stream(L, q, a, b) == \E f : Leads(f, L, q, a, b)

(* The empty queue leads nowhere. *)
LEMMA StreamEmpty ==
  /\ \A L, a : Stream(L, <<>>, a, a)
  /\ \A L, a, b : Stream(L, <<>>, a, b) => a = b
<1>1. ASSUME NEW L, NEW a PROVE Stream(L, <<>>, a, a)
  <2> DEFINE f == [p \in {0} |-> a]
  <2>1. f[0] = a /\ Len(<<>>) = 0 /\ 1..0 = {}
    OBVIOUS
  <2>2. Leads(f, L, <<>>, a, a)
    <3> HIDE DEF f
    <3> QED BY <2>1 DEF Leads
  <2> QED BY <2>2 DEF Stream
<1>2. ASSUME NEW L, NEW a, NEW b, Stream(L, <<>>, a, b) PROVE a = b
  <2>1. PICK f : Leads(f, L, <<>>, a, b)
    BY <1>2 DEF Stream
  <2>2. Len(<<>>) = 0
    OBVIOUS
  <2> QED BY <2>1, <2>2, Zenon DEF Leads
<1> QED BY <1>1, <1>2

(* An event at the end leads one step further. *)
LEMMA StreamAppend ==
  ASSUME NEW S, NEW q \in Seq(S), NEW e \in S, NEW L, NEW a, NEW b, NEW c,
         Stream(L, q, a, b), <<b, e, c>> \in L
  PROVE  Stream(L, Append(q, e), a, c)
<1>1. PICK f : Leads(f, L, q, a, b)
  BY DEF Stream
<1> DEFINE n == Len(q)
           r == Append(q, e)
           k == [p \in 0..(n + 1) |-> IF p = n + 1 THEN c ELSE f[p]]
<1>2. n \in Nat /\ Len(r) = n + 1 /\ r[n + 1] = e /\ \A p \in 1..n : r[p] = q[p]
  OBVIOUS
<1>3. f[0] = a /\ f[n] = b /\ \A p \in 1..n : <<f[p - 1], q[p], f[p]>> \in L
  BY <1>1 DEF Leads
<1> HIDE DEF n, r
<1>4. k[n + 1] = c /\ \A p \in 0..n : k[p] = f[p]
  BY <1>2
<1> HIDE DEF k
<1>5. ASSUME NEW p \in 1..(n + 1) PROVE <<k[p - 1], r[p], k[p]>> \in L
  <2>1. CASE p = n + 1
    <3>1. p - 1 = n /\ n \in 0..n
      BY <1>2, <2>1
    <3>2. k[p - 1] = b /\ r[p] = e /\ k[p] = c
      BY <1>2, <1>3, <1>4, <2>1, <3>1
    <3> QED BY <3>2
  <2>2. CASE p \in 1..n
    <3>1. p - 1 \in 0..n /\ p \in 0..n
      BY <1>2, <2>2
    <3>2. k[p - 1] = f[p - 1] /\ r[p] = q[p] /\ k[p] = f[p]
      BY <1>2, <1>4, <2>2, <3>1
    <3> QED BY <1>3, <2>2, <3>2
  <2> QED BY <1>2, <2>1, <2>2
<1>6. k[0] = a
  <2>1. 0 \in 0..n
    BY <1>2
  <2> QED BY <1>3, <1>4, <2>1
<1>7. Leads(k, L, r, a, c)
  BY <1>2, <1>4, <1>5, <1>6 DEF Leads
<1> QED BY <1>7 DEF Stream, r

(* The oldest event leads one step, the rest the others. *)
LEMMA StreamTail ==
  ASSUME NEW S, NEW q \in Seq(S), q # <<>>, NEW L, NEW a, NEW b, Stream(L, q, a, b)
  PROVE  \E c : <<a, Head(q), c>> \in L /\ Stream(L, Tail(q), c, b)
<1>1. PICK f : Leads(f, L, q, a, b)
  BY DEF Stream
<1> DEFINE n == Len(q)
           r == Tail(q)
           k == [p \in 0..(n - 1) |-> f[p + 1]]
<1>2. n \in Nat \ {0} /\ Len(r) = n - 1 /\ Head(q) = q[1] /\ \A p \in 1..(n - 1) : r[p] = q[p + 1]
  OBVIOUS
<1>3. f[0] = a /\ f[n] = b /\ \A p \in 1..n : <<f[p - 1], q[p], f[p]>> \in L
  BY <1>1 DEF Leads
<1> HIDE DEF n, r
<1>4. \A p \in 0..(n - 1) : k[p] = f[p + 1]
  OBVIOUS
<1> HIDE DEF k
<1>5. ASSUME NEW p \in 1..(n - 1) PROVE <<k[p - 1], r[p], k[p]>> \in L
  <2>1. p - 1 \in 0..(n - 1) /\ p \in 0..(n - 1) /\ p + 1 \in 1..n /\ (p - 1) + 1 = p /\ (p + 1) - 1 = p
    BY <1>2
  <2>2. k[p - 1] = f[p] /\ r[p] = q[p + 1] /\ k[p] = f[p + 1]
    BY <1>2, <1>4, <2>1
  <2>3. <<f[(p + 1) - 1], q[p + 1], f[p + 1]>> \in L
    BY <1>3, <2>1
  <2> QED BY <2>1, <2>2, <2>3
<1>6. k[0] = f[1] /\ k[n - 1] = b
  <2>1. 0 \in 0..(n - 1) /\ n - 1 \in 0..(n - 1) /\ 0 + 1 = 1 /\ (n - 1) + 1 = n
    BY <1>2
  <2> QED BY <1>3, <1>4, <2>1
<1>7. Leads(k, L, r, f[1], b)
  BY <1>2, <1>5, <1>6 DEF Leads
<1>8. <<a, q[1], f[1]>> \in L
  <2>1. 1 \in 1..n /\ 1 - 1 = 0
    BY <1>2
  <2>2. <<f[1 - 1], q[1], f[1]>> \in L
    BY <1>3, <2>1, Zenon
  <2> QED BY <1>3, <2>1, <2>2
<1> QED BY <1>2, <1>7, <1>8 DEF Stream, r

(* Events that change no state may be left out. *)
LEMMA StreamSelected ==
  ASSUME NEW S, NEW q \in Seq(S), NEW positions, NEW L, NEW a, NEW b, Stream(L, q, a, b),
         \A i \in 1..Len(q) : i \notin positions => \A x, y : <<x, q[i], y>> \in L => x = y
  PROVE  Stream(L, selected(q, positions), a, b)
<1>1. PICK f : Leads(f, L, q, a, b)
  BY DEF Stream
<1>2. PICK g : SelectSteps(g, q, positions) /\ selected(q, positions) = g[Len(q)]
  BY SelectChain, Zenon
<1>3. f[0] = a /\ f[Len(q)] = b /\ \A p \in 1..Len(q) : <<f[p - 1], q[p], f[p]>> \in L
  BY <1>1 DEF Leads
<1>4. /\ g[0] = <<>>
      /\ \A i \in 1..Len(q) : i \in positions => g[i] = Append(g[i - 1], q[i])
      /\ \A i \in 1..Len(q) : i \notin positions => g[i] = g[i - 1]
  BY <1>2, Zenon DEF SelectSteps
<1> DEFINE T == {n \in Nat : n <= Len(q) => g[n] \in Seq(S) /\ Stream(L, g[n], a, f[n])}
<1>5. 0 \in T
  <2>1. g[0] \in Seq(S)
    BY <1>4, EmptyList, Zenon
  <2>2. Stream(L, g[0], a, f[0])
    <3>1. g[0] = <<>> /\ f[0] = a /\ Stream(L, <<>>, a, a)
      BY <1>3, <1>4, StreamEmpty
    <3> QED BY <3>1
  <2> QED BY <2>1, <2>2
<1>6. ASSUME NEW n \in Nat, n \in T PROVE n + 1 \in T
  <2> SUFFICES ASSUME n + 1 <= Len(q) PROVE g[n + 1] \in Seq(S) /\ Stream(L, g[n + 1], a, f[n + 1])
    OBVIOUS
  <2> DEFINE m == n + 1
  <2>1. m \in 1..Len(q) /\ m - 1 = n /\ n <= Len(q) /\ q[m] \in S
    OBVIOUS
  <2>2. g[n] \in Seq(S) /\ Stream(L, g[n], a, f[n])
    BY <1>6, <2>1
  <2> HIDE DEF m
  <2>3. <<f[n], q[m], f[m]>> \in L
    <3>1. <<f[m - 1], q[m], f[m]>> \in L
      BY <1>3, <2>1, Zenon
    <3> QED BY <2>1, <3>1
  <2>4. CASE m \in positions
    <3>1. g[m] = Append(g[n], q[m])
      BY <1>4, <2>1, <2>4
    <3>2. Append(g[n], q[m]) \in Seq(S)
      BY <2>1, <2>2
    <3>3. Stream(L, Append(g[n], q[m]), a, f[m])
      BY <2>1, <2>2, <2>3, StreamAppend
    <3> QED BY <3>1, <3>2, <3>3 DEF m
  <2>5. CASE m \notin positions
    <3>1. g[m] = g[n] /\ f[m] = f[n]
      BY <1>4, <2>1, <2>3, <2>5
    <3> QED BY <2>2, <3>1 DEF m
  <2> QED BY <2>4, <2>5
<1>7. \A n \in Nat : n \in T
  <2> HIDE DEF T
  <2> QED BY <1>5, <1>6, InductionOnSet
<1>8. Len(q) \in Nat /\ Len(q) <= Len(q)
  OBVIOUS
<1> QED BY <1>2, <1>3, <1>7, <1>8

-----------------------------------------------------------------------------
(***************************************************************************)
(* OwnResult.  Seen from the model, a check is open from its checkStarted  *)
(* to its checkFinished.  While nothing overlaps at most one check is      *)
(* open; the events that wait lead from the check that is open for the     *)
(* rows to the one that is open for the jobs.                              *)
(***************************************************************************)
Tests == {"ActiveInterface", "DefaultGateway", "DefaultDns", "PingDefaultGateway",
          "LocalIpAddress", "PublicIpAddress", "PingGoogleDnsServer", "PingGoogleDomain"}
NoTest == "none"
OpenTests == Tests \cup {NoTest}

Outs == UNION {outcomes(t, m) : t \in Tests, m \in Machines}
Event == [kind : {"started", "finished"}]
         \cup [kind : {"checkStarted"}, job : Nat, test : Tests]
         \cup [kind : {"checkFinished"}, job : Nat, test : Tests, out : Outs]
Row == [test : Tests, finished : {FALSE}]
       \cup [test : Tests, finished : {TRUE}, of : Tests,
             success : {o.success : o \in Outs}, result : {o.result : o \in Outs}]

OpensOrCloses(a, e, b) ==
  \/ WatcherEvent(e) /\ b = a
  \/ e.kind = "checkStarted" /\ a = NoTest /\ b = e.test
  \/ e.kind = "checkFinished" /\ a = e.test /\ b = NoTest
Openings == {x \in OpenTests \X Event \X OpenTests : OpensOrCloses(x[1], x[2], x[3])}

(* The check a job has open; the check the rows have open. *)
Opened(j) == jobs[j] \in 0..Signals /\ jobs[j] % 2 = 1
TestOf(j) == checkInterfaces[jobs[j] \div 2 + 1]
JobsHaveOpen(b) ==
  \/ b = NoTest /\ \A j \in 1..MaxTests : ~Opened(j)
  \/ \E j \in 1..MaxTests : Opened(j) /\ b = TestOf(j)

Right(r) == r.finished /\ r.of = r.test
RowsHaveOpen(rs, a) ==
  \/ a = NoTest /\ \A i \in 1..Len(rs) : Right(rs[i])
  \/ a \in Tests /\ rs = <<>>
  \/ /\ a \in Tests /\ rs # <<>> /\ rs[Len(rs)] = row(a)
     /\ \A i \in 1..(Len(rs) - 1) : Right(rs[i])

TesterTyped ==
  /\ machine \in Machines /\ jobs \in [1..MaxTests -> Int]
  /\ queue \in Seq(Event) /\ rows \in Seq(Row) /\ overlapped \in BOOLEAN
JobsInOrder == \A i, j \in 1..MaxTests : i < j /\ ~Idle(j) => ~Idle(i)
OneAtATime == \A i, j \in 1..MaxTests : i < j /\ ~Idle(j) => Finished(i)
OneOpen == \E a, b \in OpenTests :
             RowsHaveOpen(rows, a) /\ JobsHaveOpen(b) /\ Stream(Openings, queue, a, b)
OwnInv == TesterTyped /\ JobsInOrder /\ (~overlapped => OneAtATime /\ OneOpen)

(* The checks of a machine are a list of tests, an even number of signals. *)
LEMMA ChecksTyped ==
  /\ checkInterfaces \in Seq(Tests) /\ Signals \in Nat /\ Signals % 2 = 0
  /\ \A n \in 0..(Signals - 1) : n \div 2 + 1 \in 1..Len(checkInterfaces)
                               /\ checkInterfaces[n \div 2 + 1] \in Tests
<1>1. AllChecks \in Seq(Tests)
  BY DEF AllChecks, Tests
<1>2. checkInterfaces \in Seq(Tests)
  BY <1>1, SelectedType DEF checkInterfaces
<1> DEFINE k == Len(checkInterfaces)
<1>3. k \in Nat /\ Signals = 2 * k /\ \A i \in 1..k : checkInterfaces[i] \in Tests
  BY <1>2 DEF Signals
<1> HIDE DEF k
<1>4. \A n \in 0..(2 * k - 1) : n \div 2 + 1 \in 1..k
  BY <1>3
<1>5. 2 * k \in Nat /\ (2 * k) % 2 = 0
  BY <1>3
<1> QED BY <1>2, <1>3, <1>4, <1>5 DEF k

(* The machine does not change, and so neither do its checks. *)
LEMMA ChecksStay ==
  ASSUME machine' = machine
  PROVE  /\ checkInterfaces' = checkInterfaces /\ Signals' = Signals
<1>1. checkInterfaces' = checkInterfaces
  BY DEF checkInterfaces
<1> QED BY <1>1 DEF Signals

(* The events of the queue, by what they open or close. *)
LEMMA OpeningsAre ==
  \A a, e, b : <<a, e, b>> \in Openings <=>
     a \in OpenTests /\ e \in Event /\ b \in OpenTests /\ OpensOrCloses(a, e, b)
BY DEF Openings

(* NoTest is no test. *)
LEMMA NoTestIsNone == NoTest \notin Tests /\ NoTest \in OpenTests /\ Tests \subseteq OpenTests
BY DEF NoTest, Tests, OpenTests

(* A row that was just started and then filled shows its own test. *)
LEMMA FilledRow ==
  ASSUME NEW rs \in Seq(Row), rs # <<>>, NEW t \in Tests, rs[Len(rs)] = row(t), NEW e, e.test = t,
         e.out \in Outs
  PROVE  /\ filled(rs, e) \in Seq(Row) /\ Len(filled(rs, e)) = Len(rs)
         /\ Right(filled(rs, e)[Len(rs)])
         /\ \A i \in 1..(Len(rs) - 1) : filled(rs, e)[i] = rs[i]
<1> DEFINE r == [test |-> rs[Len(rs)].test, finished |-> TRUE, of |-> e.test,
                 success |-> e.out.success, result |-> e.out.result]
           n == Len(rs)
<1>1. r \in Row /\ Right(r)
  <2>1. rs[Len(rs)].test = t /\ e.test = t
    BY DEF row
  <2>2. e.out.success \in {o.success : o \in Outs} /\ e.out.result \in {o.result : o \in Outs}
    OBVIOUS
  <2> DEFINE x == e.out.success
             y == e.out.result
  <2> HIDE DEF x, y
  <2>3. [test |-> t, finished |-> TRUE, of |-> t, success |-> x, result |-> y] \in Row
    BY <2>2 DEF Row, x, y
  <2> QED BY <2>1, <2>3 DEF Right, x, y
<1>2. filled(rs, e) = [rs EXCEPT ![n] = r]
  BY DEF filled
<1>3. n \in Nat \ {0}
  OBVIOUS
<1> HIDE DEF r
<1>4. [rs EXCEPT ![n] = r] \in Seq(Row) /\ Len([rs EXCEPT ![n] = r]) = n
  BY <1>1, <1>3
<1>5. [rs EXCEPT ![n] = r][n] = r /\ \A i \in 1..(n - 1) : [rs EXCEPT ![n] = r][i] = rs[i]
  BY <1>3
<1> QED BY <1>1, <1>2, <1>4, <1>5

(* At most one job is between its first signal and its end. *)
LEMMA ActiveAlone ==
  ASSUME OneAtATime, NEW i \in 1..MaxTests, NEW j \in 1..MaxTests,
         jobs[i] \in 0..Signals, jobs[j] \in 0..Signals
  PROVE  i = j
<1>1. Signals \in Nat
  BY ChecksTyped
<1>2. ~Idle(i) /\ ~Idle(j) /\ ~Finished(i) /\ ~Finished(j)
  BY <1>1 DEF Idle, Finished, NoJob
<1>3. i \in Int /\ j \in Int
  OBVIOUS
<1> QED BY <1>2, <1>3 DEF OneAtATime

(* The initial state: no rows, no events, no job. *)
LEMMA OwnInitially == TesterInit => OwnInv
<1> SUFFICES ASSUME TesterInit PROVE OwnInv
  OBVIOUS
<1>1. TesterTyped
  <2>1. jobs \in [1..MaxTests -> Int]
    BY DEF TesterInit, NoJob
  <2>2. queue \in Seq(Event) /\ rows \in Seq(Row)
    BY EmptyList DEF TesterInit
  <2> QED BY <2>1, <2>2 DEF TesterInit, TesterTyped
<1>2. \A j \in 1..MaxTests : Idle(j) /\ ~Opened(j)
  <2>1. Signals \in Nat
    BY ChecksTyped
  <2> QED BY <2>1 DEF TesterInit, Idle, Opened, NoJob
<1>3. JobsInOrder /\ OneAtATime
  BY <1>2 DEF JobsInOrder, OneAtATime
<1>4. RowsHaveOpen(rows, NoTest) /\ JobsHaveOpen(NoTest)
  BY <1>2 DEF TesterInit, RowsHaveOpen, JobsHaveOpen
<1>5. Stream(Openings, queue, NoTest, NoTest)
  BY StreamEmpty DEF TesterInit
<1> QED BY <1>1, <1>3, <1>4, <1>5, NoTestIsNone DEF OwnInv, OneOpen

(* start(): the new job has sent nothing, and the jobs before it are over unless it overlaps them. *)
LEMMA OwnStart == ASSUME OwnInv, startTests PROVE OwnInv'
<1>1. PICK j \in 1..MaxTests :
        /\ Idle(j) /\ \A i \in 1..(j - 1) : ~Idle(i)
        /\ jobs' = [jobs EXCEPT ![j] = 0]
        /\ overlapped' = (overlapped \/ \E i \in 1..(j - 1) : ~Finished(i))
  BY DEF startTests
<1>2. /\ machine' = machine /\ queue' = queue /\ rows' = rows
  BY DEF startTests
<1>3. Signals' = Signals /\ checkInterfaces' = checkInterfaces /\ Signals \in Nat
  BY <1>2, ChecksStay, ChecksTyped
<1>4. jobs \in [1..MaxTests -> Int]
  BY DEF OwnInv, TesterTyped
<1>5. jobs'[j] = 0 /\ \A i \in 1..MaxTests : i # j => jobs'[i] = jobs[i]
  BY <1>1, <1>4
<1>6. TesterTyped'
  BY <1>1, <1>2 DEF OwnInv, TesterTyped
<1>7. \A i \in 1..MaxTests : i < j => i \in 1..(j - 1)
  OBVIOUS
<1>8. /\ ~Idle(j)' /\ ~Opened(j)' /\ ~Opened(j)
      /\ \A i \in 1..MaxTests : i # j => (Idle(i)' <=> Idle(i)) /\ (Finished(i)' <=> Finished(i))
                                         /\ (Opened(i)' <=> Opened(i)) /\ TestOf(i)' = TestOf(i)
  BY <1>1, <1>3, <1>5 DEF Idle, Finished, Opened, TestOf, NoJob
<1>9. \A i, k \in 1..MaxTests : (i < k \/ k < i \/ i = k) /\ (i < k /\ k = j => i # j) /\ (i < k /\ i = j => k # j)
  OBVIOUS
<1>10. \A k \in 1..MaxTests : j < k => Idle(k)
  BY <1>1 DEF OwnInv, JobsInOrder
<1>11. JobsInOrder'
  BY <1>1, <1>7, <1>8, <1>9, <1>10 DEF OwnInv, JobsInOrder
<1>12. ASSUME ~overlapped' PROVE OneAtATime'
  <2>1. \A i \in 1..(j - 1) : Finished(i)
    BY <1>1, <1>12
  <2> QED BY <1>1, <1>7, <1>8, <1>9, <1>10, <1>12, <2>1 DEF OwnInv, OneAtATime
<1>13. ASSUME ~overlapped' PROVE OneOpen'
  <2>1. PICK a, b \in OpenTests : RowsHaveOpen(rows, a) /\ JobsHaveOpen(b) /\ Stream(Openings, queue, a, b)
    BY <1>1, <1>13 DEF OwnInv, OneOpen
  <2>2. JobsHaveOpen(b)'
    BY <1>8, <2>1 DEF JobsHaveOpen
  <2> QED BY <1>2, <2>1, <2>2 DEF OneOpen
<1> QED BY <1>6, <1>11, <1>12, <1>13 DEF OwnInv

(* setFuture(): the watcher's events open and close nothing. *)
LEMMA OwnSetFuture == ASSUME OwnInv, setFuture PROVE OwnInv'
<1> DEFINE positions == {i \in DOMAIN queue : ~WatcherEvent(queue[i])}
           kept == selected(queue, positions)
           s == [kind |-> "started"]
           f == [kind |-> "finished"]
           all == Append(kept, s)
<1>1. /\ UNCHANGED <<machine, jobs, rows, overlapped>>
      /\ queue' = all \/ queue' = Append(all, f)
  BY DEF setFuture
<1>2. s \in Event /\ f \in Event /\ WatcherEvent(s) /\ WatcherEvent(f)
  BY DEF Event, WatcherEvent
<1>3. queue \in Seq(Event)
  BY DEF OwnInv, TesterTyped
<1>4. \A i \in 1..Len(queue) : i \notin positions => WatcherEvent(queue[i])
  BY <1>3
<1> HIDE DEF positions, s, f
<1>5. kept \in Seq(Event)
  BY <1>3, SelectedType, Zenon
<1> HIDE DEF kept
<1>6. all \in Seq(Event)
  BY <1>2, <1>5
<1>7. Append(all, f) \in Seq(Event)
  <2> HIDE DEF all
  <2> QED BY <1>2, <1>6
<1>8. Signals' = Signals /\ checkInterfaces' = checkInterfaces
  BY <1>1, ChecksStay
<1>9. TesterTyped'
  BY <1>1, <1>6, <1>7 DEF OwnInv, TesterTyped
<1>10. JobsInOrder' /\ (OneAtATime => OneAtATime')
  BY <1>1, <1>8 DEF OwnInv, JobsInOrder, OneAtATime, Idle, Finished
<1>11. ASSUME ~overlapped' PROVE OneOpen'
  <2>1. PICK a, b \in OpenTests : RowsHaveOpen(rows, a) /\ JobsHaveOpen(b) /\ Stream(Openings, queue, a, b)
    BY <1>1, <1>11 DEF OwnInv, OneOpen
  <2>2. JobsHaveOpen(b)'
    BY <1>1, <1>8, <2>1 DEF JobsHaveOpen, Opened, TestOf
  <2>3. \A i \in 1..Len(queue) : i \notin positions => \A x, y : <<x, queue[i], y>> \in Openings => x = y
    BY <1>4, OpeningsAre DEF OpensOrCloses, WatcherEvent
  <2>4. Stream(Openings, kept, a, b)
    BY <1>3, <2>1, <2>3, StreamSelected, Zenon DEF kept
  <2>5. <<b, s, b>> \in Openings /\ <<b, f, b>> \in Openings
    BY <1>2, OpeningsAre DEF OpensOrCloses
  <2>6. Stream(Openings, all, a, b)
    BY <1>2, <1>5, <2>4, <2>5, StreamAppend
  <2>7. Stream(Openings, Append(all, f), a, b)
    <3> HIDE DEF all
    <3> QED BY <1>2, <1>6, <2>5, <2>6, StreamAppend
  <2>8. Stream(Openings, queue', a, b)
    <3> HIDE DEF all
    <3> QED BY <1>1, <2>6, <2>7
  <2> QED BY <1>1, <2>1, <2>2, <2>8 DEF OneOpen
<1> QED BY <1>1, <1>9, <1>10, <1>11 DEF OwnInv

(* The GUI thread handles an event: what it opens or closes is open or closed for the rows. *)
LEMMA RowsFollow ==
  ASSUME rows \in Seq(Row), queue \in Seq(Event), queue # <<>>, handle,
         NEW a, NEW c, RowsHaveOpen(rows, a), OpensOrCloses(a, Head(queue), c)
  PROVE  rows' \in Seq(Row) /\ (a \in OpenTests => RowsHaveOpen(rows', c))
<1> DEFINE e == Head(queue)
<1>1. e \in Event
  OBVIOUS
<1>2. \/ e.kind = "started" /\ rows' = <<>>
      \/ e.kind = "checkStarted" /\ rows' = Append(rows, row(e.test))
      \/ e.kind = "checkFinished" /\ rows = <<>> /\ rows' = rows
      \/ e.kind = "checkFinished" /\ rows # <<>> /\ rows' = filled(rows, e)
      \/ e.kind = "finished" /\ rows' = rows
  BY DEF handle, onStarted, onCheckStarted, onCheckFinished
<1>3. OpensOrCloses(a, e, c)
  OBVIOUS
<1> HIDE DEF e
<1>4. CASE e.kind = "started" /\ rows' = <<>>
  <2>1. c = a
    BY <1>3, <1>4 DEF OpensOrCloses
  <2>2. <<>> \in Seq(Row) /\ 1..Len(<<>>) = {}
    OBVIOUS
  <2>3. a \in OpenTests => RowsHaveOpen(<<>>, a)
    BY <2>2 DEF RowsHaveOpen, OpenTests
  <2> QED BY <1>4, <2>1, <2>2, <2>3
<1>5. CASE e.kind = "checkStarted" /\ rows' = Append(rows, row(e.test))
  <2> DEFINE r == row(e.test)
             n == Len(rows)
  <2>1. a = NoTest /\ c = e.test /\ e.test \in Tests
    BY <1>1, <1>3, <1>5 DEF OpensOrCloses, WatcherEvent, Event
  <2>2. r \in Row
    BY <2>1 DEF Row, row
  <2>3. \A i \in 1..n : Right(rows[i])
    BY <2>1, NoTestIsNone DEF RowsHaveOpen
  <2> HIDE DEF r
  <2>4. /\ rows' \in Seq(Row) /\ rows' # <<>> /\ Len(rows') = n + 1 /\ rows'[n + 1] = r
        /\ \A i \in 1..n : rows'[i] = rows[i]
    BY <1>5, <2>2 DEF r
  <2>5. n \in Nat /\ (n + 1) - 1 = n
    OBVIOUS
  <2> HIDE DEF n
  <2>6. \A i \in 1..(Len(rows') - 1) : Right(rows'[i])
    BY <2>3, <2>4, <2>5 DEF Right
  <2> QED BY <2>1, <2>4, <2>6 DEF RowsHaveOpen, r
<1>6. CASE e.kind = "checkFinished" /\ rows = <<>> /\ rows' = rows
  <2>1. c = NoTest
    BY <1>3, <1>6 DEF OpensOrCloses, WatcherEvent
  <2>2. 1..Len(<<>>) = {}
    OBVIOUS
  <2> QED BY <1>6, <2>1, <2>2 DEF RowsHaveOpen
<1>7. CASE e.kind = "checkFinished" /\ rows # <<>> /\ rows' = filled(rows, e)
  <2>1. c = NoTest /\ a = e.test /\ e.test \in Tests /\ e.out \in Outs
    BY <1>1, <1>3, <1>7 DEF OpensOrCloses, WatcherEvent, Event
  <2>2. rows[Len(rows)] = row(a) /\ \A i \in 1..(Len(rows) - 1) : Right(rows[i])
    BY <1>7, <2>1, NoTestIsNone DEF RowsHaveOpen
  <2>3. /\ rows' \in Seq(Row) /\ Len(rows') = Len(rows) /\ Right(rows'[Len(rows)])
        /\ \A i \in 1..(Len(rows) - 1) : rows'[i] = rows[i]
    BY <1>7, <2>1, <2>2, FilledRow
  <2>4. \A i \in 1..Len(rows) : i \in 1..(Len(rows) - 1) \/ i = Len(rows)
    OBVIOUS
  <2>5. \A i \in 1..Len(rows') : Right(rows'[i])
    BY <2>2, <2>3, <2>4 DEF Right
  <2> QED BY <2>1, <2>3, <2>5 DEF RowsHaveOpen
<1>8. CASE e.kind = "finished" /\ rows' = rows
  <2>1. c = a
    BY <1>3, <1>8 DEF OpensOrCloses
  <2> QED BY <1>8, <2>1
<1> QED BY <1>2, <1>4, <1>5, <1>6, <1>7, <1>8

(* Handling an event when tests overlap: the rows still are rows. *)
LEMMA RowsStay ==
  ASSUME rows \in Seq(Row), queue \in Seq(Event), queue # <<>>, handle
  PROVE  rows' \in Seq(Row)
<1> DEFINE e == Head(queue)
<1>1. e \in Event
  OBVIOUS
<1>2. \/ rows' = <<>>
      \/ e.kind = "checkStarted" /\ rows' = Append(rows, row(e.test))
      \/ e.kind = "checkFinished" /\ rows # <<>> /\ rows' = filled(rows, e)
      \/ rows' = rows
  BY DEF handle, onStarted, onCheckStarted, onCheckFinished
<1> HIDE DEF e
<1>3. CASE e.kind = "checkStarted" /\ rows' = Append(rows, row(e.test))
  <2>1. row(e.test) \in Row
    BY <1>1, <1>3 DEF Row, row, Event
  <2> QED BY <1>3, <2>1
<1>4. CASE e.kind = "checkFinished" /\ rows # <<>> /\ rows' = filled(rows, e)
  <2> DEFINE t == rows[Len(rows)].test
             x == e.out.success
             y == e.out.result
             r == [test |-> t, finished |-> TRUE, of |-> e.test, success |-> x, result |-> y]
  <2>1. rows[Len(rows)] \in Row
    BY <1>4
  <2>2. t \in Tests
    BY <2>1 DEF Row
  <2>3. e.test \in Tests /\ e.out \in Outs
    BY <1>1, <1>4 DEF Event
  <2>4. x \in {o.success : o \in Outs} /\ y \in {o.result : o \in Outs}
    BY <2>3
  <2>5. filled(rows, e) = [rows EXCEPT ![Len(rows)] = r]
    BY DEF filled
  <2> HIDE DEF t, x, y
  <2>6. r \in Row
    BY <2>2, <2>3, <2>4 DEF Row
  <2> HIDE DEF r
  <2> QED BY <1>4, <2>5, <2>6
<1> QED BY <1>2, <1>3, <1>4, EmptyList

(* The GUI thread handles an event. *)
LEMMA OwnHandle == ASSUME OwnInv, handle PROVE OwnInv'
<1>1. /\ queue # <<>> /\ queue' = Tail(queue)
      /\ UNCHANGED <<machine, jobs, overlapped>>
  BY DEF handle
<1>2. rows \in Seq(Row) /\ queue \in Seq(Event)
  BY DEF OwnInv, TesterTyped
<1>3. rows' \in Seq(Row) /\ queue' \in Seq(Event)
  BY <1>1, <1>2, RowsStay
<1>4. Signals' = Signals /\ checkInterfaces' = checkInterfaces
  BY <1>1, ChecksStay
<1>5. TesterTyped' /\ JobsInOrder' /\ (OneAtATime => OneAtATime')
  BY <1>1, <1>3, <1>4 DEF OwnInv, TesterTyped, JobsInOrder, OneAtATime, Idle, Finished
<1>6. ASSUME ~overlapped' PROVE OneOpen'
  <2>1. PICK a, b \in OpenTests : RowsHaveOpen(rows, a) /\ JobsHaveOpen(b) /\ Stream(Openings, queue, a, b)
    BY <1>1, <1>6 DEF OwnInv, OneOpen
  <2>2. JobsHaveOpen(b)'
    BY <1>1, <1>4, <2>1 DEF JobsHaveOpen, Opened, TestOf
  <2>3. PICK c : <<a, Head(queue), c>> \in Openings /\ Stream(Openings, Tail(queue), c, b)
    BY <1>1, <1>2, <2>1, StreamTail
  <2>4. c \in OpenTests /\ OpensOrCloses(a, Head(queue), c)
    BY <2>3, OpeningsAre
  <2>5. RowsHaveOpen(rows', c)
    BY <1>1, <1>2, <2>1, <2>4, RowsFollow
  <2>6. RowsHaveOpen(rows, c)'
    BY <2>5 DEF RowsHaveOpen, Right
  <2> QED BY <1>1, <2>2, <2>3, <2>4, <2>6 DEF OneOpen
<1> QED BY <1>1, <1>5, <1>6 DEF OwnInv

(* A check called from the user interface opens and closes its row at once; nothing is open then. *)
LEMMA OwnCallCheck == ASSUME OwnInv, callCheck PROVE OwnInv'
<1>1. PICK t \in machine.checks \cap {"ActiveInterface", "PingGoogleDomain"} :
        \E out \in outcomes(t, machine) :
          rows' = filled(Append(rows, row(t)), [test |-> t, out |-> out])
  BY DEF callCheck
<1>2. PICK out \in outcomes(t, machine) :
        rows' = filled(Append(rows, row(t)), [test |-> t, out |-> out])
  BY <1>1
<1>3. /\ UNCHANGED <<machine, jobs, queue>>
      /\ overlapped' = (overlapped \/ queue # <<>>
                          \/ \E j \in 1..MaxTests : ~Idle(j) /\ ~Finished(j))
  BY DEF callCheck
<1>4. machine \in Machines /\ rows \in Seq(Row) /\ queue \in Seq(Event)
  BY DEF OwnInv, TesterTyped
<1>5. t \in Tests
  BY <1>1 DEF Tests
<1>6. out \in Outs
  BY <1>2, <1>4, <1>5 DEF Outs
<1> DEFINE rs == Append(rows, row(t))
           e == [test |-> t, out |-> out]
           n == Len(rows)
<1>7. row(t) \in Row
  BY <1>5 DEF Row, row
<1>8. /\ rs \in Seq(Row) /\ rs # <<>> /\ Len(rs) = n + 1 /\ rs[n + 1] = row(t)
      /\ \A i \in 1..n : rs[i] = rows[i]
  BY <1>4, <1>7
<1>9. e.test = t /\ e.out \in Outs
  BY <1>6
<1>10. n \in Nat /\ (n + 1) - 1 = n
  BY <1>4
<1>11. rows' = filled(rs, e)
  BY <1>2
<1> HIDE DEF rs, e
<1>12. /\ filled(rs, e) \in Seq(Row) /\ Len(filled(rs, e)) = n + 1
       /\ Right(filled(rs, e)[n + 1]) /\ \A i \in 1..((n + 1) - 1) : filled(rs, e)[i] = rs[i]
  BY <1>5, <1>8, <1>9, FilledRow
<1> HIDE DEF n
<1>13. Signals' = Signals /\ checkInterfaces' = checkInterfaces /\ Signals \in Nat
  BY <1>3, ChecksStay, ChecksTyped
<1>14. overlapped' \in BOOLEAN
  BY <1>3 DEF OwnInv, TesterTyped
<1>15. TesterTyped'
  BY <1>3, <1>11, <1>12, <1>14 DEF OwnInv, TesterTyped
<1>16. JobsInOrder' /\ (OneAtATime => OneAtATime')
  BY <1>3, <1>13 DEF OwnInv, JobsInOrder, OneAtATime, Idle, Finished
<1>17. ASSUME ~overlapped' PROVE OneOpen'
  <2>1. queue = <<>> /\ \A j \in 1..MaxTests : ~Opened(j)
    <3>1. queue = <<>> /\ \A j \in 1..MaxTests : Idle(j) \/ Finished(j)
      BY <1>3, <1>17
    <3> QED BY <1>13, <3>1 DEF Opened, Idle, Finished, NoJob
  <2>2. PICK a, b \in OpenTests : RowsHaveOpen(rows, a) /\ JobsHaveOpen(b) /\ Stream(Openings, queue, a, b)
    BY <1>3, <1>17 DEF OwnInv, OneOpen
  <2>3. b = NoTest
    BY <2>1, <2>2 DEF JobsHaveOpen
  <2>4. a = NoTest
    BY <2>1, <2>2, <2>3, StreamEmpty
  <2>5. \A i \in 1..n : Right(rows[i])
    BY <2>2, <2>4, NoTestIsNone DEF RowsHaveOpen, n
  <2>6. \A i \in 1..(n + 1) : i \in 1..n \/ i = n + 1
    BY <1>10
  <2>7. \A i \in 1..Len(rows') : Right(rows'[i])
    BY <1>8, <1>10, <1>11, <1>12, <2>5, <2>6 DEF Right
  <2>8. RowsHaveOpen(rows, NoTest)'
    BY <2>7 DEF RowsHaveOpen, Right
  <2>9. JobsHaveOpen(NoTest)'
    BY <1>3, <1>13, <2>1 DEF JobsHaveOpen, Opened
  <2>10. Stream(Openings, queue, NoTest, NoTest)'
    BY <1>3, <2>1, StreamEmpty
  <2> QED BY <2>8, <2>9, <2>10, NoTestIsNone DEF OneOpen
<1> QED BY <1>3, <1>15, <1>16, <1>17 DEF OwnInv

(* A signal of a job goes into the queue: the events then lead on to what the job has open. *)
LEMMA OwnSignal ==
  ASSUME OwnInv, NEW j \in 1..MaxTests, checkStarted(j) \/ checkFinished(j)
  PROVE  OwnInv'
<1> DEFINE n == jobs[j]
           t == TestOf(j)
           s == [kind |-> "checkStarted", job |-> j, test |-> t]
<1>1. n \in 0..(Signals - 1) /\ jobs' = [jobs EXCEPT ![j] = @ + 1]
      /\ UNCHANGED <<machine, rows, overlapped>>
  BY DEF checkStarted, checkFinished
<1>2. /\ Signals \in Nat /\ Signals % 2 = 0 /\ t \in Tests
      /\ Signals' = Signals /\ checkInterfaces' = checkInterfaces
  BY <1>1, ChecksTyped, ChecksStay DEF TestOf
<1>3. machine \in Machines /\ queue \in Seq(Event) /\ jobs \in [1..MaxTests -> Int]
  BY DEF OwnInv, TesterTyped
<1>4. jobs'[j] = n + 1 /\ \A i \in 1..MaxTests : i # j => jobs'[i] = jobs[i]
  BY <1>1, <1>3
<1>5. \E e \in Event : /\ queue' = Append(queue, e) /\ e.test = t
                       /\ \/ n % 2 = 0 /\ e.kind = "checkStarted"
                          \/ n % 2 = 1 /\ e.kind = "checkFinished"
  <2>1. CASE checkStarted(j)
    <3>1. s \in Event
      BY <1>2 DEF Event
    <3> QED BY <2>1, <3>1 DEF checkStarted, TestOf
  <2>2. CASE checkFinished(j)
    <3>1. PICK out \in outcomes(t, machine) :
            queue' = Append(queue, [kind |-> "checkFinished", job |-> j, test |-> t, out |-> out])
      BY <2>2 DEF checkFinished, TestOf
    <3>2. out \in Outs
      BY <1>2, <1>3, <3>1 DEF Outs
    <3> DEFINE f == [kind |-> "checkFinished", job |-> j, test |-> t, out |-> out]
    <3> HIDE DEF t
    <3>3. f \in Event
      BY <1>2, <3>2 DEF Event
    <3>4. f.test = t /\ f.kind = "checkFinished" /\ queue' = Append(queue, f)
      BY <3>1
    <3>5. n % 2 = 1
      BY <2>2 DEF checkFinished
    <3> HIDE DEF f, n
    <3> QED BY <3>3, <3>4, <3>5
  <2> QED BY <2>1, <2>2
<1>6. PICK e \in Event : /\ queue' = Append(queue, e) /\ e.test = t
                         /\ \/ n % 2 = 0 /\ e.kind = "checkStarted"
                            \/ n % 2 = 1 /\ e.kind = "checkFinished"
  BY <1>5
<1>7. queue' \in Seq(Event)
  BY <1>3, <1>6
<1>8. jobs' \in [1..MaxTests -> Int]
  BY <1>1, <1>3
<1>9. TesterTyped'
  BY <1>1, <1>3, <1>7, <1>8 DEF OwnInv, TesterTyped
<1>10. /\ ~Idle(j) /\ ~Idle(j)' /\ ~Finished(j) /\ ~Finished(j)'
       /\ \A i \in 1..MaxTests : i # j => (Idle(i)' <=> Idle(i)) /\ (Finished(i)' <=> Finished(i))
                                          /\ (Opened(i)' <=> Opened(i)) /\ TestOf(i)' = TestOf(i)
  BY <1>1, <1>2, <1>4 DEF Idle, Finished, Opened, TestOf, NoJob
<1>11. JobsInOrder' /\ (OneAtATime => OneAtATime')
  BY <1>10 DEF OwnInv, JobsInOrder, OneAtATime
<1>12. ASSUME ~overlapped' PROVE OneOpen'
  <2>1. OneAtATime /\ OneOpen
    BY <1>1, <1>12 DEF OwnInv
  <2>2. PICK a, b \in OpenTests : RowsHaveOpen(rows, a) /\ JobsHaveOpen(b) /\ Stream(Openings, queue, a, b)
    BY <2>1 DEF OneOpen
  <2>3. n \in 0..Signals
    BY <1>1, <1>2
  <2>4. \A i \in 1..MaxTests : Opened(i) => i = j
    BY <2>1, <2>3, ActiveAlone DEF Opened
  <2>5. \A i \in 1..MaxTests : i # j => ~Opened(i)'
    BY <1>10, <2>4
  <2>6. RowsHaveOpen(rows, a)'
    BY <1>1, <2>2 DEF RowsHaveOpen, Right
  <2>7. CASE n % 2 = 0 /\ e.kind = "checkStarted"
    <3>1. ~Opened(j)
      BY <2>7 DEF Opened
    <3>2. b = NoTest
      BY <2>2, <2>4, <3>1 DEF JobsHaveOpen
    <3>3. Opened(j)' /\ TestOf(j)' = t
      <4>1. n + 1 \in 0..Signals /\ (n + 1) % 2 = 1 /\ (n + 1) \div 2 = n \div 2
        BY <1>1, <1>2, <2>7
      <4> QED BY <1>2, <1>4, <4>1 DEF Opened, TestOf
    <3>4. PICK d \in Tests : d = t
      BY <1>2
    <3> HIDE DEF t, n
    <3>5. JobsHaveOpen(d)'
      BY <3>3, <3>4 DEF JobsHaveOpen
    <3>6. <<b, e, d>> \in Openings
      BY <1>6, <2>2, <2>7, <3>2, <3>4, NoTestIsNone, OpeningsAre DEF OpensOrCloses
    <3>7. Stream(Openings, queue', a, d)
      BY <1>3, <1>6, <2>2, <3>6, StreamAppend
    <3> QED BY <2>2, <2>6, <3>4, <3>5, <3>7, NoTestIsNone DEF OneOpen
  <2>8. CASE n % 2 = 1 /\ e.kind = "checkFinished"
    <3>1. Opened(j)
      BY <2>3, <2>8 DEF Opened
    <3>2. b = t
      BY <2>2, <2>4, <3>1 DEF JobsHaveOpen
    <3>3. ~Opened(j)'
      BY <1>1, <1>4, <2>8 DEF Opened
    <3> HIDE DEF t, n
    <3>4. JobsHaveOpen(NoTest)'
      BY <2>5, <3>3 DEF JobsHaveOpen
    <3>5. <<b, e, NoTest>> \in Openings
      BY <1>6, <2>2, <2>8, <3>2, NoTestIsNone, OpeningsAre DEF OpensOrCloses
    <3>6. Stream(Openings, queue', a, NoTest)
      BY <1>3, <1>6, <2>2, <3>5, StreamAppend
    <3> QED BY <2>2, <2>6, <3>4, <3>6, NoTestIsNone DEF OneOpen
  <2> QED BY <1>6, <2>7, <2>8
<1> QED BY <1>1, <1>9, <1>11, <1>12 DEF OwnInv

(* The end of a job opens and closes nothing. *)
LEMMA OwnJobFinished ==
  ASSUME OwnInv, NEW j \in 1..MaxTests, jobFinished(j)
  PROVE  OwnInv'
<1> DEFINE f == [kind |-> "finished"]
<1>1. /\ jobs[j] = Signals /\ jobs' = [jobs EXCEPT ![j] = Signals + 1]
      /\ queue' = Append(queue, f) \/ queue' = queue
      /\ UNCHANGED <<machine, rows, overlapped>>
  BY DEF jobFinished
<1>2. /\ Signals \in Nat /\ Signals % 2 = 0
      /\ Signals' = Signals /\ checkInterfaces' = checkInterfaces
  BY <1>1, ChecksTyped, ChecksStay
<1>3. queue \in Seq(Event) /\ jobs \in [1..MaxTests -> Int]
  BY DEF OwnInv, TesterTyped
<1>4. jobs'[j] = Signals + 1 /\ \A i \in 1..MaxTests : i # j => jobs'[i] = jobs[i]
  BY <1>1, <1>3
<1>5. f \in Event /\ WatcherEvent(f)
  BY DEF Event, WatcherEvent
<1> HIDE DEF f
<1>6. queue' \in Seq(Event)
  BY <1>1, <1>3, <1>5
<1>7. jobs' \in [1..MaxTests -> Int]
  BY <1>1, <1>2, <1>3
<1>8. TesterTyped'
  BY <1>1, <1>6, <1>7 DEF OwnInv, TesterTyped
<1>9. /\ ~Idle(j) /\ ~Idle(j)' /\ Finished(j)' /\ ~Opened(j) /\ ~Opened(j)'
      /\ \A i \in 1..MaxTests : i # j => (Idle(i)' <=> Idle(i)) /\ (Finished(i)' <=> Finished(i))
                                         /\ (Opened(i)' <=> Opened(i)) /\ TestOf(i)' = TestOf(i)
  BY <1>1, <1>2, <1>4 DEF Idle, Finished, Opened, TestOf, NoJob
<1>10. JobsInOrder' /\ (OneAtATime => OneAtATime')
  BY <1>9 DEF OwnInv, JobsInOrder, OneAtATime
<1>11. ASSUME ~overlapped' PROVE OneOpen'
  <2>1. PICK a, b \in OpenTests : RowsHaveOpen(rows, a) /\ JobsHaveOpen(b) /\ Stream(Openings, queue, a, b)
    BY <1>1, <1>11 DEF OwnInv, OneOpen
  <2>2. RowsHaveOpen(rows, a)'
    BY <1>1, <2>1 DEF RowsHaveOpen, Right
  <2>3. JobsHaveOpen(b)'
    BY <1>9, <2>1 DEF JobsHaveOpen
  <2>4. <<b, f, b>> \in Openings
    BY <1>5, OpeningsAre DEF OpensOrCloses
  <2>5. Stream(Openings, Append(queue, f), a, b)
    BY <1>3, <1>5, <2>1, <2>4, StreamAppend
  <2>6. Stream(Openings, queue', a, b)
    BY <1>1, <2>1, <2>5
  <2> QED BY <2>1, <2>2, <2>3, <2>6 DEF OneOpen
<1> QED BY <1>1, <1>8, <1>10, <1>11 DEF OwnInv

(* Every step keeps the invariant. *)
LEMMA OwnStep == OwnInv /\ [TesterNext]_testerVars => OwnInv'
<1> SUFFICES ASSUME OwnInv, [TesterNext]_testerVars PROVE OwnInv'
  OBVIOUS
<1>1. CASE startTests
  BY <1>1, OwnStart
<1>2. CASE setFuture
  BY <1>2, OwnSetFuture
<1>3. CASE handle
  BY <1>3, OwnHandle
<1>4. CASE callCheck
  BY <1>4, OwnCallCheck
<1>5. ASSUME NEW j \in 1..MaxTests, Job(j) PROVE OwnInv'
  BY <1>5, OwnSignal, OwnJobFinished DEF Job
<1>6. CASE UNCHANGED testerVars
  <2>1. UNCHANGED <<machine, jobs, queue, rows, overlapped>>
    BY <1>6 DEF testerVars
  <2>2. Signals' = Signals /\ checkInterfaces' = checkInterfaces
    BY <2>1, ChecksStay
  <2>3. TesterTyped' /\ JobsInOrder' /\ (OneAtATime => OneAtATime')
    BY <2>1, <2>2 DEF OwnInv, TesterTyped, JobsInOrder, OneAtATime, Idle, Finished
  <2>4. OneOpen => OneOpen'
    BY <2>1, <2>2 DEF OneOpen, RowsHaveOpen, Right, JobsHaveOpen, Opened, TestOf
  <2> QED BY <2>1, <2>3, <2>4 DEF OwnInv
<1> QED BY <1>1, <1>2, <1>3, <1>4, <1>5, <1>6 DEF TesterNext

(***************************************************************************)
(* For any machines and any number of calls: while nobody starts a check   *)
(* during another one, a finished row of the connection tester shows the   *)
(* result of its own test, although onCheckFinished() ignores the test     *)
(* type it is given, and only the last row can be unfinished.              *)
(***************************************************************************)
THEOREM RowsShowOwnTest == TesterSpec => []OwnResult
<1>1. OwnInv => OwnResult
  <2> SUFFICES ASSUME OwnInv, ~overlapped, NEW i \in DOMAIN rows
               PROVE  IF rows[i].finished THEN rows[i].of = rows[i].test ELSE i = Len(rows)
    BY DEF OwnResult
  <2>1. rows \in Seq(Row) /\ OneOpen
    BY DEF OwnInv, TesterTyped
  <2>2. PICK a \in OpenTests : RowsHaveOpen(rows, a)
    BY <2>1 DEF OneOpen
  <2>3. i \in 1..Len(rows) /\ (i \in 1..(Len(rows) - 1) \/ i = Len(rows))
    BY <2>1
  <2>4. Right(rows[i]) \/ (i = Len(rows) /\ rows[i] = row(a))
    BY <2>2, <2>3 DEF RowsHaveOpen
  <2> QED BY <2>4 DEF Right, row
<1> QED BY <1>1, OwnInitially, OwnStep, PTL DEF TesterSpec

-----------------------------------------------------------------------------
(***************************************************************************)
(* CompleteAndInOrder.  The signals of the only job are numbered.  A state *)
(* of the queue's path is the number of signals the model has seen and     *)
(* whether it has seen the watcher's started.                              *)
(***************************************************************************)
OnlyOneJob == /\ MaxTests > 0 /\ \A j \in 2..MaxTests : Idle(j)
              /\ ~ub /\ calls = 0
Sent == IF jobs[1] <= Signals THEN jobs[1] ELSE Signals

(* Event e is signal n of a job that makes the checks cs. *)
IsSignal(cs, e, n) ==
  /\ e.job = 1 /\ e.test = cs[n \div 2 + 1]
  /\ \/ n % 2 = 0 /\ e.kind = "checkStarted"
     \/ n % 2 = 1 /\ e.kind = "checkFinished"
Numbers == Nat \X BOOLEAN
(* The watcher's started comes after k signals. *)
Counts(k, cs, a, e, b) ==
  \/ e.kind = "started" /\ a = <<k, FALSE>> /\ b = <<k, TRUE>>
  \/ e.kind = "finished" /\ b = a
  \/ IsSignal(cs, e, a[1]) /\ b = <<a[1] + 1, a[2]>>
Counting(k, cs) == {x \in Numbers \X Event \X Numbers : Counts(k, cs, x[1], x[2], x[3])}

(* The rows after n signals, of which the rows forgot the first k. *)
RowsFrom(k, cs, rs, n) ==
  /\ k <= n /\ (k % 2 = 1 => n = k)
  /\ Len(rs) = (n + 1) \div 2 - (k + 1) \div 2
  /\ \A i \in 1..Len(rs) : /\ rs[i].test = cs[k \div 2 + i]
                           /\ 2 * (k \div 2 + i) <= n => rs[i].finished

NotStarted == Idle(1) /\ queue = <<>> /\ ~starting /\ watched = 0
Launching == /\ starting /\ watched = 0 /\ jobs[1] \in 0..(Signals + 1)
             /\ Len(queue) = Sent /\ \A p \in 1..Len(queue) : IsSignal(checkInterfaces, queue[p], p - 1)
UnderWay == /\ ~starting /\ jobs[1] \in 0..(Signals + 1) /\ early \in Nat
            /\ \E n \in Nat, begun \in BOOLEAN :
                  /\ begun => RowsFrom(early, checkInterfaces, rows, n)
                  /\ Stream(Counting(early, checkInterfaces), queue, <<n, begun>>, <<Sent, TRUE>>)
CountInv == /\ OwnInv /\ calls \in Nat
            /\ OnlyOneJob => NotStarted \/ Launching \/ UnderWay

(* The steps of the path. *)
LEMMA CountingAre ==
  \A k, cs, a, e, b : <<a, e, b>> \in Counting(k, cs) <=>
     a \in Numbers /\ e \in Event /\ b \in Numbers /\ Counts(k, cs, a, e, b)
BY DEF Counting

(* The only job is the first one. *)
LEMMA FirstJob ==
  ASSUME OnlyOneJob
  PROVE  /\ 1 \in 1..MaxTests /\ \A j \in 1..MaxTests : j = 1 \/ Idle(j)
         /\ ~Idle(1) => Running = 1
<1>1. MaxTests \in Nat /\ MaxTests > 0
  BY BoundsAssumption DEF OnlyOneJob
<1>2. 1 \in 1..MaxTests /\ \A j \in 1..MaxTests : j = 1 \/ j \in 2..MaxTests
  BY <1>1
<1>3. \A j \in 1..MaxTests : j = 1 \/ Idle(j)
  BY <1>2 DEF OnlyOneJob
<1>4. ASSUME ~Idle(1) PROVE Running = 1
  <2> DEFINE P(j) == ~Idle(j) /\ \A i \in (j + 1)..MaxTests : Idle(i)
  <2>1. \A i \in (1 + 1)..MaxTests : i \in 2..MaxTests
    BY <1>1
  <2>2. P(1)
    BY <1>4, <2>1 DEF OnlyOneJob
  <2>3. \A j \in 1..MaxTests : P(j) => j = 1
    BY <1>3
  <2>4. Running = CHOOSE j \in 1..MaxTests : P(j)
    BY DEF Running
  <2> HIDE DEF P
  <2> QED BY <1>2, <2>2, <2>3, <2>4
<1> QED BY <1>2, <1>3, <1>4

(* Nothing has happened at first. *)
LEMMA CountInitially == TesterInit => CountInv
<1> SUFFICES ASSUME TesterInit PROVE CountInv
  OBVIOUS
<1>1. OnlyOneJob => NotStarted
  BY FirstJob DEF TesterInit, NotStarted, Idle
<1>2. calls \in Nat
  BY DEF TesterInit
<1> QED BY <1>1, <1>2, OwnInitially DEF CountInv

(* start() begins the only job, or there is another one. *)
LEMMA CountStart == ASSUME CountInv, startTests PROVE CountInv'
<1>1. PICK j \in 1..MaxTests :
        /\ Idle(j) /\ \A i \in 1..(j - 1) : ~Idle(i)
        /\ jobs' = [jobs EXCEPT ![j] = 0]
  BY DEF startTests
<1>2. /\ UNCHANGED <<machine, queue, watched, rows, calls, early, ub>>
      /\ ~starting /\ starting'
  BY DEF startTests
<1>3. jobs \in [1..MaxTests -> Int]
  BY DEF CountInv, OwnInv, TesterTyped
<1>4. Signals' = Signals /\ checkInterfaces' = checkInterfaces /\ Signals \in Nat
  BY <1>2, ChecksStay, ChecksTyped
<1>5. jobs'[j] = 0 /\ \A i \in 1..MaxTests : i # j => jobs'[i] = jobs[i]
  BY <1>1, <1>3
<1>6. OwnInv' /\ calls' \in Nat
  BY <1>2, OwnStart DEF CountInv
<1>7. ASSUME OnlyOneJob' PROVE Launching'
  <2>1. j = 1
    <3>1. ~Idle(j)'
      BY <1>5 DEF Idle, NoJob
    <3>2. j \in 2..MaxTests \/ j = 1
      BY BoundsAssumption
    <3> QED BY <1>7, <3>1, <3>2 DEF OnlyOneJob
  <2>2. \A i \in 2..MaxTests : i \in 1..MaxTests /\ i # 1
    OBVIOUS
  <2>3. OnlyOneJob
    BY <1>2, <1>5, <1>7, <2>1, <2>2 DEF OnlyOneJob, Idle
  <2>4. NotStarted
    BY <1>1, <1>2, <1>4, <2>1, <2>3 DEF CountInv, Launching, UnderWay, Idle, NoJob
  <2>5. Sent' = 0 /\ jobs'[1] \in 0..(Signals + 1)
    BY <1>4, <1>5, <2>1 DEF Sent
  <2>6. queue' = <<>> /\ watched' = 0
    BY <1>2, <2>4 DEF NotStarted
  <2>7. Len(queue') = 0 /\ 1..Len(queue') = {}
    BY <2>6
  <2> QED BY <1>2, <1>4, <2>5, <2>6, <2>7 DEF Launching
<1> QED BY <1>6, <1>7 DEF CountInv

(* The signals sent so far are a path, from any number on. *)
LEMMA SignalsLead ==
  ASSUME NEW k, NEW cs, NEW q \in Seq(Event), \A p \in 1..Len(q) : IsSignal(cs, q[p], p - 1)
  PROVE  Stream(Counting(k, cs), q, <<0, FALSE>>, <<Len(q), FALSE>>)
<1> DEFINE no == FALSE
           At(p) == <<p, no>>
           f == [p \in 0..Len(q) |-> At(p)]
<1>0. \A p \in Nat : At(p) \in Numbers /\ At(p)[1] = p /\ At(p)[2] = no
  <2>1. no \in BOOLEAN
    OBVIOUS
  <2> HIDE DEF no
  <2> QED BY <2>1 DEF Numbers
<1>1. Len(q) \in Nat /\ At(0) = <<0, FALSE>> /\ At(Len(q)) = <<Len(q), FALSE>>
  <2>1. Len(q) \in Nat
    OBVIOUS
  <2> QED BY <2>1, Zenon
<1> HIDE DEF At
<1>2. f[0] = At(0) /\ f[Len(q)] = At(Len(q)) /\ \A p \in 0..Len(q) : f[p] = At(p)
  <2>1. \A p \in 0..Len(q) : f[p] = At(p)
    BY Zenon
  <2>2. 0 \in 0..Len(q) /\ Len(q) \in 0..Len(q)
    BY <1>1
  <2> HIDE DEF f
  <2> QED BY <2>1, <2>2
<1> HIDE DEF f
<1>3. ASSUME NEW p \in 1..Len(q) PROVE <<f[p - 1], q[p], f[p]>> \in Counting(k, cs)
  <2> DEFINE a == At(p - 1)
             b == At(p)
  <2>0. p \in Nat /\ p - 1 \in Nat /\ p - 1 \in 0..Len(q) /\ p \in 0..Len(q) /\ (p - 1) + 1 = p
    BY <1>1
  <2>1. f[p - 1] = a /\ f[p] = b
    BY <1>2, <2>0
  <2>2. a \in Numbers /\ b \in Numbers /\ a[1] = p - 1 /\ a[2] = no /\ q[p] \in Event
    BY <1>0, <2>0
  <2>3. b = <<a[1] + 1, a[2]>>
    <3>1. a[1] + 1 = p
      BY <2>0, <2>2
    <3> QED BY <2>2, <3>1, Zenon DEF At
  <2> HIDE DEF a, b
  <2>4. Counts(k, cs, a, q[p], b)
    BY <2>2, <2>3 DEF Counts
  <2> QED BY <2>1, <2>2, <2>4, CountingAre
<1>4. Leads(f, Counting(k, cs), q, <<0, FALSE>>, <<Len(q), FALSE>>)
  BY <1>1, <1>2, <1>3 DEF Leads
<1> QED BY <1>4 DEF Stream

(* setFuture(): the signals sent before are those that the watcher's started comes after. *)
LEMMA CountSetFuture == ASSUME CountInv, setFuture PROVE CountInv'
<1> DEFINE positions == {i \in DOMAIN queue : ~WatcherEvent(queue[i])}
           s == [kind |-> "started"]
           f == [kind |-> "finished"]
           n == Len(queue)
<1>1. /\ UNCHANGED <<machine, jobs, rows, calls, overlapped, ub>>
      /\ starting /\ ~starting'
      /\ early' = Cardinality({i \in DOMAIN queue : ~WatcherEvent(queue[i]) /\ queue[i].job = Running})
      /\ \/ queue' = Append(selected(queue, positions), s)
         \/ queue' = Append(Append(selected(queue, positions), s), f)
  BY DEF setFuture
<1>2. queue \in Seq(Event) /\ n \in Nat
  BY DEF CountInv, OwnInv, TesterTyped
<1>3. Signals' = Signals /\ checkInterfaces' = checkInterfaces /\ Signals \in Nat
  BY <1>1, ChecksStay, ChecksTyped
<1>4. OwnInv' /\ calls' \in Nat
  BY <1>1, OwnSetFuture DEF CountInv
<1>5. ASSUME OnlyOneJob' PROVE UnderWay'
  <2>1. OnlyOneJob
    BY <1>1, <1>5 DEF OnlyOneJob, Idle
  <2>2. Launching
    BY <1>1, <2>1 DEF CountInv, NotStarted, UnderWay
  <2>3. Running = 1
    <3>1. ~Idle(1)
      BY <1>3, <2>2 DEF Launching, Idle, NoJob
    <3> QED BY <2>1, <3>1, FirstJob
  <2>4. \A p \in 1..n : IsSignal(checkInterfaces, queue[p], p - 1)
    BY <2>2 DEF Launching
  <2>5. \A p \in 1..n : ~WatcherEvent(queue[p]) /\ queue[p].job = Running
    BY <2>3, <2>4 DEF IsSignal, WatcherEvent
  <2>6. DOMAIN queue = 1..n
    BY <1>2
  <2>7. {i \in DOMAIN queue : ~WatcherEvent(queue[i]) /\ queue[i].job = Running} = 1..n
    BY <2>5, <2>6
  <2>8. early' = n
    <3>1. Cardinality(1..n) = IF 1 > n THEN 0 ELSE n - 1 + 1
      BY <1>2, FS_Interval
    <3>2. Cardinality(1..n) = n
      BY <1>2, <3>1
    <3> QED BY <1>1, <2>7, <3>2
  <2>9. selected(queue, positions) = queue
    <3>1. 1..Len(queue) \subseteq positions
      BY <2>5, <2>6
    <3> HIDE DEF positions
    <3> QED BY <1>2, <3>1, SelectedAll
  <2>10. s \in Event /\ f \in Event
    BY DEF Event
  <2> HIDE DEF s, f
  <2>11. Append(queue, s) \in Seq(Event)
    BY <1>2, <2>10
  <2>12. Sent' = n /\ Sent \in Nat /\ jobs'[1] \in 0..(Signals' + 1)
    <3>1. n = Sent /\ jobs[1] \in 0..(Signals + 1)
      BY <2>2 DEF Launching
    <3> QED BY <1>1, <1>2, <1>3, <3>1 DEF Sent
  <2> DEFINE C == Counting(n, checkInterfaces)
  <2>13. Stream(C, queue, <<0, FALSE>>, <<n, FALSE>>)
    BY <1>2, <2>4, SignalsLead
  <2>14. /\ <<<<n, FALSE>>, s, <<n, TRUE>>>> \in C
         /\ <<<<n, TRUE>>, f, <<n, TRUE>>>> \in C
    <3>1. <<n, FALSE>> \in Numbers /\ <<n, TRUE>> \in Numbers
      BY <1>2 DEF Numbers
    <3>2. s.kind = "started" /\ f.kind = "finished"
      BY DEF s, f
    <3>3. /\ Counts(n, checkInterfaces, <<n, FALSE>>, s, <<n, TRUE>>)
          /\ Counts(n, checkInterfaces, <<n, TRUE>>, f, <<n, TRUE>>)
      BY <3>2 DEF Counts
    <3> HIDE DEF n
    <3> QED BY <2>10, <3>1, <3>3, CountingAre
  <2> HIDE DEF C, n
  <2>15. Stream(C, Append(queue, s), <<0, FALSE>>, <<n, TRUE>>)
    BY <1>2, <2>10, <2>13, <2>14, StreamAppend
  <2>16. Stream(C, Append(Append(queue, s), f), <<0, FALSE>>, <<n, TRUE>>)
    <3> DEFINE q == Append(queue, s)
    <3> HIDE DEF q
    <3>1. q \in Seq(Event) /\ Stream(C, q, <<0, FALSE>>, <<n, TRUE>>)
      BY <2>11, <2>15 DEF q
    <3>2. Stream(C, Append(q, f), <<0, FALSE>>, <<n, TRUE>>)
      BY <2>10, <2>14, <3>1, StreamAppend
    <3> QED BY <3>2 DEF q
  <2>17. Stream(C, queue', <<0, FALSE>>, <<n, TRUE>>)
    <3>1. queue' = Append(queue, s) \/ queue' = Append(Append(queue, s), f)
      BY <1>1, <2>9 DEF s, f
    <3> QED BY <2>15, <2>16, <3>1
  <2>18. Stream(Counting(early', checkInterfaces'), queue', <<0, FALSE>>, <<Sent', TRUE>>)
    BY <1>3, <2>8, <2>12, <2>17 DEF C
  <2>19. early' \in Nat
    BY <1>2, <2>8
  <2> QED BY <1>1, <2>12, <2>18, <2>19 DEF UnderWay
<1> QED BY <1>4, <1>5 DEF CountInv

(* The numbers before and after an event. *)
Moves(k, cs, e, n, begun, m, now) ==
  \/ e.kind = "started" /\ n = k /\ m = k
  \/ e.kind = "finished" /\ m = n /\ now = begun
  \/ IsSignal(cs, e, n) /\ m = n + 1 /\ now = begun

(* Every step of the path moves the numbers. *)
LEMMA CountsPairs ==
  ASSUME NEW k \in Nat, NEW cs, NEW e, NEW n \in Nat, NEW begun \in BOOLEAN, NEW c \in Numbers,
         Counts(k, cs, <<n, begun>>, e, c)
  PROVE  \E m \in Nat, now \in BOOLEAN : c = <<m, now>> /\ Moves(k, cs, e, n, begun, m, now)
<1> DEFINE a == <<n, begun>>
<1>1. PICK m \in Nat, now \in BOOLEAN : c = <<m, now>>
  BY DEF Numbers
<1>2. a[1] = n /\ a[2] = begun
  OBVIOUS
<1>3. \A u, v, x, y : <<u, v>> = <<x, y>> => u = x /\ v = y
  OBVIOUS
<1>4. \/ e.kind = "started" /\ <<n, begun>> = <<k, FALSE>> /\ <<m, now>> = <<k, TRUE>>
      \/ e.kind = "finished" /\ <<m, now>> = <<n, begun>>
      \/ IsSignal(cs, e, a[1]) /\ <<m, now>> = <<a[1] + 1, a[2]>>
  BY <1>1, Zenon DEF Counts
<1>5. CASE e.kind = "started" /\ <<n, begun>> = <<k, FALSE>> /\ <<m, now>> = <<k, TRUE>>
  <2>1. n = k /\ m = k
    BY <1>3, <1>5, Zenon
  <2> QED BY <1>1, <1>5, <2>1 DEF Moves
<1>6. CASE e.kind = "finished" /\ <<m, now>> = <<n, begun>>
  <2>1. m = n /\ now = begun
    BY <1>3, <1>6, Zenon
  <2> QED BY <1>1, <1>6, <2>1 DEF Moves
<1>7. CASE IsSignal(cs, e, a[1]) /\ <<m, now>> = <<a[1] + 1, a[2]>>
  <2> HIDE DEF a
  <2>1. m = a[1] + 1 /\ now = a[2]
    BY <1>3, <1>7, Zenon
  <2> QED BY <1>1, <1>2, <1>7, <2>1 DEF Moves
<1> QED BY <1>4, <1>5, <1>6, <1>7

(* handle: after the watcher's started the rows follow the numbers. *)
LEMMA CountedRows ==
  ASSUME rows \in Seq(Row), queue \in Seq(Event), queue # <<>>, handle, ~ub',
         NEW k \in Nat, NEW cs, NEW n \in Nat, NEW m \in Nat, NEW begun \in BOOLEAN, NEW now \in BOOLEAN,
         begun => RowsFrom(k, cs, rows, n),
         Moves(k, cs, Head(queue), n, begun, m, now)
  PROVE  now => RowsFrom(k, cs, rows', m)
<1> DEFINE e == Head(queue)
           h == k \div 2
           l == Len(rows)
<1>1. e \in Event
  OBVIOUS
<1>2. \/ e.kind = "started" /\ rows' = <<>>
      \/ e.kind = "checkStarted" /\ rows' = Append(rows, row(e.test))
      \/ e.kind = "checkFinished" /\ rows # <<>> /\ rows' = filled(rows, e)
      \/ e.kind = "finished" /\ rows' = rows
  BY DEF handle, onStarted, onCheckStarted, onCheckFinished
<1>3. \/ e.kind = "started" /\ n = k /\ m = k
      \/ e.kind = "finished" /\ m = n /\ now = begun
      \/ IsSignal(cs, e, n) /\ m = n + 1 /\ now = begun
  BY DEF Moves
<1> HIDE DEF e
<1>4. CASE e.kind = "started" /\ rows' = <<>>
  <2>1. m = k
    BY <1>3, <1>4 DEF IsSignal
  <2>2. Len(<<>>) = 0 /\ 1..0 = {}
    OBVIOUS
  <2>3. RowsFrom(k, cs, <<>>, k)
    BY <2>2 DEF RowsFrom
  <2> QED BY <1>4, <2>1, <2>3
<1>5. CASE e.kind = "finished" /\ rows' = rows
  <2>1. m = n /\ now = begun
    BY <1>3, <1>5 DEF IsSignal
  <2> QED BY <1>5, <2>1
<1>6. CASE e.kind = "checkStarted" /\ rows' = Append(rows, row(e.test))
  <2>1. m = n + 1 /\ now = begun /\ n % 2 = 0 /\ e.test = cs[n \div 2 + 1]
    BY <1>3, <1>6 DEF IsSignal
  <2> SUFFICES ASSUME begun PROVE RowsFrom(k, cs, rows', m)
    BY <2>1
  <2>2. /\ k <= n /\ (k % 2 = 1 => n = k)
        /\ l = (n + 1) \div 2 - (k + 1) \div 2
        /\ \A i \in 1..l : rows[i].test = cs[h + i] /\ (2 * (h + i) <= n => rows[i].finished)
    BY DEF RowsFrom
  <2>3. k % 2 = 0 /\ l \in Nat /\ h \in Nat /\ k = 2 * h /\ n = 2 * (n \div 2) /\ n \div 2 \in Nat
    BY <2>1, <2>2
  <2>4. l = n \div 2 - h /\ l + 1 = (m + 1) \div 2 - (k + 1) \div 2 /\ h + (l + 1) = n \div 2 + 1
    BY <2>1, <2>2, <2>3
  <2> DEFINE r == row(e.test)
  <2>5. r.test = cs[h + (l + 1)]
    BY <2>1, <2>4 DEF row
  <2> HIDE DEF r
  <2>6. Len(rows') = l + 1 /\ rows'[l + 1] = r /\ \A i \in 1..l : rows'[i] = rows[i]
    BY <1>6 DEF r
  <2> HIDE DEF l, h
  <2>7. ASSUME NEW i \in 1..(l + 1)
        PROVE  rows'[i].test = cs[h + i] /\ (2 * (h + i) <= m => rows'[i].finished)
    <3>1. CASE i = l + 1
      <4> DEFINE q == n \div 2
      <4>0. q \in Nat /\ n = 2 * q /\ m = n + 1 /\ h + i = q + 1
        BY <2>1, <2>3, <2>4, <3>1, Zenon
      <4> HIDE DEF q
      <4>1. ~(2 * (h + i) <= m)
        <5>1. 2 * (h + i) = 2 * (q + 1)
          BY <4>0
        <5> QED BY <4>0, <5>1
      <4> QED BY <2>5, <2>6, <3>1, <4>1
    <3>2. CASE i \in 1..l
      <4> DEFINE q == n \div 2
                 x == h + i
      <4>1. q \in Nat /\ n = 2 * q /\ m = n + 1 /\ x \in Int
        <5>1. x \in Int
          BY <2>3
        <5> QED BY <2>1, <2>3, <5>1, Zenon
      <4> HIDE DEF q, x
      <4>2. 2 * x <= m => 2 * x <= n
        BY <4>1
      <4>3. 2 * (h + i) <= m => 2 * (h + i) <= n
        BY <4>2, Zenon DEF x
      <4> QED BY <2>2, <2>6, <3>2, <4>3
    <3> QED BY <2>3, <3>1, <3>2
  <2>8. k <= m /\ (k % 2 = 1 => m = k)
    BY <2>1, <2>2, <2>3
  <2> QED BY <2>4, <2>6, <2>7, <2>8 DEF RowsFrom, h
<1>7. CASE e.kind = "checkFinished" /\ rows # <<>> /\ rows' = filled(rows, e)
  <2>1. m = n + 1 /\ now = begun /\ n % 2 = 1
    BY <1>3, <1>7 DEF IsSignal
  <2> SUFFICES ASSUME begun PROVE RowsFrom(k, cs, rows', m)
    BY <2>1
  <2>2. /\ k <= n /\ (k % 2 = 1 => n = k)
        /\ l = (n + 1) \div 2 - (k + 1) \div 2
        /\ \A i \in 1..l : rows[i].test = cs[h + i] /\ (2 * (h + i) <= n => rows[i].finished)
    BY DEF RowsFrom
  <2>3. l \in Nat \ {0}
    BY <1>7
  <2>4. k % 2 = 0 /\ h \in Nat /\ k = 2 * h /\ n + 1 = 2 * ((n + 1) \div 2)
    BY <2>1, <2>2, <2>3
  <2>5. l = (n + 1) \div 2 - h /\ 2 * (h + l) = m /\ (m + 1) \div 2 = (n + 1) \div 2
    BY <2>1, <2>2, <2>3, <2>4
  <2> DEFINE r == [test |-> rows[l].test, finished |-> TRUE, of |-> e.test,
                   success |-> e.out.success, result |-> e.out.result]
  <2>6. rows' = [rows EXCEPT ![l] = r]
    BY <1>7 DEF filled
  <2>7. r.test = rows[l].test /\ r.finished = TRUE
    OBVIOUS
  <2> HIDE DEF r
  <2>8. Len(rows') = l /\ rows'[l] = r /\ \A i \in 1..l : i # l => rows'[i] = rows[i]
    BY <2>3, <2>6
  <2>9. l \in 1..l
    BY <2>3
  <2> HIDE DEF l, h
  <2>10. ASSUME NEW i \in 1..l
         PROVE  rows'[i].test = cs[h + i] /\ (2 * (h + i) <= m => rows'[i].finished)
    <3>1. CASE i = l
      BY <2>2, <2>7, <2>8, <2>9, <3>1
    <3>2. CASE i # l
      <4>1. 2 * (h + i) <= n
        BY <2>1, <2>3, <2>4, <2>5, <3>2
      <4> QED BY <2>2, <2>8, <3>2, <4>1
    <3> QED BY <3>1, <3>2
  <2>11. k <= m /\ (k % 2 = 1 => m = k) /\ l = (m + 1) \div 2 - (k + 1) \div 2
    BY <2>1, <2>2, <2>4, <2>5
  <2> QED BY <2>8, <2>10, <2>11 DEF RowsFrom, h
<1> QED BY <1>2, <1>4, <1>5, <1>6, <1>7

(* The GUI thread handles an event of the only job. *)
LEMMA CountHandle == ASSUME CountInv, handle PROVE CountInv'
<1>1. /\ queue # <<>> /\ queue' = Tail(queue) /\ ~starting /\ ~ub
      /\ UNCHANGED <<machine, jobs, watched, starting, calls, overlapped, early>>
  BY DEF handle
<1>2. rows \in Seq(Row) /\ queue \in Seq(Event)
  BY DEF CountInv, OwnInv, TesterTyped
<1>3. Signals' = Signals /\ checkInterfaces' = checkInterfaces
  BY <1>1, ChecksStay
<1>4. OwnInv' /\ calls' \in Nat
  BY <1>1, OwnHandle DEF CountInv
<1>5. ASSUME OnlyOneJob' PROVE UnderWay'
  <2>1. OnlyOneJob /\ ~ub'
    BY <1>1, <1>5 DEF OnlyOneJob, Idle
  <2>2. UnderWay
    BY <1>1, <2>1 DEF CountInv, NotStarted, Launching
  <2> DEFINE C == Counting(early, checkInterfaces)
  <2>3. PICK n \in Nat, begun \in BOOLEAN :
          /\ begun => RowsFrom(early, checkInterfaces, rows, n)
          /\ Stream(C, queue, <<n, begun>>, <<Sent, TRUE>>)
    BY <2>2 DEF UnderWay
  <2>4. early \in Nat
    BY <2>2 DEF UnderWay
  <2>5. PICK c : <<<<n, begun>>, Head(queue), c>> \in C /\ Stream(C, Tail(queue), c, <<Sent, TRUE>>)
    <3> HIDE DEF C
    <3> QED BY <1>1, <1>2, <2>3, StreamTail
  <2>6. c \in Numbers /\ Counts(early, checkInterfaces, <<n, begun>>, Head(queue), c)
    BY <2>5, CountingAre
  <2>7. PICK m \in Nat, now \in BOOLEAN :
          c = <<m, now>> /\ Moves(early, checkInterfaces, Head(queue), n, begun, m, now)
    BY <2>4, <2>6, CountsPairs, Zenon
  <2>8. now => RowsFrom(early, checkInterfaces, rows', m)
    BY <1>1, <1>2, <2>1, <2>3, <2>4, <2>7, CountedRows
  <2>9. Sent' = Sent
    BY <1>1, <1>3 DEF Sent
  <2>10. Stream(Counting(early', checkInterfaces'), queue', <<m, now>>, <<Sent', TRUE>>)
    BY <1>1, <1>3, <2>5, <2>7, <2>9
  <2>11. now => RowsFrom(early', checkInterfaces', rows', m)
    BY <1>1, <1>3, <2>8
  <2>12. ~starting' /\ jobs'[1] \in 0..(Signals' + 1) /\ early' \in Nat
    BY <1>1, <1>3, <2>2 DEF UnderWay
  <2> QED BY <2>10, <2>11, <2>12 DEF UnderWay
<1> QED BY <1>4, <1>5 DEF CountInv

(* The only job sends a signal. *)
LEMMA CountSignal ==
  ASSUME CountInv, NEW j \in 1..MaxTests, checkStarted(j) \/ checkFinished(j)
  PROVE  CountInv'
<1> DEFINE n == jobs[j]
           t == checkInterfaces[n \div 2 + 1]
<1>1. /\ n \in 0..(Signals - 1) /\ jobs' = [jobs EXCEPT ![j] = n + 1] /\ ~ub
      /\ UNCHANGED <<machine, watched, starting, rows, calls, overlapped, early, ub>>
  BY DEF checkStarted, checkFinished
<1>2. Signals \in Nat /\ Signals' = Signals /\ checkInterfaces' = checkInterfaces
  BY <1>1, ChecksTyped, ChecksStay
<1>3. queue \in Seq(Event) /\ jobs \in [1..MaxTests -> Int]
  BY DEF CountInv, OwnInv, TesterTyped
<1>4. jobs'[j] = n + 1 /\ \A i \in 1..MaxTests : i # j => jobs'[i] = jobs[i]
  BY <1>1, <1>3
<1>5. OwnInv' /\ calls' \in Nat
  BY <1>1, OwnSignal DEF CountInv
<1>6. PICK e : /\ queue' = Append(queue, e) /\ e.test = t /\ e.job = j
               /\ \/ n % 2 = 0 /\ e.kind = "checkStarted"
                  \/ n % 2 = 1 /\ e.kind = "checkFinished"
  <2>1. CASE checkStarted(j)
    <3> DEFINE d == [kind |-> "checkStarted", job |-> j, test |-> t]
    <3>1. queue' = Append(queue, d) /\ n % 2 = 0
      BY <2>1 DEF checkStarted
    <3>2. d.test = t /\ d.job = j /\ d.kind = "checkStarted"
      OBVIOUS
    <3> HIDE DEF d, t, n
    <3> QED BY <3>1, <3>2
  <2>2. CASE checkFinished(j)
    <3>1. PICK out :
            queue' = Append(queue, [kind |-> "checkFinished", job |-> j, test |-> t, out |-> out])
      BY <2>2 DEF checkFinished
    <3> DEFINE d == [kind |-> "checkFinished", job |-> j, test |-> t, out |-> out]
    <3>2. queue' = Append(queue, d) /\ n % 2 = 1
      BY <2>2, <3>1 DEF checkFinished
    <3>3. d.test = t /\ d.job = j /\ d.kind = "checkFinished"
      OBVIOUS
    <3> HIDE DEF d, t, n
    <3> QED BY <3>2, <3>3
  <2> QED BY <2>1, <2>2
<1>7. queue' \in Seq(Event)
  BY <1>5 DEF OwnInv, TesterTyped
<1>8. e \in Event
  <2>1. Len(queue) + 1 \in 1..Len(queue') /\ queue'[Len(queue) + 1] = e
    BY <1>3, <1>6
  <2> QED BY <1>7, <2>1
<1>9. ASSUME OnlyOneJob' PROVE (Launching \/ UnderWay)'
  <2>1. j = 1
    <3>1. ~Idle(j)'
      BY <1>1, <1>4 DEF Idle, NoJob
    <3>2. j \in 2..MaxTests \/ j = 1
      BY BoundsAssumption
    <3> QED BY <1>9, <3>1, <3>2 DEF OnlyOneJob
  <2>2. \A i \in 2..MaxTests : i \in 1..MaxTests /\ i # 1
    OBVIOUS
  <2>3. OnlyOneJob
    BY <1>1, <1>4, <1>9, <2>1, <2>2 DEF OnlyOneJob, Idle
  <2>4. Launching \/ UnderWay
    BY <1>1, <2>1, <2>3 DEF CountInv, NotStarted, Idle, NoJob
  <2>5. Sent = n /\ Sent' = n + 1 /\ jobs'[1] \in 0..(Signals' + 1)
    BY <1>1, <1>2, <1>4, <2>1 DEF Sent
  <2>6. IsSignal(checkInterfaces, e, n)
    BY <1>6, <2>1 DEF IsSignal
  <2>7. CASE Launching
    <3>1. Len(queue) = n /\ \A p \in 1..n : IsSignal(checkInterfaces, queue[p], p - 1)
      BY <2>5, <2>7 DEF Launching
    <3> HIDE DEF n
    <3>2. Len(queue') = n + 1 /\ queue'[n + 1] = e /\ \A p \in 1..n : queue'[p] = queue[p]
      <4>1. /\ Len(queue') = Len(queue) + 1 /\ queue'[Len(queue) + 1] = e
            /\ \A p \in 1..Len(queue) : queue'[p] = queue[p]
        BY <1>3, <1>6
      <4> QED BY <3>1, <4>1
    <3>3. n \in Nat /\ (n + 1) - 1 = n /\ \A p \in 1..(n + 1) : p \in 1..n \/ p = n + 1
      BY <1>1
    <3>4. \A p \in 1..(n + 1) : IsSignal(checkInterfaces, queue'[p], p - 1)
      BY <2>6, <3>1, <3>2, <3>3
    <3> QED BY <1>1, <1>2, <2>5, <2>7, <3>2, <3>4 DEF Launching
  <2>8. CASE UnderWay
    <3> DEFINE C == Counting(early, checkInterfaces)
               no == TRUE
    <3>1. PICK k \in Nat, begun \in BOOLEAN :
            /\ begun => RowsFrom(early, checkInterfaces, rows, k)
            /\ Stream(C, queue, <<k, begun>>, <<n, no>>)
      BY <2>5, <2>8 DEF UnderWay
    <3>2. n \in Nat /\ n + 1 \in Nat /\ no \in BOOLEAN
      BY <1>1
    <3> HIDE DEF n, no
    <3> DEFINE a == <<n, no>>
               b == <<n + 1, no>>
    <3>3. a \in Numbers /\ b \in Numbers /\ a[1] = n /\ a[2] = no
      BY <3>2 DEF Numbers
    <3>4. b = <<a[1] + 1, a[2]>>
      BY <3>3, Zenon
    <3> HIDE DEF a, b, C
    <3>5. Counts(early, checkInterfaces, a, e, b)
      BY <2>6, <3>3, <3>4 DEF Counts
    <3>6. <<a, e, b>> \in C
      BY <1>8, <3>3, <3>5, CountingAre DEF C
    <3>7. Stream(C, Append(queue, e), <<k, begun>>, b)
      BY <1>3, <1>8, <3>1, <3>6, StreamAppend DEF a
    <3>8. Stream(Counting(early', checkInterfaces'), queue', <<k, begun>>, <<Sent', TRUE>>)
      BY <1>1, <1>2, <1>6, <2>5, <3>7 DEF b, C, no
    <3>9. begun => RowsFrom(early', checkInterfaces', rows', k)
      BY <1>1, <1>2, <3>1
    <3>10. ~starting' /\ early' \in Nat
      BY <1>1, <2>8 DEF UnderWay
    <3> QED BY <2>5, <3>8, <3>9, <3>10 DEF UnderWay
  <2> QED BY <2>4, <2>7, <2>8
<1> QED BY <1>5, <1>9 DEF CountInv

(* The only job ends. *)
LEMMA CountJobFinished ==
  ASSUME CountInv, NEW j \in 1..MaxTests, jobFinished(j)
  PROVE  CountInv'
<1> DEFINE f == [kind |-> "finished"]
           no == TRUE
           b == <<Sent, no>>
<1>1. /\ jobs[j] = Signals /\ jobs' = [jobs EXCEPT ![j] = Signals + 1] /\ ~ub
      /\ \/ watched = j /\ queue' = Append(queue, f)
         \/ queue' = queue
      /\ UNCHANGED <<machine, watched, starting, rows, calls, overlapped, early, ub>>
  BY DEF jobFinished
<1>2. Signals \in Nat /\ Signals' = Signals /\ checkInterfaces' = checkInterfaces
  BY <1>1, ChecksTyped, ChecksStay
<1>3. queue \in Seq(Event) /\ jobs \in [1..MaxTests -> Int]
  BY DEF CountInv, OwnInv, TesterTyped
<1>4. jobs'[j] = Signals + 1 /\ \A i \in 1..MaxTests : i # j => jobs'[i] = jobs[i]
  BY <1>1, <1>3
<1>5. OwnInv' /\ calls' \in Nat
  BY <1>1, OwnJobFinished DEF CountInv
<1>6. f \in Event /\ f.kind = "finished"
  BY DEF Event
<1> HIDE DEF f
<1>7. ASSUME OnlyOneJob' PROVE (Launching \/ UnderWay)'
  <2>1. j = 1
    <3>1. ~Idle(j)'
      BY <1>2, <1>4 DEF Idle, NoJob
    <3>2. j \in 2..MaxTests \/ j = 1
      BY BoundsAssumption
    <3> QED BY <1>7, <3>1, <3>2 DEF OnlyOneJob
  <2>2. \A i \in 2..MaxTests : i \in 1..MaxTests /\ i # 1
    OBVIOUS
  <2>3. OnlyOneJob
    BY <1>1, <1>4, <1>7, <2>1, <2>2 DEF OnlyOneJob, Idle
  <2>4. Launching \/ UnderWay
    BY <1>1, <1>2, <2>1, <2>3 DEF CountInv, NotStarted, Idle, NoJob
  <2>5. Sent = Signals /\ Sent' = Sent /\ jobs'[1] \in 0..(Signals' + 1)
    BY <1>1, <1>2, <1>4, <2>1 DEF Sent
  <2>6. CASE Launching
    <3>1. queue' = queue
      BY <1>1, <2>1, <2>6 DEF Launching
    <3> QED BY <1>1, <1>2, <2>5, <2>6, <3>1 DEF Launching
  <2>7. CASE UnderWay
    <3> DEFINE C == Counting(early, checkInterfaces)
    <3>1. PICK k \in Nat, begun \in BOOLEAN :
            /\ begun => RowsFrom(early, checkInterfaces, rows, k)
            /\ Stream(C, queue, <<k, begun>>, b)
      BY <2>7 DEF UnderWay
    <3>2. b \in Numbers
      <4>1. Sent \in Nat /\ no \in BOOLEAN
        BY <1>2, <2>5
      <4> HIDE DEF no
      <4> QED BY <4>1 DEF Numbers
    <3> HIDE DEF b, C
    <3>3. <<b, f, b>> \in C
      BY <1>6, <3>2, CountingAre DEF C, Counts
    <3>4. Stream(C, Append(queue, f), <<k, begun>>, b)
      BY <1>3, <1>6, <3>1, <3>3, StreamAppend
    <3>5. Stream(C, queue', <<k, begun>>, b)
      BY <1>1, <3>1, <3>4
    <3>6. Stream(Counting(early', checkInterfaces'), queue', <<k, begun>>, <<Sent', TRUE>>)
      BY <1>1, <1>2, <2>5, <3>5 DEF b, C
    <3>7. begun => RowsFrom(early', checkInterfaces', rows', k)
      BY <1>1, <1>2, <3>1
    <3>8. ~starting' /\ early' \in Nat
      BY <1>1, <2>7 DEF UnderWay
    <3> QED BY <2>5, <3>6, <3>7, <3>8 DEF UnderWay
  <2> QED BY <2>4, <2>6, <2>7
<1> QED BY <1>5, <1>7 DEF CountInv

(* Every step keeps the invariant; a single check ends its hypothesis. *)
LEMMA CountStep == CountInv /\ [TesterNext]_testerVars => CountInv'
<1> SUFFICES ASSUME CountInv, [TesterNext]_testerVars PROVE CountInv'
  OBVIOUS
<1>1. CASE startTests
  BY <1>1, CountStart
<1>2. CASE setFuture
  BY <1>2, CountSetFuture
<1>3. CASE handle
  BY <1>3, CountHandle
<1>4. CASE callCheck
  <2>1. calls' = calls + 1 /\ calls \in Nat
    BY <1>4 DEF callCheck, CountInv
  <2>2. calls' \in Nat /\ ~OnlyOneJob'
    BY <2>1 DEF OnlyOneJob
  <2>3. OwnInv'
    BY <1>4, OwnCallCheck DEF CountInv
  <2> QED BY <2>2, <2>3 DEF CountInv
<1>5. ASSUME NEW j \in 1..MaxTests, Job(j) PROVE CountInv'
  BY <1>5, CountSignal, CountJobFinished DEF Job
<1>6. CASE UNCHANGED testerVars
  <2>1. UNCHANGED <<machine, jobs, queue, watched, starting, rows, calls, early, ub>>
    BY <1>6 DEF testerVars
  <2>2. Signals' = Signals /\ checkInterfaces' = checkInterfaces
    BY <2>1, ChecksStay
  <2>3. OwnInv'
    BY <1>6, OwnStep DEF CountInv
  <2>4. /\ OnlyOneJob' => OnlyOneJob
        /\ NotStarted => NotStarted'
        /\ Launching => Launching'
    BY <2>1, <2>2 DEF OnlyOneJob, NotStarted, Launching, Idle, Sent
  <2>5. UnderWay => UnderWay'
    BY <2>1, <2>2 DEF UnderWay, Sent
  <2> QED BY <2>1, <2>3, <2>4, <2>5 DEF CountInv
<1> QED BY <1>1, <1>2, <1>3, <1>4, <1>5, <1>6 DEF TesterNext

(***************************************************************************)
(* For any machines: when the only job ever started is over and all its    *)
(* signals are handled, the rows are its checks in order, all finished,    *)
(* from the first one on whose start was queued behind the watcher's       *)
(* started().                                                              *)
(***************************************************************************)
THEOREM RowsCompleteAndInOrder == TesterSpec => []CompleteAndInOrder
<1>1. CountInv => CompleteAndInOrder
  <2> SUFFICES ASSUME CountInv, MaxTests > 0, Finished(1), \A j \in 2..MaxTests : Idle(j),
                      ~ub, calls = 0, queue = <<>>, ~starting
               PROVE  /\ \A i \in DOMAIN rows : rows[i].finished
                      /\ [i \in DOMAIN rows |-> rows[i].test] =
                           SubSeq(checkInterfaces, early \div 2 + 1, Len(checkInterfaces))
    BY DEF CompleteAndInOrder
  <2>1. OnlyOneJob
    BY DEF OnlyOneJob
  <2>2. Signals \in Nat /\ Signals = 2 * Len(checkInterfaces) /\ checkInterfaces \in Seq(Tests)
    BY ChecksTyped DEF Signals
  <2>3. UnderWay
    BY <2>1, <2>2 DEF CountInv, NotStarted, Launching, Idle, Finished, NoJob
  <2>4. Sent = Signals
    BY <2>2 DEF Sent, Finished
  <2>5. PICK n \in Nat, begun \in BOOLEAN :
          /\ begun => RowsFrom(early, checkInterfaces, rows, n)
          /\ Stream(Counting(early, checkInterfaces), queue, <<n, begun>>, <<Sent, TRUE>>)
    BY <2>3 DEF UnderWay
  <2>6. <<n, begun>> = <<Sent, TRUE>>
    BY <2>5, StreamEmpty
  <2>7. n = Signals /\ begun
    <3>1. \A u, v, x, y : <<u, v>> = <<x, y>> => u = x /\ v = y
      OBVIOUS
    <3>2. n = Sent /\ begun = TRUE
      BY <2>6, <3>1, Zenon
    <3> QED BY <2>4, <3>2
  <2> DEFINE l == Len(checkInterfaces)
             h == early \div 2
             r == Len(rows)
  <2>8. /\ early \in Nat /\ rows \in Seq(Row)
        /\ l \in Nat /\ n = 2 * l
    BY <2>2, <2>3, <2>7 DEF UnderWay, CountInv, OwnInv, TesterTyped
  <2>9. /\ early <= n /\ (early % 2 = 1 => n = early)
        /\ r = (n + 1) \div 2 - (early + 1) \div 2
        /\ \A i \in 1..r : rows[i].test = checkInterfaces[h + i] /\ (2 * (h + i) <= n => rows[i].finished)
    BY <2>5, <2>7 DEF RowsFrom
  <2>10. h \in Nat /\ early = 2 * h /\ r = l - h /\ r \in Nat
    <3> HIDE DEF l, r
    <3>1. early % 2 = 0
      BY <2>8, <2>9
    <3>2. h \in Nat /\ early = 2 * h
      BY <2>8, <3>1
    <3> HIDE DEF h
    <3>3. (n + 1) \div 2 = l /\ (early + 1) \div 2 = h
      BY <2>8, <3>2
    <3>4. r = l - h
      BY <2>9, <3>3, Zenon
    <3>5. early <= n
      BY <2>9, Zenon
    <3>6. h <= l
      BY <2>8, <3>2, <3>5
    <3> QED BY <2>8, <3>2, <3>4, <3>6
  <2>11. DOMAIN rows = 1..r
    BY <2>8
  <2>12. SubSeq(checkInterfaces, h + 1, l) = [i \in 1..r |-> checkInterfaces[h + i]]
    BY <2>2, <2>8, <2>10
  <2> HIDE DEF l, h, r
  <2>13. \A i \in 1..r : 2 * (h + i) <= n
    BY <2>8, <2>10
  <2>14. \A i \in 1..r : rows[i].finished /\ rows[i].test = checkInterfaces[h + i]
    BY <2>9, <2>13
  <2>15. [i \in DOMAIN rows |-> rows[i].test] = [i \in 1..r |-> checkInterfaces[h + i]]
    BY <2>11, <2>14
  <2> QED BY <2>11, <2>12, <2>14, <2>15 DEF l, h
<1> QED BY <1>1, CountInitially, CountStep, PTL DEF TesterSpec

=============================================================================
