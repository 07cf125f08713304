-------------------------- MODULE ConnectionTester --------------------------
(***************************************************************************)
(* The connection tester and the list model that shows its rows            *)
(* (connectiontester.cpp).  start() puts checkInterfaces() into the thread *)
(* pool and then hands the future to a watcher; the checks run in a pool   *)
(* thread and their signals are queued to the GUI thread, where the model  *)
(* keeps the rows.  The user interface also calls single checks directly.  *)
(***************************************************************************)
EXTENDS Integers, Sequences, FiniteSets, SequencesExt

CONSTANTS Machines,   \* what the machine and the network look like
          MaxTests,   \* bound: calls of start()
          MaxChecks   \* bound: checks the user interface calls by itself

ASSUME BoundsAssumption == MaxTests \in Nat /\ MaxChecks \in Nat

VARIABLES machine,    \* the machine and its network, which do not change
          jobs,       \* the signals each pool job has emitted, -1: no job
          queue,      \* events posted to the GUI thread
          watched,    \* the job whose future the watcher holds, 0 for none
          starting,   \* start() has run the job and not yet set the future
          rows,       \* m_rows
          calls,      \* direct calls made
          overlapped, \* history: two users of the model were active at once
          early,      \* history: signals queued before the watcher's started
          ub          \* last() of an empty list was taken

testerVars == <<machine, jobs, queue, watched, starting, rows, calls, overlapped, early, ub>>

Null == "null"        \* QString()
Empty == "empty"      \* a string without characters

(***************************************************************************)
(* What each check finds.  A machine m gives the kernel's routes, the      *)
(* adapters, the output lines of scutil, the addresses, the fate of the    *)
(* web request, the times of the answered pings, and (a bound) the checks  *)
(* of checkInterfaces() a job keeps.                                       *)
(***************************************************************************)
FirstOr(s, dflt) == IF s = <<>> THEN dflt ELSE Head(s)
LastOr(s, dflt) == IF s = <<>> THEN dflt ELSE Last(s)

\* The first default route of /proc/net/route; no file is no route.
findDefaultGateway_linux(m) ==
    LET default == SelectSeq(m.routes, LAMBDA r : r.dest = 0)
    IN  IF default = <<>> THEN Null ELSE Head(default).gw

\* The last matching line wins.
scutilHelper(m) == LastOr(m.lines, Null)

\* The last adapter that has a gateway wins.
findDefaultGateway_win(m) ==
    LET set == SelectSeq(m.adapters, LAMBDA a : a.gw # "0.0.0.0")
    IN  IF set = <<>> THEN Null ELSE Last(set).gw

findDefaultGateway(m) ==
    CASE m.os = "linux" -> findDefaultGateway_linux(m)
      [] m.os = "mac"   -> scutilHelper(m)
      [] m.os = "win"   -> findDefaultGateway_win(m)

\* Linux: the resolver's first server; Windows: the first server of an
\* adapter that is up; macOS: scutil.
findDefaultDNS(m) ==
    CASE m.os = "linux" -> FirstOr(m.servers, Null)
      [] m.os = "mac"   -> scutilHelper(m)
      [] m.os = "win"   ->
            FirstOr(FlattenSeq([i \in DOMAIN m.adapters |->
                        IF m.adapters[i].up THEN m.adapters[i].dns ELSE <<>>]),
                    Null)

NoAddress == [ip |-> Null]    \* QHostAddress()
isLinkLocalAddress(a) == a.range = "linkLocal"
isLocalIpAddress(a) == a.range = "private"

\* Windows and macOS: among the host name's IPv4 addresses an interface has,
\* the first private one, else the last link-local one.
localIpAddress_names(m) ==
    LET own == SelectSeq(m.names, LAMBDA a : a.v4 /\ a \in ToSet(m.interfaces))
        private == SelectSeq(own, isLocalIpAddress)
    IN  FirstOr(private, LastOr(SelectSeq(own, isLinkLocalAddress), NoAddress))

\* Elsewhere: the first interface address that is IPv4 and no loopback one.
localIpAddress_interfaces(m) ==
    FirstOr(SelectSeq(m.interfaces, LAMBDA a : a.v4 /\ a.range # "loopback"), NoAddress)

localIpAddress(m) ==
    (IF m.os = "linux" THEN localIpAddress_interfaces(m) ELSE localIpAddress_names(m)).ip

\* The reply or ten seconds, whichever comes first, ends the event loop; a
\* reply that is still running has no error and nothing to read.
publicIpAddress_noTimer(m) ==
    CASE m.reply = "body" -> {"address"} [] m.reply = "error" -> {Null} [] OTHER -> {}
publicIpAddress(m) ==
    CASE m.reply = "body"  -> {"address"}
      [] m.reply = "error" -> {Null}
      [] m.reply = "lost"  -> {Empty}

\* The average of the times, in tenths of a millisecond, cut to an int; the
\* average of nothing is not a number, whose conversion is undefined: the
\* builds yield the smallest int or 0.
averagePing(m) ==
    IF m.times = <<>> THEN {-1, 0}
    ELSE {(FoldFunction(LAMBDA t, sum : t + sum, 0, m.times)
              \div Len(m.times)) \div 10}

canPing(avg) == avg > 0

Pings == {"PingDefaultGateway", "PingGoogleDnsServer", "PingGoogleDomain"}

\* The text of a check that asks for an address.
textOf(t, m) ==
    CASE t = "DefaultGateway"  -> {findDefaultGateway(m)}
      [] t = "DefaultDns"      -> {findDefaultDNS(m)}
      [] t = "LocalIpAddress"  -> {localIpAddress(m)}
      [] t = "PublicIpAddress" -> publicIpAddress(m)

\* What a check may emit with checkFinished: success and result.
outcomes(t, m) ==
    CASE t = "ActiveInterface" -> {[success |-> m.online, result |-> [online |-> m.online]]}
      [] t \in Pings -> {[success |-> canPing(a), result |-> [ms |-> a]] : a \in averagePing(m)}
      [] t = "DefaultGateway" ->
            {[success |-> x \notin {Null, "0.0.0.0"}, result |-> [text |-> x]] : x \in textOf(t, m)}
      [] OTHER -> {[success |-> x # Null, result |-> [text |-> x]] : x \in textOf(t, m)}

\* The entries of a list at some of its positions, in order.
selected(list, positions) ==
    LET chosen[i \in 0..Len(list)] ==
            IF i = 0 THEN <<>>
            ELSE IF i \in positions THEN Append(chosen[i - 1], list[i]) ELSE chosen[i - 1]
    IN  chosen[Len(list)]

AllChecks == <<"ActiveInterface", "DefaultGateway", "DefaultDns", "PingDefaultGateway",
               "LocalIpAddress", "PublicIpAddress", "PingGoogleDnsServer", "PingGoogleDomain">>
checkInterfaces == selected(AllChecks, {i \in 1..8 : AllChecks[i] \in machine.checks})

Signals == 2 * Len(checkInterfaces)
NoJob == -1
Finished(j) == jobs[j] = Signals + 1
Idle(j) == jobs[j] = NoJob

TesterInit ==
    /\ machine \in Machines
    /\ jobs = [j \in 1..MaxTests |-> NoJob]
    /\ queue = <<>> /\ rows = <<>>
    /\ watched = 0 /\ calls = 0 /\ early = 0
    /\ starting = FALSE /\ overlapped = FALSE /\ ub = FALSE

-----------------------------------------------------------------------------
\* The GUI thread.

\* start(), first statement: the job is in the pool and may run at once.
startTests ==
    /\ ~ub /\ ~starting
    /\ \E j \in 1..MaxTests :
        /\ Idle(j) /\ \A i \in 1..(j - 1) : ~Idle(i)
        /\ jobs' = [jobs EXCEPT ![j] = 0]
        /\ overlapped' = (overlapped \/ \E i \in 1..(j - 1) : ~Finished(i))
    /\ starting' = TRUE
    /\ UNCHANGED <<machine, queue, watched, rows, calls, early, ub>>

Running == CHOOSE j \in 1..MaxTests : ~Idle(j) /\ \A i \in (j + 1)..MaxTests : Idle(i)

WatcherEvent(e) == e.kind \in {"started", "finished"}

\* start(), second statement: the watcher drops what it had pending for its
\* former future, and posts what the new one has reached already.
setFuture ==
    /\ starting /\ starting' = FALSE
    /\ watched' = Running
    /\ queue' = LET kept == selected(queue, {i \in DOMAIN queue : ~WatcherEvent(queue[i])})
                    all  == Append(kept, [kind |-> "started"])
                IN  IF Finished(Running) THEN Append(all, [kind |-> "finished"]) ELSE all
    /\ early' = Cardinality({i \in DOMAIN queue :
                                ~WatcherEvent(queue[i]) /\ queue[i].job = Running})
    /\ UNCHANGED <<machine, jobs, rows, calls, overlapped, ub>>

row(t) == [test |-> t, finished |-> FALSE]

onStarted_keeps == rows' = rows
onStarted == rows' = <<>>

onCheckStarted_first(t) == rows' = <<row(t)>> \o rows
onCheckStarted(t) == rows' = Append(rows, row(t))

\* The signal's test type is not used: the last row takes the result.
filled(rs, e) ==
    [rs EXCEPT ![Len(rs)] = [test |-> @.test, finished |-> TRUE, of |-> e.test,
                             success |-> e.out.success, result |-> e.out.result]]

onCheckFinished(e) ==
    IF rows = <<>> THEN ub' = TRUE /\ UNCHANGED rows
    ELSE rows' = filled(rows, e) /\ UNCHANGED ub

\* The GUI thread handles the oldest event.
handle ==
    /\ ~ub /\ ~starting /\ queue # <<>>
    /\ queue' = Tail(queue)
    /\ LET e == Head(queue) IN
        \/ e.kind = "started" /\ onStarted /\ UNCHANGED ub
        \/ e.kind = "checkStarted" /\ onCheckStarted(e.test) /\ UNCHANGED ub
        \/ e.kind = "checkFinished" /\ onCheckFinished(e)
        \/ e.kind = "finished" /\ UNCHANGED <<rows, ub>>
    /\ UNCHANGED <<machine, jobs, watched, starting, calls, overlapped, early>>

\* A check called from the user interface: its signals reach the model, which
\* lives in the same thread, inside the call.
callCheck ==
    /\ ~ub /\ ~starting /\ calls < MaxChecks
    /\ \E t \in machine.checks \cap {"ActiveInterface", "PingGoogleDomain"} :
        \E out \in outcomes(t, machine) :
            rows' = filled(Append(rows, row(t)), [test |-> t, out |-> out])
    /\ calls' = calls + 1
    /\ overlapped' = (overlapped \/ queue # <<>>
                        \/ \E j \in 1..MaxTests : ~Idle(j) /\ ~Finished(j))
    /\ UNCHANGED <<machine, jobs, queue, watched, starting, early, ub>>

-----------------------------------------------------------------------------
\* A pool thread: each check emits checkStarted, looks, emits checkFinished.

checkStarted(j) ==
    /\ ~ub /\ jobs[j] \in 0..(Signals - 1) /\ jobs[j] % 2 = 0
    /\ queue' = Append(queue, [kind |-> "checkStarted", job |-> j,
                               test |-> checkInterfaces[jobs[j] \div 2 + 1]])
    /\ jobs' = [jobs EXCEPT ![j] = @ + 1]
    /\ UNCHANGED <<machine, watched, starting, rows, calls, overlapped, early, ub>>

checkFinished(j) ==
    /\ ~ub /\ jobs[j] \in 0..(Signals - 1) /\ jobs[j] % 2 = 1
    /\ LET t == checkInterfaces[jobs[j] \div 2 + 1] IN
        \E out \in outcomes(t, machine) :
            queue' = Append(queue, [kind |-> "checkFinished", job |-> j, test |-> t,
                                    out |-> out])
    /\ jobs' = [jobs EXCEPT ![j] = @ + 1]
    /\ UNCHANGED <<machine, watched, starting, rows, calls, overlapped, early, ub>>

\* The job is over; a watcher that holds its future hears of it.
jobFinished(j) ==
    /\ ~ub /\ jobs[j] = Signals
    /\ jobs' = [jobs EXCEPT ![j] = Signals + 1]
    /\ queue' = IF watched = j THEN Append(queue, [kind |-> "finished"]) ELSE queue
    /\ UNCHANGED <<machine, watched, starting, rows, calls, overlapped, early, ub>>

Job(j) == checkStarted(j) \/ checkFinished(j) \/ jobFinished(j)

TesterNext == startTests \/ setFuture \/ handle \/ callCheck \/ \E j \in 1..MaxTests : Job(j)

\* The event loop and the pool's threads run on; nobody has to call start().
TesterSpec == /\ TesterInit /\ [][TesterNext]_testerVars
              /\ WF_testerVars(setFuture) /\ WF_testerVars(handle)
              /\ \A j \in 1..MaxTests : WF_testerVars(Job(j))

-----------------------------------------------------------------------------
(***************************************************************************)
(* Jobs, the watcher and the rows stay in their ranges.                    *)
(***************************************************************************)
TesterTypeOK ==
    /\ \A j \in 1..MaxTests : jobs[j] \in -1..(Signals + 1)
    /\ watched \in 0..MaxTests /\ calls \in 0..MaxChecks /\ early \in 0..Signals
    /\ \A i \in DOMAIN rows :
        rows[i].test \in machine.checks /\ rows[i].finished \in BOOLEAN
    /\ {starting, overlapped, ub} \subseteq BOOLEAN
    /\ \A i \in DOMAIN queue : ~WatcherEvent(queue[i]) => queue[i].test \in machine.checks

(***************************************************************************)
(* As long as nobody starts a check while another one is running, a        *)
(* finished row shows the result of its own test, although                 *)
(* onCheckFinished() ignores the test type it is given, and only the last  *)
(* row can be unfinished.                                                  *)
(***************************************************************************)
OwnResult ==
    ~overlapped =>
        \A i \in DOMAIN rows : IF rows[i].finished THEN rows[i].of = rows[i].test
                               ELSE i = Len(rows)

(***************************************************************************)
(* When the only job ever started is over and all its signals are handled, *)
(* the rows are its checks in order, all finished, from the first one on   *)
(* whose start was queued behind the watcher's started(): the rows of      *)
(* checks that were faster than setFuture() are gone.                      *)
(***************************************************************************)
CompleteAndInOrder ==
    (MaxTests > 0 /\ Finished(1) /\ \A j \in 2..MaxTests : Idle(j))
        /\ ~ub /\ calls = 0 /\ queue = <<>> /\ ~starting
    => /\ \A i \in DOMAIN rows : rows[i].finished
       /\ [i \in DOMAIN rows |-> rows[i].test] =
            SubSeq(checkInterfaces, early \div 2 + 1, Len(checkInterfaces))

(***************************************************************************)
(* A test that was started ends, so that the user interface can offer the  *)
(* next one: no check waits for an answer of the network for ever.         *)
(***************************************************************************)
TestEnds ==
    \A j \in 1..MaxTests : ~Idle(j) ~> (ub \/ (Finished(j) /\ queue = <<>>))
=============================================================================
