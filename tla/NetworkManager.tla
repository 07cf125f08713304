--------------------------- MODULE NetworkManager ---------------------------
(***************************************************************************)
(* Two clients that measure with each other (networkmanager.cpp).  The     *)
(* agent offers a measurement in a datagram to the peer's keepalive port;  *)
(* the peer gives it to its task executor, which may have other work       *)
(* first, and the agent waits for a connection (TCP) or for an empty       *)
(* datagram (UDP).  Datagrams may be lost, duplicated, delayed and         *)
(* reordered.  The task executors are taken as the serial queues that      *)
(* TaskExecutor shows them to be; a client that crashes stays down.        *)
(***************************************************************************)
EXTENDS Integers, Sequences, FiniteSets

CONSTANTS Plans,      \* bound: the sequences of tasks an agent may be given
          MaxTasks,   \* bound: the length of a plan
          MaxResets   \* bound: changes of the configuration

ASSUME BoundsAssumption ==
    /\ MaxTasks \in Nat /\ MaxResets \in Nat
    /\ \A p \in Plans : p \in Seq([client : {1, 2}, kind : {"btc", "trains"}, port : Nat])
                          /\ Len(p) <= MaxTasks

VARIABLES todo,     \* tasks that the agents will be given
          queue,    \* the executor's measurements, the running one first
          phase,    \* how far the running one is
          handled,  \* handledMeasureUuids
          socket,   \* the keepalive socket: 0 none, else its generation
          pointer,  \* the keepalive socket that establishConnection() took
          alive,    \* the process runs
          net,      \* datagrams sent: each may arrive never, once or again
          uuids,    \* uuids made so far
          resets,   \* configuration changes so far
          runs      \* history: parts taken in a measurement, by uuid

netVars == <<todo, queue, phase, handled, socket, pointer, alive, net, uuids, resets, runs>>

Clients == {1, 2}
other(c) == 3 - c
HardCoded == 5106       \* the port a peer binds, whatever was offered
Protocol(kind) == IF kind = "btc" THEN "tcp" ELSE "udp"

NetInit ==
    /\ todo \in Plans
    /\ queue = [c \in Clients |-> <<>>] /\ phase = [c \in Clients |-> "none"]
    /\ handled = [c \in Clients |-> {}]
    /\ socket = [c \in Clients |-> 1] /\ pointer = [c \in Clients |-> 0]
    /\ alive = [c \in Clients |-> TRUE]
    /\ net = {} /\ uuids = 0 /\ resets = 0
    /\ runs = [c \in Clients |-> [u \in 1..MaxTasks |-> 0]]

Running(c) == alive[c] /\ queue[c] # <<>>
Does(c, role, kind, ph) ==
    /\ Running(c) /\ phase[c] = ph
    /\ Head(queue[c]).role = role /\ Head(queue[c]).kind = kind

\* The measurement is over: reported, stopped and destroyed, next one.
done(c) ==
    /\ queue' = [queue EXCEPT ![c] = Tail(@)]
    /\ phase' = [phase EXCEPT ![c] = "none"]

goto(c, ph) == phase' = [phase EXCEPT ![c] = ph] /\ UNCHANGED queue

crash(c) == alive' = [alive EXCEPT ![c] = FALSE]

datagram(what, c, item) == [what |-> what, to |-> c, item |-> item]

-----------------------------------------------------------------------------
\* A task of the agent comes to its executor (the schedule, or the user).
newTask(c) ==
    /\ alive[c] /\ todo # <<>> /\ Head(todo).client = c /\ todo' = Tail(todo)
    /\ queue' = [queue EXCEPT ![c] = Append(@,
            [role |-> "ma", kind |-> Head(todo).kind, uuid |-> 0, port |-> Head(todo).port])]
    /\ UNCHANGED <<phase, handled, socket, pointer, alive, net, uuids, resets, runs>>

\* establishConnection() up to the choice of the socket that sends the offer.
\* The agent's own uuid counts as handled.  UDP: the measurement's own socket
\* is bound, which may fail, and opens the way with an empty datagram; TCP:
\* the keepalive socket is taken, whatever the main thread does with it.
remembered(c, u) == handled' = [handled EXCEPT ![c] = @ \cup {u}]

establishConnection(c) ==
    /\ Running(c) /\ phase[c] = "none" /\ Head(queue[c]).role = "ma"
    /\ uuids' = uuids + 1
    /\ remembered(c, uuids + 1)
    /\ runs' = [runs EXCEPT ![c][uuids + 1] = @ + 1]
    /\ \/ /\ Protocol(Head(queue[c]).kind) = "tcp"
          /\ queue' = [queue EXCEPT ![c][1].uuid = uuids + 1]
          /\ phase' = [phase EXCEPT ![c] = "offer"]
          /\ pointer' = [pointer EXCEPT ![c] = socket[c]]
          /\ UNCHANGED net
       \/ /\ Protocol(Head(queue[c]).kind) = "udp"
          /\ queue' = [queue EXCEPT ![c][1].uuid = uuids + 1]
          /\ phase' = [phase EXCEPT ![c] = "offer"]
          /\ net' = net \cup {datagram("empty", other(c), Head(queue[c]).port)}
          /\ UNCHANGED pointer
       \/ Protocol(Head(queue[c]).kind) = "udp" /\ done(c) /\ UNCHANGED <<todo, net, pointer>>
    /\ UNCHANGED <<todo, socket, alive, resets>>

\* The offer is written.  No socket, or one the main thread has deleted in
\* the meantime, is undefined behaviour: the client goes down.
sendOffer(c) ==
    /\ Running(c) /\ phase[c] = "offer"
    /\ LET t == Head(queue[c])
           usable == Protocol(t.kind) = "udp" \/ (pointer[c] # 0 /\ pointer[c] = socket[c])
       IN  \/ /\ usable /\ goto(c, "wait") /\ UNCHANGED alive
              /\ net' = net \cup {datagram("offer", d, [kind |-> t.kind, uuid |-> t.uuid,
                                                        port |-> t.port, from |-> c])
                                    : d \in Clients}
           \/ ~usable /\ crash(c) /\ UNCHANGED <<net, queue, phase>>
    /\ pointer' = [pointer EXCEPT ![c] = 0]
    /\ UNCHANGED <<todo, handled, socket, uuids, resets, runs>>

\* Five seconds without an answer, or an answer of another host: the socket
\* is deleted and the measurement fails.
giveUp(c) ==
    /\ Running(c) /\ phase[c] = "wait" /\ done(c)
    /\ UNCHANGED <<todo, handled, socket, pointer, alive, net, uuids, resets, runs>>

\* The first datagram of the peer's host, of whatever measurement, will do.
acknowledged(c) ==
    /\ Does(c, "ma", "trains", "wait")
    /\ datagram("ack", c, 0) \in net
    /\ goto(c, "start")
    /\ UNCHANGED <<todo, handled, socket, pointer, alive, net, uuids, resets, runs>>

-----------------------------------------------------------------------------
\* The peer's main thread: an offer arrives at the keepalive socket.  The
\* executor refuses it on a mobile connection; the uuid is remembered anyway.
processDatagram_forgets(c) ==
    /\ alive[c] /\ socket[c] # 0
    /\ \E d \in net :
        /\ d.to = c /\ d.what = "offer"
        /\ UNCHANGED handled
        /\ \/ d.item.uuid \in handled[c] /\ UNCHANGED queue
           \/ /\ d.item.uuid \notin handled[c]
              /\ queue' = [queue EXCEPT ![c] = Append(@,
                    [role |-> "mp", kind |-> d.item.kind, uuid |-> d.item.uuid,
                     port |-> d.item.port])]
    /\ UNCHANGED <<todo, phase, socket, pointer, alive, net, uuids, resets, runs>>

processDatagram(c) ==
    /\ alive[c] /\ socket[c] # 0
    /\ \E d \in net :
        /\ d.to = c /\ d.what = "offer"
        /\ remembered(c, d.item.uuid)
        /\ \/ d.item.uuid \in handled[c] /\ UNCHANGED queue
           \/ /\ d.item.uuid \notin handled[c]
              /\ \/ UNCHANGED queue
                 \/ queue' = [queue EXCEPT ![c] = Append(@,
                        [role |-> "mp", kind |-> d.item.kind, uuid |-> d.item.uuid,
                         port |-> d.item.port])]
    /\ UNCHANGED <<todo, phase, socket, pointer, alive, net, uuids, resets, runs>>

\* The executor creates the peer's measurement.  The observer of a UDP
\* request binds a socket, which may fail, and answers the agent.
created(c) ==
    /\ Running(c) /\ phase[c] = "none" /\ Head(queue[c]).role = "mp"
    /\ runs' = [runs EXCEPT ![c][Head(queue[c]).uuid] = @ + 1]
    /\ \/ Protocol(Head(queue[c]).kind) = "tcp" /\ goto(c, "prepare") /\ UNCHANGED net
       \/ /\ Protocol(Head(queue[c]).kind) = "udp" /\ goto(c, "prepare")
          /\ net' = net \cup {datagram("ack", other(c), 0)}
       \/ Protocol(Head(queue[c]).kind) = "udp" /\ done(c) /\ UNCHANGED net
    /\ UNCHANGED <<todo, handled, socket, pointer, alive, uuids, resets>>

\* The configuration changed: the keepalive socket is deleted and, if there
\* is a keepalive host, made again (responseChanged(), updateSocket()).
responseChanged(c) ==
    /\ alive[c] /\ resets < MaxResets /\ resets' = resets + 1
    /\ \E host \in BOOLEAN :
        socket' = [socket EXCEPT ![c] = IF host THEN 2 + resets ELSE 0]
    /\ UNCHANGED <<todo, queue, phase, handled, pointer, alive, net, uuids, runs>>

Connect(c) == establishConnection(c) \/ sendOffer(c) \/ giveUp(c)

NetNext(c) ==
    \/ newTask(c) \/ Connect(c) \/ acknowledged(c)
    \/ processDatagram(c) \/ created(c) \/ responseChanged(c)

-----------------------------------------------------------------------------
NetTypeOK ==
    /\ \A c \in Clients :
        /\ phase[c] \in {"none", "offer", "wait", "start", "prepare", "run"}
        /\ handled[c] \subseteq 1..uuids
        /\ socket[c] \in 0..(MaxResets + 1) /\ pointer[c] \in 0..(MaxResets + 1)
        /\ alive[c] \in BOOLEAN
        /\ queue[c] = <<>> => phase[c] = "none"
    /\ uuids \in 0..MaxTasks /\ resets \in 0..MaxResets
=============================================================================
