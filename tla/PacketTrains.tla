---------------------------- MODULE PacketTrains ----------------------------
(***************************************************************************)
(* The packet trains measurement (packettrains_ma.cpp, packettrains_mp.cpp) *)
(* on top of the network manager, together with the bulk transport: the    *)
(* agent sends trains of packets and is done; the peer notes what arrives  *)
(* and rates each train one second after the last packet.                  *)
(***************************************************************************)
EXTENDS BulkTransport

CONSTANTS Iterations,    \* trains
          TrainLength,   \* packets of a train
          MaxArrivals    \* bound: packets of a train that arrive, duplicates too

ASSUME TrainsAssumption == Iterations \in Nat \ {0} /\ TrainLength \in Nat \ {0}
                           /\ MaxArrivals \in Nat

VARIABLE rec    \* m_rec: for each train the number of packets that arrived

vars == <<netVars, btcVars, rec>>

EmptyTrains == [i \in 1..Iterations |-> 0]

Packets == [iter : 1..Iterations, id : 1..TrainLength]

Init ==
    /\ NetInit /\ BtcInit
    /\ rec = [c \in Clients |-> EmptyTrains]

\* The agent's prepare() charges the traffic, start() sends all trains and
\* is finished.  A peer listens at its fixed port only.
start(c) ==
    /\ Does(c, "ma", "trains", "start") /\ done(c)
    /\ net' \in {net, IF Head(queue[c]).port = HardCoded
                      THEN net \cup {datagram("train", other(c), p) : p \in Packets}
                      ELSE net}
    /\ UNCHANGED <<todo, handled, socket, pointer, alive, uuids, resets, runs, btcVars, rec>>

\* The peer's prepare() and start(): empty lists, two timers.
startPeer(c) ==
    /\ Does(c, "mp", "trains", "prepare") /\ goto(c, "run")
    /\ rec' = [rec EXCEPT ![c] = EmptyTrains]
    /\ UNCHANGED <<todo, handled, socket, pointer, alive, net, uuids, resets, runs, btcVars>>

Rating(c) == Does(c, "mp", "trains", "run")

\* A packet is noted in the list of the train it says it belongs to.
append(c, i) ==
    /\ rec[c][i] < MaxArrivals
    /\ rec' = [rec EXCEPT ![c][i] = @ + 1]

readPendingDatagrams(c) ==
    /\ Rating(c)
    /\ \E d \in net : d.to = c /\ d.what = "train" /\ append(c, d.item.iter)
    /\ UNCHANGED <<todo, queue, phase, handled, socket, pointer, alive, net, uuids, resets, runs,
                   btcVars>>

\* The datagram that opened the way comes after the socket was bound: it is
\* read as a packet although it has no bytes.  Reading and writing beyond it
\* is undefined: some train gets one more packet, or the process goes down.
readEmpty(c) ==
    /\ Rating(c) /\ datagram("empty", c, HardCoded) \in net
    /\ \/ crash(c) /\ UNCHANGED rec
       \/ (\E i \in 1..Iterations : append(c, i)) /\ UNCHANGED alive
    /\ UNCHANGED <<todo, queue, phase, handled, socket, pointer, net, uuids, resets, runs,
                   btcVars>>

\* One second after the last packet the trains are rated (the rates are left
\* out).  The first packet of an empty list is a null pointer.
eval(c) ==
    /\ Rating(c) /\ \E i \in 1..Iterations : rec[c][i] > 0
    /\ IF \E i \in 1..Iterations : rec[c][i] = 0
       THEN crash(c) /\ UNCHANGED <<queue, phase>>
       ELSE done(c) /\ UNCHANGED alive
    /\ rec' = [rec EXCEPT ![c] = EmptyTrains]
    /\ UNCHANGED <<todo, handled, socket, pointer, net, uuids, resets, runs, btcVars>>

\* Five seconds without a packet after the start: a result without rates.
timeout_never(c) == FALSE /\ UNCHANGED vars
timeout(c) ==
    /\ Rating(c) /\ \A i \in 1..Iterations : rec[c][i] = 0
    /\ done(c)
    /\ UNCHANGED <<todo, handled, socket, pointer, alive, net, uuids, resets, runs, btcVars, rec>>

TrainStep(c) == start(c) \/ startPeer(c) \/ eval(c) \/ timeout(c)

Next ==
    \/ \E c \in Clients :
        \/ NetNext(c) /\ UNCHANGED <<btcVars, rec>>
        \/ BtcNext(c) /\ UNCHANGED rec
        \/ TrainStep(c) \/ readPendingDatagrams(c) \/ readEmpty(c)
    \/ receiveRequest /\ UNCHANGED rec

\* Executors, timers and TCP run on; datagrams and new tasks need not come.
Spec ==
    /\ Init /\ [][Next]_vars
    /\ \A c \in Clients :
        /\ WF_vars((Connect(c) \/ created(c)) /\ UNCHANGED <<btcVars, rec>>)
        /\ WF_vars(BtcStep(c) /\ UNCHANGED rec)
        /\ WF_vars(TrainStep(c))
    /\ WF_vars(receiveRequest /\ UNCHANGED rec)

-----------------------------------------------------------------------------
(***************************************************************************)
(* Phases, sockets, uuids and the agent's counters stay in their ranges.   *)
(***************************************************************************)
TypeOK ==
    /\ NetTypeOK
    /\ conn # NoConn =>
        /\ conn.a \in Clients
        /\ conn.expected > 0 =>
             conn.avail + answered(conn.request) + (IF conn.valid THEN conn.total ELSE 0) <= conn.expected
        /\ conn.got \in 0..conn.total
    /\ \A c \in Clients, i \in 1..Iterations : rec[c][i] \in 0..MaxArrivals

(***************************************************************************)
(* A client takes part in a measurement at most once, although the offer   *)
(* may arrive twice, after the measurement is over, or at its own sender:  *)
(* handledMeasureUuids.                                                    *)
(***************************************************************************)
OncePerUuid == \A c \in Clients, u \in 1..MaxTasks : runs[c][u] <= 1

(***************************************************************************)
(* The peer never sends more data than the traffic budget granted to the   *)
(* agent, for both requests together, although the charge has 32 bits and  *)
(* the request 64: the size of the answer is cut in the same place.        *)
(***************************************************************************)
SentIsCharged == conn # NoConn => conn.sent <= charged

(***************************************************************************)
(* A bulk transport measurement that finishes has a speed, so that         *)
(* result() finds a largest and a smallest one: however the data is cut    *)
(* into pieces, even if the second answer arrives at once, the samples of  *)
(* the pretest are there.  And it has at most the number of slices that    *)
(* calculateResult() announces (-1: no result yet).                        *)
(***************************************************************************)
FinishedHasSpeed == speeds # 0 /\ speeds <= Slices

(***************************************************************************)
(* A measurement ends on both sides, whatever datagram is lost, unless it  *)
(* is one that nothing ends: an agent of the bulk transport whose peer is  *)
(* gone or answers with less than it was asked for (2 GiB and more, or a   *)
(* size that is not a number), its peer, and a peer that no agent connects *)
(* to.                                                                     *)
(***************************************************************************)
Short == conn.expected <= 0 \/ answered(conn.expected) < conn.expected
Waiting(c) ==
    \/ AgentOf(c) /\ (~conn.open \/ Short)
    \/ Listening(c) /\ (conn = NoConn \/ Short)

MeasurementEnds ==
    \A c \in Clients, u \in 1..MaxTasks :
        (Running(c) /\ Head(queue[c]).uuid = u)
            ~> (~Running(c) \/ Head(queue[c]).uuid # u \/ Waiting(c))
=============================================================================
