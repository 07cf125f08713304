------------------------------- MODULE Ping --------------------------------
(***************************************************************************)
(* The Ping measurement on its three platforms                             *)
(* (libclient/measurement/ping/ping_linux.cpp, ping_osx.cpp, ping_win.cpp).*)
(*                                                                         *)
(* start() sends Count probes one after the other, waits for the answer of *)
(* each (on Windows a second thread captures packets meanwhile) and then   *)
(* looks at the times of the probes to correct the number of answers.      *)
(*                                                                         *)
(* A probe's two times are kept as what the evaluation tells apart: "good" *)
(* (0 < recvTime - sendTime < receiveTimeout), "equal", and "bad", where   *)
(* the unsigned difference is not below the timeout: a late answer, or     *)
(* recvTime not set since the last sendTime, where the subtraction wraps.  *)
(***************************************************************************)
EXTENDS PingCapture

CONSTANTS
  Count,        \* definition->count
  Payload,      \* definition->payload
  MaxTimeouts,  \* timeouts the Windows capture tolerates, 10 in the code
  SamePorts,    \* definition->sourcePort = definition->destinationPort
  Neighbour,    \* the IPv6 destination shares our 64 bit prefix
  UintRange     \* number of values of quint32, 2^32

ASSUME PingConstants ==
  /\ Count \in Nat \ {0} /\ Payload \in 0..1400 /\ MaxTimeouts \in Nat
  /\ {SamePorts, Neighbour} \subseteq BOOLEAN /\ UintRange \in Nat \ {0}

VARIABLES
  platform,    \* "linux", "osx" or "win"
  type,        \* definition->type
  family,      \* address family in m_destAddress
  pc,          \* where prepare(), start() or the external process is
  socks,       \* sockets that are open: "sock" and, on OS X, "icmp"
  i,           \* index in the loop over the probes
  probes,      \* m_pingProbes: how many of each class
  sent,        \* m_pingsSent
  received,    \* m_pingsReceived
  pingTime,    \* number of entries of pingTime
  charged,     \* bytes accepted by the traffic budget for this object
  emitted,     \* signals the last step emitted, in order
  capturing,   \* Windows: receiveLoop runs
  captured,    \* Windows: what receiveLoop collected
  timeouts,    \* Windows: timeouts in receiveLoop
  onWire,      \* Windows: probes sent and not captured
  pending,     \* Windows: probes the network may still answer
  noise        \* Windows: an unrelated ICMP message may still arrive

capture == <<capturing, captured, timeouts, onWire, pending, noise>>
counters == <<probes, sent, received, pingTime>>
chosen == <<platform, type>>
pingVars == <<chosen, family, pc, socks, i, counters, charged, emitted, capture>>

Families == {"none", "v4", "v6"}
Signals == {"ttlExceeded", "destinationUnreachable", "udpResponse", "timeout", "tcpReset", "tcpConnect", "finished"}
Classes == {"good", "equal", "bad"}

PingInit ==
  /\ platform \in {"linux", "osx", "win"} /\ type \in {"Udp", "Tcp", "System"}
  /\ family = "none" /\ pc = "new" /\ socks = {} /\ i = 0
  /\ probes = [c \in Classes |-> 0]
  /\ sent = 0 /\ received = 0 /\ pingTime = 0 /\ charged = 0 /\ emitted = <<>>
  /\ capturing = FALSE /\ captured = <<>> /\ timeouts = 0
  /\ onWire = {} /\ pending = {} /\ noise = FALSE

-----------------------------------------------------------------------------
(* prepare() and start().                                                    *)

HeaderBytes(fam) == 2 * 14 + (CASE fam = "v4" -> 2 * 20 [] fam = "v6" -> 2 * 40 [] OTHER -> 0)

(* Fault: the estimate is that of a single probe. *)
estimateTraffic_single(fam) == HeaderBytes(fam) + 2 * (8 + Payload)

(* Bytes of one probe and its answer, for the address family in m_destAddress. *)
probeBytes(fam, icmp) ==
  LET answer(v4, v6) == CASE fam = "v4" -> v4 [] fam = "v6" -> v6 [] OTHER -> 0 IN
  HeaderBytes(fam) + CASE type = "Udp"    -> 2 * (8 + Payload) + answer(36, 56)
                       [] type = "Tcp"    -> answer(124, 154)
                       [] type = "System" -> icmp

(* Those of Count probes: a quint32, whatever Count is. *)
estimateTraffic(fam) == (Count * probeBytes(fam, 64)) % UintRange

(* The same function in the sources of the other two platforms. *)
estimateTraffic_osx(fam) == estimateTraffic(fam)
estimateTraffic_win(fam) == (Count * probeBytes(fam, 40)) % UintRange

estimate ==
  CASE platform = "linux" -> estimateTraffic(family)
    [] platform = "osx"   -> estimateTraffic_osx(family)
    [] OTHER              -> estimateTraffic_win(family)

(* The name resolves to an address of a known family, or not at all. *)
getAddress_linux == {"none", "v4", "v6"}
getAddress_osx == {"none", "v4", "v6"}
getAddress_win == {"none", "v4", "v6"}

(***************************************************************************)
(* prepare(): the budget is charged before the name is resolved, so the    *)
(* first estimate knows no family, and a refusal after it is not refunded. *)
(* The system ping needs no address.                                       *)
(***************************************************************************)
prepareWith(addresses, mayFail) ==
  /\ i' = 0
  /\ \/ /\ pc' = "refused" /\ UNCHANGED <<family, charged>>      \* limits, budget
     \/ /\ charged' = charged + estimate
        /\ IF type = "System" THEN pc' = "ready" /\ UNCHANGED family
           ELSE \E a \in addresses :
                  /\ family' = a
                  /\ IF a = "none" THEN pc' = "refused" ELSE pc' \in {"ready"} \cup mayFail
  /\ emitted' = <<>>
  /\ UNCHANGED <<chosen, socks, counters, capture>>

prepare_linux == platform = "linux" /\ prepareWith(getAddress_linux, {})
prepare_osx == platform = "osx" /\ prepareWith(getAddress_osx, {})
(* The capture device or its filter may be refused. *)
prepare_win == platform = "win" /\ prepareWith(getAddress_win, {"refused"})
prepare == prepare_linux \/ prepare_osx \/ prepare_win

(* What is open after initSocket(): a step that fails closes the socket again. *)
initSocket_linux(open) == {open \cup {"sock"}, open \ {"sock"}}
initSocket_osx(open) == {open \cup {"sock"}, open \ {"sock"}}
initSocket_win(open) == {open \cup {"sock"}, open \ {"sock"}}
initIcmpSocket(open) == IF open = {} THEN {{}} ELSE {open \cup {"icmp"}, open}

startProcess == type = "System" /\ pc' = "process" /\ UNCHANGED socks

start_linux ==
  /\ platform = "linux"
  /\ \/ startProcess
     \/ type # "System" /\ socks' \in initSocket_linux({}) /\ pc' = IF "sock" \in socks' THEN "send" ELSE "failed"
  /\ UNCHANGED capture

(* OS X opens an ICMP socket too, and closes the first when that fails. *)
opened(open) ==
  IF "icmp" \in open THEN socks' = open /\ pc' = "send" ELSE socks' = {} /\ pc' = "failed"

start_osx ==
  /\ platform = "osx" /\ UNCHANGED capture
  /\ \/ startProcess
     \/ type # "System" /\ \E open \in UNION {initIcmpSocket(s) : s \in initSocket_osx({})} : opened(open)

(* On Windows ping() starts receiveLoop in a second thread. *)
start_win ==
  /\ platform = "win"
  /\ \/ startProcess /\ UNCHANGED capture
     \/ /\ type # "System"
        /\ socks' \in initSocket_win({})
        /\ pc' = IF "sock" \in socks' THEN "send" ELSE "failed"
        /\ capturing' = ("sock" \in socks') /\ noise' = ("sock" \in socks')
        /\ captured' = <<>> /\ timeouts' = 0 /\ onWire' = {} /\ pending' = {}

start ==
  /\ pc = "ready" /\ emitted' = <<>>
  /\ start_linux \/ start_osx \/ start_win
  /\ UNCHANGED <<chosen, family, i, counters, charged>>

-----------------------------------------------------------------------------
(* The loop of Linux and OS X: ping() for one probe, which is then appended  *)
(* to m_pingProbes.                                                          *)

InLoop(p, label, kind) == platform = p /\ pc = label /\ type = kind

(* The probe ends: its times, the counters it changes and the signal. *)
probeDone(class, s, r, signals) ==
  /\ probes' = [probes EXCEPT ![class] = @ + 1]
  /\ sent' = sent + s /\ received' = received + r /\ emitted' = signals
  /\ i' = i + 1 /\ pc' = IF i + 1 < Count THEN "send" ELSE "evaluate"
  /\ UNCHANGED pingTime

goto(label, s) ==
  /\ pc' = label /\ sent' = sent + s /\ emitted' = <<>>
  /\ UNCHANGED <<i, probes, received, pingTime>>

Counted == {"ttlExceeded", "destinationUnreachable", "udpResponse"}
kept == UNCHANGED <<chosen, family, charged, capture>>

(* A datagram that cannot be sent leaves recvTime behind the new sendTime. *)
sendUdp == goto("receive", 1) \/ probeDone("bad", 0, 0, <<>>)

sendUdpData_linux == InLoop("linux", "send", "Udp") /\ sendUdp /\ kept /\ UNCHANGED socks
sendUdpData_osx == InLoop("osx", "send", "Udp") /\ sendUdp /\ kept /\ UNCHANGED socks

(***************************************************************************)
(* receiveData() after a datagram was sent: a failing call, the timeout,   *)
(* an answer that counts, an ICMP message that does not.  Linux takes the  *)
(* time from the kernel's control message only.                            *)
(***************************************************************************)
receiveData_linux ==
  /\ InLoop("linux", "receive", "Udp") /\ kept /\ UNCHANGED socks
  /\ \/ probeDone("bad", 0, 0, <<>>)
     \/ probeDone("equal", 0, 0, <<"timeout">>)
     \/ \E s \in Counted, c \in {"good", "bad"} : probeDone(c, 0, 1, <<s>>)
     \/ probeDone("good", 0, 0, <<>>)

(* OS X reads the clock after poll(): whatever fails later has a good time. *)
receiveData_osx ==
  /\ InLoop("osx", "receive", "Udp") /\ kept /\ UNCHANGED socks
  /\ \/ probeDone("bad", 0, 0, <<>>)
     \/ probeDone("equal", 0, 0, <<"timeout">>)
     \/ \E s \in Counted, c \in {"good", "bad"} : probeDone(c, 0, 1, <<s>>)
     \/ probeDone("good", 0, 0, <<>>)

(***************************************************************************)
(* connect() and the wait for its outcome.  The socket is closed and       *)
(* opened again for the next probe; if that fails the next connect() fails.*)
(* On Linux the probe counts as sent when its outcome is known, and a      *)
(* connection that is established at once is not counted at all.           *)
(***************************************************************************)
sendTcpData_linux ==
  /\ kept
  /\ \/ /\ InLoop("linux", "send", "Tcp") /\ socks' \in initSocket_linux(socks)
        /\ \E c \in {"good", "equal"} :
             \/ probeDone(c, 0, 0, <<>>)
             \/ "sock" \in socks /\ probeDone(c, 1, 1, <<"tcpReset">>)
     \/ InLoop("linux", "send", "Tcp") /\ "sock" \in socks /\ goto("poll", 0) /\ UNCHANGED socks
     \/ /\ InLoop("linux", "poll", "Tcp") /\ socks' \in initSocket_linux(socks)
        /\ \/ \E c \in {"good", "equal"} : probeDone(c, 0, 0, <<>>)      \* poll() fails
           \/ probeDone("equal", 1, 0, <<"timeout">>)
           \/ \E c \in {"good", "bad"} :
                \/ \E s \in {"tcpConnect", "tcpReset"} : probeDone(c, 1, 1, <<s>>)
                \/ probeDone(c, 1, 0, <<>>)

(* On OS X every connect() counts as sent. *)
sendTcpData_osx ==
  /\ kept
  /\ \/ /\ InLoop("osx", "send", "Tcp") /\ socks' \in initSocket_osx(socks)
        /\ \E c \in {"good", "equal"} :
             \/ probeDone(c, 1, 0, <<>>)
             \/ "sock" \in socks /\ \E s \in {"tcpConnect", "tcpReset"} : probeDone(c, 1, 1, <<s>>)
     \/ InLoop("osx", "send", "Tcp") /\ "sock" \in socks /\ goto("poll", 1) /\ UNCHANGED socks
     \/ /\ InLoop("osx", "poll", "Tcp") /\ socks' \in initSocket_osx(socks)
        /\ \/ \E c \in {"good", "equal"} : probeDone(c, 0, 0, <<>>)
           \/ "sock" \in socks' /\ probeDone("equal", 0, 0, <<"timeout">>)
           \/ \E s \in {"tcpConnect", "tcpReset"}, c \in {"good", "bad"} : probeDone(c, 0, 1, <<s>>)
           \/ probeDone("bad", 0, 0, <<>>)

(* Fault: the counter is not kept above zero. *)
evaluated_wraps(answers, bad) == (answers - bad) % 16

(* The evaluation: every bad probe takes an answer away, if there is one. *)
evaluated(answers, bad) == IF answers > bad THEN answers - bad ELSE 0

ended ==
  /\ pc' = "ended" /\ socks' = {} /\ emitted' = <<"finished">>
  /\ UNCHANGED <<chosen, family, i, charged>>

(* All probes of the object are evaluated, the ones of earlier starts again. *)
evaluate_linux ==
  /\ platform = "linux" /\ pc = "evaluate" /\ ended
  /\ received' = evaluated(received, probes["bad"])
  /\ pingTime' = pingTime + probes["good"] /\ UNCHANGED <<probes, sent, capture>>

evaluate_osx ==
  /\ platform = "osx" /\ pc = "evaluate" /\ ended
  /\ received' = evaluated(received, probes["bad"])
  /\ pingTime' = pingTime + probes["good"] /\ UNCHANGED <<probes, sent, capture>>

-----------------------------------------------------------------------------
(* Windows: the sender, the capturing thread, and the matching.              *)

sendLoop(ok) ==
  /\ sent' = sent + 1 /\ i' = i + 1
  /\ onWire' = IF ok THEN onWire \cup {i + 1} ELSE onWire
  /\ pending' = IF ok THEN pending \cup {i + 1} ELSE pending
  /\ pc' = IF i + 1 < Count THEN "send" ELSE "wait"
  /\ emitted' = <<>>
  /\ UNCHANGED <<chosen, family, probes, received, pingTime, charged, capturing, captured, timeouts, noise>>

(* The counter grows even when sendto() failed. *)
sendUdpData_win == InLoop("win", "send", "Udp") /\ (\E ok \in BOOLEAN : sendLoop(ok)) /\ UNCHANGED socks

(* After the wait for the connection the socket is closed and opened again. *)
sendTcpData_win ==
  /\ InLoop("win", "send", "Tcp")
  /\ \/ sendLoop(FALSE) /\ UNCHANGED socks
     \/ "sock" \in socks /\ sendLoop(TRUE) /\ socks' \in {socks} \cup initSocket_win(socks)

probeOf(kind, n) ==
  LET p == [kind |-> kind, probe |-> n] IN
  IF family = "v4" THEN handleIpv4Response(p, type) ELSE handleIpv6Response(p, type, Neighbour)

(* receiveLoop ends with the packet that makes 2 * Count, else goes on. *)
take(kind, n) ==
  /\ kind \in filter(type, SamePorts)
  /\ captured' = keep(captured, probeOf(kind, n))
  /\ capturing' = (Len(captured') < 2 * Count)
  /\ UNCHANGED timeouts

receiveLoop ==
  /\ capturing
  /\ \/ onWire # {} /\ take("request", Min(onWire)) /\ onWire' = onWire \ {Min(onWire)} /\ UNCHANGED <<pending, noise>>
     \/ \E n \in pending \ onWire, k \in {"udp", "synack", "rst", "unreach", "ttl"} :
          k \in filter(type, SamePorts) /\ take(k, n) /\ pending' = pending \ {n} /\ UNCHANGED <<onWire, noise>>
     \/ noise /\ (\E k \in {"foreign", "unhandled"} : take(k, 0)) /\ noise' = FALSE /\ UNCHANGED <<onWire, pending>>
     \/ /\ timeouts' = timeouts + 1 /\ capturing' = (timeouts # MaxTimeouts)
        /\ UNCHANGED <<captured, onWire, pending, noise>>
     \/ capturing' = FALSE /\ UNCHANGED <<captured, timeouts, onWire, pending, noise>>    \* error
  /\ emitted' = <<>>
  /\ UNCHANGED <<chosen, family, pc, socks, i, counters, charged>>

SignalOf == [unreach |-> "destinationUnreachable", ttl |-> "ttlExceeded", udp |-> "udpResponse",
             rst |-> "tcpReset", synack |-> "tcpConnect"]

(* The times of a pair: bad when one is not set, else in time or too late. *)
classesOf(pairs) ==
  {bad \in SUBSET DOMAIN pairs :
     \A k \in DOMAIN pairs :
       (captured[pairs[k][1]].sendTime /\ captured[pairs[k][2]].recvTime) \/ k \in bad}

(***************************************************************************)
(* The end of ping(): with fewer packets than 2 * Count nothing is matched *)
(* and nothing evaluated.                                                  *)
(***************************************************************************)
finishCapture ==
  /\ platform = "win" /\ pc = "wait" /\ ~capturing
  /\ pc' = "ended" /\ socks' = {}
  /\ UNCHANGED <<chosen, family, i, charged, sent, capture>>
  /\ IF Len(captured) < 2 * Count
     THEN emitted' = <<"finished">> /\ UNCHANGED <<probes, received, pingTime>>
     ELSE \E pairs \in {matched(captured, type)} : \E bad \in classesOf(pairs) :
            LET rs == responses(captured, pairs)
                allBad == probes["bad"] + Cardinality(bad)
                good == probes["good"] + Len(pairs) - Cardinality(bad)
            IN  /\ probes' = [probes EXCEPT !["bad"] = allBad, !["good"] = good]
                /\ received' = evaluated(received + Len(rs), allBad)
                /\ pingTime' = pingTime + good
                /\ emitted' = [k \in DOMAIN rs |-> SignalOf[rs[k]]] \o <<"finished">>

-----------------------------------------------------------------------------
(* The external ping program: it may fail to start, and then says nothing.   *)

processStep ==
  /\ UNCHANGED <<chosen, family, socks, i, probes, charged, capture>>
  /\ \/ pc = "process" /\ pc' = "output" /\ pingTime' = 0 /\ emitted' = <<>> /\ UNCHANGED <<sent, received>>
     \/ pc = "process" /\ pc' = "hung" /\ emitted' = <<>> /\ UNCHANGED <<sent, received, pingTime>>
     \/ pc = "output" /\ pc' = "ended" /\ emitted' = <<"finished">> /\ UNCHANGED <<sent, received, pingTime>>

(* A line with a time, and the line with the statistics. *)
readLine ==
  /\ pc = "output"
  /\ \/ pingTime < Count /\ pingTime' = pingTime + 1 /\ UNCHANGED <<sent, received>>
     \/ sent = 0 /\ sent' = Count /\ received' = pingTime /\ UNCHANGED pingTime
  /\ emitted' = <<>> /\ UNCHANGED <<chosen, family, pc, socks, i, probes, charged, capture>>
readyRead_linux == platform = "linux" /\ readLine
readyRead_osx == platform = "osx" /\ readLine
readyRead_win == platform = "win" /\ readLine

readyRead == readyRead_linux \/ readyRead_osx \/ readyRead_win

(***************************************************************************)
(* result(): the loss is computed with unsigned numbers.  Minimum and      *)
(* maximum are read from an empty list when no probe has a time: any value.*)
(***************************************************************************)
statistics ==
  [round_trip_sent |-> sent, round_trip_received |-> received,
   lost |-> IF sent > 0 THEN (sent - received) % UintRange ELSE 0,
   extremes |-> IF pingTime > 0 THEN "defined" ELSE "any"]
result_linux == statistics
result_osx == statistics
result_win == statistics
pingResult == CASE platform = "linux" -> result_linux [] platform = "osx" -> result_osx [] OTHER -> result_win

(* One step of a Ping that was prepared. *)
pingStep ==
  \/ start
  \/ sendUdpData_linux \/ sendUdpData_osx \/ sendUdpData_win
  \/ sendTcpData_linux \/ sendTcpData_osx \/ sendTcpData_win
  \/ receiveData_linux \/ receiveData_osx \/ receiveLoop
  \/ evaluate_linux \/ evaluate_osx \/ finishCapture
  \/ processStep \/ readyRead
=============================================================================
