---------------------------- MODULE PingCapture ----------------------------
(***************************************************************************)
(* What the Windows version of Ping makes of captured packets              *)
(* (libclient/measurement/ping/ping_win.cpp): a packet becomes a probe, the *)
(* probes of a measurement become pairs of a request and its response.     *)
(*                                                                         *)
(* A packet is a kind and the number of the probe whose payload it carries *)
(* or quotes: "request" is our own packet; "udp", "synack" and "rst" come  *)
(* from the destination; "unreach" and "ttl" are ICMP messages that quote  *)
(* a packet of ours, "foreign" one that quotes a packet to another host,   *)
(* "unhandled" any other ICMP message.                                     *)
(***************************************************************************)
EXTENDS Integers, Sequences, SequencesExt, FiniteSets, FiniteSetsExt

Kinds == {"request", "udp", "synack", "rst", "unreach", "ttl", "foreign", "unhandled"}
Icmp == {"unreach", "ttl", "foreign", "unhandled"}

(***************************************************************************)
(* The filter set by prepare().  "dst host" keeps the destination's UDP    *)
(* responses out; the TCP filter asks for the same ports in both           *)
(* directions, so responses pass only when the two ports are the same.     *)
(***************************************************************************)
filter(type, samePorts) ==
  {"request"} \cup Icmp \cup (IF type = "Tcp" /\ samePorts THEN {"synack", "rst"} ELSE {})

(* The two times are only told apart by whether they are set. *)
Probe(type, response, hash, sendTime, recvTime) ==
  [type |-> type, response |-> response, hash |-> hash, sendTime |-> sendTime, recvTime |-> recvTime]

(* The ICMP part of handleIpv4Response and handleIpv6Response; 0 is the empty hash. *)
icmpProbe(p) ==
  CASE p.kind = "unreach" -> Probe("ICMP", "unreach", p.probe, FALSE, TRUE)
    [] p.kind = "ttl"     -> Probe("ICMP", "ttl", p.probe, FALSE, TRUE)
    [] p.kind = "foreign" -> Probe("ICMP", "INVALID_ICMP", p.probe, FALSE, FALSE)
    [] OTHER              -> Probe("ICMP", "UNHANDLED_ICMP", 0, FALSE, FALSE)

handleIpv4Response(p, type) ==
  IF p.kind \in Icmp THEN icmpProbe(p)
  ELSE IF type = "Udp"
    THEN IF p.kind = "udp" THEN Probe("UDP", "udp", 0, FALSE, TRUE)
                           ELSE Probe("UDP", "none", p.probe, TRUE, FALSE)
    ELSE IF p.kind = "request" THEN Probe("TCP", "none", 0, TRUE, FALSE)
                               ELSE Probe("TCP", p.kind, 0, FALSE, TRUE)

(***************************************************************************)
(* The same for IPv6, but the TCP branch compares only the first 16        *)
(* characters of the addresses: with a destination in our own network      *)
(* (neighbour) it takes our request for a response without known flags.    *)
(***************************************************************************)
handleIpv6Response(p, type, neighbour) ==
  IF type = "Tcp" /\ p.kind = "request" /\ neighbour
    THEN Probe("TCP", "none", 0, FALSE, TRUE)
    ELSE handleIpv4Response(p, type)

(***************************************************************************)
(* One packet in receiveLoop.  A packet that is not ours is dropped; the   *)
(* `continue' for a duplicate only ends the inner loop, so a duplicate is  *)
(* kept.                                                                   *)
(***************************************************************************)
keep(probes, probe) ==
  IF probe.response = "INVALID_ICMP" THEN probes ELSE Append(probes, probe)

-----------------------------------------------------------------------------
(* Matching.  A pass goes over the requests in the order of their capture   *)
(* and pairs each unmarked one with the first unmarked response that fits.  *)

TcpResponses == {"synack", "rst"}
isRequest(p, type) ==
  IF type = "Udp" THEN p.type = "UDP" /\ p.response # "udp"
                  ELSE p.type = "TCP" /\ p.response \notin TcpResponses

(* The response q fits the request p in a pass. *)
fits(pass, p, q) ==
  CASE pass = "hash" -> q.type = "ICMP" /\ p.hash = q.hash
    [] pass = "udp"  -> q.type = "UDP" /\ q.response = "udp"
    [] pass = "tcp"  -> q.type = "TCP" /\ q.response \in TcpResponses
    [] pass = "icmp" -> q.type = "ICMP"

(* Fault: a response that was used stays unmarked. *)
pairUp_unmarked(probes, type, pass, acc, i) ==
  LET qs == {j \in DOMAIN probes : fits(pass, probes[i], probes[j])} IN
  IF i \in acc.marked \/ ~isRequest(probes[i], type) \/ qs = {} THEN acc
  ELSE [marked |-> acc.marked \cup {i}, pairs |-> Append(acc.pairs, <<i, Min(qs)>>)]

(* The body of the outer loop for the packet at i. *)
pairUp(probes, type, pass, acc, i) ==
  LET qs == {j \in DOMAIN probes \ acc.marked : fits(pass, probes[i], probes[j])} IN
  IF i \in acc.marked \/ ~isRequest(probes[i], type) \/ qs = {} THEN acc
  ELSE [marked |-> acc.marked \cup {i, Min(qs)}, pairs |-> Append(acc.pairs, <<i, Min(qs)>>)]

(* The only member of a set: TLC evaluates a bound variable once. *)
The(S) == CHOOSE x \in S : TRUE

Pass(probes, type, pass, start) ==
  LET after[i \in 0..Len(probes)] ==
        IF i = 0 THEN start
        ELSE The({pairUp(probes, type, pass, acc, i) : acc \in {after[i - 1]}})
  IN  after[Len(probes)]

Unmarked == [marked |-> {}, pairs |-> <<>>]
(* First ICMP messages by the payload they quote, then UDP responses in order. *)
processUdpPackets(probes) ==
  The({Pass(probes, "Udp", "udp", first).pairs : first \in {Pass(probes, "Udp", "hash", Unmarked)}})

(* First TCP responses in order, then ICMP messages in order. *)
processTcpPackets(probes) ==
  The({Pass(probes, "Tcp", "icmp", first).pairs : first \in {Pass(probes, "Tcp", "tcp", Unmarked)}})

matched(probes, type) ==
  IF type = "Udp" THEN processUdpPackets(probes) ELSE processTcpPackets(probes)

(* A response of one of these kinds counts as received and is signalled. *)
Announced == {"unreach", "ttl", "udp", "synack", "rst"}
responses(probes, pairs) ==
  LET announced[n \in 0..Len(pairs)] ==
        IF n = 0 THEN <<>>
        ELSE LET r == probes[pairs[n][2]].response IN
             IF r \in Announced THEN Append(announced[n - 1], r) ELSE announced[n - 1]
  IN  announced[Len(pairs)]

-----------------------------------------------------------------------------
(* Reference: what a matching of captured probes must be.                    *)

Passes(type) == IF type = "Udp" THEN {"hash", "udp"} ELSE {"tcp", "icmp"}
Requests(probes, type) == {i \in DOMAIN probes : isRequest(probes[i], type)}
Used(pairs, k) == {pairs[n][k] : n \in DOMAIN pairs}

(***************************************************************************)
(* Every request and every response is in at most one pair, a pair is a    *)
(* request and a response, and an ICMP message is paired with the UDP      *)
(* request it quotes.  No pair is missed: a request is left alone only if  *)
(* no response that fits it is left.                                       *)
(***************************************************************************)
IsMatching(probes, type, pairs) ==
  /\ Cardinality(Used(pairs, 1)) = Len(pairs) /\ Cardinality(Used(pairs, 2)) = Len(pairs)
  /\ Used(pairs, 1) \subseteq Requests(probes, type)
  /\ Used(pairs, 1) \cap Used(pairs, 2) = {}
  /\ \A n \in DOMAIN pairs : \E pass \in Passes(type) : fits(pass, probes[pairs[n][1]], probes[pairs[n][2]])
  /\ \A i \in Requests(probes, type) \ Used(pairs, 1), j \in DOMAIN probes \ Used(pairs, 2) :
       \A pass \in Passes(type) : ~fits(pass, probes[i], probes[j])
=============================================================================
