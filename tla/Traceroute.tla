----------------------------- MODULE Traceroute -----------------------------
(***************************************************************************)
(* The Traceroute measurement (libclient/measurement/traceroute/           *)
(* traceroute.cpp) and the one Ping it uses again for every time to live.  *)
(* Ping's signals are delivered inside the step that emits them.  With     *)
(* owner = "task" the Ping is a measurement of its own.                    *)
(***************************************************************************)
EXTENDS Ping

CONSTANT MaxTtl    \* 20 in the code

ASSUME MaxTtlAssumption == MaxTtl \in Nat \ {0}

VARIABLES
  owner,        \* "traceroute", or "task" for a plain Ping
  route,        \* "new", "running", "finished", "error" or "hung" (not the code's status)
  ttl,          \* current time to live
  hops,         \* the hops so far, each with the ttl of its probe
  endOfRoute    \* the destination answered

routeVars == <<owner, route, ttl, hops, endOfRoute>>
vars == <<pingVars, routeVars>>

(* traceroute only accepts UDP. *)
Init ==
  /\ PingInit
  /\ owner \in {"traceroute", "task"} /\ (owner = "traceroute" => type = "Udp")
  /\ route = "new" /\ ttl = 0 /\ hops = <<>> /\ endOfRoute = FALSE

(* The slots of the signals: each appends a hop, two of them end the route. *)
HopSignals == {"destinationUnreachable", "ttlExceeded", "timeout", "udpResponse"}
EndSignals == {"destinationUnreachable", "udpResponse"}

handleSignals(signals) ==
  LET answers == SelectSeq(signals, LAMBDA s : s \in HopSignals) IN
  /\ hops' = hops \o [k \in DOMAIN answers |-> [response |-> answers[k], ttl |-> ttl]]
  /\ endOfRoute' = (endOfRoute \/ Range(answers) \cap EndSignals # {})
  /\ UNCHANGED <<owner, ttl>>

(***************************************************************************)
(* ping(): called by start() and by pingFinished() while the destination   *)
(* has not answered.  The Ping object, its counters and its probes are     *)
(* used again.                                                             *)
(***************************************************************************)
ping ==
  /\ ttl' = ttl + 1
  /\ IF ttl + 1 = MaxTtl
     THEN route' = "finished" /\ UNCHANGED pingVars
     ELSE prepare /\ route' = IF pc' = "ready" THEN "running" ELSE "error"
  /\ UNCHANGED <<owner, hops, endOfRoute>>

startRoute == owner = "traceroute" /\ route = "new" /\ ping

(* Fault: the end of the route is not announced. *)
pingFinished_silent ==
  owner = "traceroute" /\ route = "running" /\ pc = "ended" /\ ~endOfRoute /\ ping

pingFinished ==
  /\ owner = "traceroute" /\ route = "running" /\ pc = "ended"
  /\ IF endOfRoute THEN route' = "finished" /\ UNCHANGED <<pingVars, owner, ttl, hops, endOfRoute>> ELSE ping

(* The result of start() is not looked at: a Ping that cannot start says nothing. *)
step ==
  /\ pingStep
  /\ IF owner = "traceroute"
     THEN /\ handleSignals(emitted')
          /\ route' = IF pc' = "failed" THEN "hung" ELSE route
     ELSE UNCHANGED routeVars

preparePing == owner = "task" /\ pc = "new" /\ prepare /\ UNCHANGED routeVars

Next == startRoute \/ pingFinished \/ preparePing \/ step

(* The measurement's threads go on: poll() and the capture have timeouts. *)
Spec == Init /\ [][Next]_vars /\ WF_vars(Next)

-----------------------------------------------------------------------------
(* Properties *)

(* Values of the right type; no hop beyond the largest ttl. *)
TypeOK ==
  /\ family \in Families /\ socks \subseteq {"sock", "icmp"}
  /\ i \in 0..Count /\ probes \in [Classes -> Nat] /\ {sent, received, pingTime, charged} \subseteq Nat
  /\ Range(emitted) \subseteq Signals /\ ttl \in 0..MaxTtl
  /\ Range(hops) \subseteq [response : HopSignals, ttl : 1..MaxTtl]

(* The loss that result() computes with unsigned numbers is between 0 and 1, *)
(* however the platforms change the two counters.                           *)
LossInRange == pingResult.lost \in 0..sent

(* The pairs that the Windows code makes of captured packets are a complete *)
(* matching in which no packet is used twice.                               *)
MatchingRight ==
  platform = "win" /\ type # "System" /\ ~capturing =>
    \A pairs \in {matched(captured, type)} : IsMatching(captured, type, pairs)

(* The largest estimate of a UDP ping fits an unsigned int.  prepare() does *)
(* not bound Count, and an estimate that wraps charges next to nothing.     *)
EstimateFits == Count * (2 * 14 + 2 * 40 + 2 * (8 + Payload) + 56) < UintRange

(* Every probe of the route was charged to the traffic budget before it was *)
(* sent, at least with its own headers and payload, though a Ping is        *)
(* prepared again for every ttl, as long as the estimate of one start fits. *)
ChargedBeforeSent ==
  type = "Udp" /\ EstimateFits => charged >= sent * (2 * 14 + 2 * (8 + Payload))

(* A measurement that was started comes to an end, except where the code    *)
(* has no one to report to: a Ping of a route that cannot start, and a ping *)
(* program that cannot be started.                                          *)
Over == \/ owner = "task" /\ pc \in {"refused", "failed", "ended", "hung"}
        \/ owner = "traceroute" /\ route \in {"finished", "error", "hung"}
Ends == (pc # "new") ~> Over
=============================================================================
