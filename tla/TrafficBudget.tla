--------------------------- MODULE TrafficBudget ---------------------------
(***************************************************************************)
(* The monthly traffic budget (libclient/trafficbudgetmanager.cpp).        *)
(*                                                                         *)
(* A measurement asks for its traffic on the executor's thread, under the  *)
(* write lock; the main thread resets the counters without taking it.      *)
(* addUsedTraffic asks three times whether the connection is mobile, so a  *)
(* call is several steps.  Counters are quint32 (modulo Word).             *)
(***************************************************************************)
EXTENDS Integers

CONSTANTS
  Word,         \* 2^32, scaled down
  Sizes,        \* the traffic measurements ask for
  Allowances,   \* the values allowedTraffic and allowedMobileTraffic may have
  MidCall,      \* whether the connection may change during a call
  Lowering,     \* whether the user may lower an allowance
  MaxCalls,     \* bound: calls of addUsedTraffic
  MaxRestarts   \* bound: restarts of the process

Counters == {"traffic", "mobile"}

ASSUME BudgetAssumption ==
  /\ Word \in Nat \ {0} /\ Sizes \subseteq 0..(Word - 1) /\ Allowances \subseteq 0..(Word - 1)
  /\ MidCall \in BOOLEAN /\ Lowering \in BOOLEAN
  /\ MaxCalls \in Nat /\ MaxRestarts \in Nat

VARIABLES
  connection,   \* the counter of the present connection (onMobileConnection)
  used,         \* usedTraffic and usedMobileTraffic
  saved,        \* the same in Settings
  allowed,      \* allowedTraffic and allowedMobileTraffic in Settings
  pc,           \* where the call of addUsedTraffic is
  traffic,      \* its argument
  loaded,       \* the counter `+=' writes back to, and the value it read
  ncalls, restarts

callVars == <<pc, traffic, loaded>>
budgetVars == <<connection, used, saved, allowed, callVars, ncalls, restarts>>

Zero == [c \in Counters |-> 0]
NotLoaded == [counter |-> "traffic", value |-> 0]

(* The counters are unsigned numbers of their width, wherever an addition is. *)
BudgetTypeOK ==
  /\ connection \in Counters
  /\ used \in [Counters -> 0..(Word - 1)] /\ saved \in [Counters -> 0..(Word - 1)]
  /\ allowed \in [Counters -> Allowances]
  /\ pc \in {"idle", "charge", "add", "save"}
  /\ traffic \in Sizes \cup {0}
  /\ loaded \in [counter : Counters, value : 0..(Word - 1)]
  /\ ncalls \in 0..MaxCalls /\ restarts \in 0..MaxRestarts

BudgetInit ==
  /\ connection \in Counters
  /\ used = Zero /\ saved = Zero /\ allowed \in [Counters -> Allowances]
  /\ pc = "idle" /\ traffic = 0 /\ loaded = NotLoaded
  /\ ncalls = 0 /\ restarts = 0

-----------------------------------------------------------------------------
(* The executor's thread: addUsedTraffic.                                    *)

availableTraffic(c) == (allowed[c] - used[c]) % Word

\* Fault: the traffic that is asked for is not compared.
addUsedTraffic_unchecked(t) ==
  /\ pc = "idle" /\ ncalls < MaxCalls
  /\ ncalls' = ncalls + 1
  /\ traffic' = t
  /\ pc' = IF availableTraffic(connection) > 0 THEN "charge" ELSE "idle"
  /\ UNCHANGED <<connection, used, saved, allowed, loaded, restarts>>

(* The call fails (or, with an inactive manager, charges nothing) when too little is left. *)
addUsedTraffic(t) ==
  /\ pc = "idle" /\ ncalls < MaxCalls
  /\ ncalls' = ncalls + 1
  /\ traffic' = t
  /\ pc' = IF availableTraffic(connection) >= t THEN "charge" ELSE "idle"
  /\ UNCHANGED <<connection, used, saved, allowed, loaded, restarts>>

(* Which counter to charge is asked again; `+=' reads it. *)
load ==
  /\ pc = "charge" /\ pc' = "add"
  /\ loaded' = [counter |-> connection, value |-> used[connection]]
  /\ UNCHANGED <<connection, used, saved, allowed, traffic, ncalls, restarts>>

add ==
  /\ pc = "add" /\ pc' = "save"
  /\ used' = [used EXCEPT ![loaded.counter] = (loaded.value + traffic) % Word]
  /\ UNCHANGED <<connection, saved, allowed, traffic, loaded, ncalls, restarts>>

\* Fault: the counters are mixed up.
saveTraffic_swapped ==
  /\ pc = "save" /\ pc' = "idle"
  /\ saved' = [c \in Counters |-> IF c = connection THEN saved[c] ELSE used[c]]
  /\ UNCHANGED <<connection, used, allowed, traffic, loaded, ncalls, restarts>>

(* saveTraffic asks a third time which counter is meant. *)
saveTraffic ==
  /\ pc = "save" /\ pc' = "idle"
  /\ saved' = [saved EXCEPT ![connection] = used[connection]]
  /\ UNCHANGED <<connection, used, allowed, traffic, loaded, ncalls, restarts>>

-----------------------------------------------------------------------------
(* The main thread, the device and the user.                                 *)

(* The timer of the first day of the month: reset(), without the lock. *)
resetTraffic ==
  /\ used' = Zero
  /\ UNCHANGED <<connection, saved, allowed, callVars, ncalls, restarts>>

ChangeConnection ==
  /\ MidCall \/ pc = "idle"
  /\ connection' \in Counters \ {connection}
  /\ UNCHANGED <<used, saved, allowed, callVars, ncalls, restarts>>

(* Settings::setAllowedTraffic and setAllowedMobileTraffic. *)
setAllowed(c, a) ==
  /\ Lowering \/ a >= allowed[c]
  /\ allowed' = [allowed EXCEPT ![c] = a]
  /\ UNCHANGED <<connection, used, saved, callVars, ncalls, restarts>>

(* A new process: init() takes the counters from Settings. *)
Restart ==
  /\ restarts < MaxRestarts /\ restarts' = restarts + 1
  /\ used' = saved
  /\ pc' = "idle" /\ traffic' = 0 /\ loaded' = NotLoaded
  /\ UNCHANGED <<connection, saved, allowed, ncalls>>

BudgetNext ==
  \/ \E t \in Sizes : addUsedTraffic(t)
  \/ load \/ add \/ saveTraffic
  \/ resetTraffic \/ ChangeConnection \/ Restart
  \/ \E c \in Counters, a \in Allowances : setAllowed(c, a)

BudgetSpec == BudgetInit /\ [][BudgetNext]_budgetVars

-----------------------------------------------------------------------------
(* Properties.                                                               *)

(***************************************************************************)
(* As long as the connection does not change during a call and the user    *)
(* does not lower the allowance, no counter passes the traffic that is     *)
(* allowed for it, however calls, the reset of the month (which does not   *)
(* take the lock) and restarts interleave.                                 *)
(***************************************************************************)
BudgetRespected == \A c \in Counters : used[c] <= allowed[c]

(***************************************************************************)
(* Between calls, a restart does not forget traffic: what Settings holds   *)
(* is no less than the counter.                                            *)
(***************************************************************************)
NothingForgotten == pc = "idle" => \A c \in Counters : saved[c] >= used[c]
=============================================================================
