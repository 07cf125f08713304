---------------------------- MODULE MCScheduler ----------------------------
(* Small instances of Scheduler.                                            *)
EXTENDS Scheduler

Def(id, type, start, end, period, spread) ==
  [id |-> id, type |-> type, start |-> start, end |-> end, period |-> period, spread |-> spread]

Periodic(id, start, end, period, spread) == Def(id, "periodic", start, end, period, spread)
OnOff(id, time) == Def(id, "onoff", time, 0, 1, 0)
Immediate(id) == Def(id, "immediate", 0, 0, 1, 0)
OnDemand(id) == Def(id, "ondemand", 0, 0, 1, 0)

(* Two periodic tests that are due at the same instants, one of them with a *)
(* random delay; a one-shot test, a user's measurement, an on-demand test.  *)
Mixed == {Periodic(1, 1, 8, 7, 2), Periodic(2, 1, 20, 7, 0), OnOff(3, 5), OnDemand(4)}

(* Offset: the local clock is half a second ahead of the network time. *)
MinusOne == -1
=============================================================================
