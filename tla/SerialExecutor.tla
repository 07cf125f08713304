--------------------------- MODULE SerialExecutor ---------------------------
(***************************************************************************)
(* What the scheduler and the client rely on: executions are run one at a  *)
(* time in the order they were handed over, and each one is reported once, *)
(* in that order.  The report of one may still be on its way when the next *)
(* one runs.                                                               *)
(***************************************************************************)
EXTENDS Sequences

CONSTANTS Items, Nothing

VARIABLES waiting, active, outbox, delivered

vars == <<waiting, active, outbox, delivered>>

Init == waiting = <<>> /\ active = Nothing /\ outbox = <<>> /\ delivered = <<>>

Accept(x) == waiting' = Append(waiting, x) /\ UNCHANGED <<active, outbox, delivered>>

Begin == /\ active = Nothing /\ waiting # <<>>
         /\ active' = Head(waiting) /\ waiting' = Tail(waiting)
         /\ UNCHANGED <<outbox, delivered>>

End == /\ active # Nothing
       /\ active' = Nothing /\ outbox' = Append(outbox, active)
       /\ UNCHANGED <<waiting, delivered>>

Deliver == /\ outbox # <<>>
           /\ delivered' = Append(delivered, Head(outbox)) /\ outbox' = Tail(outbox)
           /\ UNCHANGED <<waiting, active>>

Next == (\E x \in Items : Accept(x)) \/ Begin \/ End \/ Deliver

Spec == Init /\ [][Next]_vars
=============================================================================
