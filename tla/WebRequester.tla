---------------------------- MODULE WebRequester ----------------------------
(***************************************************************************)
(* One HTTP request at a time, or so its callers expect                    *)
(* (libclient/webrequester.cpp).  start() sends a request whatever the     *)
(* status is; a reply that is still under way is neither aborted nor       *)
(* forgotten, its finished signal still reaches requestFinished().         *)
(*                                                                         *)
(* Every signal is emitted synchronously, at most one in a step; `signal'  *)
(* is the one emitted by the last step, on which a controller's slot acts  *)
(* in the same step (see Reports).                                         *)
(***************************************************************************)
EXTENDS Naturals, FiniteSets

CONSTANTS
  Payloads,     \* what a request may carry
  Contents,     \* what a reply may fill the Response object with
  NoContent,    \* the Response object before the first reply
  MaxStarts     \* bound: calls of start()

ASSUME ConstantsAssumption == MaxStarts \in Nat

VARIABLES
  status,       \* Private::status
  url,          \* whether Private::url is valid
  replies,      \* the QNetworkReplys that have not finished
  currentReply, \* Private::currentReply: its number, 0 when null
  timer,        \* whether the timeout timer is active
  response,     \* what the Response object holds
  errorString,  \* Private::errorString, by its cause
  signal,       \* the signal emitted by the last step
  nstarts       \* replies created so far

vars == <<status, url, replies, currentReply, timer, response, errorString, signal, nstarts>>

Statuses == {"Unknown", "Running", "Finished", "Error"}
Reply == [nr : 1..MaxStarts, payload : Payloads]

(***************************************************************************)
(* How a reply ends: JSON the Response accepts, JSON it refuses, a body    *)
(* with an error or no JSON at all, no body, a network or HTTP error.      *)
(***************************************************************************)
Outcomes == {"filled", "refused", "failed", "empty", "network"}

(* Status, replies and the timer have their types; no reply has a number not given out yet. *)
TypeOK ==
  /\ status \in Statuses /\ url \in BOOLEAN
  /\ replies \subseteq Reply
  /\ currentReply \in 0..MaxStarts
  /\ timer \in BOOLEAN
  /\ response \in Contents \cup {NoContent}
  /\ errorString \in {"none", "timed out", "other"}
  /\ signal \in {"none", "started", "finished", "error"}
  /\ nstarts \in 0..MaxStarts

Init ==
  /\ status = "Unknown" /\ url = FALSE /\ replies = {} /\ currentReply = 0
  /\ timer = FALSE /\ response = NoContent /\ errorString = "none"
  /\ signal = "none" /\ nstarts = 0

(* setStatus: only a change is announced. *)
setStatus(s) ==
  /\ status' = s
  /\ signal' = IF status = s THEN "none"
               ELSE CASE s = "Running"  -> "started"
                      [] s = "Finished" -> "finished"
                      [] s = "Error"    -> "error"

setUrl == url' = TRUE /\ signal' = "none"
          /\ UNCHANGED <<status, replies, currentReply, timer, response, errorString, nstarts>>

\* Fault: the timer is started for the first request only.
start_timerOnce(p) ==
  /\ url /\ nstarts < MaxStarts
  /\ setStatus("Running")
  /\ nstarts' = nstarts + 1
  /\ replies' = replies \cup {[nr |-> nstarts', payload |-> p]}
  /\ currentReply' = nstarts' /\ timer' = (nstarts = 0 \/ timer)
  /\ UNCHANGED <<url, response, errorString>>

start(p) ==
  IF ~url
    THEN /\ setStatus("Error")
         /\ errorString' = "other"
         /\ UNCHANGED <<url, replies, currentReply, timer, response, nstarts>>
    ELSE /\ nstarts < MaxStarts
         /\ setStatus("Running")
         /\ nstarts' = nstarts + 1
         /\ replies' = replies \cup {[nr |-> nstarts', payload |-> p]}
         /\ currentReply' = nstarts' /\ timer' = TRUE
         /\ UNCHANGED <<url, response, errorString>>

\* Fault: a network error does not set the status.
requestFinished_silent(r, outcome, content) ==
  /\ replies' = replies \ {r}
  /\ currentReply' = IF r.nr = currentReply THEN 0 ELSE currentReply
  /\ timer' = FALSE
  /\ response' = IF outcome \in {"filled", "refused"} THEN content ELSE response
  /\ errorString' = errorString
  /\ IF outcome = "network" THEN UNCHANGED status /\ signal' = "none"
     ELSE setStatus(IF outcome \in {"filled", "empty"} THEN "Finished" ELSE "Error")
  /\ UNCHANGED <<url, nstarts>>

(***************************************************************************)
(* requestFinished for reply r.  fillFromVariant writes its content into   *)
(* the Response even when it then refuses it; an empty body leaves the     *)
(* Response as the previous reply left it.  The timer is stopped whichever *)
(* reply it was started for.                                               *)
(***************************************************************************)
requestFinished(r, outcome, content) ==
  /\ replies' = replies \ {r}
  /\ currentReply' = IF r.nr = currentReply THEN 0 ELSE currentReply
  /\ timer' = FALSE
  /\ response' = IF outcome \in {"filled", "refused"} THEN content ELSE response
  /\ errorString' = CASE outcome = "network" /\ ~timer -> "timed out"
                      [] outcome = "network" /\ timer  -> "other"
                      [] outcome = "failed"            -> "other"
                      [] OTHER                         -> errorString
  /\ setStatus(IF outcome \in {"filled", "empty"} THEN "Finished" ELSE "Error")
  /\ UNCHANGED <<url, nstarts>>

(***************************************************************************)
(* The single-shot timer has fired: abort() ends the current reply at once *)
(* with a network error, while the timer is no longer active.              *)
(***************************************************************************)
timeout ==
  /\ timer
  /\ \E r \in replies : r.nr = currentReply /\ replies' = replies \ {r}
  /\ currentReply' = 0 /\ timer' = FALSE
  /\ errorString' = "timed out"
  /\ setStatus("Error")
  /\ UNCHANGED <<url, response, nstarts>>

Arrives == \E r \in replies, outcome \in Outcomes, c \in Contents : requestFinished(r, outcome, c)
Call == \E p \in Payloads : start(p)

Next == setUrl \/ Call \/ Arrives \/ timeout

(* The event loop delivers the timeout of an active timer; replies may never come. *)
Spec == Init /\ [][Next]_vars
FairSpec == Spec /\ WF_vars(timeout)

-----------------------------------------------------------------------------
(* Properties.                                                               *)

(***************************************************************************)
(* However starts and replies overlap, the five minutes cover the latest   *)
(* request: the timer is active exactly while the status is Running, and   *)
(* there is then a current reply for it to abort.  It never turns a        *)
(* request that has finished into an error.                                *)
(***************************************************************************)
RunningIsWatched ==
  /\ timer <=> (status = "Running")
  /\ timer => \E r \in replies : r.nr = currentReply

(***************************************************************************)
(* A controller is never left waiting: Running is followed by another      *)
(* status even if the server never answers, because the timer aborts it    *)
(* (as long as start(), which restarts the timer, is not called forever).  *)
(***************************************************************************)
RunningEnds == (status = "Running") ~> (status # "Running")
=============================================================================
