---------------------------- MODULE BulkTransport ----------------------------
(***************************************************************************)
(* The bulk transport capacity measurement (btc_ma.cpp, btc_mp.cpp): the   *)
(* agent asks the peer for an amount of data twice, first a small one that *)
(* tells how much to ask for the second time, and rates what it read.      *)
(***************************************************************************)
EXTENDS NetworkManager

CONSTANTS Initial,   \* initialDataSize
          Sizes,     \* what the pretest may find the second request to be
          Slices,    \* slices the samples are put together to (10)
          UintRange  \* number of values of quint32, 2^32; half of them are of an int

\* The initial size comes from a quint32, the second one is a qint64.
ASSUME SizesAssumption == Slices \in Nat \ {0} /\ UintRange \in Nat \ {0}
                          /\ Initial \in 1..(UintRange - 1) /\ Sizes \subseteq Nat \ {0}

VARIABLES conn,      \* the connection with the agent's state, or NoConn
          charged,   \* history: traffic the budget granted to the agent
          speeds     \* history: slices of the last result, -1 for none yet

btcVars == <<conn, charged, speeds>>

NoConn == [open |-> FALSE]
Listening(c) == Does(c, "mp", "btc", "run")
AgentOf(c) == Does(c, "ma", "btc", "run") /\ conn # NoConn /\ conn.a = c

BtcInit == conn = NoConn /\ charged = 0 /\ speeds = -1

\* The peer's prepare() and start(): listening may fail.
listen(c) ==
    /\ Does(c, "mp", "btc", "prepare")
    /\ goto(c, "run") \/ done(c)
    /\ UNCHANGED <<todo, handled, socket, pointer, alive, net, uuids, resets, runs, btcVars>>

\* sendRequest(): the timer is invalid until the first answer.
sendRequest(k, n) == [k EXCEPT !.expected = n, !.request = n, !.valid = FALSE]

\* One of the agent's tries reaches a listening peer: newClientConnection()
\* keeps the first client and aborts the others.  Then the rest of prepare(),
\* where the budget may refuse, and start().
prepare_uncharged(c) ==
    /\ Does(c, "ma", "btc", "wait") /\ Listening(other(c)) /\ conn = NoConn
    /\ goto(c, "run")
    /\ conn' = sendRequest([open |-> TRUE, a |-> c, pre |-> TRUE, expected |-> 0,
                            request |-> 0, avail |-> 0, total |-> 0, got |-> 0,
                            valid |-> FALSE, samples |-> <<>>, sent |-> 0], Initial)
    /\ charged' = 0
    /\ UNCHANGED <<todo, handled, socket, pointer, alive, net, uuids, resets, runs, speeds>>
prepare(c) ==
    /\ Does(c, "ma", "btc", "wait") /\ Listening(other(c)) /\ conn = NoConn
    /\ \/ /\ goto(c, "run")
          /\ conn' = sendRequest([open |-> TRUE, a |-> c, pre |-> TRUE, expected |-> 0,
                                  request |-> 0, avail |-> 0, total |-> 0, got |-> 0,
                                  valid |-> FALSE, samples |-> <<>>, sent |-> 0], Initial)
          /\ charged' = Initial % UintRange
       \/ /\ queue' = [queue EXCEPT ![c] = Tail(@), ![other(c)] = Tail(@)]
          /\ phase' = [d \in Clients |-> "none"]
          /\ UNCHANGED <<conn, charged>>
    /\ UNCHANGED <<todo, handled, socket, pointer, alive, net, uuids, resets, runs, speeds>>

\* sendResponse(): the 64 bits asked for become the int that a QByteArray is
\* resized to, and a negative size is none.
answered(n) == IF n % UintRange < UintRange \div 2 THEN n % UintRange ELSE 0

\* The peer answers; sent is what it has sent so far.
receiveRequest ==
    /\ conn.open /\ alive[other(conn.a)] /\ conn.request # 0
    /\ conn' = [conn EXCEPT !.avail = @ + answered(conn.request), !.request = 0,
                            !.sent = @ + answered(conn.request)]
    /\ UNCHANGED <<netVars, charged, speeds>>

\* The samples are put together to slices of equal length, the last one may
\* be shorter.
sliceSize(n) == (n + Slices - 1) \div Slices
slices(n) == Cardinality({i \in 1..n : i % sliceSize(n) = 0 \/ i = n})

\* Everything closes: the peer's socket is disconnected, which ends it too.
bothDone(c) ==
    /\ queue' = [d \in Clients |->
                    IF d = c \/ Listening(d) THEN Tail(queue[d]) ELSE queue[d]]
    /\ phase' = [d \in Clients |-> IF d = c \/ Listening(d) THEN "none" ELSE phase[d]]
    /\ conn' = NoConn

\* What the conversion of a speed that is not a number gives on the processors
\* in use: the smallest number of 64 bits, or 0.
NotANumber == {-(UintRange * (UintRange \div 2)), 0}

\* calculateResult() after the pretest: the second size, from the measured
\* bytes, is charged, as the number of 32 bits that addUsedTraffic() takes,
\* and asked for; or the measurement fails.  Without a measured byte the
\* speed is not a number.
secondRequest(c, k) ==
    \/ /\ \E n \in IF k.got > 0 THEN Sizes ELSE NotANumber :
             conn' = sendRequest([k EXCEPT !.pre = FALSE], n) /\ charged' = charged + (n % UintRange)
       /\ UNCHANGED <<queue, phase>>
    \/ k.got > 0 /\ bothDone(c) /\ UNCHANGED charged

calculateResult(c, k) ==
    \/ k.pre /\ secondRequest(c, k) /\ UNCHANGED speeds
    \/ /\ ~k.pre /\ bothDone(c) /\ UNCHANGED charged
       /\ speeds' = slices(Len(k.samples))

\* receiveResponse(): the first answer to a request only starts the clock.
\* The samples of the pretest stay in the list.
response_cleared(n) ==
    IF conn.valid
    THEN [conn EXCEPT !.avail = @ - n, !.total = @ + n, !.got = @ + n,
                      !.samples = Append(@, n)]
    ELSE [conn EXCEPT !.avail = @ - n, !.total = n, !.got = 0, !.valid = TRUE,
                      !.samples = <<>>]
response(n) ==
    IF conn.valid
    THEN [conn EXCEPT !.avail = @ - n, !.total = @ + n, !.got = @ + n,
                      !.samples = Append(@, n)]
    ELSE [conn EXCEPT !.avail = @ - n, !.total = n, !.got = 0, !.valid = TRUE]

receiveResponse(c) ==
    /\ AgentOf(c) /\ conn.avail > 0
    /\ \E n \in 1..conn.avail, k \in {response(m) : m \in 1..conn.avail} :
        /\ k = response(n)
        /\ IF k.total >= k.expected THEN calculateResult(c, k)
           ELSE conn' = k /\ UNCHANGED <<queue, phase, charged, speeds>>
    /\ UNCHANGED <<todo, handled, socket, pointer, alive, net, uuids, resets, runs>>

\* A broken connection other than a close of the peer: the agent reports it.
handleError(c) ==
    /\ AgentOf(c) /\ conn.open /\ bothDone(c)
    /\ UNCHANGED <<todo, handled, socket, pointer, alive, net, uuids, resets, runs,
                   charged, speeds>>

\* A process ends, at most one of the two (a bound).  The peer's socket notices that its agent is gone; an
\* agent whose peer is gone only logs it.
die(c) ==
    /\ \A d \in Clients : alive[d]
    /\ crash(c)
    /\ \/ conn # NoConn /\ conn.a = c /\ bothDone(c)
       \/ /\ conn # NoConn /\ conn.a # c
          /\ conn' = [conn EXCEPT !.open = FALSE] /\ UNCHANGED <<queue, phase>>
       \/ conn = NoConn /\ UNCHANGED <<conn, queue, phase>>
    /\ UNCHANGED <<todo, handled, socket, pointer, net, uuids, resets, runs, charged, speeds>>

BtcStep(c) == listen(c) \/ prepare(c) \/ receiveResponse(c)
BtcNext(c) == BtcStep(c) \/ handleError(c) \/ die(c)
=============================================================================
