---------------------------- MODULE PeersProofs ----------------------------
(* Proofs of the safety properties of two clients that measure with each   *)
(* other (NetworkManager, BulkTransport, PacketTrains), for every plan of   *)
(* tasks, all sizes and any number of datagrams.                            *)
EXTENDS PacketTrains, FiniteSetTheorems, FunctionTheorems, TLAPS

-----------------------------------------------------------------------------
(* The slices of calculateResult().                                          *)

(* Division with remainder, as one fact. *)
LEMMA DivMod ==
  ASSUME NEW a \in Nat, NEW s \in Nat \ {0}
  PROVE  a \div s \in Nat /\ a % s \in 0..(s - 1) /\ a = s * (a \div s) + (a % s)
OBVIOUS

(* The slices are at least as long that Slices of them hold all samples. *)
LEMMA SliceHolds ==
  ASSUME NEW n \in Nat \ {0}
  PROVE  sliceSize(n) \in Nat \ {0} /\ n <= sliceSize(n) * Slices
<1> DEFINE m == n + Slices - 1
           s == m \div Slices
<1>1. m \in Nat /\ Slices \in Nat \ {0}
  BY SizesAssumption
<1>2. s \in Nat /\ m % Slices \in 0..(Slices - 1) /\ m = Slices * s + (m % Slices)
  BY <1>1, DivMod
<1>3. Slices * s \in Nat /\ Slices * s = s * Slices
  BY <1>1, <1>2
<1>4. n <= s * Slices
  BY <1>1, <1>2, <1>3
<1>5. s # 0
  BY <1>1, <1>4
<1> QED BY <1>2, <1>4, <1>5 DEF sliceSize

(* However many samples there are, there is a slice and there are at most Slices of them. *)
LEMMA SlicesInRange ==
  ASSUME NEW n \in Nat \ {0}
  PROVE  slices(n) \in 1..Slices
<1> DEFINE s == sliceSize(n)
           Ends == {i \in 1..n : i % s = 0 \/ i = n}
           number == [i \in Ends |-> (i + s - 1) \div s]
<1>1. s \in Nat \ {0} /\ n <= s * Slices /\ Slices \in Nat \ {0}
  BY SliceHolds, SizesAssumption
<1> HIDE DEF s
<1>2. \A i \in Ends : \E r \in 0..(s - 1) :
        /\ number[i] \in Nat /\ s * number[i] \in Nat
        /\ i + r = s * number[i] /\ (i = n \/ r = 0)
  <2> SUFFICES ASSUME NEW i \in Ends
               PROVE  \E r \in 0..(s - 1) :
                         /\ number[i] \in Nat /\ s * number[i] \in Nat
                         /\ i + r = s * number[i] /\ (i = n \/ r = 0)
    OBVIOUS
  <2> DEFINE q == (i + s - 1) \div s
             p == (i + s - 1) % s
  <2>1. i + s - 1 \in Nat
    BY <1>1
  <2>2. q \in Nat /\ p \in 0..(s - 1) /\ i + s - 1 = s * q + p
    BY <1>1, <2>1, DivMod
  <2>3. number[i] = q
    OBVIOUS
  <2>4. s * q \in Nat
    BY <1>1, <2>2
  <2>5. i + (s - 1 - p) = s * q /\ s - 1 - p \in 0..(s - 1)
    BY <1>1, <2>2, <2>4
  <2>6. i % s = 0 => s - 1 - p = 0
    <3> SUFFICES ASSUME i % s = 0 PROVE p = s - 1
      BY <1>1, <2>2
    <3> DEFINE e == i \div s
    <3>1. i \in Nat /\ e \in Nat /\ i = s * e
      BY <1>1, DivMod
    <3>2. s * e + s - 1 = s * q + p /\ s * e \in Nat
      BY <1>1, <2>2, <3>1
    <3> HIDE DEF e, q, p
    <3>3. s * (q - e) = s - 1 - p
      BY <1>1, <2>2, <2>4, <3>1, <3>2
    <3>4. q - e <= 0
      <4> SUFFICES ASSUME q - e >= 1 PROVE FALSE
        BY <2>2, <3>1
      <4>1. s * (q - e) >= s
        BY <1>1, <2>2, <3>1
      <4> QED BY <1>1, <2>2, <3>3, <4>1
    <3>5. s * (q - e) <= 0
      BY <1>1, <2>2, <3>1, <3>4
    <3> QED BY <1>1, <2>2, <3>3, <3>5
  <2> QED BY <2>2, <2>3, <2>4, <2>5, <2>6
<1>3. \A i \in Ends : number[i] \in 1..Slices
  <2> SUFFICES ASSUME NEW i \in Ends PROVE number[i] \in 1..Slices
    OBVIOUS
  <2> DEFINE q == number[i]
  <2>1. PICK r \in 0..(s - 1) : q \in Nat /\ s * q \in Nat /\ i + r = s * q
    BY <1>2
  <2> HIDE DEF number, q
  <2>2. i \in 1..n /\ s * q < s * Slices + s
    BY <1>1, <2>1
  <2>3. s * q < s * (Slices + 1)
    BY <1>1, <2>1, <2>2
  <2>4. q < Slices + 1
    BY <1>1, <2>1, <2>3
  <2>5. q # 0
    BY <1>1, <2>1, <2>2
  <2> QED BY <1>1, <2>1, <2>4, <2>5 DEF q
<1>4. \A i, j \in Ends : number[i] = number[j] => i = j
  <2> SUFFICES ASSUME NEW i \in Ends, NEW j \in Ends, number[i] = number[j] PROVE i = j
    OBVIOUS
  <2>1. PICK r \in 0..(s - 1) : s * number[i] \in Nat /\ i + r = s * number[i] /\ (i = n \/ r = 0)
    BY <1>2
  <2>2. PICK t \in 0..(s - 1) : j + t = s * number[j] /\ (j = n \/ t = 0)
    BY <1>2
  <2> HIDE DEF number
  <2>3. i \in 1..n /\ j \in 1..n /\ i + r = j + t
    BY <2>1, <2>2
  <2> QED BY <1>1, <2>1, <2>2, <2>3
<1>5. IsFiniteSet(1..Slices) /\ Cardinality(1..Slices) = Slices
  BY <1>1, FS_Interval
<1>6. number \in Injection(Ends, 1..Slices)
  <2>1. number \in [Ends -> 1..Slices]
    BY <1>3
  <2> HIDE DEF number
  <2> QED BY <1>4, <2>1, Fun_IsInj
<1>7. IsFiniteSet(Ends) /\ Cardinality(Ends) <= Slices
  BY <1>5, <1>6, FS_Injection
<1>8. n \in Ends
  OBVIOUS
<1>9. Cardinality(Ends) \in Nat /\ Cardinality(Ends) # 0
  BY <1>7, <1>8, FS_CardinalityType, FS_EmptySet
<1> QED BY <1>1, <1>7, <1>9 DEF slices, s

-----------------------------------------------------------------------------
(***************************************************************************)
(* The bulk transport.  The bytes in flight, those that will be answered   *)
(* and those read are not more than the agent expects, so that no byte is  *)
(* left when a request is complete; bytes that count for the speed left a  *)
(* sample; an agent that goes on to the second request without one has     *)
(* asked for what is never answered; and what was charged covers what was  *)
(* sent and what will be.                                                  *)
(***************************************************************************)
Conns == [open : BOOLEAN, a : Clients, pre : BOOLEAN, expected : Int, request : Int,
          avail : Nat, total : Nat, got : Nat, valid : BOOLEAN, samples : Seq(Nat), sent : Nat]

ConnShape == (conn = NoConn \/ conn \in Conns) /\ charged \in Nat

Covered == conn # NoConn => conn.sent + answered(conn.request) <= charged

Bytes(k) == k.avail + answered(k.request) + (IF k.valid THEN k.total ELSE 0)
BytesAddUp(k) == Bytes(k) = 0 \/ Bytes(k) <= k.expected

SampleForBytes(k) == k.got > 0 => k.samples # <<>>

SampleForResult(k) == ~k.pre => k.samples # <<>> \/ (k.avail = 0 /\ answered(k.request) = 0)

Kept(k) == BytesAddUp(k) /\ SampleForBytes(k) /\ SampleForResult(k)

SpeedsKept == speeds = -1 \/ speeds \in 1..Slices

BtcInv == ConnShape /\ Covered /\ (conn # NoConn => Kept(conn)) /\ SpeedsKept

(* An answer is not longer than what is charged for its request, nor than a request that is a size. *)
LEMMA AnsweredIsCharged ==
  \A n \in Int : /\ answered(n) \in Nat /\ n % UintRange \in Nat /\ answered(n) <= n % UintRange
                 /\ n \in Nat => answered(n) <= n
<1> SUFFICES ASSUME NEW n \in Int
             PROVE  /\ answered(n) \in Nat /\ n % UintRange \in Nat /\ answered(n) <= n % UintRange
                    /\ n \in Nat => answered(n) <= n
  OBVIOUS
<1>1. UintRange \in Nat /\ UintRange > 0
  BY SizesAssumption
<1> DEFINE m == n % UintRange
<1>2. m \in Nat
  BY <1>1
<1>3. n \in Nat => m <= n
  BY <1>1
<1>4. answered(n) = m \/ answered(n) = 0
  BY DEF answered
<1> HIDE DEF m
<1>5. answered(n) \in Nat /\ answered(n) <= m /\ (n \in Nat => answered(n) <= n)
  BY <1>2, <1>3, <1>4
<1> QED BY <1>2, <1>5 DEF m

(* A request that is not a number is a number of 64 bits that nothing answers. *)
LEMMA NothingAnswered == \A n \in NotANumber : n \in Int /\ answered(n) = 0
<1>1. UintRange \in Nat /\ UintRange > 0
  BY SizesAssumption
<1>2. answered(0) = 0 /\ 0 \in Int
  BY <1>1 DEF answered
<1> DEFINE h == UintRange \div 2  n == -(UintRange * h)
<1>3. h \in Nat
  BY <1>1
<1>4. n \in Int /\ n % UintRange = 0
  <2> HIDE DEF h
  <2>1. UintRange * h \in Nat /\ -(UintRange * h) = UintRange * (-h)
    BY <1>1, <1>3
  <2> QED BY <1>1, <1>3, <2>1
<1>5. answered(n) = 0
  BY <1>4 DEF answered
<1> QED BY <1>2, <1>4, <1>5 DEF NotANumber

(* sendRequest() on a connection without bytes in flight. *)
LEMMA Requested ==
  ASSUME NEW k \in Conns, NEW n \in Int, n \in Nat \/ answered(n) = 0
  PROVE  /\ sendRequest(k, n) \in Conns
         /\ sendRequest(k, n).sent = k.sent
         /\ k.avail = 0 => BytesAddUp(sendRequest(k, n))
         /\ sendRequest(k, n).got = k.got /\ sendRequest(k, n).samples = k.samples
         /\ sendRequest(k, n).pre = k.pre /\ sendRequest(k, n).avail = k.avail
         /\ sendRequest(k, n).request = n /\ sendRequest(k, n).a = k.a
<1> DEFINE j == sendRequest(k, n)
<1>1. answered(n) \in Nat /\ (answered(n) = 0 \/ answered(n) <= n)
  BY AnsweredIsCharged
<1>2. j = [k EXCEPT !.expected = n, !.request = n, !.valid = FALSE]
  BY DEF sendRequest, Conns
<1>3. j \in Conns
  BY <1>1, <1>2 DEF Conns
<1>4. /\ j.sent = k.sent /\ j.got = k.got /\ j.samples = k.samples
      /\ j.pre = k.pre /\ j.avail = k.avail /\ j.request = n /\ j.expected = n /\ ~j.valid
      /\ j.a = k.a
  BY <1>2 DEF Conns
<1> HIDE DEF j
<1>5. k.avail = 0 => Bytes(j) = answered(n)
  BY <1>1, <1>4 DEF Bytes
<1>6. k.avail = 0 => BytesAddUp(j)
  BY <1>1, <1>4, <1>5 DEF BytesAddUp
<1> QED BY <1>3, <1>4, <1>6 DEF j

(* What receiveResponse() makes of n bytes. *)
LEMMA Responded ==
  ASSUME conn \in Conns, Kept(conn), NEW n \in 1..conn.avail
  PROVE  /\ response(n) \in Conns /\ Kept(response(n))
         /\ response(n).sent = conn.sent /\ response(n).request = conn.request /\ response(n).valid
         /\ response(n).avail = conn.avail - n
         /\ ~conn.pre => response(n).samples # <<>>
         /\ response(n).pre = conn.pre /\ response(n).a = conn.a
<1> DEFINE k == response(n)
<1>1. conn.samples \in Seq(Nat) /\ Append(conn.samples, n) \in Seq(Nat)
      /\ Append(conn.samples, n) # <<>> /\ conn.avail - n \in Nat /\ n \in Nat \ {0}
      /\ conn.avail \in Nat /\ conn.avail # 0 /\ answered(conn.request) \in Nat
  <2>1. /\ conn.samples \in Seq(Nat) /\ Append(conn.samples, n) \in Seq(Nat)
        /\ Append(conn.samples, n) # <<>> /\ conn.avail - n \in Nat /\ n \in Nat \ {0}
        /\ conn.avail \in Nat /\ conn.avail # 0
    BY DEF Conns
  <2>2. conn.request \in Int
    BY DEF Conns
  <2>3. answered(conn.request) \in Nat
    BY <2>2, AnsweredIsCharged
  <2> QED BY <2>1, <2>3
<1>2. CASE conn.valid
  <2>1. k = [conn EXCEPT !.avail = conn.avail - n, !.total = conn.total + n,
                         !.got = conn.got + n, !.samples = Append(conn.samples, n)]
    BY <1>2 DEF response
  <2>2. /\ k.sent = conn.sent /\ k.valid = conn.valid /\ k.avail = conn.avail - n
        /\ k.samples = Append(conn.samples, n) /\ k.pre = conn.pre /\ k.total = conn.total + n
        /\ k.request = conn.request /\ k.expected = conn.expected /\ k.a = conn.a
    BY <2>1 DEF Conns
  <2>5. conn.total + n \in Nat /\ conn.got + n \in Nat
    <3> DEFINE t == conn.total  g == conn.got
    <3>1. t \in Nat /\ g \in Nat
      BY DEF Conns
    <3> HIDE DEF t, g
    <3>2. t + n \in Nat /\ g + n \in Nat
      BY <1>1, <3>1
    <3> QED BY <3>2 DEF t, g
  <2>6. k \in Conns
    BY <1>1, <2>1, <2>5 DEF Conns
  <2> HIDE DEF k
  <2>3. BytesAddUp(k)
    <3>1. Bytes(conn) = conn.avail + answered(conn.request) + conn.total
      BY <1>2 DEF Bytes
    <3>2. Bytes(k) = (conn.avail - n) + answered(conn.request) + (conn.total + n)
      BY <1>2, <2>2 DEF Bytes
    <3> QED BY <1>1, <2>2, <3>1, <3>2 DEF Kept, BytesAddUp, Conns
  <2>4. SampleForBytes(k) /\ SampleForResult(k)
    BY <1>1, <2>2 DEF SampleForBytes, SampleForResult
  <2> QED BY <1>1, <1>2, <2>2, <2>3, <2>4, <2>6 DEF Kept, k
<1>3. CASE ~conn.valid
  <2>1. k = [conn EXCEPT !.avail = conn.avail - n, !.total = n, !.got = 0, !.valid = TRUE]
    BY <1>3 DEF response
  <2> HIDE DEF k
  <2>2. /\ k.sent = conn.sent /\ k.valid = TRUE /\ k.avail = conn.avail - n
        /\ k.samples = conn.samples /\ k.pre = conn.pre /\ k.total = n /\ k.got = 0
        /\ k.request = conn.request /\ k.expected = conn.expected /\ k.a = conn.a
    BY <2>1 DEF Conns
  <2>6. k \in Conns
    <3>1. n \in Nat /\ conn.avail - n \in Nat
      BY <1>1
    <3> QED BY <2>1, <3>1 DEF Conns
  <2>3. BytesAddUp(k)
    <3>1. Bytes(conn) = conn.avail + answered(conn.request) + 0
      BY <1>3 DEF Bytes
    <3>2. Bytes(k) = (conn.avail - n) + answered(conn.request) + n
      BY <2>2 DEF Bytes
    <3> QED BY <1>1, <2>2, <3>1, <3>2 DEF Kept, BytesAddUp, Conns
  <2>4. SampleForBytes(k) /\ SampleForResult(k)
    BY <1>1, <2>2 DEF SampleForBytes, SampleForResult, Kept, Conns
  <2>5. ~conn.pre => conn.samples # <<>>
    BY <1>1 DEF Kept, SampleForResult
  <2> QED BY <1>1, <1>3, <2>2, <2>3, <2>4, <2>5, <2>6 DEF Kept, k
<1> QED BY <1>2, <1>3 DEF Conns

(* Of a connection, prepare() makes one whose first request was charged. *)
LEMMA PrepareBtc ==
  ASSUME BtcInv, NEW c \in Clients, prepare(c)
  PROVE  BtcInv'
<1> DEFINE k == [open |-> TRUE, a |-> c, pre |-> TRUE, expected |-> 0,
                 request |-> 0, avail |-> 0, total |-> 0, got |-> 0,
                 valid |-> FALSE, samples |-> <<>>, sent |-> 0]
<1>1. k \in Conns /\ k.sent = 0 /\ k.avail = 0 /\ k.got = 0 /\ k.pre = TRUE
  BY DEF Conns
<1>2. CASE conn' = sendRequest(k, Initial) /\ charged' = Initial % UintRange
  <2>1. Initial \in Nat
    BY SizesAssumption
  <2>2. /\ answered(Initial) \in Nat /\ Initial % UintRange \in Nat
        /\ answered(Initial) <= Initial % UintRange
    BY <2>1, AnsweredIsCharged
  <2> HIDE DEF k
  <2>3. /\ conn' \in Conns /\ conn'.sent = 0 /\ BytesAddUp(conn') /\ conn'.request = Initial
        /\ conn'.got = 0 /\ conn'.pre = TRUE
    <3> DEFINE s == sendRequest(k, Initial)
    <3>1. s \in Conns /\ s.sent = k.sent /\ s.got = k.got /\ s.pre = k.pre /\ s.request = Initial
      BY <1>1, <2>1, Requested
    <3>2. k.avail = 0 => BytesAddUp(s)
      BY <1>1, <2>1, Requested
    <3>3. conn' = s
      BY <1>2
    <3> HIDE DEF s
    <3> QED BY <1>1, <3>1, <3>2, <3>3
  <2>4. Kept(conn')
    BY <2>3 DEF Kept, SampleForBytes, SampleForResult
  <2>5. conn'.sent + answered(conn'.request) <= charged' /\ charged' \in Nat
    BY <1>2, <2>2, <2>3
  <2>6. speeds' = speeds
    BY DEF prepare
  <2> QED BY <2>3, <2>4, <2>5, <2>6 DEF BtcInv, ConnShape, Covered, SpeedsKept
<1>3. CASE UNCHANGED btcVars
  BY <1>3 DEF BtcInv, ConnShape, Covered, SpeedsKept, btcVars, Kept, BytesAddUp, Bytes,
              SampleForBytes, SampleForResult
<1> QED BY <1>2, <1>3 DEF prepare, btcVars

(* What answers the second request is charged, and a result has a sample. *)
LEMMA ResponseBtc ==
  ASSUME BtcInv, NEW c \in Clients, receiveResponse(c)
  PROVE  BtcInv'
<1>1. conn \in Conns /\ conn # NoConn /\ Kept(conn)
  BY DEF receiveResponse, AgentOf, BtcInv, ConnShape
<1>2. PICK n \in 1..conn.avail :
         IF response(n).total >= response(n).expected THEN calculateResult(c, response(n))
         ELSE conn' = response(n) /\ UNCHANGED <<queue, phase, charged, speeds>>
  BY DEF receiveResponse
<1> DEFINE k == response(n)
<1>3. /\ k \in Conns /\ Kept(k) /\ k.sent = conn.sent /\ k.request = conn.request /\ k.valid = TRUE
      /\ (~conn.pre => k.samples # <<>>) /\ k.pre = conn.pre
  BY <1>1, Responded DEF Conns
<1>4. charged \in Nat /\ k.sent + answered(k.request) <= charged /\ SpeedsKept
  BY <1>1, <1>3 DEF BtcInv, ConnShape, Covered
<1> HIDE DEF k
<1>5. ASSUME conn' = k, charged' = charged, speeds' = speeds PROVE BtcInv'
  BY <1>3, <1>4, <1>5 DEF BtcInv, ConnShape, Covered, SpeedsKept
<1>6. ASSUME conn' = NoConn, charged' = charged, SpeedsKept' PROVE BtcInv'
  BY <1>4, <1>6 DEF BtcInv, ConnShape, Covered
<1>7. ASSUME k.total >= k.expected, k.pre, secondRequest(c, k), speeds' = speeds PROVE BtcInv'
  <2>1. k.avail = 0 /\ answered(k.request) = 0
    <3>1. Bytes(k) = k.avail + answered(k.request) + k.total
      BY <1>3 DEF Bytes
    <3>2. k.avail \in Nat /\ k.total \in Nat /\ k.expected \in Int /\ k.request \in Int
      BY <1>3 DEF Conns
    <3>3. answered(k.request) \in Nat /\ (Bytes(k) = 0 \/ Bytes(k) <= k.expected)
      BY <1>3, <3>2, AnsweredIsCharged DEF Kept, BytesAddUp
    <3> QED BY <1>7, <3>1, <3>2, <3>3
  <2> DEFINE j == [k EXCEPT !.pre = FALSE]
  <2>2. j \in Conns /\ j.avail = 0 /\ j.sent = k.sent /\ j.got = k.got /\ j.samples = k.samples
    BY <1>3, <2>1 DEF Conns
  <2> HIDE DEF j
  <2>3. ASSUME NEW m \in Int, conn' = sendRequest(j, m), charged' = charged + (m % UintRange),
               (k.got > 0 /\ m \in Nat) \/ answered(m) = 0
        PROVE  BtcInv'
    <3>1. conn' \in Conns /\ conn'.sent = k.sent /\ BytesAddUp(conn')
          /\ conn'.avail = 0 /\ conn'.request = m /\ conn'.got = k.got /\ conn'.samples = k.samples
      <4>1. /\ conn' \in Conns /\ conn'.sent = j.sent /\ (j.avail = 0 => BytesAddUp(conn'))
            /\ conn'.avail = j.avail /\ conn'.request = m /\ conn'.got = j.got
            /\ conn'.samples = j.samples
        BY <2>2, <2>3, Requested
      <4> QED BY <2>2, <4>1
    <3>2. SampleForBytes(conn') /\ SampleForResult(conn')
      BY <1>3, <2>3, <3>1 DEF Kept, SampleForBytes, SampleForResult
    <3>3. charged' \in Nat /\ conn'.sent + answered(conn'.request) <= charged'
      <4>1. m % UintRange \in Nat /\ answered(m) \in Nat /\ answered(m) <= m % UintRange
        BY AnsweredIsCharged
      <4> DEFINE a == answered(m)  r == m % UintRange  t == k.sent
      <4>2. a \in Nat /\ r \in Nat /\ a <= r /\ t \in Nat /\ t + 0 <= charged /\ charged \in Nat
        BY <1>3, <1>4, <2>1, <4>1 DEF Conns
      <4>3. conn'.sent = t /\ answered(conn'.request) = a /\ charged' = charged + r
        BY <2>3, <3>1
      <4> HIDE DEF a, r, t
      <4> QED BY <4>2, <4>3
    <3> QED BY <1>4, <1>7, <3>1, <3>2, <3>3 DEF BtcInv, ConnShape, Covered, SpeedsKept, Kept
  <2>4. CASE \E m \in Sizes : conn' = sendRequest(j, m) /\ charged' = charged + (m % UintRange) /\ k.got > 0
    BY <2>3, <2>4, SizesAssumption
  <2>5. CASE \E m \in NotANumber : conn' = sendRequest(j, m) /\ charged' = charged + (m % UintRange)
    BY <2>3, <2>5, NothingAnswered
  <2>6. CASE bothDone(c) /\ charged' = charged
    BY <1>4, <1>6, <1>7, <2>6 DEF bothDone, SpeedsKept
  <2> QED BY <1>7, <2>4, <2>5, <2>6 DEF secondRequest, j
<1>8. ASSUME ~k.pre, bothDone(c), charged' = charged, speeds' = slices(Len(k.samples))
      PROVE BtcInv'
  <2>1. k.samples \in Seq(Nat) /\ k.samples # <<>>
    BY <1>3, <1>8 DEF Conns
  <2>2. Len(k.samples) \in Nat \ {0}
    BY <2>1
  <2> QED BY <1>6, <1>8, <2>2, SlicesInRange DEF bothDone, SpeedsKept
<1> QED BY <1>2, <1>5, <1>7, <1>8 DEF calculateResult, k

(* Initially no connection and no result. *)
LEMMA InitBtc == Init => BtcInv
BY DEF Init, BtcInit, BtcInv, ConnShape, Covered, SpeedsKept

(* Every step of the two clients keeps the invariant of the bulk transport. *)
LEMMA StepBtc == BtcInv /\ [Next]_vars => BtcInv'
<1> SUFFICES ASSUME BtcInv, [Next]_vars PROVE BtcInv'
  OBVIOUS
<1>1. ASSUME UNCHANGED btcVars PROVE BtcInv'
  BY <1>1 DEF BtcInv, ConnShape, Covered, SpeedsKept, btcVars
<1>2. ASSUME conn' = NoConn, UNCHANGED <<charged, speeds>> PROVE BtcInv'
  BY <1>2 DEF BtcInv, ConnShape, Covered, SpeedsKept
<1>3. ASSUME NEW c \in Clients, BtcNext(c) PROVE BtcInv'
  <2>1. CASE listen(c)
    BY <1>1, <2>1 DEF listen
  <2>2. CASE prepare(c)
    BY <2>2, PrepareBtc
  <2>3. CASE receiveResponse(c)
    BY <2>3, ResponseBtc
  <2>4. CASE handleError(c)
    BY <1>2, <2>4 DEF handleError, bothDone
  <2>5. CASE die(c)
    <3>1. ASSUME conn # NoConn, conn' = [conn EXCEPT !.open = FALSE], UNCHANGED <<charged, speeds>>
          PROVE  BtcInv'
      <4>1. conn \in Conns /\ Kept(conn) /\ conn.sent + answered(conn.request) <= charged
        BY <3>1 DEF BtcInv, ConnShape, Covered
      <4>2. conn' \in Conns /\ conn'.sent = conn.sent /\ conn'.request = conn.request /\ Kept(conn')
        BY <3>1, <4>1 DEF Conns, Kept, BytesAddUp, Bytes, SampleForBytes, SampleForResult
      <4> QED BY <3>1, <4>1, <4>2 DEF BtcInv, ConnShape, Covered, SpeedsKept
    <3>2. UNCHANGED <<charged, speeds>>
      BY <2>5 DEF die
    <3> QED BY <1>1, <1>2, <2>5, <3>1, <3>2 DEF die, bothDone, btcVars
  <2> QED BY <1>3, <2>1, <2>2, <2>3, <2>4, <2>5 DEF BtcNext, BtcStep
<1>4. CASE receiveRequest
  <2> DEFINE a == answered(conn.request)
  <2>1. conn \in Conns /\ conn.sent + a <= charged /\ Kept(conn) /\ charged \in Nat
    BY <1>4 DEF receiveRequest, BtcInv, ConnShape, Covered, NoConn
  <2>2. conn' = [conn EXCEPT !.avail = conn.avail + a, !.request = 0, !.sent = conn.sent + a]
        /\ UNCHANGED <<charged, speeds>>
    BY <1>4 DEF receiveRequest
  <2>3. a \in Nat /\ answered(0) = 0
    <3>1. 0 \in Nat /\ 0 \in Int /\ conn.request \in Int
      BY <2>1 DEF Conns
    <3> QED BY <3>1, AnsweredIsCharged
  <2> HIDE DEF a
  <2>4. conn.avail + a \in Nat /\ conn.sent + a \in Nat
    BY <2>1, <2>3 DEF Conns
  <2>5. conn' \in Conns
    <3> DEFINE x == conn.avail + a  y == conn.sent + a
               k == [conn EXCEPT !.avail = x, !.request = 0]
    <3>1. x \in Nat /\ y \in Nat /\ 0 \in Int
      BY <2>4
    <3> HIDE DEF x, y
    <3>2. k \in Conns
      BY <2>1, <3>1 DEF Conns
    <3>3. [k EXCEPT !.sent = y] \in Conns
      <4> HIDE DEF k
      <4> QED BY <3>1, <3>2 DEF Conns
    <3>4. conn' = [k EXCEPT !.sent = y]
      BY <2>1, <2>2 DEF Conns, x, y
    <3> QED BY <3>3, <3>4
  <2>6. /\ conn'.avail = conn.avail + a /\ conn'.request = 0 /\ conn'.sent = conn.sent + a
        /\ conn'.valid = conn.valid /\ conn'.total = conn.total /\ conn'.expected = conn.expected
        /\ conn'.got = conn.got /\ conn'.pre = conn.pre /\ conn'.samples = conn.samples
    BY <2>1, <2>2 DEF Conns
  <2>7. Bytes(conn') = Bytes(conn)
    <3>1. Bytes(conn') = (conn.avail + a) + 0 + (IF conn.valid THEN conn.total ELSE 0)
      BY <2>3, <2>6 DEF Bytes
    <3>2. Bytes(conn) = conn.avail + a + (IF conn.valid THEN conn.total ELSE 0)
      BY DEF Bytes, a
    <3> QED BY <2>1, <2>3, <3>1, <3>2 DEF Conns
  <2>8. Kept(conn')
    BY <2>1, <2>3, <2>6, <2>7 DEF Conns, Kept, BytesAddUp, SampleForBytes, SampleForResult, a
  <2>9. conn'.sent + answered(conn'.request) <= charged'
    BY <2>1, <2>2, <2>3, <2>4, <2>6
  <2> QED BY <2>1, <2>2, <2>5, <2>8, <2>9 DEF BtcInv, ConnShape, Covered, SpeedsKept
<1>5. ASSUME NEW c \in Clients, (NetNext(c) /\ UNCHANGED <<btcVars, rec>>) \/ TrainStep(c)
                                \/ readPendingDatagrams(c) \/ readEmpty(c)
      PROVE  BtcInv'
  BY <1>1, <1>5 DEF TrainStep, start, startPeer, eval, timeout, readPendingDatagrams, readEmpty
<1>6. CASE UNCHANGED vars
  BY <1>1, <1>6 DEF vars
<1> QED BY <1>3, <1>4, <1>5, <1>6 DEF Next

(* The invariant of the bulk transport holds in every state. *)
LEMMA BtcInvariance == Spec => []BtcInv
BY InitBtc, StepBtc, PTL DEF Spec

(***************************************************************************)
(* The peer never sends more data than the traffic budget granted, in the  *)
(* pretest and for the second request together, whatever size of 64 bits   *)
(* the pretest finds.                                                      *)
(***************************************************************************)
THEOREM SentIsGranted == Spec => []SentIsCharged
<1>1. BtcInv => SentIsCharged
  <2> SUFFICES ASSUME BtcInv, conn # NoConn PROVE conn.sent <= charged
    BY DEF SentIsCharged
  <2>1. conn.sent \in Nat /\ conn.request \in Int /\ charged \in Nat
    BY DEF BtcInv, ConnShape, Conns
  <2>2. answered(conn.request) \in Nat /\ conn.sent + answered(conn.request) <= charged
    BY <2>1, AnsweredIsCharged DEF BtcInv, Covered
  <2> QED BY <2>1, <2>2
<1> QED BY <1>1, BtcInvariance, PTL

(***************************************************************************)
(* Every bulk transport result has a speed and no more of them than        *)
(* calculateResult() announces, however the answers are cut into pieces.   *)
(***************************************************************************)
THEOREM ResultHasSpeed == Spec => []FinishedHasSpeed
<1>1. BtcInv => FinishedHasSpeed
  BY SizesAssumption DEF BtcInv, SpeedsKept, FinishedHasSpeed
<1> QED BY <1>1, BtcInvariance, PTL

-----------------------------------------------------------------------------
(***************************************************************************)
(* handledMeasureUuids.  A uuid is remembered before the client takes part *)
(* or queues a part, at most one part of a uuid is queued, and a queued    *)
(* part that is not created yet has not been counted.  The agent of a      *)
(* connection keeps running, so that what ends it ends a measurement.      *)
(***************************************************************************)
Kinds == {"btc", "trains"}
Tasks == [client : {1, 2}, kind : Kinds, port : Nat]
Entries == [role : {"ma", "mp"}, kind : Kinds, uuid : Nat, port : Nat]
OfferItems == [kind : Kinds, uuid : 1..uuids, port : Nat, from : Clients]

NetShape ==
    /\ todo \in Seq(Tasks)
    /\ queue \in [Clients -> Seq(Entries)]
    /\ phase \in [Clients -> {"none", "offer", "wait", "start", "prepare", "run"}]
    /\ handled \in [Clients -> SUBSET (1..uuids)] /\ uuids \in Nat
    /\ runs \in [Clients -> [1..MaxTasks -> Nat]]
    /\ \A d \in net : d.what = "offer" => d.item \in OfferItems

PhaseOfHead ==
    \A c \in Clients :
        /\ queue[c] = <<>> => phase[c] = "none"
        /\ phase[c] = "offer" => queue[c][1].uuid \in 1..uuids

Accepted(c, i) == i \in 1..Len(queue[c]) /\ queue[c][i].role = "mp"

UuidsKept(c) ==
    /\ \A i \in Nat : Accepted(c, i) => queue[c][i].uuid \in handled[c]
    /\ \A u \in 1..MaxTasks : runs[c][u] # 0 => u \in handled[c]
    /\ \A i \in Nat : Accepted(c, i) /\ (i > 1 \/ phase[c] = "none") =>
          (queue[c][i].uuid \in 1..MaxTasks => runs[c][queue[c][i].uuid] = 0)
    /\ \A i, j \in Nat : Accepted(c, i) /\ Accepted(c, j) /\ queue[c][i].uuid = queue[c][j].uuid
                            => i = j

AgentKeeps ==
    conn # NoConn => conn.a \in Clients /\ phase[conn.a] = "run" /\ queue[conn.a][1].role = "ma"

UuidInv == NetShape /\ PhaseOfHead /\ AgentKeeps /\ (\A c \in Clients : UuidsKept(c))
           /\ OncePerUuid

(* The other client of a client is a client. *)
LEMMA OtherClient == \A c \in Clients : other(c) \in Clients /\ other(c) # c
BY DEF Clients, other

(* Taking the first measurement off a queue. *)
LEMMA TailOf ==
  ASSUME NEW S, NEW q \in Seq(S), q # <<>>
  PROVE  /\ Tail(q) \in Seq(S) /\ Len(q) \in Nat \ {0} /\ Len(Tail(q)) = Len(q) - 1
         /\ \A i \in 1..Len(Tail(q)) : Tail(q)[i] = q[i + 1]
         /\ Head(q) = q[1] /\ q[1] \in S
OBVIOUS

(* Appending a measurement to a queue. *)
LEMMA AppendOf ==
  ASSUME NEW S, NEW q \in Seq(S), NEW x \in S
  PROVE  /\ Append(q, x) \in Seq(S) /\ Append(q, x) # <<>>
         /\ Len(q) \in Nat /\ Len(Append(q, x)) = Len(q) + 1
         /\ \A i \in 1..Len(q) : Append(q, x)[i] = q[i]
         /\ Append(q, x)[Len(q) + 1] = x
OBVIOUS

(* A client goes on with its measurement, or it is done with it. *)
Stays(c) == queue'[c] = queue[c] /\ phase'[c] = phase[c]
GoesOn(c) == queue[c] # <<>> /\ queue'[c] = queue[c] /\ phase'[c] \in {"wait", "start", "prepare", "run"}
Drops(c) == queue[c] # <<>> /\ queue'[c] = Tail(queue[c]) /\ phase'[c] = "none"

(* A client that stays, goes on or drops a measurement takes part in no new one. *)
LEMMA MovesKeep ==
  ASSUME NetShape, PhaseOfHead, NEW c \in Clients, UuidsKept(c),
         Stays(c) \/ GoesOn(c) \/ Drops(c), handled'[c] = handled[c], runs'[c] = runs[c], uuids' = uuids
  PROVE  /\ UuidsKept(c)' /\ queue'[c] \in Seq(Entries)
         /\ phase'[c] \in {"none", "offer", "wait", "start", "prepare", "run"}
         /\ queue'[c] = <<>> => phase'[c] = "none"
         /\ phase'[c] = "offer" => queue'[c][1].uuid \in 1..uuids'
<1>1. queue[c] \in Seq(Entries) /\ phase[c] \in {"none", "offer", "wait", "start", "prepare", "run"}
  BY DEF NetShape
<1>2. CASE Stays(c)
  <2>1. \A i : Accepted(c, i)' <=> Accepted(c, i)
    BY <1>2 DEF Accepted, Stays
  <2> QED BY <1>1, <1>2, <2>1 DEF UuidsKept, Stays, PhaseOfHead
<1>3. CASE GoesOn(c)
  <2>1. \A i : Accepted(c, i)' <=> Accepted(c, i)
    BY <1>3 DEF Accepted, GoesOn
  <2> QED BY <1>1, <1>3, <2>1 DEF UuidsKept, GoesOn, PhaseOfHead
<1>4. CASE Drops(c)
  <2>1. /\ queue'[c] \in Seq(Entries) /\ Len(queue[c]) \in Nat \ {0}
        /\ Len(queue'[c]) = Len(queue[c]) - 1
        /\ \A i \in 1..Len(queue'[c]) : queue'[c][i] = queue[c][i + 1]
    BY <1>1, <1>4, TailOf DEF Drops
  <2>2. \A i \in Nat : Accepted(c, i)' =>
          i \in Nat \ {0} /\ i + 1 \in Nat /\ i + 1 > 1 /\ Accepted(c, i + 1)
            /\ queue'[c][i] = queue[c][i + 1]
    BY <2>1 DEF Accepted
  <2>3. \A i \in Nat : Accepted(c, i)' => queue'[c][i].uuid \in handled[c]
    BY <2>2 DEF UuidsKept
  <2>4. \A i \in Nat : Accepted(c, i)' =>
          (queue'[c][i].uuid \in 1..MaxTasks => runs[c][queue'[c][i].uuid] = 0)
    BY <2>2 DEF UuidsKept
  <2>5. \A i, j \in Nat : Accepted(c, i)' /\ Accepted(c, j)'
            /\ queue'[c][i].uuid = queue'[c][j].uuid => i = j
    BY <2>2 DEF UuidsKept
  <2>6. UuidsKept(c)'
    BY <2>3, <2>4, <2>5 DEF UuidsKept
  <2> QED BY <1>4, <2>1, <2>6 DEF Drops
<1> QED BY <1>2, <1>3, <1>4

(***************************************************************************)
(* A step in which every client stays, goes on or drops a measurement, and *)
(* that sends no offer but for uuids already made, keeps the invariant.    *)
(***************************************************************************)
LEMMA QuietStep ==
  ASSUME UuidInv, \A c \in Clients : Stays(c) \/ GoesOn(c) \/ Drops(c),
         queue' = [c \in Clients |-> queue'[c]], phase' = [c \in Clients |-> phase'[c]],
         UNCHANGED <<todo, handled, uuids, runs>>,
         \A d \in net' : d.what = "offer" => d \in net \/ d.item \in OfferItems,
         AgentKeeps'
  PROVE  UuidInv'
<1>1. \A c \in Clients : /\ UuidsKept(c)' /\ queue'[c] \in Seq(Entries)
                         /\ phase'[c] \in {"none", "offer", "wait", "start", "prepare", "run"}
                         /\ queue'[c] = <<>> => phase'[c] = "none"
                         /\ phase'[c] = "offer" => queue'[c][1].uuid \in 1..uuids'
  BY MovesKeep DEF UuidInv
<1>2. PhaseOfHead'
  BY <1>1 DEF PhaseOfHead
<1>3. OfferItems' = OfferItems
  BY DEF OfferItems
<1>4. NetShape'
  <2>1. queue' \in [Clients -> Seq(Entries)]
    BY <1>1
  <2>2. phase' \in [Clients -> {"none", "offer", "wait", "start", "prepare", "run"}]
    BY <1>1
  <2>3. \A d \in net' : d.what = "offer" => d.item \in OfferItems
    BY DEF UuidInv, NetShape
  <2> QED BY <1>3, <2>1, <2>2, <2>3 DEF UuidInv, NetShape
<1>5. OncePerUuid'
  BY DEF UuidInv, OncePerUuid
<1> QED BY <1>1, <1>2, <1>4, <1>5 DEF UuidInv

(* A step that leaves queues and phases alone and makes no offer. *)
LEMMA StillStep ==
  ASSUME UuidInv, UNCHANGED <<todo, queue, phase, handled, uuids, runs>>,
         \A d \in net' : d.what = "offer" => d \in net \/ d.item \in OfferItems,
         conn' # NoConn => conn # NoConn /\ conn'.a = conn.a
  PROVE  UuidInv'
<1>1. \A c \in Clients : Stays(c)
  BY DEF Stays
<1>2. queue = [c \in Clients |-> queue[c]] /\ phase = [c \in Clients |-> phase[c]]
  BY DEF UuidInv, NetShape
<1>3. AgentKeeps'
  BY DEF UuidInv, AgentKeeps
<1> QED BY <1>1, <1>2, <1>3, QuietStep

(***************************************************************************)
(* A client whose running measurement is not the agent of a connection     *)
(* goes on with it or is done with it.                                     *)
(***************************************************************************)
LEMMA OneMoves ==
  ASSUME UuidInv, NEW c \in Clients, Running(c),
         phase[c] # "run" \/ Head(queue[c]).role = "mp",
         done(c) \/ goto(c, "wait") \/ goto(c, "start") \/ goto(c, "prepare") \/ goto(c, "run"),
         UNCHANGED <<todo, handled, uuids, runs, conn>>,
         \A d \in net' : d.what = "offer" => d \in net \/ d.item \in OfferItems
  PROVE  UuidInv'
<1>1. queue \in [Clients -> Seq(Entries)] /\ queue[c] # <<>>
      /\ phase \in [Clients -> {"none", "offer", "wait", "start", "prepare", "run"}]
  BY DEF Running, UuidInv, NetShape
<1>2. queue[c] \in Seq(Entries) /\ Head(queue[c]) = queue[c][1]
  BY <1>1, TailOf
<1>3. (Drops(c) \/ GoesOn(c)) /\ \A d \in Clients : d # c => Stays(d)
  BY <1>1 DEF Drops, GoesOn, Stays, done, goto
<1>4. queue' = [d \in Clients |-> queue'[d]] /\ phase' = [d \in Clients |-> phase'[d]]
  BY <1>1 DEF done, goto
<1>5. AgentKeeps'
  <2> SUFFICES ASSUME conn # NoConn PROVE AgentKeeps'
    BY DEF AgentKeeps
  <2>1. conn.a \in Clients /\ phase[conn.a] = "run" /\ queue[conn.a][1].role = "ma"
    BY DEF UuidInv, AgentKeeps
  <2>2. conn.a # c
    BY <1>2, <2>1
  <2> QED BY <1>3, <2>1, <2>2 DEF Stays, AgentKeeps
<1> QED BY <1>3, <1>4, <1>5, QuietStep

(* The end of a connection ends the agent's measurement, and the peer's if it listens. *)
LEMMA BothMove ==
  ASSUME UuidInv, NEW c \in Clients, queue[c] # <<>>, bothDone(c),
         UNCHANGED <<todo, handled, uuids, runs, net>>
  PROVE  UuidInv'
<1>1. queue \in [Clients -> Seq(Entries)]
      /\ phase \in [Clients -> {"none", "offer", "wait", "start", "prepare", "run"}]
  BY DEF UuidInv, NetShape
<1>2. \A d \in Clients : Stays(d) \/ Drops(d)
  BY <1>1 DEF Drops, Stays, bothDone, Listening, Does, Running
<1>3. queue' = [d \in Clients |-> queue'[d]] /\ phase' = [d \in Clients |-> phase'[d]]
  BY DEF bothDone
<1>4. AgentKeeps'
  BY DEF bothDone, AgentKeeps
<1> QED BY <1>2, <1>3, <1>4, QuietStep

(* A measurement queued behind the others: the agent's own, or a new uuid's part. *)
LEMMA QueuedBehind ==
  ASSUME UuidInv, NEW c \in Clients, NEW x \in Entries,
         queue' = [queue EXCEPT ![c] = Append(@, x)],
         x.role = "mp" => x.uuid \in 1..uuids /\ x.uuid \notin handled[c] /\ x.uuid \in handled'[c],
         handled' \in [Clients -> SUBSET (1..uuids)],
         \A d \in Clients : handled[d] \subseteq handled'[d],
         todo' \in Seq(Tasks), UNCHANGED <<phase, net, uuids, runs, conn>>
  PROVE  UuidInv'
<1>1. /\ queue \in [Clients -> Seq(Entries)] /\ queue[c] \in Seq(Entries)
      /\ queue'[c] = Append(queue[c], x) /\ \A d \in Clients : d # c => queue'[d] = queue[d]
  BY DEF UuidInv, NetShape
<1>2. /\ queue'[c] \in Seq(Entries) /\ queue'[c] # <<>>
      /\ Len(queue[c]) \in Nat /\ Len(queue'[c]) = Len(queue[c]) + 1
      /\ \A i \in 1..Len(queue[c]) : queue'[c][i] = queue[c][i]
      /\ queue'[c][Len(queue[c]) + 1] = x
  BY <1>1, AppendOf
<1>3. queue[c] # <<>> => queue'[c][1] = queue[c][1]
  <2>1. queue[c] # <<>> => 1 \in 1..Len(queue[c])
    BY <1>1, TailOf
  <2> QED BY <1>2, <2>1
<1>4. NetShape'
  <2>1. OfferItems' = OfferItems
    BY DEF OfferItems
  <2>2. queue' \in [Clients -> Seq(Entries)]
    BY <1>1, <1>2
  <2> QED BY <2>1, <2>2 DEF UuidInv, NetShape
<1>5. PhaseOfHead' /\ AgentKeeps'
  <2>1. \A d \in Clients : phase[d] # "none" => queue[d] # <<>> /\ queue'[d][1] = queue[d][1]
                                               /\ queue'[d] # <<>>
    BY <1>1, <1>2, <1>3 DEF UuidInv, PhaseOfHead
  <2>2. PhaseOfHead'
    BY <2>1 DEF UuidInv, PhaseOfHead
  <2>3. AgentKeeps'
    BY <2>1 DEF UuidInv, AgentKeeps
  <2> QED BY <2>2, <2>3
<1>6. UuidsKept(c)'
  <2>1. UuidsKept(c) /\ handled[c] \subseteq handled'[c]
    BY DEF UuidInv
  <2>2. \A i \in Nat : Accepted(c, i)' <=> Accepted(c, i) \/ (i = Len(queue[c]) + 1 /\ x.role = "mp")
    BY <1>2 DEF Accepted
  <2>3. \A i \in Nat : Accepted(c, i) => queue'[c][i] = queue[c][i] /\ i # Len(queue[c]) + 1
    BY <1>2 DEF Accepted
  <2>4. x.role = "mp" => \A i \in Nat : Accepted(c, i) => queue[c][i].uuid # x.uuid
    BY <2>1 DEF UuidsKept
  <2>5. x.role = "mp" /\ x.uuid \in 1..MaxTasks => runs[c][x.uuid] = 0
    BY <2>1 DEF UuidsKept
  <2>6. \A i \in Nat : Accepted(c, i)' => queue'[c][i].uuid \in handled'[c]
    BY <1>2, <2>1, <2>2, <2>3 DEF UuidsKept
  <2>7. \A u \in 1..MaxTasks : runs'[c][u] # 0 => u \in handled'[c]
    BY <2>1 DEF UuidsKept
  <2>8. \A i \in Nat : Accepted(c, i)' /\ (i > 1 \/ phase'[c] = "none") =>
          (queue'[c][i].uuid \in 1..MaxTasks => runs'[c][queue'[c][i].uuid] = 0)
    <3> SUFFICES ASSUME NEW i \in Nat, Accepted(c, i)', i > 1 \/ phase[c] = "none",
                        queue'[c][i].uuid \in 1..MaxTasks
                 PROVE  runs[c][queue'[c][i].uuid] = 0
      OBVIOUS
    <3>1. CASE Accepted(c, i)
      BY <2>1, <2>3, <3>1 DEF UuidsKept
    <3>2. CASE i = Len(queue[c]) + 1 /\ x.role = "mp"
      BY <1>2, <2>5, <3>2
    <3> QED BY <2>2, <3>1, <3>2
  <2>9. \A i, j \in Nat : Accepted(c, i)' /\ Accepted(c, j)'
            /\ queue'[c][i].uuid = queue'[c][j].uuid => i = j
    <3> DEFINE n == Len(queue[c]) + 1
               Old(i) == Accepted(c, i)
               New(i) == i = n /\ x.role = "mp"
               uuid(i) == queue[c][i].uuid
               uuidNext(i) == queue'[c][i].uuid
    <3>1. \A i \in Nat : Accepted(c, i)' <=> Old(i) \/ New(i)
      BY <2>2
    <3>2. \A i \in Nat : Old(i) => uuidNext(i) = uuid(i)
      BY <2>3
    <3>3. \A i : New(i) => uuidNext(i) = x.uuid
      BY <1>2
    <3>4. \A i, j \in Nat : Old(i) /\ New(j) => uuid(i) # x.uuid
      BY <2>4
    <3>5. \A i, j \in Nat : Old(i) /\ Old(j) /\ uuid(i) = uuid(j) => i = j
      BY <2>1 DEF UuidsKept
    <3>6. \A i, j : New(i) /\ New(j) => i = j
      OBVIOUS
    <3> HIDE DEF n, Old, New, uuid, uuidNext
    <3>7. \A i, j \in Nat : (Old(i) \/ New(i)) /\ (Old(j) \/ New(j)) /\ uuidNext(i) = uuidNext(j) => i = j
      BY <3>2, <3>3, <3>4, <3>5, <3>6, Zenon
    <3> QED BY <3>1, <3>7 DEF uuidNext
  <2> QED BY <2>6, <2>7, <2>8, <2>9 DEF UuidsKept
<1>7. \A d \in Clients : UuidsKept(d)'
  <2> SUFFICES ASSUME NEW d \in Clients, d # c PROVE UuidsKept(d)'
    BY <1>6
  <2>1. \A i : Accepted(d, i)' <=> Accepted(d, i)
    BY <1>1 DEF Accepted
  <2>2. UuidsKept(d) /\ queue'[d] = queue[d] /\ handled[d] \subseteq handled'[d]
    BY <1>1 DEF UuidInv
  <2> QED BY <2>1, <2>2 DEF UuidsKept
<1> QED BY <1>4, <1>5, <1>7 DEF UuidInv, OncePerUuid

(* A task of the agent's own. *)
LEMMA NewTaskUuid ==
  ASSUME UuidInv, NEW c \in Clients, newTask(c), conn' = conn
  PROVE  UuidInv'
<1> DEFINE x == [role |-> "ma", kind |-> Head(todo).kind, uuid |-> 0, port |-> Head(todo).port]
<1>1. todo \in Seq(Tasks) /\ todo # <<>>
  BY DEF newTask, UuidInv, NetShape
<1>2. Tail(todo) \in Seq(Tasks) /\ Head(todo) \in Tasks
  BY <1>1, TailOf
<1>3. x \in Entries /\ x.role = "ma"
  BY <1>2 DEF Tasks, Entries
<1> HIDE DEF x
<1>4. queue' = [queue EXCEPT ![c] = Append(@, x)] /\ todo' = Tail(todo)
      /\ UNCHANGED <<phase, net, uuids, runs, handled>>
  BY DEF newTask, x
<1>5. handled' \in [Clients -> SUBSET (1..uuids)] /\ \A d \in Clients : handled[d] \subseteq handled'[d]
  BY <1>4 DEF UuidInv, NetShape
<1> QED BY <1>2, <1>3, <1>4, <1>5, QueuedBehind

(* An offer that arrives: only the first of its uuid is queued. *)
LEMMA OfferUuid ==
  ASSUME UuidInv, NEW c \in Clients, processDatagram(c), conn' = conn
  PROVE  UuidInv'
<1>1. PICK d \in net :
        /\ d.what = "offer" /\ remembered(c, d.item.uuid)
        /\ \/ UNCHANGED queue
           \/ /\ d.item.uuid \notin handled[c]
              /\ queue' = [queue EXCEPT ![c] = Append(@,
                     [role |-> "mp", kind |-> d.item.kind, uuid |-> d.item.uuid,
                      port |-> d.item.port])]
  BY DEF processDatagram
<1> DEFINE x == [role |-> "mp", kind |-> d.item.kind, uuid |-> d.item.uuid, port |-> d.item.port]
<1>2. d.item \in OfferItems
  BY <1>1 DEF UuidInv, NetShape
<1>3. d.item.uuid \in 1..uuids /\ uuids \in Nat /\ d.item.kind \in Kinds /\ d.item.port \in Nat
  BY <1>2 DEF OfferItems, UuidInv, NetShape
<1>4. x \in Entries /\ x.role = "mp" /\ x.uuid = d.item.uuid
  BY <1>3 DEF Entries
<1>5. /\ handled' \in [Clients -> SUBSET (1..uuids)] /\ d.item.uuid \in handled'[c]
      /\ \A e \in Clients : handled[e] \subseteq handled'[e]
  BY <1>1, <1>3 DEF remembered, UuidInv, NetShape
<1>6. UNCHANGED <<todo, phase, net, uuids, runs>> /\ todo \in Seq(Tasks)
  BY DEF processDatagram, UuidInv, NetShape
<1> HIDE DEF x
<1>7. CASE x.uuid \notin handled[c] /\ queue' = [queue EXCEPT ![c] = Append(@, x)]
  BY <1>3, <1>4, <1>5, <1>6, <1>7, QueuedBehind
<1>8. CASE UNCHANGED queue
  <2>1. NetShape'
    BY <1>5, <1>6, <1>8 DEF UuidInv, NetShape, OfferItems
  <2>2. PhaseOfHead' /\ AgentKeeps' /\ OncePerUuid'
    BY <1>6, <1>8 DEF UuidInv, PhaseOfHead, AgentKeeps, OncePerUuid
  <2>3. ASSUME NEW e \in Clients PROVE UuidsKept(e)'
    <3>1. \A i : Accepted(e, i)' <=> Accepted(e, i)
      BY <1>8 DEF Accepted
    <3> QED BY <1>5, <1>6, <1>8, <3>1 DEF UuidInv, UuidsKept
  <2> QED BY <2>1, <2>2, <2>3 DEF UuidInv
<1> QED BY <1>1, <1>4, <1>7, <1>8 DEF x

(* Counting a part of the measurement u, which may be beyond the uuids that are counted. *)
LEMMA CountOne ==
  ASSUME NEW D, NEW f \in [D -> Nat], NEW u
  PROVE  /\ [f EXCEPT ![u] = f[u] + 1] \in [D -> Nat]
         /\ \A v \in D : v # u => [f EXCEPT ![u] = f[u] + 1][v] = f[v]
         /\ u \in D => [f EXCEPT ![u] = f[u] + 1][u] = f[u] + 1
<1>1. CASE u \in D
  <2>1. f[u] + 1 \in Nat
    BY <1>1
  <2> QED BY <1>1, <2>1
<1>2. CASE u \notin D
  BY <1>2
<1> QED BY <1>1, <1>2

(* establishConnection() makes a uuid that no one has heard of, and counts it as handled. *)
LEMMA EstablishUuid ==
  ASSUME UuidInv, NEW c \in Clients, establishConnection(c), conn' = conn
  PROVE  UuidInv'
<1> DEFINE u == uuids + 1
<1>1. /\ queue \in [Clients -> Seq(Entries)] /\ queue[c] \in Seq(Entries) /\ queue[c] # <<>>
      /\ phase \in [Clients -> {"none", "offer", "wait", "start", "prepare", "run"}]
      /\ phase[c] = "none" /\ uuids \in Nat /\ u \in Nat
      /\ handled \in [Clients -> SUBSET (1..uuids)] /\ runs \in [Clients -> [1..MaxTasks -> Nat]]
  BY DEF establishConnection, Running, UuidInv, NetShape
<1>2. /\ Len(queue[c]) \in Nat \ {0} /\ queue[c][1] \in Entries /\ queue[c][1].role = "ma"
      /\ Head(queue[c]) = queue[c][1]
  BY <1>1, TailOf DEF establishConnection
<1>3. /\ uuids' = u /\ handled' = [handled EXCEPT ![c] = @ \cup {u}]
      /\ runs' = [runs EXCEPT ![c][u] = @ + 1] /\ todo' = todo
      /\ \A d \in net' : d.what = "offer" => d \in net
  BY DEF establishConnection, remembered, datagram
<1>4. \/ /\ queue' = [queue EXCEPT ![c][1].uuid = u]
         /\ phase' = [phase EXCEPT ![c] = "offer"]
      \/ done(c)
  BY DEF establishConnection
<1>5. \A d \in Clients : d # c => /\ queue'[d] = queue[d] /\ phase'[d] = phase[d]
                                  /\ handled'[d] = handled[d] /\ runs'[d] = runs[d]
  BY <1>1, <1>3, <1>4 DEF done
<1>6. /\ handled' \in [Clients -> SUBSET (1..u)] /\ handled'[c] = handled[c] \cup {u}
      /\ u \notin handled[c]
  BY <1>1, <1>3
<1>7. /\ runs' \in [Clients -> [1..MaxTasks -> Nat]]
      /\ \A v \in 1..MaxTasks : v # u => runs'[c][v] = runs[c][v]
      /\ u \in 1..MaxTasks => runs[c][u] = 0 /\ runs'[c][u] = 1
  <2>1. u \in 1..MaxTasks => runs[c][u] = 0
    BY <1>6 DEF UuidInv, UuidsKept
  <2> DEFINE D == 1..MaxTasks
             f == runs[c]
             g == runs'[c]
  <2>2. f \in [D -> Nat] /\ g = [f EXCEPT ![u] = f[u] + 1]
    BY <1>1, <1>3
  <2>3. /\ g \in [D -> Nat] /\ \A v \in D : v # u => g[v] = f[v]
        /\ u \in D => g[u] = f[u] + 1
    <3> HIDE DEF u, D, f, g
    <3>1. /\ [f EXCEPT ![u] = f[u] + 1] \in [D -> Nat]
          /\ \A v \in D : v # u => [f EXCEPT ![u] = f[u] + 1][v] = f[v]
          /\ u \in D => [f EXCEPT ![u] = f[u] + 1][u] = f[u] + 1
      BY <2>2, CountOne, Zenon
    <3> QED BY <2>2, <3>1
  <2>4. runs' \in [Clients -> [1..MaxTasks -> Nat]]
    BY <1>1, <1>3, <2>3
  <2> QED BY <2>1, <2>3, <2>4
<1>8. /\ queue' \in [Clients -> Seq(Entries)]
      /\ phase' \in [Clients -> {"none", "offer", "wait", "start", "prepare", "run"}]
      /\ \A i \in Nat : Accepted(c, i)' => \E j \in Nat : Accepted(c, j) /\ queue'[c][i] = queue[c][j]
                             /\ (j = i \/ j = i + 1)
      /\ \A i, j \in Nat : Accepted(c, i)' /\ Accepted(c, j)'
             /\ queue'[c][i].uuid = queue'[c][j].uuid => i = j
      /\ queue'[c] = <<>> => phase'[c] = "none"
      /\ phase'[c] = "offer" => queue'[c][1].uuid = u
  <2>0. UuidsKept(c)
    BY DEF UuidInv
  <2>1. CASE queue' = [queue EXCEPT ![c][1].uuid = u] /\ phase' = [phase EXCEPT ![c] = "offer"]
    <3> DEFINE e == [queue[c][1] EXCEPT !.uuid = u]
    <3>1. e \in Entries /\ e.role = "ma" /\ e.uuid = u
      BY <1>1, <1>2 DEF Entries
    <3>2. queue'[c] = [queue[c] EXCEPT ![1] = e]
      BY <1>1, <2>1
    <3> HIDE DEF e
    <3>3. /\ queue'[c] \in Seq(Entries) /\ Len(queue'[c]) = Len(queue[c]) /\ queue'[c][1] = e
          /\ \A i \in 1..Len(queue[c]) : i # 1 => queue'[c][i] = queue[c][i]
      BY <1>1, <1>2, <3>1, <3>2
    <3>4. queue' \in [Clients -> Seq(Entries)]
      BY <1>1, <2>1, <3>3
    <3>5. \A i \in Nat : Accepted(c, i)' => Accepted(c, i) /\ queue'[c][i] = queue[c][i]
      BY <3>1, <3>3 DEF Accepted
    <3>6. \A i, j \in Nat : Accepted(c, i)' /\ Accepted(c, j)'
             /\ queue'[c][i].uuid = queue'[c][j].uuid => i = j
      BY <2>0, <3>5 DEF UuidsKept
    <3>7. queue'[c] # <<>>
      BY <1>2, <3>3
    <3> QED BY <1>1, <2>1, <3>1, <3>3, <3>4, <3>5, <3>6, <3>7
  <2>2. CASE done(c)
    <3>1. queue'[c] = Tail(queue[c]) /\ phase'[c] = "none"
      BY <1>1, <2>2 DEF done
    <3>2. /\ queue'[c] \in Seq(Entries) /\ Len(queue'[c]) = Len(queue[c]) - 1
          /\ \A i \in 1..Len(queue'[c]) : queue'[c][i] = queue[c][i + 1]
      BY <1>1, <3>1, TailOf
    <3>3. queue' \in [Clients -> Seq(Entries)]
          /\ phase' \in [Clients -> {"none", "offer", "wait", "start", "prepare", "run"}]
      BY <1>1, <2>2, <3>1, <3>2 DEF done
    <3>4. \A i \in Nat : Accepted(c, i)' => i + 1 \in Nat /\ Accepted(c, i + 1)
                                            /\ queue'[c][i] = queue[c][i + 1]
      BY <1>2, <3>2 DEF Accepted
    <3>5. \A i, j \in Nat : Accepted(c, i)' /\ Accepted(c, j)'
             /\ queue'[c][i].uuid = queue'[c][j].uuid => i = j
      BY <2>0, <3>4 DEF UuidsKept
    <3> QED BY <3>1, <3>3, <3>4, <3>5
  <2> QED BY <1>4, <2>1, <2>2
<1> HIDE DEF u
<1>9. NetShape'
  <2>1. \A y : y \in OfferItems => y \in OfferItems'
    BY <1>1, <1>3 DEF OfferItems, u
  <2>2. todo' \in Seq(Tasks) /\ \A d \in net' : d.what = "offer" => d.item \in OfferItems'
    BY <1>3, <2>1 DEF UuidInv, NetShape
  <2>3. handled' \in [Clients -> SUBSET (1..uuids')] /\ uuids' \in Nat
    BY <1>1, <1>3, <1>6
  <2> QED BY <1>7, <1>8, <2>2, <2>3 DEF NetShape
<1>10. PhaseOfHead' /\ AgentKeeps' /\ OncePerUuid'
  <2>1. PhaseOfHead'
    <3>1. u \in 1..u
      BY <1>1 DEF u
    <3>2. \A v \in 1..uuids : v \in 1..u
      BY <1>1 DEF u
    <3>3. ASSUME NEW d \in Clients, d # c
          PROVE  /\ queue'[d] = <<>> => phase'[d] = "none"
                 /\ phase'[d] = "offer" => queue'[d][1].uuid \in 1..u
      BY <1>5, <3>2, <3>3 DEF UuidInv, PhaseOfHead
    <3> QED BY <1>3, <1>8, <3>1, <3>3 DEF PhaseOfHead
  <2>2. AgentKeeps'
    <3>1. conn # NoConn => conn.a # c
      BY <1>1 DEF UuidInv, AgentKeeps
    <3> QED BY <1>5, <3>1 DEF UuidInv, AgentKeeps
  <2>3. OncePerUuid'
    BY <1>5, <1>7 DEF UuidInv, OncePerUuid
  <2> QED BY <2>1, <2>2, <2>3
<1>11. UuidsKept(c)'
  <2>1. UuidsKept(c)
    BY DEF UuidInv
  <2>2. \A i \in Nat : Accepted(c, i)' =>
          /\ queue'[c][i].uuid \in handled[c]
          /\ queue'[c][i].uuid \in 1..MaxTasks => runs[c][queue'[c][i].uuid] = 0
    BY <1>1, <1>8, <2>1 DEF UuidsKept
  <2>3. \A i \in Nat : Accepted(c, i)' =>
          (queue'[c][i].uuid \in 1..MaxTasks => runs'[c][queue'[c][i].uuid] = 0)
    BY <1>6, <1>7, <2>2
  <2>4. \A v \in 1..MaxTasks : runs'[c][v] # 0 => v \in handled'[c]
    BY <1>6, <1>7, <2>1 DEF UuidsKept
  <2> QED BY <1>6, <1>8, <2>2, <2>3, <2>4 DEF UuidsKept
<1>12. ASSUME NEW d \in Clients, d # c PROVE UuidsKept(d)'
  <2>1. \A i : Accepted(d, i)' <=> Accepted(d, i)
    BY <1>5, <1>12 DEF Accepted
  <2>2. UuidsKept(d)
    BY DEF UuidInv
  <2> QED BY <1>5, <1>12, <2>1, <2>2 DEF UuidsKept
<1> QED BY <1>9, <1>10, <1>11, <1>12 DEF UuidInv

(* The executor creates a peer's part: it was not counted, and no other of its uuid waits. *)
LEMMA CreatedUuid ==
  ASSUME UuidInv, NEW c \in Clients, created(c), conn' = conn
  PROVE  UuidInv'
<1> DEFINE u == queue[c][1].uuid
<1>1. /\ queue \in [Clients -> Seq(Entries)] /\ queue[c] \in Seq(Entries) /\ queue[c] # <<>>
      /\ phase \in [Clients -> {"none", "offer", "wait", "start", "prepare", "run"}]
      /\ phase[c] = "none" /\ uuids \in Nat /\ todo \in Seq(Tasks)
      /\ handled \in [Clients -> SUBSET (1..uuids)] /\ runs \in [Clients -> [1..MaxTasks -> Nat]]
  BY DEF created, Running, UuidInv, NetShape
<1>2. /\ Len(queue[c]) \in Nat \ {0} /\ queue[c][1] \in Entries /\ Head(queue[c]) = queue[c][1]
  BY <1>1, TailOf
<1>3. Accepted(c, 1) /\ UuidsKept(c)
  BY <1>2 DEF created, Accepted, UuidInv
<1>4. /\ runs' = [runs EXCEPT ![c][u] = @ + 1] /\ UNCHANGED <<todo, handled, uuids>>
      /\ \A d \in net' : d.what = "offer" => d \in net
  BY <1>2 DEF created, datagram
<1>5. goto(c, "prepare") \/ done(c)
  BY DEF created
<1>6. /\ u \in handled[c] /\ (u \in 1..MaxTasks => runs[c][u] = 0)
      /\ \A i \in Nat : Accepted(c, i) /\ i # 1 => queue[c][i].uuid # u
  BY <1>1, <1>3 DEF UuidsKept
<1>7. /\ runs' \in [Clients -> [1..MaxTasks -> Nat]]
      /\ \A v \in 1..MaxTasks : v # u => runs'[c][v] = runs[c][v]
      /\ u \in 1..MaxTasks => runs'[c][u] = 1
  <2> DEFINE D == 1..MaxTasks
             f == runs[c]
             g == runs'[c]
  <2>1. f \in [D -> Nat] /\ g = [f EXCEPT ![u] = f[u] + 1]
    BY <1>1, <1>4
  <2>2. /\ g \in [D -> Nat] /\ \A v \in D : v # u => g[v] = f[v]
        /\ u \in D => g[u] = f[u] + 1
    <3> HIDE DEF u, D, f, g
    <3>1. /\ [f EXCEPT ![u] = f[u] + 1] \in [D -> Nat]
          /\ \A v \in D : v # u => [f EXCEPT ![u] = f[u] + 1][v] = f[v]
          /\ u \in D => [f EXCEPT ![u] = f[u] + 1][u] = f[u] + 1
      BY <2>1, CountOne, Zenon
    <3> QED BY <2>1, <3>1
  <2>3. runs' \in [Clients -> [1..MaxTasks -> Nat]]
    BY <1>1, <1>4, <2>2
  <2> QED BY <1>6, <2>2, <2>3
<1> HIDE DEF u
<1>8. \A d \in Clients : d # c => queue'[d] = queue[d] /\ phase'[d] = phase[d] /\ runs'[d] = runs[d]
  BY <1>1, <1>4, <1>5 DEF done, goto
<1>9. /\ queue' \in [Clients -> Seq(Entries)]
      /\ phase' \in [Clients -> {"none", "offer", "wait", "start", "prepare", "run"}]
      /\ phase'[c] # "offer" /\ (queue'[c] = <<>> => phase'[c] = "none")
      /\ \A i \in Nat : Accepted(c, i)' =>
            \E k \in {0, 1} : /\ Accepted(c, i + k) /\ queue'[c][i] = queue[c][i + k]
                              /\ i > 1 \/ phase'[c] = "none" => i + k # 1
      /\ \A i, j \in Nat : Accepted(c, i)' /\ Accepted(c, j)'
             /\ queue'[c][i].uuid = queue'[c][j].uuid => i = j
  <2>1. CASE goto(c, "prepare")
    <3>1. queue' = queue /\ phase' = [phase EXCEPT ![c] = "prepare"]
      BY <2>1 DEF goto
    <3>2. \A i \in Nat : Accepted(c, i)' <=> Accepted(c, i)
      BY <3>1 DEF Accepted
    <3>3. phase'[c] = "prepare"
      BY <1>1, <3>1
    <3>4. \A i \in Nat : Accepted(c, i)' => Accepted(c, i + 0) /\ queue'[c][i] = queue[c][i + 0]
                              /\ (i > 1 \/ phase'[c] = "none" => i + 0 # 1)
      BY <3>1, <3>2, <3>3
    <3> QED BY <1>1, <1>3, <3>1, <3>2, <3>3, <3>4 DEF UuidsKept
  <2>2. CASE done(c)
    <3>1. queue'[c] = Tail(queue[c]) /\ phase'[c] = "none"
      BY <1>1, <2>2 DEF done
    <3>2. /\ queue'[c] \in Seq(Entries) /\ Len(queue'[c]) = Len(queue[c]) - 1
          /\ \A i \in 1..Len(queue'[c]) : queue'[c][i] = queue[c][i + 1]
      BY <1>1, <3>1, TailOf
    <3>3. queue' \in [Clients -> Seq(Entries)]
          /\ phase' \in [Clients -> {"none", "offer", "wait", "start", "prepare", "run"}]
      BY <1>1, <2>2, <3>1, <3>2 DEF done
    <3>4. \A i \in Nat : Accepted(c, i)' => i + 1 \in Nat /\ i + 1 # 1 /\ Accepted(c, i + 1)
                                            /\ queue'[c][i] = queue[c][i + 1]
      BY <1>2, <3>2 DEF Accepted
    <3>5. \A i, j \in Nat : Accepted(c, i)' /\ Accepted(c, j)'
             /\ queue'[c][i].uuid = queue'[c][j].uuid => i = j
      BY <1>3, <3>4 DEF UuidsKept
    <3> QED BY <3>1, <3>3, <3>4, <3>5
  <2> QED BY <1>5, <2>1, <2>2
<1>10. NetShape'
  <2>1. OfferItems' = OfferItems
    BY <1>4 DEF OfferItems
  <2>2. \A d \in net' : d.what = "offer" => d.item \in OfferItems'
    BY <1>4, <2>1 DEF UuidInv, NetShape
  <2> QED BY <1>1, <1>4, <1>7, <1>9, <2>2 DEF NetShape
<1>11. PhaseOfHead' /\ AgentKeeps' /\ OncePerUuid'
  <2>1. PhaseOfHead'
    BY <1>4, <1>8, <1>9 DEF UuidInv, PhaseOfHead
  <2>2. AgentKeeps'
    <3>1. conn # NoConn => conn.a # c
      BY <1>1 DEF UuidInv, AgentKeeps
    <3> QED BY <1>8, <3>1 DEF UuidInv, AgentKeeps
  <2>3. OncePerUuid'
    BY <1>7, <1>8 DEF UuidInv, OncePerUuid
  <2> QED BY <2>1, <2>2, <2>3
<1>12. UuidsKept(c)'
  <2>1. \A i \in Nat : i + 0 \in Nat /\ i + 1 \in Nat
    OBVIOUS
  <2>2. \A i \in Nat : Accepted(c, i)' => queue'[c][i].uuid \in handled'[c]
    BY <1>3, <1>4, <1>9, <2>1 DEF UuidsKept
  <2>3. \A i \in Nat : Accepted(c, i)' /\ (i > 1 \/ phase'[c] = "none") =>
          (queue'[c][i].uuid \in 1..MaxTasks => runs'[c][queue'[c][i].uuid] = 0)
    <3> SUFFICES ASSUME NEW i \in Nat, Accepted(c, i)', i > 1 \/ phase'[c] = "none",
                        queue'[c][i].uuid \in 1..MaxTasks
                 PROVE  runs'[c][queue'[c][i].uuid] = 0
      OBVIOUS
    <3>1. PICK k \in {0, 1} : Accepted(c, i + k) /\ queue'[c][i] = queue[c][i + k] /\ i + k # 1
      BY <1>9
    <3>2. i + k \in Nat /\ (i + k > 1 \/ phase[c] = "none")
      BY <1>1
    <3>3. queue'[c][i].uuid # u /\ runs[c][queue'[c][i].uuid] = 0
      BY <1>3, <1>6, <3>1, <3>2 DEF UuidsKept
    <3> QED BY <1>7, <3>3
  <2>4. \A v \in 1..MaxTasks : runs'[c][v] # 0 => v \in handled'[c]
    BY <1>3, <1>4, <1>6, <1>7 DEF UuidsKept
  <2> QED BY <1>9, <2>2, <2>3, <2>4 DEF UuidsKept
<1>13. ASSUME NEW d \in Clients, d # c PROVE UuidsKept(d)'
  <2>1. \A i : Accepted(d, i)' <=> Accepted(d, i)
    BY <1>8, <1>13 DEF Accepted
  <2>2. UuidsKept(d)
    BY DEF UuidInv
  <2> QED BY <1>4, <1>8, <1>13, <2>1, <2>2 DEF UuidsKept
<1> QED BY <1>10, <1>11, <1>12, <1>13 DEF UuidInv

(* The agent offers its own uuid, to whoever reads the datagram. *)
LEMMA SendOfferUuid ==
  ASSUME UuidInv, NEW c \in Clients, sendOffer(c), conn' = conn
  PROVE  UuidInv'
<1> DEFINE t == Head(queue[c])
           item == [kind |-> t.kind, uuid |-> t.uuid, port |-> t.port, from |-> c]
<1>1. Running(c) /\ phase[c] = "offer" /\ queue[c] \in Seq(Entries) /\ queue[c] # <<>>
      /\ UNCHANGED <<todo, handled, uuids, runs>>
  BY DEF sendOffer, Running, UuidInv, NetShape
<1>2. t \in Entries /\ t.uuid \in 1..uuids
  BY <1>1, TailOf DEF UuidInv, PhaseOfHead
<1>3. item \in OfferItems
  BY <1>2 DEF Entries, OfferItems
<1>4. CASE goto(c, "wait") /\ net' = net \cup {datagram("offer", d, item) : d \in Clients}
  <2>1. \A e \in net' : e \in net \/ e.item = item
    BY <1>4 DEF datagram
  <2> QED BY <1>1, <1>3, <1>4, <2>1, OneMoves
<1>5. CASE UNCHANGED <<net, queue, phase>>
  BY <1>1, <1>5, StillStep
<1> QED BY <1>4, <1>5 DEF sendOffer

(* The rest of prepare(): a connection, or the end on both sides. *)
LEMMA PrepareUuid ==
  ASSUME UuidInv, NEW c \in Clients, prepare(c)
  PROVE  UuidInv'
<1> DEFINE k == [open |-> TRUE, a |-> c, pre |-> TRUE, expected |-> 0,
                 request |-> 0, avail |-> 0, total |-> 0, got |-> 0,
                 valid |-> FALSE, samples |-> <<>>, sent |-> 0]
<1>1. /\ queue \in [Clients -> Seq(Entries)] /\ queue[c] \in Seq(Entries) /\ queue[c] # <<>>
      /\ phase \in [Clients -> {"none", "offer", "wait", "start", "prepare", "run"}]
      /\ queue[other(c)] # <<>> /\ other(c) \in Clients /\ other(c) # c
      /\ UNCHANGED <<todo, handled, uuids, runs, net>> /\ conn = NoConn
  BY OtherClient DEF prepare, Does, Listening, Running, UuidInv, NetShape
<1>2. queue[c][1].role = "ma"
  BY <1>1, TailOf DEF prepare, Does
<1>3. CASE goto(c, "run") /\ conn' = sendRequest(k, Initial)
  <2>1. GoesOn(c) /\ \A d \in Clients : d # c => Stays(d)
    BY <1>1, <1>3 DEF goto, GoesOn, Stays
  <2>2. queue' = [d \in Clients |-> queue'[d]] /\ phase' = [d \in Clients |-> phase'[d]]
    BY <1>1, <1>3 DEF goto
  <2>3. conn'.a = c
    BY <1>3 DEF sendRequest
  <2>4. AgentKeeps'
    BY <1>1, <1>2, <1>3, <2>3 DEF AgentKeeps, goto
  <2> QED BY <1>1, <2>1, <2>2, <2>4, QuietStep
<1>4. CASE /\ queue' = [queue EXCEPT ![c] = Tail(@), ![other(c)] = Tail(@)]
           /\ phase' = [d \in Clients |-> "none"] /\ conn' = conn
  <2>1. Clients = {c, other(c)}
    BY DEF Clients, other
  <2>2. queue'[c] = Tail(queue[c]) /\ queue'[other(c)] = Tail(queue[other(c)])
        /\ queue' = [d \in Clients |-> queue'[d]]
    BY <1>1, <1>4
  <2>3. \A d \in Clients : Drops(d)
    BY <1>1, <1>4, <2>1, <2>2 DEF Drops
  <2>4. AgentKeeps'
    BY <1>1, <1>4 DEF AgentKeeps
  <2>5. phase' = [d \in Clients |-> phase'[d]]
    BY <1>4
  <2> QED BY <1>1, <2>2, <2>3, <2>4, <2>5, QuietStep
<1> QED BY <1>3, <1>4 DEF prepare

(* An answer: the agent's connection goes on, or both measurements end. *)
LEMMA ResponseUuid ==
  ASSUME BtcInv, UuidInv, NEW c \in Clients, receiveResponse(c)
  PROVE  UuidInv'
<1>1. /\ conn \in Conns /\ conn # NoConn /\ Kept(conn) /\ queue[c] # <<>>
      /\ UNCHANGED <<todo, handled, uuids, runs, net>>
  BY DEF receiveResponse, AgentOf, BtcInv, ConnShape, Does, Running
<1>2. PICK n \in 1..conn.avail :
         IF response(n).total >= response(n).expected THEN calculateResult(c, response(n))
         ELSE conn' = response(n) /\ UNCHANGED <<queue, phase, charged, speeds>>
  BY DEF receiveResponse
<1> DEFINE k == response(n)
<1>3. k \in Conns /\ k.a = conn.a
  BY <1>1, Responded
<1> HIDE DEF k
<1>4. ASSUME conn'.a = conn.a, UNCHANGED <<queue, phase>> PROVE UuidInv'
  BY <1>1, <1>4, StillStep
<1>5. CASE bothDone(c)
  BY <1>1, <1>5, BothMove
<1>6. ASSUME NEW m \in Int, m \in Nat \/ answered(m) = 0, conn' = sendRequest([k EXCEPT !.pre = FALSE], m),
             UNCHANGED <<queue, phase>>
      PROVE  UuidInv'
  <2> DEFINE j == [k EXCEPT !.pre = FALSE]
  <2>1. j \in Conns /\ j.a = k.a
    BY <1>3 DEF Conns
  <2> HIDE DEF j
  <2>2. conn'.a = j.a
    BY <1>6, <2>1, Requested DEF j
  <2> QED BY <1>3, <1>4, <1>6, <2>1, <2>2
<1>7. CASE secondRequest(c, k)
  <2>1. PICK m \in Sizes \cup NotANumber :
           \/ conn' = sendRequest([k EXCEPT !.pre = FALSE], m) /\ UNCHANGED <<queue, phase>>
           \/ bothDone(c)
    BY <1>7, 0 \in NotANumber DEF secondRequest, NotANumber
  <2>2. m \in Int /\ (m \in Nat \/ answered(m) = 0)
    BY SizesAssumption, NothingAnswered
  <2> QED BY <1>5, <1>6, <2>1, <2>2
<1> QED BY <1>2, <1>3, <1>4, <1>5, <1>7 DEF calculateResult, k

(* Initially no uuid is made, nothing is queued and nothing offered. *)
LEMMA InitUuid == Init => UuidInv
<1> SUFFICES ASSUME Init PROVE UuidInv
  OBVIOUS
<1>1. todo \in Seq(Tasks)
  BY BoundsAssumption DEF Init, NetInit, Tasks, Kinds
<1>2. \A c \in Clients : queue[c] = <<>> /\ phase[c] = "none" /\ handled[c] = {}
  BY DEF Init, NetInit
<1>3. \A c \in Clients, u \in 1..MaxTasks : runs[c][u] = 0
  BY DEF Init, NetInit
<1>4. NetShape
  BY <1>1 DEF Init, NetInit, NetShape
<1>5. PhaseOfHead /\ AgentKeeps /\ OncePerUuid
  BY <1>2, <1>3 DEF PhaseOfHead, AgentKeeps, OncePerUuid, Init, BtcInit
<1>6. \A c \in Clients, i \in Nat : ~Accepted(c, i)
  BY <1>2 DEF Accepted
<1>7. \A c \in Clients : UuidsKept(c)
  BY <1>3, <1>6 DEF UuidsKept
<1> QED BY <1>4, <1>5, <1>7 DEF UuidInv

(* Every step of the two clients keeps the invariant of the uuids. *)
LEMMA StepUuid == BtcInv /\ UuidInv /\ [Next]_vars => UuidInv'
<1> SUFFICES ASSUME BtcInv, UuidInv, [Next]_vars PROVE UuidInv'
  OBVIOUS
<1>1. ASSUME NEW c \in Clients, NetNext(c), UNCHANGED <<btcVars, rec>> PROVE UuidInv'
  <2>0. conn' = conn
    BY <1>1 DEF btcVars
  <2>1. CASE newTask(c)
    BY <2>0, <2>1, NewTaskUuid
  <2>2. CASE establishConnection(c)
    BY <2>0, <2>2, EstablishUuid
  <2>3. CASE sendOffer(c)
    BY <2>0, <2>3, SendOfferUuid
  <2>4. CASE giveUp(c)
    BY <2>0, <2>4, OneMoves DEF giveUp
  <2>5. CASE acknowledged(c)
    BY <2>0, <2>5, OneMoves DEF acknowledged, Does
  <2>6. CASE processDatagram(c)
    BY <2>0, <2>6, OfferUuid
  <2>7. CASE created(c)
    BY <2>0, <2>7, CreatedUuid
  <2>8. CASE responseChanged(c)
    BY <2>0, <2>8, StillStep DEF responseChanged
  <2> QED BY <1>1, <2>1, <2>2, <2>3, <2>4, <2>5, <2>6, <2>7, <2>8 DEF NetNext, Connect
<1>2. ASSUME NEW c \in Clients, BtcNext(c) PROVE UuidInv'
  <2>1. CASE listen(c)
    BY <2>1, OneMoves DEF listen, Does, btcVars
  <2>2. CASE prepare(c)
    BY <2>2, PrepareUuid
  <2>3. CASE receiveResponse(c)
    BY <2>3, ResponseUuid
  <2>4. CASE handleError(c)
    BY <2>4, BothMove DEF handleError, AgentOf, Does, Running
  <2>5. CASE die(c)
    <3>1. UNCHANGED <<todo, handled, uuids, runs, net>>
      BY <2>5 DEF die
    <3>2. CASE conn # NoConn /\ conn.a = c /\ bothDone(c)
      <4>1. queue[c] # <<>>
        BY <3>2 DEF UuidInv, AgentKeeps, PhaseOfHead
      <4> QED BY <3>1, <3>2, <4>1, BothMove
    <3>3. CASE conn # NoConn /\ conn' = [conn EXCEPT !.open = FALSE] /\ UNCHANGED <<queue, phase>>
      <4>1. conn \in Conns
        BY <3>3 DEF BtcInv, ConnShape
      <4>2. conn'.a = conn.a
        BY <3>3, <4>1 DEF Conns
      <4> QED BY <3>1, <3>3, <4>2, StillStep
    <3>4. CASE UNCHANGED <<conn, queue, phase>>
      BY <3>1, <3>4, StillStep
    <3> QED BY <2>5, <3>2, <3>3, <3>4 DEF die
  <2> QED BY <1>2, <2>1, <2>2, <2>3, <2>4, <2>5 DEF BtcNext, BtcStep
<1>3. CASE receiveRequest
  <2>1. conn # NoConn /\ conn \in Conns
    BY <1>3 DEF receiveRequest, NoConn, BtcInv, ConnShape
  <2>2. conn'.a = conn.a /\ UNCHANGED <<todo, queue, phase, handled, uuids, runs, net>>
    BY <1>3, <2>1 DEF receiveRequest, netVars, Conns
  <2> QED BY <2>1, <2>2, StillStep
<1>4. ASSUME NEW c \in Clients, TrainStep(c) PROVE UuidInv'
  <2>1. CASE start(c)
    <3>1. \A d \in net' : d.what = "offer" => d \in net
      BY <2>1 DEF start, datagram
    <3> QED BY <2>1, <3>1, OneMoves DEF start, Does, btcVars
  <2>2. CASE startPeer(c)
    BY <2>2, OneMoves DEF startPeer, Does, btcVars
  <2>3. CASE eval(c)
    <3>1. CASE done(c)
      BY <2>3, <3>1, OneMoves DEF eval, Rating, Does, btcVars
    <3>2. CASE UNCHANGED <<queue, phase>>
      BY <2>3, <3>2, StillStep DEF eval, btcVars
    <3> QED BY <2>3, <3>1, <3>2 DEF eval
  <2>4. CASE timeout(c)
    BY <2>4, OneMoves DEF timeout, Rating, Does, btcVars
  <2> QED BY <1>4, <2>1, <2>2, <2>3, <2>4 DEF TrainStep
<1>5. ASSUME NEW c \in Clients, readPendingDatagrams(c) \/ readEmpty(c) PROVE UuidInv'
  BY <1>5, StillStep DEF readPendingDatagrams, readEmpty, btcVars
<1>6. CASE UNCHANGED vars
  BY <1>6, StillStep DEF vars, netVars, btcVars
<1> QED BY <1>1, <1>2, <1>3, <1>4, <1>5, <1>6 DEF Next

(***************************************************************************)
(* A client takes part in a measurement at most once, for any plan of      *)
(* tasks, although its offer may be lost, come twice, come late or come    *)
(* back to its sender: handledMeasureUuids.                                *)
(***************************************************************************)
THEOREM TakesPartOnce == Spec => []OncePerUuid
<1>1. UuidInv => OncePerUuid
  BY DEF UuidInv
<1> QED BY <1>1, InitUuid, StepUuid, BtcInvariance, PTL DEF Spec
=============================================================================
