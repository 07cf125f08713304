-------------------------- MODULE TracerouteProofs --------------------------
(* Proofs of the safety properties of Traceroute and of the Ping it uses,   *)
(* for every number of probes, every payload, any number of hops and all    *)
(* orders in which packets are captured.                                    *)
EXTENDS Traceroute, FiniteSetTheorems, WellFoundedInduction, TLAPS

(***************************************************************************)
(* Induction, stated with a set: the least number, the least counterexample.*)
(***************************************************************************)
LEMMA LeastNumber ==
  ASSUME NEW T \in SUBSET Nat, T # {}
  PROVE  \E m \in T : \A k \in T : m <= k
<1> DEFINE R == OpToRel(<, Nat)
<1>1. IsWellFoundedOn(R, Nat)
  BY NatLessThanWellFounded
<1>2. \A x, y \in Nat : y < x => <<y, x>> \in R
  BY DEF OpToRel
<1> HIDE DEF R
<1>3. PICK x \in T : \A y \in T : ~(<<y, x>> \in R)
  BY <1>1, WFMin
<1>4. \A y \in T : ~(y < x)
  BY <1>2, <1>3
<1>5. \A y \in T : x <= y
  BY <1>4
<1> QED BY <1>5

(* A set with 0 that has the successor of each of its numbers has all numbers. *)
LEMMA InductionOnSet ==
  ASSUME NEW T, 0 \in T, \A n \in Nat : n \in T => n + 1 \in T
  PROVE  \A n \in Nat : n \in T
<1> SUFFICES ASSUME Nat \ T # {} PROVE FALSE
  OBVIOUS
<1>1. PICK m \in Nat \ T : \A k \in Nat \ T : m <= k
  BY LeastNumber
<1>2. m # 0 /\ m - 1 \in Nat /\ m - 1 \in T
  BY <1>1
<1> QED BY <1>1, <1>2

(* Min of a set of numbers that is not empty is one of them. *)
LEMMA MinMember == ASSUME NEW T \in SUBSET Nat, T # {} PROVE Min(T) \in T
<1>1. \E m \in T : \A k \in T : m <= k
  BY LeastNumber
<1> QED BY <1>1 DEF Min

-----------------------------------------------------------------------------
(***************************************************************************)
(* The matching of captured packets.  A pass goes over the packets; what   *)
(* it has done is the value of a recursive function at the last of them.   *)
(***************************************************************************)
Passed(g, ps, ty, pass, first, n) ==
  g = [k \in 0..n |-> IF k = 0 THEN first ELSE The({pairUp(ps, ty, pass, acc, k) : acc \in {g[k - 1]}})]

(* The recursion of a pass has a solution, for any number of packets. *)
LEMMA PassedExists ==
  ASSUME NEW ps, NEW ty, NEW pass, NEW first
  PROVE  \A n \in Nat : \E g : Passed(g, ps, ty, pass, first, n)
<1> DEFINE T == {n \in Nat : \E g : Passed(g, ps, ty, pass, first, n)}
           New(a, k) == The({pairUp(ps, ty, pass, acc, k) : acc \in {a}})
<1>1. 0 \in T
  <2> DEFINE g == [k \in 0..0 |-> first]
  <2>1. g = [k \in 0..0 |-> IF k = 0 THEN first ELSE New(g[k - 1], k)]
    <3> HIDE DEF New
    <3> QED OBVIOUS
  <2> HIDE DEF g
  <2>2. Passed(g, ps, ty, pass, first, 0)
    BY <2>1, Zenon DEF Passed
  <2> QED BY <2>2
<1>2. ASSUME NEW n \in Nat, n \in T PROVE n + 1 \in T
  <2>1. PICK g : Passed(g, ps, ty, pass, first, n)
    BY <1>2
  <2> DEFINE h == [k \in 0..(n + 1) |-> IF k = n + 1 THEN New(g[n], n + 1) ELSE g[k]]
  <2>2. \A k \in 0..n : g[k] = IF k = 0 THEN first ELSE New(g[k - 1], k)
    BY <2>1, Zenon DEF Passed
  <2> HIDE DEF New
  <2>3. \A k \in 0..n : h[k] = g[k]
    OBVIOUS
  <2>4. h[n + 1] = New(g[n], n + 1)
    OBVIOUS
  <2>5. ASSUME NEW k \in 0..(n + 1) PROVE h[k] = IF k = 0 THEN first ELSE New(h[k - 1], k)
    <3> HIDE DEF h
    <3>1. CASE k = n + 1
      <4>1. k - 1 = n /\ k # 0 /\ n \in 0..n
        BY <3>1
      <4>2. h[k - 1] = g[n]
        BY <2>3, <4>1
      <4> QED BY <2>4, <3>1, <4>1, <4>2
    <3>2. CASE k \in 0..n /\ k # 0
      <4>1. k - 1 \in 0..n
        BY <3>2
      <4>2. h[k] = g[k] /\ h[k - 1] = g[k - 1]
        BY <2>3, <3>2, <4>1
      <4> QED BY <2>2, <3>2, <4>2
    <3>3. CASE k = 0
      <4>1. h[0] = g[0] /\ g[0] = first
        BY <2>2, <2>3
      <4> QED BY <3>3, <4>1
    <3> QED BY <3>1, <3>2, <3>3
  <2>6. h = [k \in 0..(n + 1) |-> IF k = 0 THEN first ELSE New(h[k - 1], k)]
    BY <2>5
  <2>7. Passed(h, ps, ty, pass, first, n + 1)
    BY <2>6, Zenon DEF Passed, New
  <2> QED BY <2>7
<1> HIDE DEF T
<1>3. \A n \in Nat : n \in T
  BY <1>1, <1>2, InductionOnSet
<1> QED BY <1>3 DEF T

(* The only member of a set with one member. *)
LEMMA OnlyMember ==
  /\ \A x : The({x}) = x
  /\ \A ps, ty, pass, a, k : The({pairUp(ps, ty, pass, acc, k) : acc \in {a}}) = pairUp(ps, ty, pass, a, k)
<1>1. \A x : The({x}) = x
  BY DEF The
<1>2. ASSUME NEW ps, NEW ty, NEW pass, NEW a, NEW k
      PROVE  The({pairUp(ps, ty, pass, acc, k) : acc \in {a}}) = pairUp(ps, ty, pass, a, k)
  <2>1. {pairUp(ps, ty, pass, acc, k) : acc \in {a}} = {pairUp(ps, ty, pass, a, k)}
    OBVIOUS
  <2> QED BY <1>1, <2>1, Zenon
<1> QED BY <1>1, <1>2

(* A pass is the last of a chain of calls of pairUp, one for each packet in order. *)
LEMMA PassChain ==
  ASSUME NEW ps, NEW ty, NEW pass, NEW first, Len(ps) \in Nat
  PROVE  \E g : /\ g[0] = first /\ Pass(ps, ty, pass, first) = g[Len(ps)]
                /\ \A k \in 1..Len(ps) : g[k] = pairUp(ps, ty, pass, g[k - 1], k)
<1> DEFINE g == CHOOSE g : Passed(g, ps, ty, pass, first, Len(ps))
<1>1. Passed(g, ps, ty, pass, first, Len(ps))
  BY PassedExists
<1>2. Pass(ps, ty, pass, first) = g[Len(ps)]
  BY Zenon DEF Pass, Passed
<1> HIDE DEF g
<1>3. \A k \in 0..Len(ps) : g[k] = IF k = 0 THEN first ELSE The({pairUp(ps, ty, pass, acc, k) : acc \in {g[k - 1]}})
  BY <1>1, Zenon DEF Passed
<1>4. 0 \in 0..Len(ps) /\ \A k \in 1..Len(ps) : k \in 0..Len(ps) /\ k # 0
  OBVIOUS
<1>5. g[0] = first
  BY <1>3, <1>4, Zenon
<1>6. \A k \in 1..Len(ps) : g[k] = pairUp(ps, ty, pass, g[k - 1], k)
  <2> SUFFICES ASSUME NEW k \in 1..Len(ps) PROVE g[k] = pairUp(ps, ty, pass, g[k - 1], k)
    OBVIOUS
  <2> DEFINE a == g[k - 1]
  <2>1. g[k] = The({pairUp(ps, ty, pass, acc, k) : acc \in {a}})
    BY <1>3, <1>4
  <2> HIDE DEF a
  <2>2. The({pairUp(ps, ty, pass, acc, k) : acc \in {a}}) = pairUp(ps, ty, pass, a, k)
    BY OnlyMember
  <2>3. g[k] = pairUp(ps, ty, pass, a, k)
    BY <2>1, <2>2
  <2> QED BY <2>3 DEF a
<1> QED BY <1>2, <1>5, <1>6

(* A response that fits in one of the passes is not a request. *)
LEMMA FitsIsNoRequest ==
  ASSUME NEW ty, NEW pass \in Passes(ty), NEW p, NEW q, fits(pass, p, q)
  PROVE  ~isRequest(q, ty)
<1>1. CASE ty = "Udp"
  <2>1. pass \in {"hash", "udp"}
    BY <1>1 DEF Passes
  <2>2. q.type = "ICMP" \/ q.response = "udp"
    BY <2>1 DEF fits
  <2> QED BY <1>1, <2>2 DEF isRequest
<1>2. CASE ty # "Udp"
  <2>1. pass \in {"tcp", "icmp"}
    BY <1>2 DEF Passes
  <2>2. q.type = "ICMP" \/ q.response \in TcpResponses
    BY <2>1 DEF fits
  <2> QED BY <1>2, <2>2 DEF isRequest
<1> QED BY <1>1, <1>2

(* The pairs r are the given pairs and one more. *)
OneMore(D, pairs, x, y, r) ==
  /\ r \in Seq(D \X D) /\ Len(pairs) \in Nat /\ Len(r) = Len(pairs) + 1
  /\ Used(r, 1) = Used(pairs, 1) \cup {x} /\ Used(r, 2) = Used(pairs, 2) \cup {y}
  /\ \A n \in DOMAIN r : (n \in DOMAIN pairs /\ r[n] = pairs[n]) \/ r[n] = <<x, y>>

(* One pair more: what the pairs use. *)
LEMMA UsedAppend ==
  ASSUME NEW D, NEW pairs, pairs \in Seq(D \X D), NEW x, x \in D, NEW y, y \in D
  PROVE  OneMore(D, pairs, x, y, Append(pairs, <<x, y>>))
<1> DEFINE qs == Append(pairs, <<x, y>>)
           m == Len(pairs)
<1>1. /\ qs \in Seq(D \X D) /\ m \in Nat /\ Len(qs) = m + 1
      /\ DOMAIN pairs = 1..m /\ DOMAIN qs = 1..(m + 1)
      /\ qs[m + 1] = <<x, y>> /\ \A n \in 1..m : qs[n] = pairs[n]
  OBVIOUS
<1>2. \A n \in 1..(m + 1) : n \in 1..m \/ n = m + 1
  BY <1>1
<1>3. m + 1 \in 1..(m + 1) /\ \A n \in 1..m : n \in 1..(m + 1)
  BY <1>1
<1> HIDE DEF qs, m
<1>4. ASSUME NEW k, NEW z, <<x, y>>[k] = z PROVE Used(qs, k) = Used(pairs, k) \cup {z}
  <2>1. \A v : v \in Used(qs, k) <=> \E n \in 1..(m + 1) : v = qs[n][k]
    BY <1>1 DEF Used
  <2>2. \A v : v \in Used(pairs, k) <=> \E n \in 1..m : v = pairs[n][k]
    BY <1>1 DEF Used
  <2>3. \A v : (\E n \in 1..(m + 1) : v = qs[n][k]) <=> (\E n \in 1..m : v = pairs[n][k]) \/ v = z
    BY <1>1, <1>2, <1>3, <1>4, Zenon
  <2> QED BY <2>1, <2>2, <2>3
<1>5. Used(qs, 1) = Used(pairs, 1) \cup {x} /\ Used(qs, 2) = Used(pairs, 2) \cup {y}
  <2>1. <<x, y>>[1] = x /\ <<x, y>>[2] = y
    OBVIOUS
  <2> QED BY <1>4, <2>1
<1>6. \A n \in DOMAIN qs : (n \in DOMAIN pairs /\ qs[n] = pairs[n]) \/ qs[n] = <<x, y>>
  BY <1>1, <1>2, Zenon
<1>7. OneMore(D, pairs, x, y, qs)
  BY <1>1, <1>5, <1>6, Zenon DEF OneMore, m
<1> QED BY <1>7 DEF qs

(* What the proofs need of a list of packets. *)
IsList(ps) == Len(ps) \in Nat /\ DOMAIN ps = 1..Len(ps)

(***************************************************************************)
(* What every pass keeps: the pairs are of a request and a response that   *)
(* fits it, no packet is in two of them, and the marked packets are those  *)
(* of the pairs.                                                           *)
(***************************************************************************)
Paired(ps, ty, a) ==
  /\ a.pairs \in Seq((DOMAIN ps) \X (DOMAIN ps))
  /\ a.marked = Used(a.pairs, 1) \cup Used(a.pairs, 2)
  /\ Used(a.pairs, 1) \subseteq Requests(ps, ty)
  /\ Used(a.pairs, 2) \subseteq DOMAIN ps \ Requests(ps, ty)
  /\ \A n \in DOMAIN a.pairs : \E pass \in Passes(ty) : fits(pass, ps[a.pairs[n][1]], ps[a.pairs[n][2]])
  /\ \A k \in {1, 2} : IsFiniteSet(Used(a.pairs, k)) /\ Cardinality(Used(a.pairs, k)) = Len(a.pairs)

(* A request is left alone by a pass only when no response is left that fits it. *)
Exhausted(ps, ty, pass, a, k) ==
  k \in Requests(ps, ty) \ a.marked => \A j \in DOMAIN ps \ a.marked : ~fits(pass, ps[k], ps[j])

(* The k-th packet in a pass. *)
LEMMA PairUpKeeps ==
  ASSUME NEW ps, IsList(ps), NEW ty, NEW pass \in Passes(ty),
         NEW a, Paired(ps, ty, a), NEW k \in DOMAIN ps
  PROVE  LET b == pairUp(ps, ty, pass, a, k) IN
         Paired(ps, ty, b) /\ a.marked \subseteq b.marked /\ Exhausted(ps, ty, pass, b, k)
<1> DEFINE qs == {j \in DOMAIN ps \ a.marked : fits(pass, ps[k], ps[j])}
           y == Min(qs)
           b == pairUp(ps, ty, pass, a, k)
<1>1. CASE k \in a.marked \/ ~isRequest(ps[k], ty) \/ qs = {}
  <2>1. b = a
    BY <1>1, Zenon DEF pairUp
  <2>2. Exhausted(ps, ty, pass, a, k)
    BY <1>1 DEF Exhausted, Requests
  <2> QED BY <2>1, <2>2
<1>2. CASE k \notin a.marked /\ isRequest(ps[k], ty) /\ qs # {}
  <2>1. b = [marked |-> a.marked \cup {k, y}, pairs |-> Append(a.pairs, <<k, y>>)]
    BY <1>2, Zenon DEF pairUp
  <2>2. y \in qs
    <3>1. qs \in SUBSET Nat
      BY DEF IsList
    <3> HIDE DEF qs
    <3> QED BY <1>2, <3>1, MinMember
  <2>3. y \in DOMAIN ps /\ y \notin a.marked /\ fits(pass, ps[k], ps[y]) /\ ~isRequest(ps[y], ty)
    BY <2>2, FitsIsNoRequest
  <2> HIDE DEF qs, y
  <2>4. b.marked = a.marked \cup {k, y} /\ b.pairs = Append(a.pairs, <<k, y>>)
    BY <2>1
  <2> HIDE DEF b
  <2>5. a.pairs \in Seq((DOMAIN ps) \X (DOMAIN ps)) /\ a.marked = Used(a.pairs, 1) \cup Used(a.pairs, 2)
    BY DEF Paired
  <2>6. /\ b.pairs \in Seq((DOMAIN ps) \X (DOMAIN ps)) /\ Len(a.pairs) \in Nat /\ Len(b.pairs) = Len(a.pairs) + 1
        /\ Used(b.pairs, 1) = Used(a.pairs, 1) \cup {k} /\ Used(b.pairs, 2) = Used(a.pairs, 2) \cup {y}
        /\ \A n \in DOMAIN b.pairs : (n \in DOMAIN a.pairs /\ b.pairs[n] = a.pairs[n]) \/ b.pairs[n] = <<k, y>>
    <3> DEFINE D == DOMAIN ps
               q == a.pairs
    <3>1. q \in Seq(D \X D) /\ k \in D /\ y \in D
      BY <2>3, <2>5, Zenon
    <3>2. b.pairs = Append(q, <<k, y>>)
      BY <2>4, Zenon
    <3> HIDE DEF D, q
    <3>3. OneMore(D, q, k, y, Append(q, <<k, y>>))
      BY <3>1, UsedAppend, Zenon
    <3>4. OneMore(D, q, k, y, b.pairs)
      BY <3>2, <3>3, Zenon
    <3> QED BY <3>4, Zenon DEF D, q, OneMore
  <2>7. b.marked = Used(b.pairs, 1) \cup Used(b.pairs, 2)
    BY <2>4, <2>5, <2>6
  <2>8. Used(b.pairs, 1) \subseteq Requests(ps, ty) /\ Used(b.pairs, 2) \subseteq DOMAIN ps \ Requests(ps, ty)
    BY <1>2, <2>3, <2>6 DEF Paired, Requests
  <2>9. \A n \in DOMAIN b.pairs : \E w \in Passes(ty) : fits(w, ps[b.pairs[n][1]], ps[b.pairs[n][2]])
    <3>1. <<k, y>>[1] = k /\ <<k, y>>[2] = y
      OBVIOUS
    <3> QED BY <2>3, <2>6, <3>1, Zenon DEF Paired
  <2>10. \A n \in {1, 2} : IsFiniteSet(Used(b.pairs, n)) /\ Cardinality(Used(b.pairs, n)) = Len(b.pairs)
    <3>1. /\ IsFiniteSet(Used(a.pairs, 1)) /\ Cardinality(Used(a.pairs, 1)) = Len(a.pairs)
          /\ IsFiniteSet(Used(a.pairs, 2)) /\ Cardinality(Used(a.pairs, 2)) = Len(a.pairs)
      BY Zenon DEF Paired
    <3>2. k \notin Used(a.pairs, 1) /\ y \notin Used(a.pairs, 2)
      BY <1>2, <2>3, <2>5
    <3>3. IsFiniteSet(Used(b.pairs, 1)) /\ Cardinality(Used(b.pairs, 1)) = Len(a.pairs) + 1
      BY <2>6, <3>1, <3>2, FS_AddElement
    <3>4. IsFiniteSet(Used(b.pairs, 2)) /\ Cardinality(Used(b.pairs, 2)) = Len(a.pairs) + 1
      BY <2>6, <3>1, <3>2, FS_AddElement
    <3> QED BY <2>6, <3>3, <3>4
  <2>11. Paired(ps, ty, b)
    BY <2>6, <2>7, <2>8, <2>9, <2>10, Zenon DEF Paired
  <2>12. a.marked \subseteq b.marked /\ Exhausted(ps, ty, pass, b, k)
    BY <2>4 DEF Exhausted
  <2> QED BY <2>11, <2>12 DEF b
<1> QED BY <1>1, <1>2

(* A pass over all packets: what the pass before it has exhausted stays exhausted. *)
LEMMA PassKeeps ==
  ASSUME NEW ps, IsList(ps), NEW ty, NEW pass \in Passes(ty),
         NEW first, Paired(ps, ty, first)
  PROVE  LET b == Pass(ps, ty, pass, first) IN
         /\ Paired(ps, ty, b) /\ first.marked \subseteq b.marked
         /\ \A k \in DOMAIN ps : Exhausted(ps, ty, pass, b, k)
<1>1. PICK g : /\ g[0] = first /\ Pass(ps, ty, pass, first) = g[Len(ps)]
               /\ \A k \in 1..Len(ps) : g[k] = pairUp(ps, ty, pass, g[k - 1], k)
  BY PassChain DEF IsList
<1> DEFINE Good(a, n) == /\ Paired(ps, ty, a) /\ first.marked \subseteq a.marked
                         /\ \A k \in DOMAIN ps : k <= n => Exhausted(ps, ty, pass, a, k)
           T == {n \in Nat : n <= Len(ps) => Good(g[n], n)}
<1>2. 0 \in T
  <2>1. \A k \in DOMAIN ps : ~(k <= 0)
    BY DEF IsList
  <2>2. Good(first, 0)
    BY <2>1
  <2> HIDE DEF Good
  <2> QED BY <1>1, <2>2
<1>3. ASSUME NEW n \in Nat, n \in T PROVE n + 1 \in T
  <2> SUFFICES ASSUME n + 1 <= Len(ps) PROVE Good(g[n + 1], n + 1)
    OBVIOUS
  <2>1. n <= Len(ps) /\ n + 1 \in DOMAIN ps /\ n + 1 \in 1..Len(ps) /\ (n + 1) - 1 = n
    BY DEF IsList
  <2>2. Good(g[n], n)
    BY <1>3, <2>1
  <2> DEFINE a == g[n]
             b == g[n + 1]
  <2>3. b = pairUp(ps, ty, pass, a, n + 1)
    BY <1>1, <2>1, Zenon
  <2>4. Paired(ps, ty, b) /\ a.marked \subseteq b.marked /\ Exhausted(ps, ty, pass, b, n + 1)
    BY <2>1, <2>2, <2>3, PairUpKeeps
  <2>5. ASSUME NEW k \in DOMAIN ps, k <= n + 1 PROVE Exhausted(ps, ty, pass, b, k)
    <3>1. CASE k = n + 1
      BY <2>4, <3>1
    <3>2. CASE k <= n
      <4>1. Exhausted(ps, ty, pass, a, k)
        BY <2>2, <3>2
      <4> HIDE DEF a, b
      <4> QED BY <2>4, <4>1 DEF Exhausted
    <3>3. k \in Nat
      BY DEF IsList
    <3> QED BY <2>5, <3>1, <3>2, <3>3
  <2>6. first.marked \subseteq b.marked
    BY <2>2, <2>4
  <2> QED BY <2>4, <2>5, <2>6
<1> HIDE DEF T
<1>4. Len(ps) \in T
  BY <1>2, <1>3, InductionOnSet DEF IsList
<1>5. Len(ps) <= Len(ps) /\ \A k \in DOMAIN ps : k <= Len(ps)
  BY DEF IsList
<1>6. Good(g[Len(ps)], Len(ps))
  BY <1>4, <1>5 DEF T
<1> QED BY <1>1, <1>5, <1>6

(***************************************************************************)
(* The two passes, in any order: a complete matching, for any packets.     *)
(***************************************************************************)
LEMMA MatchedPaired ==
  ASSUME NEW ps, IsList(ps), NEW ty \in {"Udp", "Tcp"}
  PROVE  \E a : /\ matched(ps, ty) = a.pairs /\ Paired(ps, ty, a)
                /\ \A pass \in Passes(ty), k \in DOMAIN ps : Exhausted(ps, ty, pass, a, k)
<1>1. Paired(ps, ty, Unmarked)
  <2>1. Unmarked.marked = {} /\ Unmarked.pairs = <<>>
    BY DEF Unmarked
  <2>2. <<>> \in Seq((DOMAIN ps) \X (DOMAIN ps)) /\ DOMAIN <<>> = {} /\ Len(<<>>) = 0
    OBVIOUS
  <2>3. \A k : Used(<<>>, k) = {}
    BY <2>2 DEF Used
  <2> QED BY <2>1, <2>2, <2>3, FS_EmptySet DEF Paired
<1>2. ASSUME NEW one, NEW two, Passes(ty) = {one, two},
             matched(ps, ty) = The({Pass(ps, ty, two, first).pairs : first \in {Pass(ps, ty, one, Unmarked)}})
      PROVE  \E a : /\ matched(ps, ty) = a.pairs /\ Paired(ps, ty, a)
                    /\ \A pass \in Passes(ty), k \in DOMAIN ps : Exhausted(ps, ty, pass, a, k)
  <2> DEFINE a == Pass(ps, ty, one, Unmarked)
             b == Pass(ps, ty, two, a)
  <2>1. Paired(ps, ty, a) /\ \A k \in DOMAIN ps : Exhausted(ps, ty, one, a, k)
    BY <1>1, <1>2, PassKeeps
  <2>2. /\ Paired(ps, ty, b) /\ a.marked \subseteq b.marked
        /\ \A k \in DOMAIN ps : Exhausted(ps, ty, two, b, k)
    BY <1>2, <2>1, PassKeeps
  <2>3. matched(ps, ty) = b.pairs
    <3>1. {Pass(ps, ty, two, first).pairs : first \in {Pass(ps, ty, one, Unmarked)}} = {b.pairs}
      OBVIOUS
    <3> QED BY <1>2, <3>1, OnlyMember
  <2> HIDE DEF a, b
  <2>4. \A k \in DOMAIN ps : Exhausted(ps, ty, one, b, k)
    BY <2>1, <2>2 DEF Exhausted
  <2> QED BY <1>2, <2>2, <2>3, <2>4
<1>3. CASE ty = "Udp"
  BY <1>2, <1>3 DEF matched, processUdpPackets, Passes
<1>4. CASE ty = "Tcp"
  BY <1>2, <1>4 DEF matched, processTcpPackets, Passes
<1> QED BY <1>3, <1>4


(* The pairs made of captured packets are a complete matching in which no packet is used twice. *)
LEMMA MatchedIsMatching ==
  ASSUME NEW ps, IsList(ps), NEW ty \in {"Udp", "Tcp"}
  PROVE  IsMatching(ps, ty, matched(ps, ty))
<1>1. PICK a : /\ matched(ps, ty) = a.pairs /\ Paired(ps, ty, a)
               /\ \A pass \in Passes(ty), k \in DOMAIN ps : Exhausted(ps, ty, pass, a, k)
  BY MatchedPaired
<1> DEFINE q == a.pairs
<1>2. /\ a.marked = Used(q, 1) \cup Used(q, 2)
      /\ Used(q, 1) \subseteq Requests(ps, ty) /\ Used(q, 2) \subseteq DOMAIN ps \ Requests(ps, ty)
      /\ \A n \in DOMAIN q : \E pass \in Passes(ty) : fits(pass, ps[q[n][1]], ps[q[n][2]])
      /\ Cardinality(Used(q, 1)) = Len(q) /\ Cardinality(Used(q, 2)) = Len(q)
  BY <1>1, Zenon DEF Paired
<1> HIDE DEF q
<1>3. ASSUME NEW x \in Requests(ps, ty) \ Used(q, 1), NEW y \in DOMAIN ps \ Used(q, 2), NEW pass \in Passes(ty)
      PROVE  ~fits(pass, ps[x], ps[y])
  <2>1. x \in DOMAIN ps /\ x \in Requests(ps, ty) \ a.marked
    BY <1>2 DEF Requests
  <2>2. CASE y \in Used(q, 1)
    <3>1. isRequest(ps[y], ty)
      BY <1>2, <2>2 DEF Requests
    <3> QED BY <3>1, FitsIsNoRequest
  <2>3. CASE y \notin Used(q, 1)
    <3>1. y \in DOMAIN ps \ a.marked
      BY <1>2, <2>3
    <3>2. Exhausted(ps, ty, pass, a, x)
      BY <1>1, <2>1
    <3> QED BY <2>1, <3>1, <3>2, Zenon DEF Exhausted
  <2> QED BY <2>2, <2>3
<1>4. Used(q, 1) \cap Used(q, 2) = {}
  BY <1>2
<1>5. IsMatching(ps, ty, q)
  BY <1>2, <1>3, <1>4, Zenon DEF IsMatching
<1> QED BY <1>1, <1>5, Zenon DEF q

(* What is needed of the pairs to count: no more than requests. *)
LEMMA MatchedCounts ==
  ASSUME NEW ps, IsList(ps), NEW ty \in {"Udp", "Tcp"}
  PROVE  LET q == matched(ps, ty) IN
         /\ Len(q) \in Nat /\ DOMAIN q = 1..Len(q) /\ IsFiniteSet(Requests(ps, ty))
         /\ Cardinality(Requests(ps, ty)) \in Nat /\ Len(q) <= Cardinality(Requests(ps, ty))
<1> DEFINE q == matched(ps, ty)
<1>1. PICK a : q = a.pairs /\ Paired(ps, ty, a)
  BY MatchedPaired
<1> HIDE DEF q
<1>2. /\ q \in Seq((DOMAIN ps) \X (DOMAIN ps))
      /\ Used(q, 1) \subseteq Requests(ps, ty) /\ Cardinality(Used(q, 1)) = Len(q)
  BY <1>1, Zenon DEF Paired
<1>3. Len(q) \in Nat /\ DOMAIN q = 1..Len(q)
  BY <1>2
<1>4. IsFiniteSet(Requests(ps, ty))
  <2>1. IsFiniteSet(1..Len(ps)) /\ Requests(ps, ty) \subseteq 1..Len(ps)
    BY FS_Interval DEF IsList, Requests
  <2> QED BY <2>1, FS_Subset
<1>5. Cardinality(Requests(ps, ty)) \in Nat /\ Cardinality(Used(q, 1)) <= Cardinality(Requests(ps, ty))
  BY <1>2, <1>4, FS_Subset, FS_CardinalityType
<1> QED BY <1>2, <1>3, <1>4, <1>5 DEF q

(***************************************************************************)
(* The responses that are announced: a recursive function over the pairs.  *)
(***************************************************************************)
Announcing(g, ps, pairs, n) ==
  g = [k \in 0..n |-> IF k = 0 THEN <<>>
                      ELSE LET r == ps[pairs[k][2]].response IN
                           IF r \in Announced THEN Append(g[k - 1], r) ELSE g[k - 1]]

(* The recursion over the pairs has a solution, for any number of pairs. *)
LEMMA AnnouncingExists ==
  ASSUME NEW ps, NEW pairs
  PROVE  \A n \in Nat : \E g : Announcing(g, ps, pairs, n)
<1> DEFINE T == {n \in Nat : \E g : Announcing(g, ps, pairs, n)}
           r(k) == ps[pairs[k][2]].response
           New(a, k) == IF r(k) \in Announced THEN Append(a, r(k)) ELSE a
<1>1. 0 \in T
  <2> DEFINE g == [k \in 0..0 |-> <<>>]
  <2>1. g = [k \in 0..0 |-> IF k = 0 THEN <<>> ELSE New(g[k - 1], k)]
    <3> HIDE DEF New
    <3> QED OBVIOUS
  <2> HIDE DEF g
  <2>2. Announcing(g, ps, pairs, 0)
    BY <2>1, Zenon DEF Announcing
  <2> QED BY <2>2
<1>2. ASSUME NEW n \in Nat, n \in T PROVE n + 1 \in T
  <2>1. PICK g : Announcing(g, ps, pairs, n)
    BY <1>2
  <2> DEFINE h == [k \in 0..(n + 1) |-> IF k = n + 1 THEN New(g[n], n + 1) ELSE g[k]]
  <2>2. \A k \in 0..n : g[k] = IF k = 0 THEN <<>> ELSE New(g[k - 1], k)
    BY <2>1, Zenon DEF Announcing
  <2> HIDE DEF New
  <2>3. \A k \in 0..n : h[k] = g[k]
    OBVIOUS
  <2>4. h[n + 1] = New(g[n], n + 1)
    OBVIOUS
  <2>5. ASSUME NEW k \in 0..(n + 1) PROVE h[k] = IF k = 0 THEN <<>> ELSE New(h[k - 1], k)
    <3> HIDE DEF h
    <3>1. CASE k = n + 1
      <4>1. k - 1 = n /\ k # 0 /\ n \in 0..n
        BY <3>1
      <4>2. h[k - 1] = g[n]
        BY <2>3, <4>1
      <4> QED BY <2>4, <3>1, <4>1, <4>2
    <3>2. CASE k \in 0..n /\ k # 0
      <4>1. k - 1 \in 0..n
        BY <3>2
      <4>2. h[k] = g[k] /\ h[k - 1] = g[k - 1]
        BY <2>3, <3>2, <4>1
      <4> QED BY <2>2, <3>2, <4>2
    <3>3. CASE k = 0
      <4>1. 0 \in 0..n /\ h[0] = g[0] /\ g[0] = <<>>
        BY <2>2, <2>3
      <4> QED BY <3>3, <4>1
    <3> QED BY <3>1, <3>2, <3>3
  <2>6. h = [k \in 0..(n + 1) |-> IF k = 0 THEN <<>> ELSE New(h[k - 1], k)]
    BY <2>5
  <2>7. Announcing(h, ps, pairs, n + 1)
    BY <2>6, Zenon DEF Announcing, New
  <2> QED BY <2>7
<1> HIDE DEF T
<1>3. \A n \in Nat : n \in T
  BY <1>1, <1>2, InductionOnSet
<1> QED BY <1>3 DEF T

(* No more responses are announced than there are pairs. *)
LEMMA ResponsesCounted ==
  ASSUME NEW ps, NEW pairs, Len(pairs) \in Nat
  PROVE  Len(responses(ps, pairs)) \in 0..Len(pairs)
<1> DEFINE g == CHOOSE g : Announcing(g, ps, pairs, Len(pairs))
           r(k) == ps[pairs[k][2]].response
<1>1. Announcing(g, ps, pairs, Len(pairs))
  BY AnnouncingExists
<1>2. responses(ps, pairs) = g[Len(pairs)]
  BY Zenon DEF responses, Announcing
<1> HIDE DEF g
<1>3. \A k \in 0..Len(pairs) : g[k] = IF k = 0 THEN <<>> ELSE IF r(k) \in Announced THEN Append(g[k - 1], r(k)) ELSE g[k - 1]
  BY <1>1, Zenon DEF Announcing
<1> DEFINE T == {n \in Nat : n <= Len(pairs) => g[n] \in Seq(Announced) /\ Len(g[n]) <= n}
<1>4. 0 \in T
  <2>1. g[0] = <<>>
    BY <1>3
  <2>2. <<>> \in Seq(Announced) /\ Len(<<>>) = 0
    OBVIOUS
  <2>3. g[0] \in Seq(Announced) /\ Len(g[0]) <= 0
    BY <2>1, <2>2
  <2> QED BY <2>3
<1>5. ASSUME NEW n \in Nat, n \in T PROVE n + 1 \in T
  <2> SUFFICES ASSUME n + 1 <= Len(pairs) PROVE g[n + 1] \in Seq(Announced) /\ Len(g[n + 1]) <= n + 1
    OBVIOUS
  <2> DEFINE a == g[n]
             b == g[n + 1]
  <2>1. a \in Seq(Announced) /\ Len(a) <= n
    BY <1>5
  <2>2. n + 1 \in 0..Len(pairs) /\ n + 1 # 0 /\ (n + 1) - 1 = n
    OBVIOUS
  <2> HIDE DEF r
  <2>3. b = IF r(n + 1) \in Announced THEN Append(a, r(n + 1)) ELSE a
    BY <1>3, <2>2
  <2> HIDE DEF a, b
  <2>4. CASE r(n + 1) \in Announced
    BY <2>1, <2>3, <2>4 DEF b
  <2>5. CASE r(n + 1) \notin Announced
    BY <2>1, <2>3, <2>5 DEF b
  <2> QED BY <2>4, <2>5
<1> HIDE DEF T
<1>6. Len(pairs) \in T
  BY <1>4, <1>5, InductionOnSet
<1>7. g[Len(pairs)] \in Seq(Announced) /\ Len(g[Len(pairs)]) <= Len(pairs)
  BY <1>6 DEF T
<1> DEFINE w == g[Len(pairs)]
<1>8. Len(w) \in Nat
  <2> HIDE DEF w
  <2>1. w \in Seq(Announced)
    BY <1>7 DEF w
  <2> QED BY <2>1
<1> QED BY <1>2, <1>7, <1>8

-----------------------------------------------------------------------------
(***************************************************************************)
(* Captured packets as probes.                                             *)
(***************************************************************************)
Captures == [type : {"UDP", "TCP", "ICMP"}, response : Kinds \cup {"none", "INVALID_ICMP", "UNHANDLED_ICMP"},
             hash : Nat, sendTime : BOOLEAN, recvTime : BOOLEAN]

(* Every packet that passes the filter becomes a probe, and only our own are requests. *)
LEMMA ProbeOfPacket ==
  ASSUME NEW kind \in filter(type, SamePorts), NEW n \in Nat
  PROVE  /\ probeOf(kind, n) \in Captures
         /\ type \in {"Udp", "Tcp"} /\ kind # "request" => ~isRequest(probeOf(kind, n), type)
<1> DEFINE p == [kind |-> kind, probe |-> n]
<1>1. p.kind = kind /\ p.probe = n /\ kind \in Kinds
  BY DEF filter, Kinds, Icmp
<1>2. ASSUME NEW ty \in {"UDP", "TCP", "ICMP"}, NEW re, NEW ha \in Nat, NEW st \in BOOLEAN, NEW rt \in BOOLEAN,
             re \in Kinds \/ re \in {"none", "INVALID_ICMP", "UNHANDLED_ICMP"}
      PROVE  /\ Probe(ty, re, ha, st, rt) \in Captures
             /\ Probe(ty, re, ha, st, rt).type = ty /\ Probe(ty, re, ha, st, rt).response = re
  BY <1>2 DEF Probe, Captures
<1> HIDE DEF p
<1>3. icmpProbe(p) \in Captures /\ icmpProbe(p).type = "ICMP"
  <2>1. {"unreach", "ttl"} \subseteq Kinds /\ 0 \in Nat
    BY DEF Kinds
  <2>2. /\ Probe("ICMP", "unreach", n, FALSE, TRUE) \in Captures
        /\ Probe("ICMP", "unreach", n, FALSE, TRUE).type = "ICMP"
    BY <2>1 DEF Probe, Captures
  <2>3. Probe("ICMP", "ttl", n, FALSE, TRUE) \in Captures /\ Probe("ICMP", "ttl", n, FALSE, TRUE).type = "ICMP"
    BY <2>1 DEF Probe, Captures
  <2>4. /\ Probe("ICMP", "INVALID_ICMP", n, FALSE, FALSE) \in Captures
        /\ Probe("ICMP", "INVALID_ICMP", n, FALSE, FALSE).type = "ICMP"
    BY <2>1 DEF Probe, Captures
  <2>5. /\ Probe("ICMP", "UNHANDLED_ICMP", 0, FALSE, FALSE) \in Captures
        /\ Probe("ICMP", "UNHANDLED_ICMP", 0, FALSE, FALSE).type = "ICMP"
    BY <2>1 DEF Probe, Captures
  <2>6. icmpProbe(p) \in {Probe("ICMP", "unreach", n, FALSE, TRUE), Probe("ICMP", "ttl", n, FALSE, TRUE),
                          Probe("ICMP", "INVALID_ICMP", n, FALSE, FALSE), Probe("ICMP", "UNHANDLED_ICMP", 0, FALSE, FALSE)}
    BY <1>1 DEF icmpProbe
  <2> QED BY <2>2, <2>3, <2>4, <2>5, <2>6
<1>4. /\ handleIpv4Response(p, type) \in Captures
      /\ type \in {"Udp", "Tcp"} /\ kind # "request" => ~isRequest(handleIpv4Response(p, type), type)
  <2>1. CASE kind \in Icmp
    <3>1. handleIpv4Response(p, type) = icmpProbe(p)
      BY <1>1, <2>1 DEF handleIpv4Response
    <3> QED BY <1>3, <2>1, <3>1 DEF isRequest
  <2>2. CASE kind \notin Icmp /\ type = "Udp"
    <3>1. kind = "request"
      BY <2>2 DEF filter
    <3>2. handleIpv4Response(p, type) = Probe("UDP", "none", n, TRUE, FALSE)
      BY <1>1, <2>2, <3>1 DEF handleIpv4Response
    <3>3. Probe("UDP", "none", n, TRUE, FALSE) \in Captures
      BY <1>2
    <3> QED BY <3>1, <3>2, <3>3
  <2>3. CASE kind \notin Icmp /\ type # "Udp"
    <3>1. handleIpv4Response(p, type) =
            IF kind = "request" THEN Probe("TCP", "none", 0, TRUE, FALSE) ELSE Probe("TCP", kind, 0, FALSE, TRUE)
      BY <1>1, <2>3 DEF handleIpv4Response
    <3>2. /\ Probe("TCP", "none", 0, TRUE, FALSE) \in Captures
          /\ Probe("TCP", kind, 0, FALSE, TRUE) \in Captures /\ Probe("TCP", kind, 0, FALSE, TRUE).response = kind
      <4>1. 0 \in Nat /\ "TCP" \in {"UDP", "TCP", "ICMP"} /\ "none" \in {"none", "INVALID_ICMP", "UNHANDLED_ICMP"}
        OBVIOUS
      <4>2. Probe("TCP", "none", 0, TRUE, FALSE) \in Captures
        BY <1>2, <4>1
      <4>3. /\ Probe("TCP", kind, 0, FALSE, TRUE) \in Captures
            /\ Probe("TCP", kind, 0, FALSE, TRUE).response = kind
        <5>1. kind \in Kinds
          BY <1>1
        <5> QED BY <4>1, <5>1 DEF Probe, Captures
      <4> QED BY <4>2, <4>3
    <3>3. kind # "request" => kind \in TcpResponses
      BY <2>3 DEF filter, TcpResponses
    <3>4. type = "Tcp" /\ kind # "request" => ~isRequest(handleIpv4Response(p, type), type)
      BY <3>1, <3>2, <3>3 DEF isRequest
    <3> QED BY <2>3, <3>1, <3>2, <3>4
  <2> QED BY <2>1, <2>2, <2>3
<1>5. /\ handleIpv6Response(p, type, Neighbour) \in Captures
      /\ type \in {"Udp", "Tcp"} /\ kind # "request" => ~isRequest(handleIpv6Response(p, type, Neighbour), type)
  BY <1>1, <1>2, <1>4 DEF handleIpv6Response
<1> QED BY <1>4, <1>5 DEF probeOf, p

(* The captured requests are finitely many. *)
LEMMA RequestsCounted ==
  ASSUME NEW ps \in Seq(Captures), NEW ty
  PROVE  IsList(ps) /\ IsFiniteSet(Requests(ps, ty)) /\ Cardinality(Requests(ps, ty)) \in Nat
<1>1. IsList(ps) /\ Len(ps) \in Nat
  BY DEF IsList
<1>2. IsFiniteSet(1..Len(ps)) /\ Requests(ps, ty) \subseteq 1..Len(ps)
  BY <1>1, FS_Interval DEF IsList, Requests
<1> QED BY <1>1, <1>2, FS_Subset, FS_CardinalityType

(* One captured packet more: at most one request more, and only if it is one. *)
LEMMA RequestsOfAppend ==
  ASSUME NEW ps \in Seq(Captures), NEW x \in Captures, NEW ty
  PROVE  /\ keep(ps, x) \in Seq(Captures) /\ IsList(ps)
         /\ IsFiniteSet(Requests(ps, ty)) /\ Cardinality(Requests(ps, ty)) \in Nat
         /\ Cardinality(Requests(keep(ps, x), ty)) \in Nat
         /\ Cardinality(Requests(keep(ps, x), ty)) <= Cardinality(Requests(ps, ty)) + 1
         /\ ~isRequest(x, ty) => Cardinality(Requests(keep(ps, x), ty)) = Cardinality(Requests(ps, ty))
<1>1. IsList(ps) /\ Len(ps) \in Nat
  BY DEF IsList
<1>2. IsFiniteSet(Requests(ps, ty)) /\ Cardinality(Requests(ps, ty)) \in Nat
  BY RequestsCounted
<1>3. CASE keep(ps, x) = ps
  BY <1>1, <1>2, <1>3
<1>4. CASE keep(ps, x) = Append(ps, x)
  <2> DEFINE m == Len(ps) + 1
             qs == Append(ps, x)
  <2>1. qs \in Seq(Captures) /\ DOMAIN qs = (DOMAIN ps) \cup {m} /\ qs[m] = x /\ \A k \in DOMAIN ps : qs[k] = ps[k]
    BY <1>1
  <2> HIDE DEF m, qs
  <2>2. CASE isRequest(x, ty)
    <3>1. Requests(qs, ty) = Requests(ps, ty) \cup {m}
      BY <2>1, <2>2 DEF Requests
    <3>2. m \notin Requests(ps, ty)
      BY <1>1 DEF Requests, IsList, m
    <3>3. Cardinality(Requests(qs, ty)) = Cardinality(Requests(ps, ty)) + 1
      BY <1>2, <3>1, <3>2, FS_AddElement
    <3> QED BY <1>1, <1>2, <1>4, <2>1, <2>2, <3>3 DEF qs
  <2>3. CASE ~isRequest(x, ty)
    <3>1. Requests(qs, ty) = Requests(ps, ty)
      BY <2>1, <2>3 DEF Requests
    <3> QED BY <1>1, <1>2, <1>4, <2>1, <3>1 DEF qs
  <2> QED BY <2>2, <2>3
<1> QED BY <1>3, <1>4 DEF keep

(* The corrected number of answers is a number, and not more than was counted. *)
LEMMA EvaluatedBounded ==
  ASSUME NEW answers \in Nat, NEW bad \in Nat
  PROVE  evaluated(answers, bad) \in Nat /\ evaluated(answers, bad) <= answers
BY DEF evaluated

-----------------------------------------------------------------------------
(***************************************************************************)
(* The inductive invariant of Ping, in three parts.  An answer that is not *)
(* yet counted belongs to a probe that was sent: the one that is waited    *)
(* for, a captured request, or one still on its way to the capture.  What  *)
(* was charged covers the probes that were sent and those that this start  *)
(* of the Ping may still send.                                             *)
(***************************************************************************)
PingTyped ==
  /\ platform \in {"linux", "osx", "win"} /\ type \in {"Udp", "Tcp", "System"}
  /\ i \in Nat /\ sent \in Nat /\ received \in Nat /\ pingTime \in Nat /\ charged \in Nat
  /\ probes \in [Classes -> Nat]
  /\ captured \in Seq(Captures) /\ onWire \in SUBSET Nat /\ pending \in SUBSET Nat /\ IsFiniteSet(onWire)
  /\ pc \in {"ready", "send", "receive"} => i < Count
  /\ pc \in {"send", "wait"} => type \in {"Udp", "Tcp"}
  /\ pc \in {"process", "output"} => type = "System"

CapturedRequests == Cardinality(Requests(captured, type))

AnswersCounted ==
  /\ received <= sent
  /\ pc = "receive" => received + 1 <= sent
  /\ pc = "poll" /\ platform = "osx" => received + 1 <= sent
  /\ pc = "output" => pingTime <= Count
  /\ platform = "win" /\ pc \in {"send", "wait"} => received + CapturedRequests + Cardinality(onWire) <= sent

OneProbe == 2 * 14 + 2 * (8 + Payload)
ProbesLeft == IF pc \in {"ready", "send"} THEN Count - i ELSE IF pc = "receive" THEN Count - (i + 1) ELSE 0
ChargeCovers == type = "Udp" /\ EstimateFits => (sent + ProbesLeft) * OneProbe <= charged

PingInv == PingTyped /\ AnswersCounted /\ ChargeCovers

(* Products of numbers of probes with the bytes of one. *)
LEMMA Products ==
  ASSUME NEW a \in Nat, NEW b \in Nat, NEW k \in Nat
  PROVE  a * k \in Nat /\ (a + b) * k = a * k + b * k /\ (a <= b => a * k <= b * k)
<1>1. a * k \in Nat /\ b * k \in Nat /\ (a + b) * k = a * k + b * k
  OBVIOUS
<1>2. ASSUME a <= b PROVE a * k <= b * k
  <2>1. b - a \in Nat /\ b = a + (b - a)
    BY <1>2
  <2> DEFINE d == b - a
  <2> HIDE DEF d
  <2>2. d \in Nat /\ b = a + d
    BY <2>1 DEF d
  <2>3. (a + d) * k = a * k + d * k /\ d * k \in Nat
    BY <2>2
  <2> QED BY <1>1, <2>2, <2>3
<1> QED BY <1>1, <1>2

(* The bytes of a probe, and the number of probes left. *)
LEMMA ChargeTyped ==
  /\ OneProbe \in Nat /\ Count \in Nat /\ 0 < Count /\ Payload \in Nat
  /\ PingTyped => ProbesLeft \in Nat
<1>1. OneProbe \in Nat /\ Count \in Nat /\ 0 < Count /\ Payload \in Nat
  BY PingConstants DEF OneProbe
<1>2. ASSUME PingTyped PROVE ProbesLeft \in Nat
  <2>1. i \in Nat /\ (pc \in {"ready", "send", "receive"} => i < Count)
    BY <1>2 DEF PingTyped
  <2> QED BY <1>1, <2>1 DEF ProbesLeft
<1> QED BY <1>1, <1>2

(* The charge still covers the probes when their number does not grow. *)
LEMMA ChargeKept ==
  ASSUME PingInv, PingTyped', type' = type, charged' = charged,
         type = "Udp" => sent' + ProbesLeft' <= sent + ProbesLeft
  PROVE  ChargeCovers'
<1> SUFFICES ASSUME type = "Udp", EstimateFits PROVE (sent' + ProbesLeft') * OneProbe <= charged
  BY DEF ChargeCovers, OneProbe
<1>1. OneProbe \in Nat /\ ProbesLeft \in Nat /\ sent \in Nat /\ charged \in Nat
  BY ChargeTyped DEF PingInv, PingTyped
<1>2. ProbesLeft' \in Nat /\ sent' \in Nat
  <2>1. (PingTyped => ProbesLeft \in Nat)'
    BY ChargeTyped, PTL
  <2> QED BY <2>1 DEF PingTyped
<1> DEFINE a == sent' + ProbesLeft'
           b == sent + ProbesLeft
<1>3. a \in Nat /\ b \in Nat /\ a <= b
  <2>1. a <= b
    BY Zenon
  <2>2. \A x, y \in Nat : x + y \in Nat
    OBVIOUS
  <2>3. a \in Nat /\ b \in Nat
    BY <1>1, <1>2, <2>2, Zenon
  <2> QED BY <2>1, <2>3
<1>4. b * OneProbe <= charged
  BY DEF PingInv, ChargeCovers
<1> HIDE DEF a, b
<1>5. a * OneProbe \in Nat /\ b * OneProbe \in Nat /\ a * OneProbe <= b * OneProbe
  BY <1>1, <1>3, Products
<1>6. a * OneProbe <= charged
  BY <1>1, <1>4, <1>5
<1> QED BY <1>6 DEF a

(* The bytes of one probe: at least its headers and payload, at most those of IPv6 with its answer. *)
LEMMA ProbeBytes ==
  ASSUME PingTyped, NEW icmp \in Nat
  PROVE  /\ probeBytes(family, icmp) \in Nat
         /\ type = "Udp" => /\ OneProbe <= probeBytes(family, icmp)
                            /\ probeBytes(family, icmp) <= 2 * 14 + 2 * 40 + 2 * (8 + Payload) + 56
<1> DEFINE each == probeBytes(family, icmp)  h == HeaderBytes(family)
<1>1. h \in Nat /\ 28 <= h /\ h <= 2 * 14 + 2 * 40
  BY DEF HeaderBytes
<1>2. Payload \in Nat
  BY ChargeTyped
<1>3. CASE type = "Udp"
  <2>1. each \in {h + (2 * (8 + Payload) + 36), h + (2 * (8 + Payload) + 56), h + (2 * (8 + Payload) + 0)}
    BY <1>3 DEF probeBytes
  <2> HIDE DEF each, h
  <2> QED BY <1>1, <1>2, <2>1 DEF OneProbe, each
<1>4. CASE type # "Udp"
  <2>1. type \in {"Tcp", "System"}
    BY <1>4 DEF PingTyped
  <2>2. each \in {h + 124, h + 154, h + 0, h + icmp}
    BY <1>4, <2>1 DEF probeBytes
  <2> HIDE DEF each, h
  <2> QED BY <1>1, <1>4, <2>2 DEF each
<1> QED BY <1>3, <1>4

(* The estimate of a start is a number and, when it fits, covers the bytes of all its probes. *)
LEMMA EstimateCovers ==
  ASSUME PingTyped
  PROVE  estimate \in Nat /\ (type = "Udp" /\ EstimateFits => Count * OneProbe <= estimate)
<1>1. PICK icmp \in Nat : estimate = (Count * probeBytes(family, icmp)) % UintRange
  BY 40 \in Nat, 64 \in Nat, Zenon DEF estimate, estimateTraffic, estimateTraffic_osx, estimateTraffic_win
<1> DEFINE each == probeBytes(family, icmp)
           most == 2 * 14 + 2 * 40 + 2 * (8 + Payload) + 56
<1>2. each \in Nat /\ (type = "Udp" => OneProbe <= each /\ each <= most)
  BY ProbeBytes
<1>3. Count \in Nat /\ OneProbe \in Nat /\ most \in Nat /\ UintRange \in Nat /\ UintRange > 0
  BY ChargeTyped, PingConstants
<1>4. EstimateFits => Count * most < UintRange
  BY DEF EstimateFits
<1>5. estimate = (Count * each) % UintRange
  BY <1>1
<1> HIDE DEF each, most
<1>6. Count * each \in Nat /\ Count * OneProbe \in Nat /\ Count * most \in Nat
  BY <1>2, <1>3, Products
<1>7. \A n \in Nat, r \in Nat : r > 0 => n % r \in Nat /\ (n < r => n % r = n)
  OBVIOUS
<1>8. estimate \in Nat /\ (Count * each < UintRange => estimate = Count * each)
  BY <1>3, <1>5, <1>6, <1>7, Zenon
<1>9. ASSUME type = "Udp", EstimateFits PROVE Count * OneProbe <= estimate
  <2>1. /\ OneProbe * Count <= each * Count /\ each * Count <= most * Count
        /\ each * Count = Count * each /\ OneProbe * Count = Count * OneProbe /\ most * Count = Count * most
    BY <1>2, <1>3, <1>9, Products
  <2> DEFINE x == Count * each  y == Count * most  z == Count * OneProbe
  <2>2. x \in Nat /\ y \in Nat /\ z \in Nat /\ z <= x /\ x <= y /\ y < UintRange
    BY <1>4, <1>6, <1>9, <2>1
  <2>3. x < UintRange => estimate = x
    BY <1>8
  <2> HIDE DEF x, y, z
  <2>4. z <= estimate
    BY <1>3, <2>2, <2>3
  <2> QED BY <2>4 DEF z
<1> QED BY <1>8, <1>9

(* A prepared Ping has charged all its probes and sent none of them. *)
LEMMA PrepareKeeps == ASSUME PingInv, prepare PROVE PingInv'
<1>1. PICK addresses, mayFail : mayFail \subseteq {"refused"} /\ prepareWith(addresses, mayFail)
  BY DEF prepare, prepare_linux, prepare_osx, prepare_win
<1>2. /\ UNCHANGED <<chosen, socks, counters, capture>> /\ i' = 0
      /\ \/ pc' = "refused" /\ charged' = charged
         \/ pc' \in {"ready", "refused"} /\ charged' = charged + estimate
  BY <1>1 DEF prepareWith
<1>3. /\ platform' = platform /\ type' = type /\ probes' = probes /\ sent' = sent /\ received' = received
      /\ pingTime' = pingTime /\ captured' = captured /\ onWire' = onWire /\ pending' = pending
  BY <1>2 DEF chosen, counters, capture
<1>4. PingTyped
  BY DEF PingInv
<1>5. estimate \in Nat /\ (type = "Udp" /\ EstimateFits => Count * OneProbe <= estimate)
  BY <1>4, EstimateCovers
<1>6. charged' \in Nat
  BY <1>2, <1>4, <1>5 DEF PingTyped
<1>7. pc' \in {"ready", "refused"}
  BY <1>2
<1>8. 0 \in Nat /\ 0 < Count
  BY ChargeTyped
<1>9. PingTyped'
  BY <1>2, <1>3, <1>4, <1>6, <1>7, <1>8 DEF PingTyped
<1>10. AnswersCounted'
  <2>1. received <= sent
    BY DEF PingInv, AnswersCounted
  <2>2. pc' # "receive" /\ pc' # "poll" /\ pc' # "output" /\ pc' # "send" /\ pc' # "wait"
    BY <1>7
  <2> QED BY <1>3, <2>1, <2>2 DEF AnswersCounted
<1>11. ChargeCovers'
  <2>1. CASE charged' = charged /\ pc' = "refused"
    <3>1. ProbesLeft' = 0
      BY <2>1 DEF ProbesLeft
    <3>2. ProbesLeft \in Nat /\ sent \in Nat
      BY <1>4, ChargeTyped DEF PingTyped
    <3>3. sent + 0 <= sent + ProbesLeft
      BY <3>2
    <3>4. sent' + ProbesLeft' <= sent + ProbesLeft
      BY <1>3, <3>1, <3>3, Zenon
    <3> QED BY <1>3, <1>9, <2>1, <3>4, ChargeKept
  <2>2. CASE charged' = charged + estimate
    <3> SUFFICES ASSUME type = "Udp", EstimateFits PROVE (sent + ProbesLeft') * OneProbe <= charged + estimate
      BY <1>3, <2>2 DEF ChargeCovers, OneProbe
    <3> DEFINE c == charged
               e == estimate
               s == sent
               left == ProbesLeft
    <3>1. c \in Nat /\ e \in Nat /\ s \in Nat /\ left \in Nat /\ OneProbe \in Nat /\ Count \in Nat
      BY <1>4, <1>5, ChargeTyped DEF PingTyped
    <3>2. Count * OneProbe <= e /\ (s + left) * OneProbe <= c
      BY <1>5 DEF PingInv, ChargeCovers
    <3>3. ProbesLeft' \in {0, Count}
      <4>1. Count - 0 = Count
        BY <3>1
      <4> QED BY <1>2, <1>7, <4>1, Zenon DEF ProbesLeft
    <3> HIDE DEF c, e, s, left
    <3>4. /\ s * OneProbe \in Nat /\ (s + left) * OneProbe \in Nat /\ Count * OneProbe \in Nat
          /\ s * OneProbe <= (s + left) * OneProbe /\ (s + Count) * OneProbe = s * OneProbe + Count * OneProbe
      BY <3>1, Products
    <3>5. (s + 0) * OneProbe <= c + e /\ (s + Count) * OneProbe <= c + e
      BY <3>1, <3>2, <3>4
    <3> QED BY <3>3, <3>5, Zenon DEF c, e, s
  <2> QED BY <1>2, <2>1, <2>2
<1> QED BY <1>9, <1>10, <1>11 DEF PingInv

(* Starting changes no counter, and the capture begins with nothing. *)
LEMMA StartKeeps == ASSUME PingInv, start PROVE PingInv'
<1>1. /\ pc = "ready" /\ UNCHANGED <<chosen, family, i, counters, charged>>
      /\ start_linux \/ start_osx \/ start_win
  BY DEF start
<1>2. /\ platform' = platform /\ type' = type /\ probes' = probes /\ sent' = sent /\ received' = received
      /\ pingTime' = pingTime /\ i' = i /\ charged' = charged
  BY <1>1 DEF chosen, counters
<1>3. /\ pc' \in {"process", "send", "failed"}
      /\ (pc' = "send" => type # "System") /\ (pc' = "process" => type = "System")
      /\ \/ captured' = captured /\ onWire' = onWire /\ pending' = pending
         \/ captured' = <<>> /\ onWire' = {} /\ pending' = {}
      /\ platform = "win" /\ pc' = "send" => captured' = <<>> /\ onWire' = {}
  <2>1. CASE start_linux
    BY <2>1 DEF start_linux, startProcess, capture
  <2>2. CASE start_osx
    BY <2>2 DEF start_osx, startProcess, opened, capture
  <2>3. CASE start_win
    BY <2>3 DEF start_win, startProcess, capture
  <2> QED BY <1>1, <2>1, <2>2, <2>3
<1>4. PingTyped /\ i < Count
  BY <1>1 DEF PingInv, PingTyped
<1>5. captured' \in Seq(Captures) /\ onWire' \in SUBSET Nat /\ pending' \in SUBSET Nat /\ IsFiniteSet(onWire')
  <2>1. <<>> \in Seq(Captures) /\ {} \in SUBSET Nat /\ IsFiniteSet({})
    BY FS_EmptySet
  <2>2. captured \in Seq(Captures) /\ onWire \in SUBSET Nat /\ pending \in SUBSET Nat /\ IsFiniteSet(onWire)
    BY <1>4 DEF PingTyped
  <2> QED BY <1>3, <2>1, <2>2
<1>6. /\ pc' \in {"send", "wait"} => type \in {"Udp", "Tcp"}
      /\ pc' \in {"process", "output"} => type = "System"
  BY <1>3, <1>4 DEF PingTyped
<1>7. PingTyped'
  BY <1>2, <1>4, <1>5, <1>6 DEF PingTyped
<1>8. AnswersCounted'
  <2>1. received <= sent /\ received \in Nat /\ sent \in Nat
    BY <1>4 DEF PingInv, AnswersCounted, PingTyped
  <2>2. pc' # "receive" /\ pc' # "poll" /\ pc' # "output" /\ pc' # "wait"
    BY <1>3
  <2>3. platform = "win" /\ pc' = "send" => received + CapturedRequests' + Cardinality(onWire') <= sent
    <3> SUFFICES ASSUME platform = "win", pc' = "send" PROVE received + CapturedRequests' + Cardinality(onWire') <= sent
      OBVIOUS
    <3>1. captured' = <<>> /\ onWire' = {}
      BY <1>3
    <3>2. Requests(<<>>, type') = {}
      BY DEF Requests
    <3>3. CapturedRequests' = 0 /\ Cardinality(onWire') = 0
      BY <3>1, <3>2, FS_EmptySet DEF CapturedRequests
    <3> QED BY <2>1, <3>3
  <2> QED BY <1>2, <2>1, <2>2, <2>3 DEF AnswersCounted
<1>9. ChargeCovers'
  <2>1. ProbesLeft' = ProbesLeft \/ ProbesLeft' = 0
    BY <1>1, <1>2, <1>3 DEF ProbesLeft
  <2>2. ProbesLeft \in Nat /\ sent \in Nat
    BY <1>4, ChargeTyped DEF PingTyped
  <2>3. sent + 0 <= sent + ProbesLeft /\ sent + ProbesLeft <= sent + ProbesLeft
    BY <2>2
  <2>4. sent' + ProbesLeft' <= sent + ProbesLeft
    BY <1>2, <2>1, <2>3, Zenon
  <2> QED BY <1>2, <1>7, <2>4, ChargeKept
<1> QED BY <1>7, <1>8, <1>9 DEF PingInv

-----------------------------------------------------------------------------
(***************************************************************************)
(* The loop of Linux and OS X.                                             *)
(***************************************************************************)

(* A probe that ends: it counts as answered only if it was sent, now or before. *)
LEMMA ProbeDoneKeeps ==
  ASSUME PingInv, NEW c \in Classes, NEW s \in {0, 1}, NEW r \in {0, 1}, NEW signals,
         probeDone(c, s, r, signals), kept, platform # "win", type \in {"Udp", "Tcp"}, received + r <= sent + s,
         type = "Udp" => (pc = "send" \/ pc = "receive") /\ s = 0
  PROVE  PingInv'
<1>1. /\ platform' = platform /\ type' = type /\ charged' = charged
      /\ captured' = captured /\ onWire' = onWire /\ pending' = pending
  BY DEF kept, chosen, capture
<1>2. /\ probes' = [probes EXCEPT ![c] = @ + 1] /\ sent' = sent + s /\ received' = received + r
      /\ i' = i + 1 /\ pc' = (IF i + 1 < Count THEN "send" ELSE "evaluate") /\ pingTime' = pingTime
  BY DEF probeDone
<1>3. PingTyped /\ s \in Nat /\ r \in Nat
  BY DEF PingInv
<1>4. i \in Nat /\ sent \in Nat /\ received \in Nat /\ probes \in [Classes -> Nat] /\ Count \in Nat
  BY <1>3, ChargeTyped DEF PingTyped
<1>5. i' \in Nat /\ sent' \in Nat /\ received' \in Nat /\ probes' \in [Classes -> Nat] /\ received' <= sent'
  <2>1. i + 1 \in Nat /\ sent + s \in Nat /\ received + r \in Nat
    BY <1>3, <1>4
  <2>2. [probes EXCEPT ![c] = @ + 1] \in [Classes -> Nat]
    BY <1>4
  <2> QED BY <1>2, <2>1, <2>2
<1>6. pc' \in {"send", "evaluate"} /\ (pc' = "send" => i' < Count)
  BY <1>2
<1>7. PingTyped'
  BY <1>1, <1>2, <1>3, <1>5, <1>6 DEF PingTyped
<1>8. AnswersCounted'
  BY <1>1, <1>5, <1>6 DEF AnswersCounted
<1>9. ChargeCovers'
  <2>1. ASSUME type = "Udp" PROVE sent' + ProbesLeft' <= sent + ProbesLeft
    <3> DEFINE n == i
               m == sent
    <3>1. n \in Nat /\ m \in Nat /\ Count \in Nat /\ n < Count /\ s = 0 /\ (pc = "send" \/ pc = "receive")
      BY <1>3, <1>4, <2>1 DEF PingTyped
    <3>2. ProbesLeft \in {Count - n, Count - (n + 1)}
      BY <3>1 DEF ProbesLeft
    <3>3. ProbesLeft' = (IF n + 1 < Count THEN Count - (n + 1) ELSE 0) /\ sent' = m + 0
      BY <1>2, <3>1, Zenon DEF ProbesLeft
    <3> HIDE DEF n, m
    <3>4. /\ m + 0 + (IF n + 1 < Count THEN Count - (n + 1) ELSE 0) <= m + (Count - n)
          /\ m + 0 + (IF n + 1 < Count THEN Count - (n + 1) ELSE 0) <= m + (Count - (n + 1))
      BY <3>1
    <3> QED BY <3>2, <3>3, <3>4, Zenon DEF m
  <2> QED BY <1>1, <1>7, <2>1, ChargeKept
<1> QED BY <1>7, <1>8, <1>9 DEF PingInv

(* A probe that is on its way: it is sent, or will count as sent when its outcome is known. *)
LEMMA GotoKeeps ==
  ASSUME PingInv, NEW label \in {"receive", "poll"}, NEW s \in {0, 1}, goto(label, s), kept,
         platform # "win", type = (IF label = "receive" THEN "Udp" ELSE "Tcp"), pc = "send",
         platform = "osx" \/ label = "receive" => s = 1
  PROVE  PingInv'
<1>1. /\ platform' = platform /\ type' = type /\ charged' = charged
      /\ captured' = captured /\ onWire' = onWire /\ pending' = pending
  BY DEF kept, chosen, capture
<1>2. pc' = label /\ sent' = sent + s /\ i' = i /\ probes' = probes /\ received' = received /\ pingTime' = pingTime
  BY DEF goto
<1>3. PingTyped /\ received <= sent /\ i < Count
  BY DEF PingInv, AnswersCounted, PingTyped
<1>4. i \in Nat /\ sent \in Nat /\ received \in Nat /\ Count \in Nat
  BY <1>3, ChargeTyped DEF PingTyped
<1>5. sent' \in Nat /\ received <= sent' /\ (s = 1 => received + 1 <= sent')
  <2>1. sent + s \in Nat /\ received <= sent + s /\ (s = 1 => received + 1 <= sent + s)
    BY <1>3, <1>4
  <2> QED BY <1>2, <2>1
<1>6. PingTyped'
  BY <1>1, <1>2, <1>3, <1>5 DEF PingTyped
<1>7. AnswersCounted'
  BY <1>1, <1>2, <1>5 DEF AnswersCounted
<1>8. ChargeCovers'
  <2>1. ASSUME type = "Udp" PROVE sent' + ProbesLeft' <= sent + ProbesLeft
    <3> DEFINE n == i
               m == sent
    <3>1. n \in Nat /\ m \in Nat /\ Count \in Nat /\ n < Count /\ label = "receive" /\ s = 1
      BY <1>3, <1>4, <2>1
    <3>2. ProbesLeft = Count - n
      BY DEF ProbesLeft
    <3>3. ProbesLeft' = Count - (n + 1) /\ sent' = m + 1
      BY <1>2, <3>1, Zenon DEF ProbesLeft
    <3> HIDE DEF n, m
    <3>4. m + 1 + (Count - (n + 1)) <= m + (Count - n)
      BY <3>1
    <3> QED BY <3>2, <3>3, <3>4, Zenon DEF m
  <2> QED BY <1>1, <1>6, <2>1, ChargeKept
<1> QED BY <1>6, <1>7, <1>8 DEF PingInv

(* UDP: an answer is counted after the datagram was counted. *)
LEMMA UdpKeeps ==
  ASSUME PingInv, sendUdpData_linux \/ sendUdpData_osx \/ receiveData_linux \/ receiveData_osx
  PROVE  PingInv'
<1>1. type = "Udp" /\ platform # "win" /\ kept /\ pc \in {"send", "receive"}
  BY DEF sendUdpData_linux, sendUdpData_osx, receiveData_linux, receiveData_osx, InLoop
<1>2. /\ received \in Nat /\ sent \in Nat /\ received <= sent /\ (pc = "receive" => received + 1 <= sent)
      /\ received + 0 <= sent + 0 /\ (pc = "receive" => received + 1 <= sent + 0)
  BY DEF PingInv, PingTyped, AnswersCounted
<1>3. \/ pc = "send" /\ goto("receive", 1)
      \/ \E c \in Classes : \E g : probeDone(c, 0, 0, g)
      \/ pc = "receive" /\ \E c \in Classes : \E g : probeDone(c, 0, 1, g)
  <2>1. "bad" \in Classes /\ "good" \in Classes /\ "equal" \in Classes
    BY DEF Classes
  <2>2. CASE sendUdpData_linux \/ sendUdpData_osx
    BY <2>1, <2>2 DEF sendUdpData_linux, sendUdpData_osx, InLoop, sendUdp
  <2>3. CASE receiveData_linux \/ receiveData_osx
    BY <2>1, <2>3 DEF receiveData_linux, receiveData_osx, InLoop
  <2> QED BY <2>2, <2>3
<1>4. CASE pc = "send" /\ goto("receive", 1)
  BY <1>1, <1>4, GotoKeeps
<1>5. ASSUME NEW c \in Classes, NEW g, probeDone(c, 0, 0, g) PROVE PingInv'
  BY <1>1, <1>2, <1>5, ProbeDoneKeeps
<1>6. ASSUME pc = "receive", NEW c \in Classes, NEW g, probeDone(c, 0, 1, g) PROVE PingInv'
  BY <1>1, <1>2, <1>6, ProbeDoneKeeps
<1> QED BY <1>3, <1>4, <1>5, <1>6

(* TCP: on OS X every connection is counted when it is tried, on Linux when its outcome is known. *)
LEMMA TcpKeeps == ASSUME PingInv, sendTcpData_linux \/ sendTcpData_osx PROVE PingInv'
<1>1. type = "Tcp" /\ platform # "win" /\ kept
  BY DEF sendTcpData_linux, sendTcpData_osx, InLoop
<1>2. /\ received \in Nat /\ sent \in Nat /\ received <= sent
      /\ platform = "osx" /\ pc = "poll" => received + 1 <= sent + 0
      /\ received + 0 <= sent + 0 /\ received + 0 <= sent + 1 /\ received + 1 <= sent + 1
  BY DEF PingInv, PingTyped, AnswersCounted
<1>3. \/ pc = "send" /\ (\E s \in {0, 1} : goto("poll", s) /\ (platform = "osx" => s = 1))
      \/ \E c \in Classes : \E g : probeDone(c, 0, 0, g) \/ probeDone(c, 1, 0, g) \/ probeDone(c, 1, 1, g)
      \/ platform = "osx" /\ pc = "poll" /\ \E c \in Classes : \E g : probeDone(c, 0, 1, g)
  <2>1. "bad" \in Classes /\ "good" \in Classes /\ "equal" \in Classes
    BY DEF Classes
  <2>2. CASE sendTcpData_linux
    BY <2>1, <2>2 DEF sendTcpData_linux, InLoop
  <2>3. CASE sendTcpData_osx
    BY <2>1, <2>3 DEF sendTcpData_osx, InLoop
  <2> QED BY <2>2, <2>3
<1>4. ASSUME pc = "send", NEW s \in {0, 1}, goto("poll", s), platform = "osx" => s = 1 PROVE PingInv'
  BY <1>1, <1>4, GotoKeeps
<1>5. ASSUME NEW c \in Classes, NEW g, probeDone(c, 0, 0, g) \/ probeDone(c, 1, 0, g) \/ probeDone(c, 1, 1, g)
      PROVE PingInv'
  <2>1. CASE probeDone(c, 0, 0, g)
    BY <1>1, <1>2, <2>1, ProbeDoneKeeps
  <2>2. CASE probeDone(c, 1, 0, g)
    BY <1>1, <1>2, <2>2, ProbeDoneKeeps
  <2>3. CASE probeDone(c, 1, 1, g)
    BY <1>1, <1>2, <2>3, ProbeDoneKeeps
  <2> QED BY <1>5, <2>1, <2>2, <2>3
<1>6. ASSUME platform = "osx", pc = "poll", NEW c \in Classes, NEW g, probeDone(c, 0, 1, g) PROVE PingInv'
  BY <1>1, <1>2, <1>6, ProbeDoneKeeps
<1> QED BY <1>3, <1>4, <1>5, <1>6

(* The evaluation only takes answers away. *)
LEMMA EvaluateKeeps == ASSUME PingInv, evaluate_linux \/ evaluate_osx PROVE PingInv'
<1>1. /\ pc' = "ended" /\ UNCHANGED <<chosen, family, i, charged>> /\ UNCHANGED <<probes, sent, capture>>
      /\ received' = evaluated(received, probes["bad"]) /\ pingTime' = pingTime + probes["good"]
  BY DEF evaluate_linux, evaluate_osx, ended
<1>2. /\ platform' = platform /\ type' = type /\ charged' = charged /\ i' = i /\ probes' = probes /\ sent' = sent
      /\ captured' = captured /\ onWire' = onWire /\ pending' = pending
  BY <1>1 DEF chosen, capture
<1>3. PingTyped /\ received <= sent
  BY DEF PingInv, AnswersCounted
<1>4. /\ probes["bad"] \in Nat /\ probes["good"] \in Nat
      /\ received \in Nat /\ sent \in Nat /\ pingTime \in Nat
  BY <1>3 DEF PingTyped, Classes
<1>5. evaluated(received, probes["bad"]) \in Nat /\ evaluated(received, probes["bad"]) <= received
  BY <1>4, EvaluatedBounded
<1>6. received' \in Nat /\ pingTime' \in Nat /\ received' <= sent
  <2>1. pingTime + probes["good"] \in Nat
    BY <1>4
  <2>2. evaluated(received, probes["bad"]) <= sent
    BY <1>3, <1>4, <1>5
  <2> QED BY <1>1, <1>5, <2>1, <2>2
<1>7. PingTyped'
  BY <1>1, <1>2, <1>3, <1>6 DEF PingTyped
<1>8. AnswersCounted'
  BY <1>1, <1>2, <1>6 DEF AnswersCounted
<1>9. ChargeCovers'
  <2>1. ProbesLeft' = 0 /\ ProbesLeft \in Nat
    BY <1>1, <1>3, ChargeTyped DEF ProbesLeft
  <2>2. sent + 0 <= sent + ProbesLeft
    BY <1>4, <2>1
  <2>3. sent' + ProbesLeft' <= sent + ProbesLeft
    BY <1>2, <2>1, <2>2, Zenon
  <2> QED BY <1>2, <1>7, <2>3, ChargeKept
<1> QED BY <1>7, <1>8, <1>9 DEF PingInv

-----------------------------------------------------------------------------
(***************************************************************************)
(* Windows: the sender and the capture run side by side.                   *)
(***************************************************************************)

(* A probe that is sent is counted before the capture can see it. *)
LEMMA WindowsSendKeeps == ASSUME PingInv, sendUdpData_win \/ sendTcpData_win PROVE PingInv'
<1>1. platform = "win" /\ pc = "send" /\ type \in {"Udp", "Tcp"} /\ \E ok \in BOOLEAN : sendLoop(ok)
  BY DEF sendUdpData_win, sendTcpData_win, InLoop
<1>2. PICK ok \in BOOLEAN : sendLoop(ok)
  BY <1>1
<1>3. /\ sent' = sent + 1 /\ i' = i + 1
      /\ onWire' = (IF ok THEN onWire \cup {i + 1} ELSE onWire)
      /\ pending' = (IF ok THEN pending \cup {i + 1} ELSE pending)
      /\ pc' = (IF i + 1 < Count THEN "send" ELSE "wait")
      /\ platform' = platform /\ type' = type /\ probes' = probes /\ received' = received
      /\ pingTime' = pingTime /\ charged' = charged /\ captured' = captured
  BY <1>2 DEF sendLoop, chosen
<1>4. PingTyped /\ i \in Nat /\ sent \in Nat /\ received \in Nat /\ Count \in Nat /\ i < Count
  BY <1>1, ChargeTyped DEF PingInv, PingTyped
<1>5. onWire' \in SUBSET Nat /\ pending' \in SUBSET Nat /\ IsFiniteSet(onWire')
      /\ Cardinality(onWire) \in Nat /\ Cardinality(onWire') <= Cardinality(onWire) + 1 /\ Cardinality(onWire') \in Nat
  <2> DEFINE x == i + 1
  <2>1. x \in Nat
    BY <1>4
  <2> HIDE DEF x
  <2>2. onWire' \in {onWire, onWire \cup {x}} /\ pending' \in {pending, pending \cup {x}}
    BY <1>3 DEF x
  <2>3. onWire \in SUBSET Nat /\ pending \in SUBSET Nat /\ IsFiniteSet(onWire)
    BY <1>4 DEF PingTyped
  <2>4. Cardinality(onWire) \in Nat
    BY <2>3, FS_CardinalityType
  <2>5. IsFiniteSet(onWire \cup {x}) /\ Cardinality(onWire \cup {x}) \in {Cardinality(onWire), Cardinality(onWire) + 1}
    BY <2>3, FS_AddElement
  <2>6. CASE onWire' = onWire
    BY <2>1, <2>2, <2>3, <2>4, <2>6
  <2>7. CASE onWire' = onWire \cup {x}
    BY <2>1, <2>2, <2>3, <2>4, <2>5, <2>7
  <2> QED BY <2>2, <2>6, <2>7
<1>6. i' \in Nat /\ sent' \in Nat /\ pc' \in {"send", "wait"} /\ (pc' = "send" => i' < Count)
  <2>1. i + 1 \in Nat /\ sent + 1 \in Nat
    BY <1>4
  <2> QED BY <1>3, <2>1
<1>7. PingTyped'
  BY <1>1, <1>3, <1>4, <1>5, <1>6 DEF PingTyped
<1>8. AnswersCounted'
  <2> DEFINE q == CapturedRequests
             w == Cardinality(onWire)
             v == Cardinality(onWire')
  <2>1. CapturedRequests' = q
    BY <1>3 DEF CapturedRequests
  <2>2. q \in Nat
    <3>1. captured \in Seq(Captures)
      BY <1>4 DEF PingTyped
    <3> QED BY <3>1, RequestsCounted DEF CapturedRequests
  <2>3. received + q + w <= sent
    BY <1>1 DEF PingInv, AnswersCounted
  <2>4. w \in Nat /\ v \in Nat /\ v <= w + 1
    BY <1>5
  <2> HIDE DEF q, w, v
  <2>5. received <= sent + 1 /\ received + q + v <= sent + 1
    BY <1>4, <2>2, <2>3, <2>4
  <2>6. received' <= sent' /\ received' + CapturedRequests' + Cardinality(onWire') <= sent'
    BY <1>3, <2>1, <2>5, Zenon DEF v
  <2> QED BY <1>6, <2>6 DEF AnswersCounted
<1>9. ChargeCovers'
  <2>1. sent' + ProbesLeft' <= sent + ProbesLeft
    <3> DEFINE n == i
               m == sent
    <3>1. n \in Nat /\ m \in Nat /\ Count \in Nat /\ n < Count
      BY <1>4
    <3>2. ProbesLeft = Count - n
      BY <1>1 DEF ProbesLeft
    <3>3. ProbesLeft' = (IF n + 1 < Count THEN Count - (n + 1) ELSE 0) /\ sent' = m + 1
      BY <1>3, <3>1, Zenon DEF ProbesLeft
    <3> HIDE DEF n, m
    <3>4. m + 1 + (IF n + 1 < Count THEN Count - (n + 1) ELSE 0) <= m + (Count - n)
      BY <3>1
    <3> QED BY <3>2, <3>3, <3>4, Zenon DEF m
  <2> QED BY <1>3, <1>7, <2>1, ChargeKept
<1> QED BY <1>7, <1>8, <1>9 DEF PingInv

(* What the capture does to the packets: a request leaves the wire when it is captured. *)
LEMMA CaptureStep ==
  ASSUME PingTyped, receiveLoop
  PROVE  /\ captured' \in Seq(Captures) /\ onWire' \in SUBSET Nat /\ pending' \in SUBSET Nat /\ IsFiniteSet(onWire')
         /\ type \in {"Udp", "Tcp"} =>
              /\ CapturedRequests \in Nat /\ CapturedRequests' \in Nat
              /\ Cardinality(onWire) \in Nat /\ Cardinality(onWire') \in Nat
              /\ CapturedRequests' + Cardinality(onWire') <= CapturedRequests + Cardinality(onWire)
<1>1. /\ captured \in Seq(Captures) /\ onWire \in SUBSET Nat /\ pending \in SUBSET Nat
      /\ IsFiniteSet(onWire) /\ Cardinality(onWire) \in Nat /\ type' = type
  BY FS_CardinalityType DEF PingTyped, receiveLoop, chosen
<1>2. CapturedRequests \in Nat
  BY <1>1, RequestsCounted DEF CapturedRequests
<1>3. ASSUME onWire # {}, take("request", Min(onWire)), onWire' = onWire \ {Min(onWire)}, pending' = pending
      PROVE  /\ captured' \in Seq(Captures) /\ onWire' \in SUBSET Nat /\ pending' \in SUBSET Nat /\ IsFiniteSet(onWire')
             /\ CapturedRequests' \in Nat /\ Cardinality(onWire') \in Nat
             /\ CapturedRequests' + Cardinality(onWire') <= CapturedRequests + Cardinality(onWire)
  <2> DEFINE n == Min(onWire)
             x == probeOf("request", n)
  <2>1. n \in onWire /\ n \in Nat
    BY <1>1, <1>3, MinMember
  <2> HIDE DEF n
  <2>2. "request" \in filter(type, SamePorts) /\ captured' = keep(captured, x)
    BY <1>3 DEF take, n
  <2>3. x \in Captures
    BY <2>1, <2>2, ProbeOfPacket
  <2> HIDE DEF x
  <2>4. /\ keep(captured, x) \in Seq(Captures)
        /\ Cardinality(Requests(keep(captured, x), type)) \in Nat
        /\ Cardinality(Requests(keep(captured, x), type)) <= CapturedRequests + 1
    BY <1>1, <2>3, RequestsOfAppend DEF CapturedRequests
  <2>5. captured' \in Seq(Captures) /\ CapturedRequests' \in Nat /\ CapturedRequests' <= CapturedRequests + 1
    BY <1>1, <2>2, <2>4 DEF CapturedRequests
  <2>6. IsFiniteSet(onWire \ {n}) /\ Cardinality(onWire \ {n}) = Cardinality(onWire) - 1
        /\ Cardinality(onWire \ {n}) \in Nat
    BY <1>1, <2>1, FS_RemoveElement, FS_CardinalityType
  <2>7. onWire' = onWire \ {n} /\ onWire' \in SUBSET Nat /\ pending' \in SUBSET Nat
    BY <1>1, <1>3 DEF n
  <2> DEFINE a == CapturedRequests
             b == CapturedRequests'
             c == Cardinality(onWire)
             d == Cardinality(onWire')
  <2>8. a \in Nat /\ b \in Nat /\ c \in Nat /\ d \in Nat /\ b <= a + 1 /\ d = c - 1
    BY <1>1, <1>2, <2>5, <2>6, <2>7
  <2> HIDE DEF a, b, c, d
  <2>9. b + d <= a + c
    BY <2>8
  <2> QED BY <2>5, <2>6, <2>7, <2>9 DEF a, b, c, d
<1>4. ASSUME NEW k, k # "request", NEW n \in Nat, take(k, n), onWire' = onWire, pending' \in SUBSET pending
      PROVE  /\ captured' \in Seq(Captures) /\ onWire' \in SUBSET Nat /\ pending' \in SUBSET Nat /\ IsFiniteSet(onWire')
             /\ type \in {"Udp", "Tcp"} => CapturedRequests' = CapturedRequests
  <2> DEFINE x == probeOf(k, n)
  <2>1. k \in filter(type, SamePorts) /\ captured' = keep(captured, x)
    BY <1>4 DEF take
  <2>2. x \in Captures /\ (type \in {"Udp", "Tcp"} => ~isRequest(x, type))
    BY <1>4, <2>1, ProbeOfPacket
  <2> HIDE DEF x
  <2>3. /\ keep(captured, x) \in Seq(Captures)
        /\ ~isRequest(x, type) => Cardinality(Requests(keep(captured, x), type)) = CapturedRequests
    BY <1>1, <2>2, RequestsOfAppend DEF CapturedRequests
  <2>4. captured' \in Seq(Captures) /\ (type \in {"Udp", "Tcp"} => CapturedRequests' = CapturedRequests)
    BY <1>1, <2>1, <2>2, <2>3 DEF CapturedRequests
  <2> QED BY <1>1, <1>4, <2>4
<1>5. \/ onWire # {} /\ take("request", Min(onWire)) /\ onWire' = onWire \ {Min(onWire)} /\ pending' = pending
      \/ \E n \in Nat : \E k : k # "request" /\ take(k, n) /\ onWire' = onWire /\ pending' \in SUBSET pending
      \/ captured' = captured /\ onWire' = onWire /\ pending' = pending
  <2>1. 0 \in Nat /\ \A n \in pending : n \in Nat
    BY <1>1
  <2>2. \A n : pending \ {n} \in SUBSET pending
    OBVIOUS
  <2> QED BY <2>1, <2>2 DEF receiveLoop
<1>6. CASE onWire # {} /\ take("request", Min(onWire)) /\ onWire' = onWire \ {Min(onWire)} /\ pending' = pending
  BY <1>1, <1>2, <1>3, <1>6
<1>7. ASSUME NEW n \in Nat, NEW k, k # "request", take(k, n), onWire' = onWire, pending' \in SUBSET pending
      PROVE  /\ captured' \in Seq(Captures) /\ onWire' \in SUBSET Nat /\ pending' \in SUBSET Nat /\ IsFiniteSet(onWire')
             /\ type \in {"Udp", "Tcp"} =>
                  /\ CapturedRequests \in Nat /\ CapturedRequests' \in Nat
                  /\ Cardinality(onWire) \in Nat /\ Cardinality(onWire') \in Nat
                  /\ CapturedRequests' + Cardinality(onWire') <= CapturedRequests + Cardinality(onWire)
  <2>1. /\ captured' \in Seq(Captures) /\ onWire' \in SUBSET Nat /\ pending' \in SUBSET Nat /\ IsFiniteSet(onWire')
        /\ type \in {"Udp", "Tcp"} => CapturedRequests' = CapturedRequests
    BY <1>4, <1>7
  <2>2. CapturedRequests + Cardinality(onWire) <= CapturedRequests + Cardinality(onWire)
    BY <1>1, <1>2
  <2>3. Cardinality(onWire') = Cardinality(onWire)
    BY <1>7
  <2> QED BY <1>1, <1>2, <2>1, <2>2, <2>3, Zenon
<1>8. CASE captured' = captured /\ onWire' = onWire /\ pending' = pending
  <2>1. CapturedRequests' = CapturedRequests
    BY <1>1, <1>8 DEF CapturedRequests
  <2>2. CapturedRequests + Cardinality(onWire) <= CapturedRequests + Cardinality(onWire)
    BY <1>1, <1>2
  <2>3. Cardinality(onWire') = Cardinality(onWire)
    BY <1>8
  <2> QED BY <1>1, <1>2, <1>8, <2>1, <2>2, <2>3, Zenon
<1> QED BY <1>5, <1>6, <1>7, <1>8

(* The capture never has more requests than were counted as sent. *)
LEMMA ReceiveLoopKeeps == ASSUME PingInv, receiveLoop PROVE PingInv'
<1>1. /\ platform' = platform /\ type' = type /\ probes' = probes /\ sent' = sent /\ received' = received
      /\ pingTime' = pingTime /\ charged' = charged /\ i' = i /\ pc' = pc
  BY DEF receiveLoop, chosen, counters
<1>2. PingTyped
  BY DEF PingInv
<1>3. PingTyped'
  BY <1>1, <1>2, CaptureStep DEF PingTyped
<1>4. AnswersCounted'
  <2>1. ASSUME platform = "win", pc \in {"send", "wait"}
        PROVE  received + CapturedRequests' + Cardinality(onWire') <= sent
    <3>1. type \in {"Udp", "Tcp"}
      BY <1>2, <2>1 DEF PingTyped
    <3> DEFINE a == CapturedRequests
               b == CapturedRequests'
               c == Cardinality(onWire)
               d == Cardinality(onWire')
               m == sent
               r == received
    <3>2. a \in Nat /\ b \in Nat /\ c \in Nat /\ d \in Nat /\ b + d <= a + c
      BY <1>2, <3>1, CaptureStep
    <3>3. r + a + c <= m /\ m \in Nat /\ r \in Nat
      BY <1>2, <2>1 DEF PingInv, AnswersCounted, PingTyped
    <3> HIDE DEF a, b, c, d, m, r
    <3>4. r + b + d <= m
      BY <3>2, <3>3
    <3> QED BY <3>4 DEF b, d, m, r
  <2> QED BY <1>1, <2>1 DEF PingInv, AnswersCounted
<1>5. ChargeCovers'
  BY <1>1 DEF PingInv, ChargeCovers, ProbesLeft, OneProbe
<1> QED BY <1>3, <1>4, <1>5 DEF PingInv

(* The end of the capture: no more answers are counted than requests were captured. *)
LEMMA FinishCaptureKeeps == ASSUME PingInv, finishCapture PROVE PingInv'
<1>1. /\ platform = "win" /\ pc = "wait" /\ pc' = "ended"
      /\ UNCHANGED <<chosen, family, i, charged, sent, capture>>
  BY DEF finishCapture
<1>2. /\ platform' = platform /\ type' = type /\ charged' = charged /\ i' = i /\ sent' = sent
      /\ captured' = captured /\ onWire' = onWire /\ pending' = pending
  BY <1>1 DEF chosen, capture
<1>3. /\ PingTyped /\ type \in {"Udp", "Tcp"} /\ received <= sent
      /\ received + CapturedRequests + Cardinality(onWire) <= sent
  BY <1>1 DEF PingInv, PingTyped, AnswersCounted
<1>4. /\ probes \in [Classes -> Nat] /\ probes["bad"] \in Nat /\ probes["good"] \in Nat
      /\ received \in Nat /\ sent \in Nat /\ pingTime \in Nat
  BY <1>3 DEF PingTyped, Classes
<1>5. received' \in Nat /\ pingTime' \in Nat /\ probes' \in [Classes -> Nat] /\ received' <= sent
  <2>1. CASE Len(captured) < 2 * Count
    <3>1. probes' = probes /\ received' = received /\ pingTime' = pingTime
      BY <2>1 DEF finishCapture
    <3> QED BY <1>3, <1>4, <3>1
  <2>2. CASE ~(Len(captured) < 2 * Count)
    <3> DEFINE pairs == matched(captured, type)
               rs == responses(captured, pairs)
    <3>1. PICK bad \in classesOf(pairs) :
            /\ probes' = [probes EXCEPT !["bad"] = probes["bad"] + Cardinality(bad),
                                        !["good"] = probes["good"] + Len(pairs) - Cardinality(bad)]
            /\ received' = evaluated(received + Len(rs), probes["bad"] + Cardinality(bad))
            /\ pingTime' = pingTime + (probes["good"] + Len(pairs) - Cardinality(bad))
      BY <2>2 DEF finishCapture
    <3>2. captured \in Seq(Captures) /\ IsFiniteSet(onWire)
      BY <1>3 DEF PingTyped
    <3>3. IsList(captured) /\ Cardinality(onWire) \in Nat /\ CapturedRequests \in Nat
      BY <3>2, RequestsCounted, FS_CardinalityType DEF CapturedRequests
    <3>4. Len(pairs) \in Nat /\ DOMAIN pairs = 1..Len(pairs) /\ Len(pairs) <= CapturedRequests
      BY <1>3, <3>3, MatchedCounts DEF CapturedRequests
    <3> HIDE DEF pairs
    <3>5. Len(rs) \in 0..Len(pairs)
      BY <3>4, ResponsesCounted
    <3>6. bad \in SUBSET (1..Len(pairs))
      BY <3>4 DEF classesOf
    <3>7. Cardinality(bad) \in Nat /\ Cardinality(bad) <= Len(pairs)
      <4>1. ASSUME NEW m \in Nat PROVE IsFiniteSet(1..m) /\ Cardinality(1..m) = m
        BY FS_Interval
      <4>2. IsFiniteSet(1..Len(pairs)) /\ Cardinality(1..Len(pairs)) = Len(pairs)
        BY <3>4, <4>1
      <4> QED BY <3>6, <4>2, FS_Subset, FS_CardinalityType
    <3> HIDE DEF rs
    <3> DEFINE n == Len(rs)
               m == Len(pairs)
               c == Cardinality(bad)
               w == Cardinality(onWire)
               q == CapturedRequests
               old == probes
    <3>8. n \in Nat /\ m \in Nat /\ c \in Nat /\ w \in Nat /\ q \in Nat /\ n <= m /\ m <= q /\ c <= m
      BY <3>3, <3>4, <3>5, <3>7
    <3>9. old \in [Classes -> Nat] /\ old["bad"] \in Nat /\ old["good"] \in Nat /\ received + q + w <= sent
      BY <1>3, <1>4
    <3> HIDE DEF n, m, c, w, q, old
    <3>10. old["bad"] + c \in Nat /\ old["good"] + m - c \in Nat
           /\ received + n \in Nat /\ received + n <= sent
      BY <1>4, <3>8, <3>9
    <3>11. [old EXCEPT !["bad"] = old["bad"] + c, !["good"] = old["good"] + m - c] \in [Classes -> Nat]
      BY <3>9, <3>10
    <3>12. probes' \in [Classes -> Nat]
      BY <3>1, <3>11, Zenon DEF c, m, old
    <3>13. received' \in Nat /\ received' <= sent
      <4>1. evaluated(received + n, old["bad"] + c) \in Nat
            /\ evaluated(received + n, old["bad"] + c) <= received + n
        BY <3>10, EvaluatedBounded
      <4>2. evaluated(received + n, old["bad"] + c) <= sent
        BY <1>4, <3>10, <4>1
      <4> QED BY <3>1, <4>1, <4>2, Zenon DEF n, c, old
    <3>14. pingTime' \in Nat
      <4>1. pingTime + (old["good"] + m - c) \in Nat
        BY <1>4, <3>10
      <4> QED BY <3>1, <4>1, Zenon DEF c, m, old
    <3> QED BY <3>12, <3>13, <3>14
  <2> QED BY <2>1, <2>2
<1>6. PingTyped'
  BY <1>1, <1>2, <1>3, <1>5 DEF PingTyped
<1>7. AnswersCounted'
  BY <1>1, <1>2, <1>5 DEF AnswersCounted
<1>8. ChargeCovers'
  <2>1. ProbesLeft' = 0 /\ ProbesLeft = 0
    BY <1>1 DEF ProbesLeft
  <2>2. sent + 0 <= sent + 0
    BY <1>4
  <2>3. sent' + ProbesLeft' <= sent + ProbesLeft
    BY <1>2, <2>1, <2>2, Zenon
  <2> QED BY <1>2, <1>6, <2>3, ChargeKept
<1> QED BY <1>6, <1>7, <1>8 DEF PingInv

-----------------------------------------------------------------------------
(* The external program reports each probe once, and its own number of probes. *)
LEMMA ProcessKeeps == ASSUME PingInv, processStep \/ readyRead PROVE PingInv'
<1>1. PingTyped /\ received <= sent /\ (pc = "output" => pingTime <= Count)
  BY DEF PingInv, AnswersCounted
<1>2. received \in Nat /\ sent \in Nat /\ pingTime \in Nat /\ Count \in Nat /\ 0 <= Count
  BY <1>1, ChargeTyped DEF PingTyped
<1>3. CASE processStep
  <2>1. /\ platform' = platform /\ type' = type /\ charged' = charged /\ i' = i /\ probes' = probes
        /\ sent' = sent /\ received' = received
        /\ captured' = captured /\ onWire' = onWire /\ pending' = pending
        /\ \/ pc = "process" /\ pc' = "output" /\ pingTime' = 0
           \/ pc' \in {"hung", "ended"} /\ pingTime' = pingTime
    BY <1>3 DEF processStep, chosen, capture
  <2>2. 0 \in Nat /\ pc' \in {"output", "hung", "ended"} /\ pingTime' \in Nat /\ (pc' = "output" => pingTime' <= Count)
    BY <1>2, <2>1
  <2>3. PingTyped'
    <3>1. pc' = "output" => type = "System"
      BY <1>1, <2>1 DEF PingTyped
    <3> QED BY <1>1, <2>1, <2>2, <3>1 DEF PingTyped
  <2>4. AnswersCounted'
    BY <1>1, <2>1, <2>2 DEF AnswersCounted
  <2>5. ProbesLeft' = 0 /\ ProbesLeft \in Nat
    BY <1>1, <2>2, ChargeTyped DEF ProbesLeft
  <2>6. sent + 0 <= sent + ProbesLeft
    BY <1>2, <2>5
  <2>7. sent' + ProbesLeft' <= sent + ProbesLeft
    BY <2>1, <2>5, <2>6, Zenon
  <2>8. ChargeCovers'
    BY <2>1, <2>3, <2>7, ChargeKept
  <2> QED BY <2>3, <2>4, <2>8 DEF PingInv
<1>4. CASE readyRead
  <2>1. /\ pc = "output" /\ pc' = pc /\ platform' = platform /\ type' = type /\ charged' = charged /\ i' = i
        /\ probes' = probes /\ captured' = captured /\ onWire' = onWire /\ pending' = pending
        /\ \/ pingTime < Count /\ pingTime' = pingTime + 1 /\ sent' = sent /\ received' = received
           \/ sent' = Count /\ received' = pingTime /\ pingTime' = pingTime
    BY <1>4 DEF readyRead, readyRead_linux, readyRead_osx, readyRead_win, readLine, chosen, capture
  <2>2. sent' \in Nat /\ received' \in Nat /\ pingTime' \in Nat /\ received' <= sent' /\ pingTime' <= Count
    <3>1. pingTime < Count => pingTime + 1 \in Nat /\ pingTime + 1 <= Count
      BY <1>2
    <3> QED BY <1>1, <1>2, <2>1, <3>1, Zenon
  <2>3. PingTyped'
    BY <1>1, <2>1, <2>2 DEF PingTyped
  <2>4. AnswersCounted'
    BY <2>1, <2>2 DEF AnswersCounted
  <2>5. ChargeCovers'
    BY <1>1, <2>1 DEF ChargeCovers, PingTyped
  <2> QED BY <2>3, <2>4, <2>5 DEF PingInv
<1> QED BY <1>3, <1>4

(***************************************************************************)
(* The invariant holds in every state of a Ping, whoever owns it: Traceroute *)
(* adds nothing to the Ping's state but when it is prepared again.         *)
(***************************************************************************)
LEMMA PingInvHolds == Spec => []PingInv
<1>1. Init => PingInv
  <2> SUFFICES ASSUME PingInit PROVE PingInv
    BY DEF Init
  <2>1. /\ platform \in {"linux", "osx", "win"} /\ type \in {"Udp", "Tcp", "System"} /\ pc = "new"
        /\ i = 0 /\ sent = 0 /\ received = 0 /\ pingTime = 0 /\ charged = 0
        /\ probes = [c \in Classes |-> 0] /\ captured = <<>> /\ onWire = {} /\ pending = {}
    BY DEF PingInit
  <2>2. <<>> \in Seq(Captures) /\ {} \in SUBSET Nat /\ IsFiniteSet({}) /\ 0 \in Nat
        /\ [c \in Classes |-> 0] \in [Classes -> Nat]
    BY FS_EmptySet
  <2>3. PingTyped
    BY <2>1, <2>2 DEF PingTyped
  <2>4. AnswersCounted
    BY <2>1 DEF AnswersCounted
  <2>5. ChargeCovers
    <3>1. ProbesLeft = 0 /\ sent + 0 = 0
      BY <2>1 DEF ProbesLeft
    <3>2. 0 * OneProbe = 0
      BY ChargeTyped
    <3> QED BY <2>1, <3>1, <3>2 DEF ChargeCovers
  <2> QED BY <2>3, <2>4, <2>5 DEF PingInv
<1>2. PingInv /\ [Next]_vars => PingInv'
  <2> SUFFICES ASSUME PingInv, [Next]_vars PROVE PingInv'
    OBVIOUS
  <2>1. prepare \/ pingStep \/ UNCHANGED pingVars
    BY DEF Next, startRoute, pingFinished, preparePing, step, ping, vars
  <2>2. CASE prepare
    BY <2>2, PrepareKeeps
  <2>3. CASE pingStep
    BY <2>3, StartKeeps, UdpKeeps, TcpKeeps, EvaluateKeeps, WindowsSendKeeps, ReceiveLoopKeeps,
       FinishCaptureKeeps, ProcessKeeps, Zenon DEF pingStep
  <2>4. CASE UNCHANGED pingVars
    BY <2>4 DEF pingVars, chosen, counters, capture, PingInv, PingTyped, AnswersCounted, CapturedRequests,
                ChargeCovers, ProbesLeft, OneProbe
  <2> QED BY <2>1, <2>2, <2>3, <2>4
<1> QED BY <1>1, <1>2, PTL DEF Spec

(* The loss that result() computes with unsigned numbers never exceeds the  *)
(* number of probes sent, on any platform: an answer is counted only after  *)
(* its probe.                                                               *)
THEOREM LossBounded == Spec => []LossInRange
<1>1. PingInv => LossInRange
  <2> SUFFICES ASSUME PingInv PROVE pingResult.lost \in 0..sent
    BY DEF LossInRange
  <2>1. sent \in Nat /\ received \in Nat /\ received <= sent
    BY DEF PingInv, PingTyped, AnswersCounted
  <2>2. pingResult.lost = IF sent > 0 THEN (sent - received) % UintRange ELSE 0
    BY DEF pingResult, result_linux, result_osx, result_win, statistics
  <2>3. \A d, r \in Nat : r > 0 => (d % r) \in Nat /\ (d % r) <= d
    OBVIOUS
  <2>4. UintRange \in Nat /\ UintRange > 0
    BY PingConstants
  <2> DEFINE d == sent - received
  <2>5. d \in Nat /\ d <= sent
    BY <2>1
  <2> HIDE DEF d
  <2>6. (d % UintRange) \in Nat /\ (d % UintRange) <= d
    BY <2>3, <2>4, <2>5
  <2> DEFINE m == d % UintRange
  <2>7. m \in Nat /\ m <= sent
    BY <2>1, <2>5, <2>6
  <2>8. pingResult.lost \in {m, 0}
    BY <2>2 DEF d
  <2> HIDE DEF m
  <2> QED BY <2>1, <2>7, <2>8
<1> QED BY <1>1, PingInvHolds, PTL

(* Whatever packets the Windows capture collects, and in any order, their   *)
(* pairs are a complete matching that uses no packet twice.                 *)
THEOREM CapturesMatched == Spec => []MatchingRight
<1>1. PingInv => MatchingRight
  <2> SUFFICES ASSUME PingInv, type # "System" PROVE IsMatching(captured, type, matched(captured, type))
    BY DEF MatchingRight
  <2>1. captured \in Seq(Captures) /\ type \in {"Udp", "Tcp"}
    BY DEF PingInv, PingTyped
  <2>2. IsList(captured)
    BY <2>1, RequestsCounted
  <2> QED BY <2>1, <2>2, MatchedIsMatching
<1> QED BY <1>1, PingInvHolds, PTL

(* However often a Ping is prepared, and however a start of it ends, every  *)
(* UDP probe was charged to the traffic budget before it was sent, provided *)
(* the estimate of a start fits an unsigned int.                            *)
THEOREM ProbesCharged == Spec => []ChargedBeforeSent
<1>1. PingInv => ChargedBeforeSent
  <2> SUFFICES ASSUME PingInv, type = "Udp", EstimateFits PROVE sent * OneProbe <= charged
    <3>1. \A a, b \in Nat : a <= b => b >= a
      OBVIOUS
    <3>2. OneProbe \in Nat /\ (PingInv => sent \in Nat /\ charged \in Nat)
      BY ChargeTyped DEF PingInv, PingTyped
    <3>3. PingInv => sent * OneProbe \in Nat
      BY <3>2, Products
    <3>4. OneProbe = 2 * 14 + 2 * (8 + Payload)
      BY DEF OneProbe
    <3> QED BY <3>1, <3>2, <3>3, <3>4, Zenon DEF ChargedBeforeSent
  <2>1. sent \in Nat /\ ProbesLeft \in Nat /\ OneProbe \in Nat /\ charged \in Nat
    BY ChargeTyped DEF PingInv, PingTyped
  <2> DEFINE s == sent
             n == ProbesLeft
             c == charged
  <2>2. (s + n) * OneProbe <= c
    BY DEF PingInv, ChargeCovers
  <2>3. s \in Nat /\ n \in Nat /\ c \in Nat
    BY <2>1
  <2> HIDE DEF s, n, c
  <2>4. s + n \in Nat /\ s <= s + n
    BY <2>3
  <2>5. s * OneProbe \in Nat /\ (s + n) * OneProbe \in Nat /\ s * OneProbe <= (s + n) * OneProbe
    BY <2>1, <2>3, <2>4, Products
  <2>6. s * OneProbe <= c
    BY <2>2, <2>3, <2>5
  <2> QED BY <2>6 DEF s, c
<1> QED BY <1>1, PingInvHolds, PTL
=============================================================================
