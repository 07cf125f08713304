-------------------------- MODULE SchedulerProofs --------------------------
(* Proofs of the safety properties of Scheduler, for every finite set of    *)
(* schedules, every difference of the clocks and any length of time.        *)
EXTENDS Scheduler, FiniteSetTheorems, FunctionTheorems, SequenceTheorems, WellFoundedInduction, TLAPS

(***************************************************************************)
(* Induction, stated with a set: the least counterexample.                 *)
(***************************************************************************)
LEMMA LeastNumber ==
  ASSUME NEW T \in SUBSET Nat, T # {}
  PROVE  \E m \in T : \A k \in T : m <= k
<1> DEFINE R == OpToRel(<, Nat)
<1>1. IsWellFoundedOn(R, Nat)
  BY NatLessThanWellFounded
<1>2. \A x, y \in Nat : y < x => <<y, x>> \in R
  BY DEF OpToRel
<1> HIDE DEF R
<1>3. PICK x \in T : \A y \in T : ~(<<y, x>> \in R)
  BY <1>1, WFMin
<1>4. \A y \in T : ~(y < x)
  BY <1>2, <1>3
<1>5. \A y \in T : x <= y
  BY <1>4
<1> QED BY <1>5

(* A set with 0 that has the successor of each of its numbers has all numbers. *)
LEMMA InductionOnSet ==
  ASSUME NEW T, 0 \in T, \A n \in Nat : n \in T => n + 1 \in T
  PROVE  \A n \in Nat : n \in T
<1> SUFFICES ASSUME Nat \ T # {} PROVE FALSE
  OBVIOUS
<1>1. PICK m \in Nat \ T : \A k \in Nat \ T : m <= k
  BY LeastNumber
<1>2. m # 0 /\ m - 1 \in Nat /\ m - 1 \in T
  BY <1>1
<1> QED BY <1>1, <1>2

(* A part of a sequence, element by element. *)
LEMMA SubSeqEntries ==
  ASSUME NEW S, NEW ts \in Seq(S), NEW m \in Int, NEW n \in Int, 1 <= m, m <= n + 1, n <= Len(ts)
  PROVE  /\ SubSeq(ts, m, n) \in Seq(S)
         /\ Len(SubSeq(ts, m, n)) = n - m + 1
         /\ \A k \in 1..(n - m + 1) : SubSeq(ts, m, n)[k] = ts[m + k - 1]
<1>1. \A i \in m..n : ts[i] \in S
  OBVIOUS
<1> QED BY <1>1, SubSeqProperties

(* Two sequences one after the other, element by element. *)
LEMMA ConcatEntries ==
  ASSUME NEW S, NEW a \in Seq(S), NEW b \in Seq(S)
  PROVE  /\ a \o b \in Seq(S) /\ Len(a \o b) = Len(a) + Len(b) /\ Len(a) \in Nat /\ Len(b) \in Nat
         /\ \A k \in 1..Len(a) : (a \o b)[k] = a[k]
         /\ \A k \in 1..Len(b) : (a \o b)[Len(a) + k] = b[k]
<1>1. Len(a) \in Nat /\ Len(b) \in Nat /\ a \o b \in Seq(S) /\ Len(a \o b) = Len(a) + Len(b)
  OBVIOUS
<1>2. \A k \in 1..Len(a) : (a \o b)[k] = a[k]
  OBVIOUS
<1>3. ASSUME NEW k \in 1..Len(b) PROVE (a \o b)[Len(a) + k] = b[k]
  <2>1. Len(a) + k \in 1..(Len(a) + Len(b)) /\ ~(Len(a) + k <= Len(a)) /\ (Len(a) + k) - Len(a) = k
    BY <1>1
  <2> QED BY <1>1, <2>1
<1> QED BY <1>1, <1>2, <1>3

(* QList::insert, element by element. *)
LEMMA InsertAtEntries ==
  ASSUME NEW S, NEW ts \in Seq(S), NEW p \in 1..(Len(ts) + 1), NEW x \in S
  PROVE  /\ InsertAt(ts, p, x) \in Seq(S)
         /\ Len(InsertAt(ts, p, x)) = Len(ts) + 1
         /\ InsertAt(ts, p, x)[p] = x
         /\ \A k \in 1..Len(ts) : k < p => InsertAt(ts, p, x)[k] = ts[k]
         /\ \A k \in 1..Len(ts) : k >= p => InsertAt(ts, p, x)[k + 1] = ts[k]
<1> DEFINE a == SubSeq(ts, 1, p - 1)
           b == <<x>>
           c == SubSeq(ts, p, Len(ts))
<1>0. Len(ts) \in Nat /\ p \in Int /\ 1 <= p /\ p <= Len(ts) + 1
  OBVIOUS
<1>1. a \in Seq(S) /\ Len(a) = p - 1 /\ \A k \in 1..(p - 1) : a[k] = ts[k]
  <2>1. /\ a \in Seq(S) /\ Len(a) = (p - 1) - 1 + 1
        /\ \A k \in 1..((p - 1) - 1 + 1) : a[k] = ts[1 + k - 1]
    BY <1>0, SubSeqEntries
  <2>2. (p - 1) - 1 + 1 = p - 1 /\ \A k \in 1..(p - 1) : 1 + k - 1 = k
    BY <1>0
  <2> HIDE DEF a
  <2> QED BY <2>1, <2>2
<1>2. /\ c \in Seq(S) /\ Len(c) = Len(ts) - p + 1
      /\ \A k \in 1..(Len(ts) - p + 1) : c[k] = ts[p + k - 1]
  BY <1>0, SubSeqEntries
<1>3. b \in Seq(S) /\ Len(b) = 1 /\ b[1] = x
  OBVIOUS
<1>4. InsertAt(ts, p, x) = (a \o b) \o c
  BY DEF InsertAt
<1> HIDE DEF a, b, c
<1>5. /\ a \o b \in Seq(S) /\ Len(a \o b) = p
      /\ \A k \in 1..(p - 1) : (a \o b)[k] = ts[k]
      /\ (a \o b)[p] = x
  <2>1. a \in Seq(S) /\ b \in Seq(S)
    BY <1>1, <1>3
  <2>2. /\ a \o b \in Seq(S) /\ Len(a \o b) = Len(a) + Len(b)
        /\ \A k \in 1..Len(a) : (a \o b)[k] = a[k]
    BY <2>1, ConcatEntries
  <2>3. \A k \in 1..Len(b) : (a \o b)[Len(a) + k] = b[k]
    BY <2>1, ConcatEntries
  <2>4. (p - 1) + 1 = p /\ 1 \in 1..1
    BY <1>0
  <2>5. Len(a) = p - 1 /\ Len(b) = 1
    BY <1>1, <1>3
  <2>6. (a \o b)[(p - 1) + 1] = b[1]
    BY <2>3, <2>4, <2>5
  <2>7. Len(a \o b) = p
    BY <1>0, <2>2, <2>5
  <2>8. \A k \in 1..(p - 1) : (a \o b)[k] = ts[k]
    BY <1>1, <2>2, <2>5
  <2> QED BY <1>3, <2>2, <2>4, <2>6, <2>7, <2>8
<1> DEFINE d == a \o b
<1>6. d \in Seq(S) /\ Len(d) = p /\ (\A k \in 1..(p - 1) : d[k] = ts[k]) /\ d[p] = x
  BY <1>5
<1> HIDE DEF d
<1>7. /\ d \o c \in Seq(S) /\ Len(d \o c) = p + (Len(ts) - p + 1)
      /\ \A k \in 1..p : (d \o c)[k] = d[k]
      /\ \A k \in 1..(Len(ts) - p + 1) : (d \o c)[p + k] = c[k]
  <2>1. d \in Seq(S) /\ c \in Seq(S)
    BY <1>2, <1>6
  <2>2. /\ d \o c \in Seq(S) /\ Len(d \o c) = Len(d) + Len(c)
        /\ \A k \in 1..Len(d) : (d \o c)[k] = d[k]
    BY <2>1, ConcatEntries
  <2>3. \A k \in 1..Len(c) : (d \o c)[Len(d) + k] = c[k]
    BY <2>1, ConcatEntries
  <2> QED BY <1>2, <1>6, <2>2, <2>3, Zenon
<1>8. ASSUME NEW k \in 1..Len(ts), k >= p PROVE (d \o c)[k + 1] = ts[k]
  <2>1. k - p + 1 \in 1..(Len(ts) - p + 1) /\ p + (k - p + 1) = k + 1 /\ p + (k - p + 1) - 1 = k
    BY <1>0, <1>8
  <2>2. (d \o c)[p + (k - p + 1)] = c[k - p + 1]
    BY <1>7, <2>1
  <2>3. c[k - p + 1] = ts[p + (k - p + 1) - 1]
    BY <1>2, <2>1
  <2> QED BY <2>1, <2>2, <2>3
<1>9. ASSUME NEW k \in 1..Len(ts), k < p PROVE (d \o c)[k] = ts[k]
  <2>1. k \in 1..p /\ k \in 1..(p - 1)
    BY <1>0, <1>9
  <2> QED BY <1>6, <1>7, <2>1
<1>10. (d \o c)[p] = x /\ Len(d \o c) = Len(ts) + 1
  <2>1. p \in 1..p /\ p + (Len(ts) - p + 1) = Len(ts) + 1
    BY <1>0
  <2> QED BY <1>6, <1>7, <2>1
<1> QED BY <1>4, <1>7, <1>8, <1>9, <1>10 DEF d

(* QList::removeAt, element by element. *)
LEMMA RemoveAtEntries ==
  ASSUME NEW S, NEW ts \in Seq(S), NEW p \in 1..Len(ts)
  PROVE  /\ RemoveAt(ts, p) \in Seq(S)
         /\ Len(RemoveAt(ts, p)) = Len(ts) - 1
         /\ \A k \in 1..(Len(ts) - 1) : RemoveAt(ts, p)[k] = IF k < p THEN ts[k] ELSE ts[k + 1]
<1> DEFINE a == SubSeq(ts, 1, p - 1)
           c == SubSeq(ts, p + 1, Len(ts))
<1>0. Len(ts) \in Nat /\ p \in Int /\ 1 <= p /\ p <= Len(ts)
  OBVIOUS
<1>1. a \in Seq(S) /\ Len(a) = p - 1 /\ \A k \in 1..(p - 1) : a[k] = ts[k]
  <2>1. /\ a \in Seq(S) /\ Len(a) = (p - 1) - 1 + 1
        /\ \A k \in 1..((p - 1) - 1 + 1) : a[k] = ts[1 + k - 1]
    BY <1>0, SubSeqEntries
  <2>2. (p - 1) - 1 + 1 = p - 1 /\ \A k \in 1..(p - 1) : 1 + k - 1 = k
    BY <1>0
  <2> HIDE DEF a
  <2> QED BY <2>1, <2>2
<1>2. /\ c \in Seq(S) /\ Len(c) = Len(ts) - p
      /\ \A k \in 1..(Len(ts) - p) : c[k] = ts[p + k]
  <2>1. /\ c \in Seq(S) /\ Len(c) = Len(ts) - (p + 1) + 1
        /\ \A k \in 1..(Len(ts) - (p + 1) + 1) : c[k] = ts[(p + 1) + k - 1]
    BY <1>0, SubSeqEntries
  <2>2. Len(ts) - (p + 1) + 1 = Len(ts) - p /\ \A k \in 1..(Len(ts) - p) : (p + 1) + k - 1 = p + k
    BY <1>0
  <2> HIDE DEF c
  <2> QED BY <2>1, <2>2
<1>4. RemoveAt(ts, p) = a \o c
  BY DEF RemoveAt
<1> HIDE DEF a, c
<1>5. /\ a \o c \in Seq(S) /\ Len(a \o c) = (p - 1) + (Len(ts) - p)
      /\ \A k \in 1..(p - 1) : (a \o c)[k] = a[k]
      /\ \A k \in 1..(Len(ts) - p) : (a \o c)[(p - 1) + k] = c[k]
  <2>1. a \in Seq(S) /\ c \in Seq(S)
    BY <1>1, <1>2
  <2>2. /\ a \o c \in Seq(S) /\ Len(a \o c) = Len(a) + Len(c)
        /\ \A k \in 1..Len(a) : (a \o c)[k] = a[k]
    BY <2>1, ConcatEntries
  <2>3. \A k \in 1..Len(c) : (a \o c)[Len(a) + k] = c[k]
    BY <2>1, ConcatEntries
  <2> QED BY <1>1, <1>2, <2>2, <2>3, Zenon
<1>6. ASSUME NEW k \in 1..(Len(ts) - 1) PROVE (a \o c)[k] = IF k < p THEN ts[k] ELSE ts[k + 1]
  <2>1. CASE k < p
    <3>1. k \in 1..(p - 1)
      BY <1>0, <2>1
    <3> QED BY <1>1, <1>5, <2>1, <3>1
  <2>2. CASE ~(k < p)
    <3>1. k - p + 1 \in 1..(Len(ts) - p) /\ (p - 1) + (k - p + 1) = k /\ p + (k - p + 1) = k + 1
      BY <1>0, <2>2
    <3>2. (a \o c)[(p - 1) + (k - p + 1)] = c[k - p + 1] /\ c[k - p + 1] = ts[p + (k - p + 1)]
      BY <1>2, <1>5, <3>1
    <3> QED BY <2>2, <3>1, <3>2
  <2> QED BY <2>1, <2>2
<1>7. (p - 1) + (Len(ts) - p) = Len(ts) - 1
  BY <1>0
<1> QED BY <1>4, <1>5, <1>6, <1>7

-----------------------------------------------------------------------------
(* The queue, by its entries. *)

(* What may be queued: a test that is not on demand, with a delay its schedule allows. *)
Entry == {x \in Queued : x.delay \in Delays(x.def)}

(* No two tests of the queue have the same id. *)
DistinctIds(ts) == \A k, m \in DOMAIN ts : ts[k].def.id = ts[m].def.id => k = m

IdsOf(ts) == {ts[k].def.id : k \in DOMAIN ts}

(* An entry's definition is one of the schedules. *)
LEMMA EntryType ==
  ASSUME NEW x \in Entry
  PROVE  /\ x \in Queued /\ x.def \in Schedules /\ x.def.id \in Ids /\ x.def.type # "ondemand"
         /\ x.delay \in Nat /\ x.last \in Nat \cup {Never} /\ x.delay \in Delays(x.def)
BY DEF Entry, Queued, Ids

(* A sequence of entries and its indices. *)
LEMMA QueueType ==
  ASSUME NEW ts \in Seq(Entry)
  PROVE  /\ Len(ts) \in Nat /\ DOMAIN ts = 1..Len(ts) /\ \A k \in 1..Len(ts) : ts[k] \in Entry
         /\ ts = <<>> <=> Len(ts) = 0
         /\ ts # <<>> => Head(ts) = ts[1] /\ 1 \in 1..Len(ts)
OBVIOUS

(* The position at which a test is inserted is one of the queue's, or its end. *)
LEMMA PositionType ==
  ASSUME NEW ts \in Seq(Entry), NEW x
  PROVE  position(ts, x) \in 1..(Len(ts) + 1)
<1> DEFINE later == {i \in 1..Len(ts) : timeLeft(x) < timeLeft(ts[i])}
<1>1. Len(ts) \in Nat
  BY QueueType
<1>2. CASE later = {}
  BY <1>1, <1>2 DEF position
<1>3. CASE later # {}
  <2>1. later \in SUBSET Nat
    BY <1>1
  <2>2. \E i \in later : \A j \in later : i <= j
    BY <1>3, <2>1, LeastNumber
  <2>3. position(ts, x) = CHOOSE i \in later : \A j \in later : i <= j
    BY <1>3 DEF position
  <2>4. position(ts, x) \in later
    BY <2>2, <2>3
  <2> QED BY <1>1, <2>4
<1> QED BY <1>2, <1>3

(***************************************************************************)
(* Inserting a test whose id is not queued: the ids stay distinct, and the *)
(* first test changes only when the position is the first.                 *)
(***************************************************************************)
LEMMA Inserted ==
  ASSUME NEW ts \in Seq(Entry), NEW x \in Entry, DistinctIds(ts), x.def.id \notin IdsOf(ts)
  PROVE  /\ insert(ts, x) \in Seq(Entry) /\ insert(ts, x) # <<>>
         /\ DistinctIds(insert(ts, x))
         /\ IdsOf(insert(ts, x)) = IdsOf(ts) \cup {x.def.id}
         /\ position(ts, x) = 1 => Head(insert(ts, x)) = x
         /\ position(ts, x) # 1 => ts # <<>> /\ Head(insert(ts, x)) = Head(ts)
<1> DEFINE p == position(ts, x)
           q == InsertAt(ts, p, x)
<1>0. Len(ts) \in Nat /\ DOMAIN ts = 1..Len(ts) /\ p \in 1..(Len(ts) + 1)
  BY QueueType, PositionType
<1>1. insert(ts, x) = q
  BY DEF insert
<1> HIDE DEF p
<1>2. /\ q \in Seq(Entry) /\ Len(q) = Len(ts) + 1 /\ q[p] = x
      /\ \A k \in 1..Len(ts) : k < p => q[k] = ts[k]
      /\ \A k \in 1..Len(ts) : k >= p => q[k + 1] = ts[k]
  <2>1. q \in Seq(Entry) /\ Len(q) = Len(ts) + 1 /\ q[p] = x
    BY <1>0, InsertAtEntries
  <2>2. \A k \in 1..Len(ts) : k < p => q[k] = ts[k]
    BY <1>0, InsertAtEntries
  <2>3. \A k \in 1..Len(ts) : k >= p => q[k + 1] = ts[k]
    BY <1>0, InsertAtEntries
  <2> QED BY <2>1, <2>2, <2>3
<1> HIDE DEF q
<1>3. DOMAIN q = 1..(Len(ts) + 1) /\ q # <<>> /\ Head(q) = q[1]
  BY <1>0, <1>2, QueueType
<1>4. ASSUME NEW k \in 1..(Len(ts) + 1), k # p
      PROVE  \E j \in 1..Len(ts) : q[k] = ts[j] /\ k = IF j < p THEN j ELSE j + 1
  <2>1. CASE k < p
    <3>1. k \in 1..Len(ts)
      BY <1>0, <2>1
    <3> QED BY <1>2, <2>1, <3>1
  <2>2. CASE k > p
    <3>1. k - 1 \in 1..Len(ts) /\ k - 1 >= p /\ (k - 1) + 1 = k /\ ~(k - 1 < p)
      BY <1>0, <2>2
    <3>2. q[(k - 1) + 1] = ts[k - 1]
      BY <1>2, <3>1
    <3> QED BY <3>1, <3>2
  <2> QED BY <1>0, <1>4, <2>1, <2>2
<1>5. \A j \in 1..Len(ts) : ts[j].def.id # x.def.id
  BY <1>0 DEF IdsOf
<1>6. DistinctIds(q)
  <2> SUFFICES ASSUME NEW k \in 1..(Len(ts) + 1), NEW m \in 1..(Len(ts) + 1), q[k].def.id = q[m].def.id
               PROVE  k = m
    BY <1>3 DEF DistinctIds
  <2>1. CASE k = p \/ m = p
    BY <1>2, <1>4, <1>5, <2>1
  <2>2. CASE k # p /\ m # p
    <3>1. PICK j \in 1..Len(ts) : q[k] = ts[j] /\ k = IF j < p THEN j ELSE j + 1
      BY <1>4, <2>2
    <3>2. PICK n \in 1..Len(ts) : q[m] = ts[n] /\ m = IF n < p THEN n ELSE n + 1
      BY <1>4, <2>2
    <3>3. j = n
      BY <1>0, <3>1, <3>2 DEF DistinctIds
    <3> QED BY <3>1, <3>2, <3>3
  <2> QED BY <2>1, <2>2
<1>7. IdsOf(q) = IdsOf(ts) \cup {x.def.id}
  <2>1. ASSUME NEW i \in IdsOf(q) PROVE i \in IdsOf(ts) \cup {x.def.id}
    <3>1. PICK k \in 1..(Len(ts) + 1) : i = q[k].def.id
      BY <1>3 DEF IdsOf
    <3>2. CASE k = p
      BY <1>2, <3>1, <3>2
    <3>3. CASE k # p
      BY <1>0, <1>4, <3>1, <3>3 DEF IdsOf
    <3> QED BY <3>2, <3>3
  <2>2. x.def.id \in IdsOf(q)
    BY <1>0, <1>2, <1>3 DEF IdsOf
  <2>3. ASSUME NEW j \in 1..Len(ts) PROVE ts[j].def.id \in IdsOf(q)
    <3>1. j \in 1..(Len(ts) + 1) /\ j + 1 \in 1..(Len(ts) + 1) /\ (j < p \/ j >= p)
      BY <1>0
    <3> QED BY <1>2, <1>3, <3>1 DEF IdsOf
  <2> QED BY <1>0, <2>1, <2>2, <2>3 DEF IdsOf
<1>8. p = 1 => Head(q) = x
  BY <1>2, <1>3
<1>9. ASSUME p # 1 PROVE ts # <<>> /\ Head(q) = Head(ts)
  <2>1. 1 \in 1..Len(ts) /\ 1 < p
    BY <1>0, <1>9
  <2>2. ts # <<>> /\ Head(ts) = ts[1]
    BY <1>0, <2>1, QueueType
  <2> QED BY <1>2, <1>3, <2>1, <2>2
<1> QED BY <1>1, <1>2, <1>3, <1>6, <1>7, <1>8, <1>9 DEF p

(* Removing a test: its id goes, the others stay distinct, the first test stays unless it is the one. *)
LEMMA Removed ==
  ASSUME NEW ts \in Seq(Entry), NEW p \in 1..Len(ts), DistinctIds(ts)
  PROVE  /\ RemoveAt(ts, p) \in Seq(Entry)
         /\ DistinctIds(RemoveAt(ts, p))
         /\ IdsOf(RemoveAt(ts, p)) = IdsOf(ts) \ {ts[p].def.id}
         /\ p # 1 => RemoveAt(ts, p) # <<>> /\ Head(RemoveAt(ts, p)) = Head(ts)
<1> DEFINE q == RemoveAt(ts, p)
<1>0. Len(ts) \in Nat /\ DOMAIN ts = 1..Len(ts)
  BY QueueType
<1>1. /\ q \in Seq(Entry) /\ Len(q) = Len(ts) - 1
      /\ \A k \in 1..(Len(ts) - 1) : q[k] = IF k < p THEN ts[k] ELSE ts[k + 1]
  BY RemoveAtEntries
<1> HIDE DEF q
<1>2. DOMAIN q = 1..(Len(ts) - 1)
  BY <1>1, QueueType
<1>3. ASSUME NEW k \in 1..(Len(ts) - 1)
      PROVE  \E j \in 1..Len(ts) : j # p /\ q[k] = ts[j] /\ j = IF k < p THEN k ELSE k + 1
  <2>1. CASE k < p
    <3>1. k \in 1..Len(ts) /\ k # p
      BY <1>0, <2>1
    <3> QED BY <1>1, <2>1, <3>1
  <2>2. CASE ~(k < p)
    <3>1. k + 1 \in 1..Len(ts) /\ k + 1 # p
      BY <1>0, <2>2
    <3> QED BY <1>1, <2>2, <3>1
  <2> QED BY <2>1, <2>2
<1>4. DistinctIds(q)
  <2> SUFFICES ASSUME NEW k \in 1..(Len(ts) - 1), NEW m \in 1..(Len(ts) - 1), q[k].def.id = q[m].def.id
               PROVE  k = m
    BY <1>2 DEF DistinctIds
  <2>1. PICK j \in 1..Len(ts) : q[k] = ts[j] /\ j = IF k < p THEN k ELSE k + 1
    BY <1>3
  <2>2. PICK n \in 1..Len(ts) : q[m] = ts[n] /\ n = IF m < p THEN m ELSE m + 1
    BY <1>3
  <2>3. j = n
    BY <1>0, <2>1, <2>2 DEF DistinctIds
  <2> QED BY <1>0, <2>1, <2>2, <2>3
<1>5. IdsOf(q) = IdsOf(ts) \ {ts[p].def.id}
  <2>1. ASSUME NEW i \in IdsOf(q) PROVE i \in IdsOf(ts) \ {ts[p].def.id}
    <3>1. PICK k \in 1..(Len(ts) - 1) : i = q[k].def.id
      BY <1>2 DEF IdsOf
    <3>2. PICK j \in 1..Len(ts) : j # p /\ q[k] = ts[j]
      BY <1>3
    <3> QED BY <1>0, <3>1, <3>2 DEF IdsOf, DistinctIds
  <2>2. ASSUME NEW j \in 1..Len(ts), j # p PROVE ts[j].def.id \in IdsOf(q)
    <3>1. CASE j < p
      <4>1. j \in 1..(Len(ts) - 1)
        BY <1>0, <3>1
      <4> QED BY <1>1, <1>2, <3>1, <4>1 DEF IdsOf
    <3>2. CASE j > p
      <4>1. j - 1 \in 1..(Len(ts) - 1) /\ ~(j - 1 < p) /\ (j - 1) + 1 = j
        BY <1>0, <3>2
      <4>2. q[j - 1] = ts[(j - 1) + 1]
        BY <1>1, <4>1
      <4> QED BY <1>2, <4>1, <4>2 DEF IdsOf
    <3> QED BY <1>0, <2>2, <3>1, <3>2
  <2> QED BY <1>0, <2>1, <2>2 DEF IdsOf
<1>6. ASSUME p # 1 PROVE q # <<>> /\ Head(q) = Head(ts)
  <2>1. 1 \in 1..(Len(ts) - 1) /\ 1 < p /\ Len(ts) - 1 # 0 /\ Len(ts) # 0
    BY <1>0, <1>6
  <2>2. q # <<>> /\ Head(q) = q[1] /\ Head(ts) = ts[1]
    BY <1>1, <2>1, QueueType
  <2> QED BY <1>1, <2>1, <2>2
<1> QED BY <1>1, <1>4, <1>5, <1>6 DEF q

-----------------------------------------------------------------------------
(* The next run and the timer, as functions of the time t. *)

RunAt(x, t) ==
  CASE x.def.type = "periodic" -> periodicNextRun(x.def, x.delay, t)
    [] x.def.type = "onoff"    -> x.def.start
    [] OTHER                   -> t
LeftAt(x, t) == IF RunAt(x, t) = Never THEN 0 ELSE RunAt(x, t) - t + Offset
FiresAt(x, t) ==
  IF LeftAt(x, t) <= 0 THEN t
  ELSE IF toInt(LeftAt(x, t)) < 0 THEN Never ELSE t + toInt(LeftAt(x, t))

(* TimerArmed for any queue, timer and time. *)
Armed(ts, tm, t) ==
  IF ts = <<>> THEN tm = Never
  ELSE /\ tm # Never
       /\ RunAt(Head(ts), t) # Never => (tm <= t \/ tm <= t + LeftAt(Head(ts), t))

(* These are the operators of Scheduler, at the present time. *)
LEMMA AtNow ==
  ASSUME NEW x, NEW ts
  PROVE  /\ nextRun(x) = RunAt(x, now) /\ timeLeft(x) = LeftAt(x, now) /\ firesAt(x) = FiresAt(x, now)
         /\ updatedTimer(ts) = IF ts = <<>> THEN Never ELSE FiresAt(Head(ts), now)
<1>1. \A y : nextRun(y) = RunAt(y, now)
  BY DEF nextRun, RunAt
<1>2. \A y : timeLeft(y) = LeftAt(y, now)
  BY <1>1 DEF timeLeft, LeftAt
<1>3. \A y : firesAt(y) = FiresAt(y, now)
  BY <1>2 DEF firesAt, FiresAt
<1> QED BY <1>1, <1>2, <1>3 DEF updatedTimer

(* TimerArmed, now and after a step. *)
LEMMA ArmedMeans ==
  /\ TimerArmed <=> Armed(tests, timer, now)
  /\ TimerArmed' <=> Armed(tests', timer', now')
<1>1. TimerArmed <=> Armed(tests, timer, now)
  BY AtNow DEF TimerArmed, Armed
<1>2. TimerArmed' <=> Armed(tests', timer', now')
  BY DEF TimerArmed, Armed, timeLeft, LeftAt, nextRun, RunAt
<1> QED BY <1>1, <1>2

(* Division by a period: the instants of the grid around a. *)
LEMMA Division ==
  ASSUME NEW a \in Int, NEW p \in Nat \ {0}
  PROVE  /\ (a \div p) \in Int /\ (a \div p) * p <= a /\ a < (a \div p + 1) * p
         /\ a >= 0 => (a \div p) >= 0
         /\ (a \div p) <= ((a + 1) \div p)
<1>1. (a \div p) \in Int /\ (a \div p) * p <= a /\ a < (a \div p + 1) * p
  OBVIOUS
<1>2. a >= 0 => (a \div p) >= 0
  OBVIOUS
<1>3. (a \div p) <= ((a + 1) \div p)
  OBVIOUS
<1> QED BY <1>1, <1>2, <1>3

(* A multiple of a period grows with its factor. *)
LEMMA Multiples ==
  ASSUME NEW a \in Int, NEW b \in Int, NEW p \in Nat \ {0}, a <= b
  PROVE  a * p \in Int /\ b * p \in Int /\ a * p <= b * p
OBVIOUS

(***************************************************************************)
(* The next run of a periodic timing is not before its start; it passes    *)
(* the end by the delay at most; and as time passes it only moves on, and  *)
(* never comes back once there is none.                                    *)
(***************************************************************************)
LEMMA PeriodicRuns ==
  ASSUME NEW d, d.period \in Nat \ {0}, d.start \in Nat, d.end \in Nat,
         NEW delay \in Nat, NEW t \in Nat
  PROVE  LET run  == periodicNextRun(d, delay, t)
             next == periodicNextRun(d, delay, t + 1)
         IN  /\ run = Never \/ (run \in Nat /\ (run = d.start \/ run <= d.end + delay))
             /\ next # Never => run # Never /\ run <= next
<1> DEFINE s == d.start  e == d.end  p == d.period
           c(u) == (u - s) \div p
           base(u) == s + (c(u) + 1) * p
           Run(u) == IF e < u THEN Never ELSE IF s > u THEN s
                     ELSE IF e < base(u) THEN Never ELSE base(u) + delay
<1>1. \A u : periodicNextRun(d, delay, u) = Run(u)
  BY DEF periodicNextRun
<1>2. s \in Nat /\ e \in Nat /\ p \in Nat \ {0}
  OBVIOUS
<1> HIDE DEF s, e, p
<1>3. \A u \in Nat : c(u) \in Int /\ (u >= s => c(u) >= 0)
  BY <1>2, Division
<1>4. c(t) <= c(t + 1)
  <2>1. (t + 1) - s = (t - s) + 1 /\ t - s \in Int
    BY <1>2
  <2> QED BY <1>2, <2>1, Division
<1> HIDE DEF c
<1>5. ASSUME NEW u \in Nat, u >= s PROVE base(u) \in Nat /\ base(u) >= s
  <2>1. 0 * p <= (c(u) + 1) * p /\ (c(u) + 1) * p \in Int
    BY <1>2, <1>3, <1>5, Multiples
  <2>2. 0 * p = 0
    BY <1>2
  <2> QED BY <1>2, <2>1, <2>2
<1>6. base(t) <= base(t + 1)
  <2>1. c(t) + 1 <= c(t + 1) + 1 /\ c(t) + 1 \in Int /\ c(t + 1) + 1 \in Int
    BY <1>3, <1>4
  <2>2. (c(t) + 1) * p <= (c(t + 1) + 1) * p /\ (c(t) + 1) * p \in Int /\ (c(t + 1) + 1) * p \in Int
    BY <1>2, <2>1, Multiples
  <2> QED BY <1>2, <2>2
<1> HIDE DEF base
<1>7. Run(t) = Never \/ (Run(t) \in Nat /\ (Run(t) = s \/ Run(t) <= e + delay))
  BY <1>2, <1>5
<1>8. ASSUME Run(t + 1) # Never PROVE Run(t) # Never /\ Run(t) <= Run(t + 1)
  <2>1. t + 1 \in Nat /\ (t >= s => t + 1 >= s)
    BY <1>2
  <2>2. Never = -1
    BY DEF Never
  <2> QED BY <1>2, <1>5, <1>6, <1>8, <2>1, <2>2
<1> QED BY <1>1, <1>7, <1>8 DEF s, e

(***************************************************************************)
(* The instants of the schedules fit the int of QTimer::start, after which *)
(* the interval that is passed is the one that is meant.                   *)
(***************************************************************************)
WithinTimer ==
  /\ Offset <= TimerMax
  /\ \A d \in Schedules : d.start + Offset <= TimerMax /\ d.end + d.spread + Offset <= TimerMax

(* What holds of the next run of a periodic timing holds of every test. *)
LEMMA EntryRuns ==
  ASSUME NEW x \in Entry, NEW t \in Nat
  PROVE  /\ RunAt(x, t) = Never \/ RunAt(x, t) \in Nat
         /\ RunAt(x, t) \in {Never, t, x.def.start} \/ RunAt(x, t) <= x.def.end + x.def.spread
         /\ RunAt(x, t + 1) # Never => RunAt(x, t) # Never /\ RunAt(x, t) <= RunAt(x, t + 1)
<1> DEFINE d == x.def
<1>1. d \in Schedules /\ d.type # "ondemand" /\ x.delay \in Nat /\ x.delay \in Delays(d)
  BY EntryType
<1>2. d.period \in Nat \ {0} /\ d.start \in Nat /\ d.end \in Nat /\ d.spread \in Nat
  BY <1>1, ConstantsAssumption
<1>3. x.delay <= d.spread
  BY <1>1, <1>2 DEF Delays
<1> HIDE DEF d
<1>4. CASE d.type = "periodic"
  <2>1. \A u : RunAt(x, u) = periodicNextRun(d, x.delay, u)
    BY <1>4 DEF RunAt, d
  <2>2. /\ RunAt(x, t) = Never \/ (RunAt(x, t) \in Nat /\ (RunAt(x, t) = d.start \/ RunAt(x, t) <= d.end + x.delay))
        /\ RunAt(x, t + 1) # Never => RunAt(x, t) # Never /\ RunAt(x, t) <= RunAt(x, t + 1)
    BY <1>1, <1>2, <2>1, PeriodicRuns
  <2>3. RunAt(x, t) \in Nat /\ RunAt(x, t) <= d.end + x.delay => RunAt(x, t) <= d.end + d.spread
    BY <1>1, <1>2, <1>3
  <2> QED BY <2>2, <2>3 DEF d
<1>5. CASE d.type = "onoff"
  <2>1. \A u : RunAt(x, u) = d.start
    BY <1>5 DEF RunAt, d
  <2> QED BY <1>2, <2>1 DEF d
<1>6. CASE d.type \notin {"periodic", "onoff"}
  <2>1. \A u : RunAt(x, u) = u
    BY <1>6 DEF RunAt, d
  <2>2. t <= t + 1 /\ t # Never
    BY DEF Never
  <2> QED BY <2>1, <2>2
<1> QED BY <1>4, <1>5, <1>6

(* The narrowing to an int leaves an interval that fits as it is. *)
LEMMA Narrowing ==
  ASSUME NEW ms \in Int
  PROVE  toInt(ms) \in Int /\ (0 < ms /\ ms <= TimerMax => toInt(ms) = ms)
<1> DEFINE a == ms + TimerMax + 1
           b == 2 * (TimerMax + 1)
<1>1. TimerMax \in Nat
  BY ConstantsAssumption
<1>2. a \in Int /\ b \in Nat \ {0} /\ (0 < ms /\ ms <= TimerMax => 0 <= a /\ a < b)
  BY <1>1
<1>3. toInt(ms) = (a % b) - (TimerMax + 1)
  BY DEF toInt
<1>4. a - (TimerMax + 1) = ms
  BY <1>1
<1> HIDE DEF a, b
<1>5. (a % b) \in Int /\ (0 <= a /\ a < b => (a % b) = a)
  BY <1>2
<1> QED BY <1>1, <1>2, <1>3, <1>4, <1>5

(***************************************************************************)
(* If the intervals fit, the timer fires at once for a test that is due,   *)
(* and for another one once the time left has passed.                      *)
(***************************************************************************)
LEMMA FiringInstant ==
  ASSUME WithinTimer, NEW x \in Entry, NEW t \in Nat
  PROVE  /\ LeftAt(x, t) \in Int
         /\ FiresAt(x, t) = IF LeftAt(x, t) <= 0 THEN t ELSE t + LeftAt(x, t)
<1> DEFINE l == LeftAt(x, t)
           d == x.def
<1>1. Offset \in Int /\ TimerMax \in Nat
  BY ConstantsAssumption
<1>2. l \in Int
  BY <1>1, EntryRuns DEF LeftAt
<1>3. l <= TimerMax
  <2>1. d \in Schedules
    BY EntryType
  <2>2. d.start \in Nat /\ d.end \in Nat /\ d.spread \in Nat
    BY <2>1, ConstantsAssumption
  <2>3. d.start + Offset <= TimerMax /\ d.end + d.spread + Offset <= TimerMax /\ Offset <= TimerMax
    BY <2>1 DEF WithinTimer
  <2>4. RunAt(x, t) \in {Never, t, d.start} \/ RunAt(x, t) <= d.end + d.spread
    BY EntryRuns
  <2>5. RunAt(x, t) = Never \/ RunAt(x, t) \in Nat
    BY EntryRuns
  <2> HIDE DEF d
  <2> QED BY <1>1, <2>2, <2>3, <2>4, <2>5 DEF LeftAt
<1> HIDE DEF l
<1>4. 0 < l /\ l <= TimerMax => toInt(l) = l
  BY <1>2, Narrowing
<1>5. FiresAt(x, t) = IF l <= 0 THEN t ELSE IF toInt(l) < 0 THEN Never ELSE t + toInt(l)
  BY DEF FiresAt, l
<1>6. CASE l <= 0
  BY <1>2, <1>5, <1>6 DEF l
<1>7. CASE ~(l <= 0)
  <2>1. 0 < l /\ ~(l < 0)
    BY <1>2, <1>7
  <2>2. toInt(l) = l
    BY <1>3, <1>4, <2>1
  <2>3. FiresAt(x, t) = t + l
    BY <1>5, <1>7, <2>1, <2>2, Zenon
  <2> QED BY <1>2, <1>7, <2>3 DEF l
<1> QED BY <1>6, <1>7

(***************************************************************************)
(* The instant for which the timer is started is one at which it fires,    *)
(* and not later than the test is due, if the interval fits.               *)
(***************************************************************************)
LEMMA Firing ==
  ASSUME NEW x \in Entry, NEW t \in Nat
  PROVE  /\ FiresAt(x, t) \in Nat \cup {Never}
         /\ WithinTimer => /\ FiresAt(x, t) # Never
                           /\ FiresAt(x, t) <= t \/ FiresAt(x, t) <= t + LeftAt(x, t)
<1> DEFINE l == LeftAt(x, t)
<1>1. Offset \in Int
  BY ConstantsAssumption
<1>2. l \in Int
  BY <1>1, EntryRuns DEF LeftAt
<1> HIDE DEF l
<1>3. toInt(l) \in Int
  BY <1>2, Narrowing
<1>4. FiresAt(x, t) = IF l <= 0 THEN t ELSE IF toInt(l) < 0 THEN Never ELSE t + toInt(l)
  BY DEF FiresAt, l
<1>5. FiresAt(x, t) \in Nat \cup {Never}
  BY <1>2, <1>3, <1>4
<1>6. ASSUME WithinTimer PROVE FiresAt(x, t) # Never /\ (FiresAt(x, t) <= t \/ FiresAt(x, t) <= t + l)
  <2>1. FiresAt(x, t) = IF l <= 0 THEN t ELSE t + l
    BY <1>6, FiringInstant DEF l
  <2> QED BY <1>2, <2>1 DEF Never
<1> QED BY <1>5, <1>6 DEF l

(* updateTimer, called for the queue ts. *)
LEMMA UpdatedArmed ==
  ASSUME NEW ts \in Seq(Entry), now \in Nat
  PROVE  /\ updatedTimer(ts) \in Nat \cup {Never}
         /\ ts = <<>> => updatedTimer(ts) = Never
         /\ WithinTimer => Armed(ts, updatedTimer(ts), now)
<1>1. CASE ts = <<>>
  BY <1>1 DEF updatedTimer, Armed
<1>2. CASE ts # <<>>
  <2>1. Head(ts) \in Entry
    BY <1>2
  <2>2. updatedTimer(ts) = FiresAt(Head(ts), now)
    BY <1>2, AtNow
  <2> QED BY <1>2, <2>1, <2>2, Firing DEF Armed
<1> QED BY <1>1, <1>2

(* Time passes: a timer that fires in time still does. *)
LEMMA ArmedLater ==
  ASSUME NEW ts \in Seq(Entry), NEW tm \in Nat \cup {Never}, NEW t \in Nat, Armed(ts, tm, t)
  PROVE  Armed(ts, tm, t + 1)
<1>1. CASE ts = <<>>
  BY <1>1 DEF Armed
<1>2. CASE ts # <<>>
  <2> DEFINE x == Head(ts)
  <2>1. x \in Entry
    BY <1>2
  <2>2. tm # Never /\ (RunAt(x, t) # Never => (tm <= t \/ tm <= t + LeftAt(x, t)))
    BY <1>2 DEF Armed
  <2> HIDE DEF x
  <2>3. ASSUME RunAt(x, t + 1) # Never PROVE tm <= t + 1 \/ tm <= (t + 1) + LeftAt(x, t + 1)
    <3>1. /\ RunAt(x, t) \in Nat /\ RunAt(x, t + 1) \in Nat /\ RunAt(x, t) <= RunAt(x, t + 1)
          /\ RunAt(x, t) # Never
      <4>1. t + 1 \in Nat
        OBVIOUS
      <4> QED BY <2>1, <2>3, <4>1, EntryRuns
    <3>2. Offset \in Int /\ tm \in Int
      BY ConstantsAssumption DEF Never
    <3>3. LeftAt(x, t) = RunAt(x, t) - t + Offset /\ LeftAt(x, t + 1) = RunAt(x, t + 1) - (t + 1) + Offset
      BY <2>3, <3>1 DEF LeftAt
    <3> DEFINE r == RunAt(x, t)  s == RunAt(x, t + 1)
    <3>4. r \in Nat /\ s \in Nat /\ r <= s
      BY <3>1
    <3>5. t + LeftAt(x, t) = r + Offset /\ (t + 1) + LeftAt(x, t + 1) = s + Offset
      <4> HIDE DEF r, s
      <4>1. t + (r - t + Offset) = r + Offset /\ (t + 1) + (s - (t + 1) + Offset) = s + Offset
        BY <3>2, <3>4
      <4> QED BY <3>3, <4>1 DEF r, s
    <3>6. tm <= t \/ tm <= r + Offset
      BY <2>2, <3>1, <3>5
    <3> HIDE DEF r, s
    <3>7. tm <= t + 1 \/ tm <= s + Offset
      BY <3>2, <3>4, <3>6
    <3> QED BY <3>5, <3>7
  <2> QED BY <1>2, <2>2, <2>3 DEF Armed, x
<1> QED BY <1>1, <1>2

-----------------------------------------------------------------------------
(* Loading the files. *)

(* A test offered to a queue: refused, or inserted. *)
LEMMA OfferedEntries ==
  ASSUME NEW ts \in Seq(Entry), NEW x \in Entry, DistinctIds(ts)
  PROVE  /\ offered(ts, x) \in Seq(Entry) /\ DistinctIds(offered(ts, x))
         /\ IdsOf(offered(ts, x)) = IdsOf(ts) \cup (IF nextRun(x) = Never THEN {} ELSE {x.def.id})
<1>1. CASE rejected(x, {ts[k].def.id : k \in DOMAIN ts})
  <2>1. offered(ts, x) = ts /\ (x.def.id \in IdsOf(ts) \/ nextRun(x) = Never)
    BY <1>1 DEF offered, rejected, IdsOf
  <2> QED BY <2>1
<1>2. CASE ~rejected(x, {ts[k].def.id : k \in DOMAIN ts})
  <2>1. x.def.id \notin IdsOf(ts) /\ nextRun(x) # Never
    BY <1>2 DEF rejected, IdsOf
  <2>2. offered(ts, x) = insert(ts, x)
    BY <1>2 DEF offered
  <2> QED BY <2>1, <2>2, Inserted
<1> QED BY <1>1, <1>2

(* g[n] is the queue after n files. *)
Loads(g, fs, delays, ids, n) ==
  g = [k \in 0..n |-> IF k = 0 THEN <<>> ELSE offered(g[k - 1], Fresh(fs[ids[k]], delays[ids[k]]))]

(* The recursion of load() has a solution, for any number of files. *)
LEMMA LoadsExists ==
  ASSUME NEW fs, NEW delays, NEW ids
  PROVE  \A n \in Nat : \E g : Loads(g, fs, delays, ids, n)
<1> DEFINE T == {n \in Nat : \E g : Loads(g, fs, delays, ids, n)}
           New(q, k) == offered(q, Fresh(fs[ids[k]], delays[ids[k]]))
<1>1. 0 \in T
  <2> DEFINE g == [k \in 0..0 |-> <<>>]
  <2>1. g = [k \in 0..0 |-> IF k = 0 THEN <<>> ELSE New(g[k - 1], k)]
    <3> HIDE DEF New
    <3> QED OBVIOUS
  <2> HIDE DEF g
  <2>2. Loads(g, fs, delays, ids, 0)
    BY <2>1 DEF Loads
  <2> QED BY <2>2
<1>2. ASSUME NEW n \in Nat, n \in T PROVE n + 1 \in T
  <2>1. PICK g : Loads(g, fs, delays, ids, n)
    BY <1>2
  <2> DEFINE h == [k \in 0..(n + 1) |-> IF k = n + 1 THEN New(g[n], n + 1) ELSE g[k]]
  <2>2. \A k \in 0..n : g[k] = IF k = 0 THEN <<>> ELSE New(g[k - 1], k)
    BY <2>1 DEF Loads
  <2> HIDE DEF New
  <2>3. \A k \in 0..n : h[k] = g[k]
    OBVIOUS
  <2>4. h[n + 1] = New(g[n], n + 1)
    OBVIOUS
  <2>5. ASSUME NEW k \in 0..(n + 1) PROVE h[k] = IF k = 0 THEN <<>> ELSE New(h[k - 1], k)
    <3> HIDE DEF h
    <3>1. CASE k = n + 1
      <4>1. k - 1 = n /\ k # 0 /\ n \in 0..n
        BY <3>1
      <4>2. h[k - 1] = g[n]
        BY <2>3, <4>1
      <4> QED BY <2>4, <3>1, <4>1, <4>2
    <3>2. CASE k \in 0..n /\ k # 0
      <4>1. k - 1 \in 0..n
        BY <3>2
      <4>2. h[k] = g[k] /\ h[k - 1] = g[k - 1]
        BY <2>3, <3>2, <4>1
      <4> QED BY <2>2, <3>2, <4>2
    <3>3. CASE k = 0
      <4>1. h[0] = g[0] /\ g[0] = <<>>
        BY <2>2, <2>3
      <4> QED BY <3>3, <4>1
    <3> QED BY <3>1, <3>2, <3>3
  <2>6. h = [k \in 0..(n + 1) |-> IF k = 0 THEN <<>> ELSE New(h[k - 1], k)]
    BY <2>5
  <2>7. Loads(h, fs, delays, ids, n + 1)
    BY <2>6 DEF Loads, New
  <2> QED BY <2>7
<1> HIDE DEF T
<1>3. \A n \in Nat : n \in T
  BY <1>1, <1>2, InductionOnSet
<1> QED BY <1>3 DEF T

(***************************************************************************)
(* The files are those of queued tests: each holds a schedule, not one on  *)
(* demand, under its own id.                                               *)
(***************************************************************************)
FilesOwn(fs) ==
  /\ fs \in [Ids -> Schedules \cup {NoFile}]
  /\ \A i \in Ids : fs[i] # NoFile => fs[i] \in Schedules /\ fs[i].type # "ondemand" /\ fs[i].id = i

(* A test made of a schedule and one of its delays may be queued. *)
LEMMA FreshEntry ==
  ASSUME NEW d \in Schedules, d.type # "ondemand", NEW delay \in Delays(d)
  PROVE  Fresh(d, delay) \in Entry /\ Fresh(d, delay).def = d
<1>1. d.spread \in Nat
  BY ConstantsAssumption
<1>2. delay \in Nat
  BY <1>1 DEF Delays
<1> QED BY <1>2 DEF Entry, Queued, Fresh

(* The delay drawn for a stored schedule is one of those its constructor draws from. *)
LEMMA DrawnInRange ==
  ASSUME NEW fs, FilesOwn(fs), NEW delays \in DrawnDelays(fs), NEW i \in Ids, fs[i] # NoFile
  PROVE  delays[i] \in Delays(fs[i])
<1> DEFINE spread == {j \in Ids : fs[j] # NoFile /\ fs[j].spread > 0}
<1>1. PICK f \in {f \in [spread -> UNION {Delays(d) : d \in Schedules}] :
                    \A j \in spread : f[j] \in Delays(fs[j])} :
        delays = [j \in Ids |-> IF j \in spread THEN f[j] ELSE 0]
  BY DEF DrawnDelays
<1>2. delays[i] = IF i \in spread THEN f[i] ELSE 0
  BY <1>1
<1>3. fs[i].spread \in Nat
  BY ConstantsAssumption DEF FilesOwn
<1>4. CASE i \in spread
  BY <1>1, <1>2, <1>4
<1>5. CASE i \notin spread
  <2>1. ~(fs[i].spread > 0)
    BY <1>5
  <2>2. fs[i].spread = 0
    BY <1>3, <2>1
  <2> QED BY <1>2, <1>5, <2>2 DEF Delays
<1> QED BY <1>4, <1>5

(* The ids of the files, in the order in which loadData reads them. *)
LEMMA StoredType ==
  ASSUME NEW fs, NEW ids \in StoredIds(fs)
  PROVE  LET S == {i \in Ids : fs[i] # NoFile}
         IN  /\ IsFiniteSet(S) /\ Cardinality(S) \in Nat
             /\ ids \in [1..Cardinality(S) -> S]
             /\ Len(ids) \in Nat /\ \A k \in 1..Len(ids) : ids[k] \in S
<1> DEFINE S == {i \in Ids : fs[i] # NoFile}
<1>1. IsFiniteSet(S)
  <2> DEFINE f == [d \in Schedules |-> d.id]
  <2>1. f \in Surjection(Schedules, Ids)
    BY DEF Surjection, Ids
  <2>2. IsFiniteSet(Ids)
    BY <2>1, FS_Surjection, ConstantsAssumption
  <2> QED BY <2>2, FS_Subset
<1>2. Cardinality(S) \in Nat
  BY <1>1, FS_CardinalityType
<1>3. ids \in [1..Cardinality(S) -> S]
  BY DEF StoredIds, SetToSeqs
<1> HIDE DEF S
<1>4. ids \in Seq(S)
  BY <1>2, <1>3
<1>5. Len(ids) \in Nat /\ \A k \in 1..Len(ids) : ids[k] \in S
  BY <1>4
<1> QED BY <1>1, <1>2, <1>3, <1>5 DEF S

(***************************************************************************)
(* What loadData makes of the files is a queue without two tests of one    *)
(* id: one for each file whose schedule has another run.                   *)
(***************************************************************************)
LEMMA LoadedQueue ==
  ASSUME NEW fs, FilesOwn(fs), NEW delays \in DrawnDelays(fs), NEW ids \in StoredIds(fs)
  PROVE  /\ load(fs, delays, ids) \in Seq(Entry) /\ DistinctIds(load(fs, delays, ids))
         /\ IdsOf(load(fs, delays, ids)) =
              {i \in Ids : fs[i] # NoFile /\ nextRun(Fresh(fs[i], delays[i])) # Never}
<1> DEFINE S == {i \in Ids : fs[i] # NoFile}
<1>1. IsFiniteSet(S)
  BY StoredType
<1>2. Cardinality(S) \in Nat
  BY StoredType
<1>3. ids \in [1..Cardinality(S) -> S]
  BY StoredType
<1>5. Len(ids) \in Nat /\ \A k \in 1..Len(ids) : ids[k] \in S
  BY StoredType
<1> HIDE DEF S
<1>6. ASSUME NEW i \in S PROVE Fresh(fs[i], delays[i]) \in Entry
  <2>1. i \in Ids /\ fs[i] # NoFile /\ fs[i] \in Schedules /\ fs[i].type # "ondemand"
    BY DEF S, FilesOwn
  <2>2. delays[i] \in Delays(fs[i])
    BY <2>1, DrawnInRange
  <2> QED BY <2>1, <2>2, FreshEntry
<1> DEFINE c == CHOOSE g : Loads(g, fs, delays, ids, Len(ids))
<1>7. Loads(c, fs, delays, ids, Len(ids))
  BY <1>5, LoadsExists
<1>8. load(fs, delays, ids) = c[Len(ids)]
  BY Zenon DEF load, Loads
<1> HIDE DEF c
<1>9. \A k \in 0..Len(ids) : c[k] = IF k = 0 THEN <<>> ELSE offered(c[k - 1], Fresh(fs[ids[k]], delays[ids[k]]))
  BY <1>7 DEF Loads
<1> DEFINE Runs(i) == nextRun(Fresh(fs[i], delays[i])) # Never
           T == {n \in Nat : n <= Len(ids) =>
                   /\ c[n] \in Seq(Entry) /\ DistinctIds(c[n])
                   /\ IdsOf(c[n]) = {i \in S : Runs(i) /\ \E k \in 1..n : i = ids[k]}}
<1> HIDE DEF Runs
<1>10. 0 \in T
  <2>1. c[0] = <<>>
    BY <1>5, <1>9
  <2>2. <<>> \in Seq(Entry) /\ DistinctIds(<<>>) /\ IdsOf(<<>>) = {}
    BY DEF DistinctIds, IdsOf
  <2>3. \A k \in 1..0 : FALSE
    OBVIOUS
  <2> QED BY <2>1, <2>2, <2>3
<1>11. ASSUME NEW n \in Nat, n \in T PROVE n + 1 \in T
  <2> SUFFICES ASSUME n + 1 <= Len(ids)
               PROVE  /\ c[n + 1] \in Seq(Entry) /\ DistinctIds(c[n + 1])
                      /\ IdsOf(c[n + 1]) = {i \in S : Runs(i) /\ \E k \in 1..(n + 1) : i = ids[k]}
    OBVIOUS
  <2>1. /\ n <= Len(ids) /\ n + 1 \in 0..Len(ids) /\ n + 1 \in 1..Len(ids)
        /\ (n + 1) - 1 = n /\ n + 1 # 0
    BY <1>5
  <2>2. c[n + 1] = offered(c[n], Fresh(fs[ids[n + 1]], delays[ids[n + 1]]))
    BY <1>9, <2>1
  <2>3. Fresh(fs[ids[n + 1]], delays[ids[n + 1]]) \in Entry
    BY <1>5, <1>6, <2>1
  <2>4. /\ c[n] \in Seq(Entry) /\ DistinctIds(c[n])
        /\ IdsOf(c[n]) = {i \in S : Runs(i) /\ \E k \in 1..n : i = ids[k]}
    BY <1>11, <2>1
  <2> DEFINE j == ids[n + 1]
             x == Fresh(fs[j], delays[j])
  <2>5. j \in S /\ x.def.id = j
    BY <1>5, <2>1 DEF S, FilesOwn, Fresh
  <2>6. c[n + 1] \in Seq(Entry) /\ DistinctIds(c[n + 1])
    BY <2>2, <2>3, <2>4, OfferedEntries
  <2>7. IdsOf(c[n + 1]) = IdsOf(c[n]) \cup (IF nextRun(x) = Never THEN {} ELSE {x.def.id})
    BY <2>2, <2>3, <2>4, OfferedEntries
  <2>8. IdsOf(c[n + 1]) = IdsOf(c[n]) \cup (IF Runs(j) THEN {j} ELSE {})
    BY <2>5, <2>7 DEF Runs
  <2>9. \A k : k \in 1..(n + 1) <=> (k \in 1..n \/ k = n + 1)
    OBVIOUS
  <2> DEFINE Loaded(m) == {i \in S : Runs(i) /\ \E k \in 1..m : i = ids[k]}
  <2>10. CASE Runs(j)
    <3>1. Loaded(n + 1) = Loaded(n) \cup {j}
      BY <2>5, <2>9, <2>10, Zenon
    <3> QED BY <2>4, <2>6, <2>8, <2>10, <3>1, Zenon
  <2>11. CASE ~Runs(j)
    <3>1. Loaded(n + 1) = Loaded(n)
      BY <2>5, <2>9, <2>11, Zenon
    <3> QED BY <2>4, <2>6, <2>8, <2>11, <3>1, Zenon
  <2> QED BY <2>10, <2>11
<1> HIDE DEF T
<1>12. Len(ids) \in T
  BY <1>5, <1>10, <1>11, InductionOnSet
<1>13. /\ c[Len(ids)] \in Seq(Entry) /\ DistinctIds(c[Len(ids)])
       /\ IdsOf(c[Len(ids)]) = {i \in S : Runs(i) /\ \E k \in 1..Len(ids) : i = ids[k]}
  BY <1>5, <1>12 DEF T
<1>14. \A i \in S : \E k \in 1..Len(ids) : i = ids[k]
  <2> DEFINE n == Cardinality(S)
  <2>1. \A k, m \in 1..n : k # m => ids[k] # ids[m]
    BY DEF StoredIds, SetToSeqs, S
  <2>2. ids \in Injection(1..n, S)
    BY <1>3, <2>1 DEF Injection, IsInjective
  <2>3. Cardinality(1..n) = n
    BY <1>2, FS_Interval
  <2>4. ids \in Surjection(1..n, S)
    BY <1>1, <2>2, <2>3, FS_Injection
  <2>5. Len(ids) = n
    BY <1>2, <1>3
  <2> QED BY <2>4, <2>5 DEF Surjection
<1>15. IdsOf(c[Len(ids)]) = {i \in Ids : fs[i] # NoFile /\ nextRun(Fresh(fs[i], delays[i])) # Never}
  BY <1>13, <1>14 DEF S, Runs
<1> QED BY <1>8, <1>13, <1>15

-----------------------------------------------------------------------------
(* The inductive invariant. *)

(* The queue and the two sets of ids. *)
QueueInv ==
  /\ tests \in Seq(Entry) /\ DistinctIds(tests)
  /\ testIds = IdsOf(tests) /\ testIds \subseteq allTestIds /\ allTestIds \subseteq Ids

(* The timer is off while nothing waits: timeout() finds a first test. *)
OffWhenEmpty == tests = <<>> => timer = Never

(* The on-demand tests among the schedules. *)
OnDemands == {d \in Schedules : d.type = "ondemand"}

SInv ==
  /\ now \in 0..MaxTime /\ timer \in Nat \cup {Never}
  /\ QueueInv /\ OffWhenEmpty
  /\ onDemandTests \subseteq OnDemands
  /\ FilesOwn(files)
  /\ ran \in [Schedules -> Nat \cup {Never}]

(* The ids of a queue are known ids. *)
LEMMA KnownIds ==
  ASSUME NEW ts \in Seq(Entry)
  PROVE  IdsOf(ts) \subseteq Ids
BY QueueType, EntryType DEF IdsOf

(* An id that is known is that of a queued or an on-demand test. *)
NoStaleId == allTestIds \subseteq testIds \cup {d.id : d \in onDemandTests}

(* The invariant has the types, and most of what IdsMatch says. *)
LEMMA SInvMeans == SInv => TypeOK /\ (NoStaleId => IdsMatch)
<1> SUFFICES ASSUME SInv PROVE TypeOK /\ (NoStaleId => IdsMatch)
  OBVIOUS
<1>1. /\ tests \in Seq(Entry) /\ DistinctIds(tests) /\ testIds = IdsOf(tests)
      /\ testIds \subseteq allTestIds /\ allTestIds \subseteq Ids
  BY DEF SInv, QueueInv
<1>2. Len(tests) \in Nat /\ DOMAIN tests = 1..Len(tests) /\ \A k \in 1..Len(tests) : tests[k] \in Entry
  BY <1>1, QueueType
<1>3. tests \in Seq(Queued)
  <2>1. \A k \in 1..Len(tests) : tests[k] \in Queued
    BY <1>2, EntryType
  <2>2. tests = [k \in 1..Len(tests) |-> tests[k]]
    BY <1>1, <1>2
  <2>3. tests \in [1..Len(tests) -> Queued]
    BY <2>1, <2>2
  <2> QED BY <1>2, <2>3
<1>4. TypeOK
  BY <1>1, <1>3 DEF SInv, FilesOwn, TypeOK, OnDemands
<1>5. testIds = QueuedIds
  BY <1>1 DEF IdsOf, QueuedIds
<1>6. Cardinality(testIds) = Len(tests)
  <2> DEFINE f == [k \in 1..Len(tests) |-> tests[k].def.id]
             n == Len(tests)
  <2>1. f \in Injection(1..n, testIds)
    BY <1>1, <1>2 DEF Injection, IsInjective, IdsOf, DistinctIds
  <2>2. f \in Surjection(1..n, testIds)
    BY <1>1, <1>2 DEF Surjection, IdsOf
  <2>3. f \in Bijection(1..n, testIds)
    BY <2>1, <2>2 DEF Bijection
  <2>4. ExistsBijection(1..n, testIds)
    BY <2>3 DEF ExistsBijection
  <2> HIDE DEF n
  <2>5. n \in Nat
    BY <1>2 DEF n
  <2>6. IsFiniteSet(1..n) /\ Cardinality(1..n) = IF 1 > n THEN 0 ELSE n - 1 + 1
    BY <2>5, FS_Interval
  <2>7. Cardinality(1..n) = n
    BY <2>5, <2>6
  <2>8. Cardinality(testIds) = Cardinality(1..n)
    BY <2>4, <2>6, FS_Bijection
  <2> QED BY <2>7, <2>8 DEF n
<1>7. NoStaleId => IdsMatch
  BY <1>1, <1>5, <1>6 DEF IdsMatch, NoStaleId
<1> QED BY <1>4, <1>7

(* The invariant holds initially, and the timer is off for the empty queue. *)
LEMMA InitSInv == Init => SInv /\ TimerArmed
<1> SUFFICES ASSUME Init PROVE SInv /\ TimerArmed
  OBVIOUS
<1>1. tests = <<>> /\ testIds = {} /\ timer = Never /\ now = 0
  BY DEF Init
<1>2. tests \in Seq(Entry) /\ DistinctIds(tests) /\ IdsOf(tests) = {}
  BY <1>1 DEF DistinctIds, IdsOf
<1>3. allTestIds \subseteq Ids /\ onDemandTests \subseteq OnDemands
  BY DEF Init, Ids, OnDemands
<1>4. FilesOwn(files)
  BY DEF Init, FilesOwn
<1>5. ran \in [Schedules -> Nat \cup {Never}] /\ now \in 0..MaxTime
  BY ConstantsAssumption DEF Init
<1>6. SInv
  BY <1>1, <1>2, <1>3, <1>4, <1>5 DEF SInv, QueueInv, OffWhenEmpty
<1>7. TimerArmed
  BY <1>1 DEF TimerArmed
<1> QED BY <1>6, <1>7

-----------------------------------------------------------------------------
(* Every step keeps the invariant and, if the intervals fit, the timer armed. *)

(* Time passes. *)
LEMMA TickStep ==
  ASSUME SInv, Tick
  PROVE  SInv' /\ (Armed(tests, timer, now) => Armed(tests', timer', now'))
<1>1. /\ now < MaxTime /\ now' = now + 1
      /\ UNCHANGED <<tests, onDemandTests, testIds, allTestIds, timer, files, ran>>
  BY DEF Tick
<1>2. now \in 0..MaxTime /\ MaxTime \in Nat
  BY ConstantsAssumption DEF SInv
<1>3. now \in Nat /\ now' \in 0..MaxTime
  BY <1>1, <1>2
<1>4. SInv'
  BY <1>1, <1>3 DEF SInv, QueueInv, FilesOwn, OffWhenEmpty
<1>5. tests \in Seq(Entry) /\ timer \in Nat \cup {Never}
  BY DEF SInv, QueueInv
<1> QED BY <1>1, <1>3, <1>4, <1>5, ArmedLater

(* Scheduler::Private::enqueue. *)
LEMMA PrivateEnqueueStep ==
  ASSUME SInv, NEW x \in Entry, privateEnqueue(x)
  PROVE  /\ QueueInv' /\ OffWhenEmpty' /\ timer' \in Nat \cup {Never}
         /\ WithinTimer /\ Armed(tests, timer, now) => Armed(tests', timer', now)
<1>1. CASE rejected(x, testIds)
  <2>1. UNCHANGED <<tests, testIds, allTestIds, timer>>
    BY <1>1 DEF privateEnqueue
  <2> QED BY <2>1 DEF SInv, QueueInv, OffWhenEmpty
<1>2. CASE ~rejected(x, testIds)
  <2>1. /\ tests' = insert(tests, x)
        /\ testIds' = testIds \cup {x.def.id} /\ allTestIds' = allTestIds \cup {x.def.id}
        /\ timer' = IF position(tests, x) = 1 THEN updatedTimer(tests') ELSE timer
    BY <1>2 DEF privateEnqueue
  <2>2. /\ tests \in Seq(Entry) /\ DistinctIds(tests) /\ testIds = IdsOf(tests)
        /\ testIds \subseteq allTestIds /\ allTestIds \subseteq Ids
        /\ now \in Nat /\ timer \in Nat \cup {Never}
    BY DEF SInv, QueueInv
  <2>3. x.def.id \notin IdsOf(tests)
    BY <1>2, <2>2 DEF rejected
  <2>4. /\ tests' \in Seq(Entry) /\ tests' # <<>> /\ DistinctIds(tests')
        /\ IdsOf(tests') = IdsOf(tests) \cup {x.def.id}
        /\ position(tests, x) # 1 => tests # <<>> /\ Head(tests') = Head(tests)
    BY <2>1, <2>2, <2>3, Inserted
  <2>5. QueueInv'
    BY <2>1, <2>2, <2>4, EntryType DEF QueueInv
  <2>6. updatedTimer(tests') \in Nat \cup {Never} /\ (WithinTimer => Armed(tests', updatedTimer(tests'), now))
    BY <2>2, <2>4, UpdatedArmed
  <2>7. CASE position(tests, x) = 1
    BY <2>1, <2>4, <2>5, <2>6, <2>7 DEF OffWhenEmpty
  <2>8. CASE position(tests, x) # 1
    <3>1. timer' = timer /\ tests # <<>> /\ Head(tests') = Head(tests)
      BY <2>1, <2>4, <2>8
    <3>2. Armed(tests, timer, now) => Armed(tests', timer', now)
      BY <2>4, <3>1 DEF Armed
    <3> QED BY <2>2, <2>4, <2>5, <3>1, <3>2 DEF OffWhenEmpty
  <2> QED BY <2>7, <2>8
<1> QED BY <1>1, <1>2

(* Scheduler::enqueue. *)
LEMMA EnqueueStep ==
  ASSUME SInv, NEW d \in Schedules, NEW delay \in Delays(d), enqueue(d, delay)
  PROVE  SInv' /\ (WithinTimer /\ Armed(tests, timer, now) => Armed(tests', timer', now'))
<1>1. UNCHANGED <<now, ran>>
  BY DEF enqueue
<1>2. CASE d.type # "ondemand"
  <2>1. /\ privateEnqueue(Fresh(d, delay)) /\ files' = [files EXCEPT ![d.id] = d]
        /\ UNCHANGED onDemandTests
    BY <1>2 DEF enqueue
  <2>2. Fresh(d, delay) \in Entry
    BY <1>2, FreshEntry
  <2>3. /\ QueueInv' /\ OffWhenEmpty' /\ timer' \in Nat \cup {Never}
        /\ WithinTimer /\ Armed(tests, timer, now) => Armed(tests', timer', now)
    BY <2>1, <2>2, PrivateEnqueueStep
  <2>4. d.id \in Ids
    BY DEF Ids
  <2>5. FilesOwn(files')
    BY <1>2, <2>1, <2>4 DEF SInv, FilesOwn
  <2>6. SInv'
    BY <1>1, <2>1, <2>3, <2>5 DEF SInv
  <2> QED BY <1>1, <2>3, <2>6
<1>3. CASE d.type = "ondemand"
  <2>1. /\ onDemandTests' = onDemandTests \cup {d} /\ allTestIds' = allTestIds \cup {d.id}
        /\ UNCHANGED <<tests, testIds, timer, files>>
    BY <1>3 DEF enqueue
  <2>2. d.id \in Ids
    BY DEF Ids
  <2>3. QueueInv'
    BY <2>1, <2>2 DEF SInv, QueueInv
  <2>4. SInv'
    BY <1>1, <1>3, <2>1, <2>3 DEF SInv, OffWhenEmpty, OnDemands
  <2> QED BY <1>1, <2>1, <2>4
<1> QED BY <1>2, <1>3

(* Scheduler::dequeue. *)
LEMMA DequeueStep ==
  ASSUME SInv, NEW id \in Ids, dequeue(id)
  PROVE  SInv' /\ (WithinTimer /\ Armed(tests, timer, now) => Armed(tests', timer', now'))
<1> DEFINE at == indexOf(id)
           first == CHOOSE i \in at : \A j \in at : i <= j
<1>1. /\ tests' = IF at = {} THEN tests ELSE RemoveAt(tests, first)
      /\ timer' = IF 1 \in at THEN updatedTimer(tests') ELSE timer
      /\ testIds' = testIds \ {id} /\ allTestIds' = allTestIds \ {id}
      /\ files' = [files EXCEPT ![id] = NoFile]
      /\ UNCHANGED <<now, onDemandTests, ran>>
  BY DEF dequeue
<1>2. /\ tests \in Seq(Entry) /\ DistinctIds(tests) /\ testIds = IdsOf(tests)
      /\ testIds \subseteq allTestIds /\ allTestIds \subseteq Ids
      /\ now \in Nat /\ timer \in Nat \cup {Never}
  BY DEF SInv, QueueInv
<1>3. Len(tests) \in Nat /\ DOMAIN tests = 1..Len(tests)
  BY <1>2, QueueType
<1>4. FilesOwn(files')
  BY <1>1 DEF SInv, FilesOwn
<1>5. CASE at = {}
  <2>1. tests' = tests /\ timer' = timer
    BY <1>1, <1>5
  <2>2. id \notin IdsOf(tests)
    BY <1>3, <1>5 DEF indexOf, IdsOf
  <2>3. QueueInv'
    BY <1>1, <1>2, <2>1, <2>2 DEF QueueInv
  <2>4. SInv'
    BY <1>1, <1>4, <2>1, <2>3 DEF SInv, OffWhenEmpty
  <2> QED BY <1>1, <2>1, <2>4
<1>6. CASE at # {}
  <2>1. PICK p \in at : TRUE
    BY <1>6
  <2>2. p \in 1..Len(tests) /\ tests[p].def.id = id /\ \A j \in at : j = p
    BY <1>2, <1>3 DEF indexOf, DistinctIds
  <2>3. first = p
    <3>1. p <= p
      BY <1>3, <2>2
    <3>2. \E i \in at : \A j \in at : i <= j
      BY <2>2, <3>1
    <3>3. first \in at
      BY <3>2
    <3> QED BY <2>2, <3>3
  <2> HIDE DEF first
  <2>4. tests' = RemoveAt(tests, p) /\ timer' = IF p = 1 THEN updatedTimer(tests') ELSE timer
    BY <1>1, <1>6, <2>1, <2>2, <2>3
  <2>5. /\ tests' \in Seq(Entry) /\ DistinctIds(tests') /\ IdsOf(tests') = IdsOf(tests) \ {id}
        /\ p # 1 => tests' # <<>> /\ Head(tests') = Head(tests)
    BY <1>2, <2>2, <2>4, Removed
  <2>6. QueueInv'
    BY <1>1, <1>2, <2>5 DEF QueueInv
  <2>7. /\ updatedTimer(tests') \in Nat \cup {Never} /\ (tests' = <<>> => updatedTimer(tests') = Never)
        /\ WithinTimer => Armed(tests', updatedTimer(tests'), now)
    BY <1>2, <2>5, UpdatedArmed
  <2>8. /\ timer' \in Nat \cup {Never} /\ OffWhenEmpty'
        /\ WithinTimer /\ Armed(tests, timer, now) => Armed(tests', timer', now)
    <3>1. CASE p = 1
      BY <2>4, <2>7, <3>1 DEF OffWhenEmpty
    <3>2. CASE p # 1
      <4>1. timer' = timer /\ tests' # <<>> /\ Head(tests') = Head(tests) /\ tests # <<>>
        BY <1>2, <1>3, <2>2, <2>4, <2>5, <3>2, QueueType
      <4> QED BY <1>2, <4>1 DEF Armed, OffWhenEmpty
    <3> QED BY <3>1, <3>2
  <2>9. SInv'
    BY <1>1, <1>4, <2>6, <2>8 DEF SInv
  <2> QED BY <1>1, <2>8, <2>9
<1> QED BY <1>5, <1>6

(* Scheduler::Private::timeout: the first test runs, is queued again or leaves, or has to wait. *)
LEMMA TimeoutStep ==
  ASSUME SInv, timeout
  PROVE  SInv' /\ (WithinTimer => Armed(tests', timer', now'))
<1> DEFINE x == Head(tests)
           ts == Tail(tests)
<1>1. /\ timer # Never /\ UNCHANGED <<now, onDemandTests>>
      /\ \/ timer' = firesAt(x) /\ UNCHANGED <<tests, testIds, allTestIds, files, ran>>
         \/ runFirst(x)
  BY DEF timeout
<1>2. /\ tests \in Seq(Entry) /\ DistinctIds(tests) /\ testIds = IdsOf(tests)
      /\ testIds \subseteq allTestIds /\ allTestIds \subseteq Ids
      /\ now \in Nat /\ timer \in Nat \cup {Never}
  BY DEF SInv, QueueInv
<1>3. tests # <<>>
  BY <1>1 DEF SInv, OffWhenEmpty
<1>4. Len(tests) \in Nat /\ DOMAIN tests = 1..Len(tests) /\ x = tests[1] /\ 1 \in 1..Len(tests)
  BY <1>2, <1>3, QueueType
<1>5. x \in Entry /\ x.def.id \in Ids
  BY <1>2, <1>4, QueueType, EntryType
<1>6. CASE timer' = firesAt(x) /\ UNCHANGED <<tests, testIds, allTestIds, files, ran>>
  <2>1. updatedTimer(tests') = timer'
    BY <1>3, <1>6 DEF updatedTimer
  <2>2. timer' \in Nat \cup {Never} /\ (WithinTimer => Armed(tests', timer', now))
    BY <1>2, <1>6, <2>1, UpdatedArmed
  <2>3. SInv'
    BY <1>1, <1>3, <1>6, <2>2 DEF SInv, QueueInv, OffWhenEmpty
  <2> QED BY <1>1, <2>2, <2>3
<1>7. CASE runFirst(x)
  <2>1. /\ ran' = [ran EXCEPT ![x.def] = now] /\ timer' = updatedTimer(tests')
        /\ \/ /\ runsAgain(x) /\ tests' = insert(ts, reset(x))
              /\ UNCHANGED <<testIds, allTestIds, files>>
           \/ /\ tests' = ts
              /\ testIds' = testIds \ {x.def.id} /\ allTestIds' = allTestIds \ {x.def.id}
              /\ files' = [files EXCEPT ![x.def.id] = NoFile]
    BY <1>7 DEF runFirst
  <2>2. ts = RemoveAt(tests, 1)
    <3>1. ts \in Seq(Entry) /\ Len(ts) = Len(tests) - 1 /\ \A k \in 1..Len(ts) : ts[k] = tests[k + 1]
      BY <1>2, <1>3, HeadTailProperties
    <3> DEFINE q == RemoveAt(tests, 1)
    <3>2. /\ q \in Seq(Entry) /\ Len(q) = Len(tests) - 1
          /\ \A k \in 1..(Len(tests) - 1) : q[k] = IF k < 1 THEN tests[k] ELSE tests[k + 1]
      BY <1>2, <1>4, RemoveAtEntries
    <3> HIDE DEF q, ts
    <3>3. \A k \in 1..Len(ts) : q[k] = ts[k]
      BY <1>4, <3>1, <3>2
    <3>4. ts = q
      BY <3>1, <3>2, <3>3
    <3> QED BY <3>4 DEF q
  <2>3. ts \in Seq(Entry) /\ DistinctIds(ts) /\ IdsOf(ts) = IdsOf(tests) \ {x.def.id}
    BY <1>2, <1>4, <2>2, Removed
  <2> HIDE DEF ts
  <2>4. QueueInv' /\ FilesOwn(files')
    <3>1. CASE runsAgain(x) /\ tests' = insert(ts, reset(x)) /\ UNCHANGED <<testIds, allTestIds, files>>
      <4> DEFINE y == reset(x)
      <4>1. y \in Entry /\ y.def = x.def
        BY <1>2, <1>5 DEF reset, Entry, Queued
      <4> HIDE DEF y
      <4>2. y.def.id \notin IdsOf(ts)
        BY <2>3, <4>1
      <4>3. tests' \in Seq(Entry) /\ DistinctIds(tests') /\ IdsOf(tests') = IdsOf(ts) \cup {x.def.id}
        BY <2>3, <3>1, <4>1, <4>2, Inserted DEF y
      <4>4. x.def.id \in IdsOf(tests)
        BY <1>4 DEF IdsOf
      <4>5. IdsOf(tests') = IdsOf(tests)
        BY <2>3, <4>3, <4>4
      <4> QED BY <1>2, <3>1, <4>3, <4>5 DEF SInv, QueueInv
    <3>2. CASE /\ tests' = ts
               /\ testIds' = testIds \ {x.def.id} /\ allTestIds' = allTestIds \ {x.def.id}
               /\ files' = [files EXCEPT ![x.def.id] = NoFile]
      <4>1. QueueInv'
        BY <1>2, <2>3, <3>2 DEF QueueInv
      <4>2. FilesOwn(files')
        BY <1>5, <3>2 DEF SInv, FilesOwn
      <4> QED BY <4>1, <4>2
    <3> QED BY <2>1, <3>1, <3>2
  <2>5. /\ timer' \in Nat \cup {Never} /\ OffWhenEmpty'
        /\ WithinTimer => Armed(tests', timer', now)
    BY <1>2, <2>1, <2>4, UpdatedArmed DEF QueueInv, OffWhenEmpty
  <2>6. ran' \in [Schedules -> Nat \cup {Never}]
    BY <1>2, <1>5, <2>1 DEF SInv
  <2>7. SInv'
    BY <1>1, <2>4, <2>5, <2>6 DEF SInv
  <2> QED BY <1>1, <2>5, <2>7
<1> QED BY <1>1, <1>6, <1>7

(* Scheduler::executeOnDemand and a measurement that is not queued. *)
LEMMA OnDemandStep ==
  ASSUME SInv, NEW id \in Ids, executeOnDemandTest(id)
  PROVE  SInv' /\ (Armed(tests, timer, now) => Armed(tests', timer', now'))
<1>1. /\ \E d \in onDemandTests : ran' = [ran EXCEPT ![d] = now]
      /\ UNCHANGED <<now, tests, onDemandTests, testIds, allTestIds, timer, files>>
  BY DEF executeOnDemandTest
<1>2. now \in Nat
  BY DEF SInv
<1>3. ran' \in [Schedules -> Nat \cup {Never}]
  BY <1>1, <1>2 DEF SInv
<1> QED BY <1>1, <1>3 DEF SInv, QueueInv, FilesOwn, OffWhenEmpty

(* A new process: the files, written once more or not, make up the new queue. *)
LEMMA RestartStep ==
  ASSUME SInv, NEW clean \in BOOLEAN, Restart(clean)
  PROVE  SInv' /\ (WithinTimer => Armed(tests', timer', now'))
<1>1. /\ files' = stored \/ files' = files
      /\ timer' = updatedTimer(tests')
      /\ testIds' = {tests'[k].def.id : k \in DOMAIN tests'}
      /\ onDemandTests' = {d \in Schedules : d.type = "ondemand"}
      /\ allTestIds' = testIds' \cup {d.id : d \in onDemandTests'}
      /\ UNCHANGED <<now, ran>>
  BY DEF Restart
<1>2. PICK delays \in DrawnDelays(files'), ids \in StoredIds(files') : tests' = load(files', delays, ids)
  BY DEF Restart
<1>3. tests \in Seq(Entry) /\ now \in Nat /\ FilesOwn(files)
  BY DEF SInv, QueueInv
<1>4. FilesOwn(stored)
  <2>1. ASSUME NEW i \in Ids, indexOf(i) # {}
        PROVE  LET d == tests[CHOOSE k \in indexOf(i) : TRUE].def
               IN  d \in Schedules /\ d.type # "ondemand" /\ d.id = i
    <3> DEFINE k == CHOOSE k \in indexOf(i) : TRUE
    <3>1. k \in indexOf(i)
      BY <2>1
    <3> HIDE DEF k
    <3>2. k \in 1..Len(tests) /\ tests[k].def.id = i
      BY <3>1 DEF indexOf
    <3>3. tests[k] \in Entry
      BY <1>3, <3>2, QueueType
    <3>4. tests[k].def \in Schedules /\ tests[k].def.type # "ondemand"
      BY <3>3, EntryType
    <3> QED BY <3>2, <3>4 DEF k
  <2>2. \A i \in Ids : stored[i] = IF indexOf(i) = {} THEN files[i] ELSE tests[CHOOSE k \in indexOf(i) : TRUE].def
    BY DEF stored
  <2>3. ASSUME NEW i \in Ids
        PROVE  /\ stored[i] \in Schedules \cup {NoFile}
               /\ stored[i] # NoFile => stored[i] \in Schedules /\ stored[i].type # "ondemand" /\ stored[i].id = i
    <3>1. CASE indexOf(i) = {}
      BY <1>3, <2>2, <3>1 DEF FilesOwn
    <3>2. CASE indexOf(i) # {}
      BY <2>1, <2>2, <3>2
    <3> QED BY <3>1, <3>2
  <2>4. stored = [i \in Ids |-> stored[i]]
    BY DEF stored
  <2> HIDE DEF stored
  <2>5. stored \in [Ids -> Schedules \cup {NoFile}]
    BY <2>3, <2>4
  <2> QED BY <2>3, <2>5 DEF FilesOwn
<1>5. FilesOwn(files')
  BY <1>1, <1>3, <1>4
<1>6. tests' \in Seq(Entry) /\ DistinctIds(tests')
  BY <1>2, <1>5, LoadedQueue
<1>7. testIds' = IdsOf(tests') /\ testIds' \subseteq Ids
  BY <1>1, <1>6, KnownIds DEF IdsOf
<1>8. QueueInv'
  BY <1>1, <1>6, <1>7 DEF QueueInv, Ids
<1>9. /\ timer' \in Nat \cup {Never} /\ OffWhenEmpty'
      /\ WithinTimer => Armed(tests', timer', now)
  BY <1>1, <1>3, <1>6, UpdatedArmed DEF OffWhenEmpty
<1>10. SInv'
  BY <1>1, <1>5, <1>8, <1>9 DEF SInv, OnDemands
<1> QED BY <1>1, <1>9, <1>10

(* All of the steps. *)
LEMMA StepSInv ==
  ASSUME SInv, [Next]_vars
  PROVE  SInv' /\ (WithinTimer /\ TimerArmed => TimerArmed')
<1>1. CASE UNCHANGED vars
  <2>1. UNCHANGED <<now, tests, onDemandTests, testIds, allTestIds, timer, files, ran>>
    BY <1>1 DEF vars
  <2>2. SInv'
    BY <2>1 DEF SInv, QueueInv, FilesOwn, OffWhenEmpty
  <2> QED BY <2>1, <2>2, ArmedMeans
<1>2. CASE Next
  <2>1. SInv' /\ (WithinTimer /\ Armed(tests, timer, now) => Armed(tests', timer', now'))
    BY <1>2, TickStep, EnqueueStep, DequeueStep, TimeoutStep, OnDemandStep, RestartStep DEF Next
  <2> QED BY <2>1, ArmedMeans
<1> QED BY <1>1, <1>2

-----------------------------------------------------------------------------
(* The theorems. *)

(* SInv holds in every reachable state. *)
THEOREM Invariance == Spec => []SInv
<1>1. Init => SInv
  BY InitSInv
<1>2. SInv /\ [Next]_vars => SInv'
  BY StepSInv
<1> QED BY <1>1, <1>2, PTL DEF Spec

(* The queue, the ids, the timer and the files keep their types; no on-demand test is ever queued. *)
THEOREM TypeCorrect == Spec => []TypeOK
<1>1. SInv => TypeOK
  BY SInvMeans
<1> QED BY <1>1, Invariance, PTL

(* Every operation that takes a test out of the queue forgets its id. *)
LEMMA StepNoStaleId ==
  ASSUME SInv, NoStaleId, [Next]_vars
  PROVE  NoStaleId'
<1>1. ASSUME NEW d \in Schedules, NEW delay \in Delays(d), enqueue(d, delay) PROVE NoStaleId'
  <2>1. CASE d.type # "ondemand"
    <3>1. Fresh(d, delay).def.id = d.id
      BY DEF Fresh
    <3>2. /\ onDemandTests' = onDemandTests
          /\ \/ UNCHANGED <<testIds, allTestIds>>
             \/ testIds' = testIds \cup {d.id} /\ allTestIds' = allTestIds \cup {d.id}
      BY <1>1, <2>1, <3>1 DEF enqueue, privateEnqueue
    <3> QED BY <3>2 DEF NoStaleId
  <2>2. CASE d.type = "ondemand"
    <3>1. /\ onDemandTests' = onDemandTests \cup {d} /\ allTestIds' = allTestIds \cup {d.id}
          /\ testIds' = testIds
      BY <1>1, <2>2 DEF enqueue
    <3> QED BY <3>1 DEF NoStaleId
  <2> QED BY <2>1, <2>2
<1>2. ASSUME NEW id \in Ids, dequeue(id) PROVE NoStaleId'
  BY <1>2 DEF dequeue, NoStaleId
<1>3. ASSUME timeout PROVE NoStaleId'
  BY <1>3 DEF timeout, runFirst, NoStaleId
<1>4. ASSUME NEW clean \in BOOLEAN, Restart(clean) PROVE NoStaleId'
  <2>1. allTestIds' = testIds' \cup {d.id : d \in onDemandTests'}
    BY <1>4 DEF Restart
  <2> QED BY <2>1 DEF NoStaleId
<1>5. ASSUME UNCHANGED <<testIds, allTestIds, onDemandTests>> PROVE NoStaleId'
  BY <1>5 DEF NoStaleId
<1>6. Tick \/ (\E id \in Ids : executeOnDemandTest(id)) \/ UNCHANGED vars
        => UNCHANGED <<testIds, allTestIds, onDemandTests>>
  BY DEF Tick, executeOnDemandTest, vars
<1> QED BY <1>1, <1>2, <1>3, <1>4, <1>5, <1>6 DEF Next

(***************************************************************************)
(* The ids that enqueue, dequeue and TaskController look at are those of   *)
(* the queue, each of them once, and of on-demand tests; no test that is   *)
(* gone is known any longer.                                               *)
(***************************************************************************)
THEOREM ViewsAgree == Spec => []IdsMatch
<1>1. Init => NoStaleId
  BY DEF Init, NoStaleId
<1>2. SInv /\ NoStaleId /\ [Next]_vars => NoStaleId'
  BY StepNoStaleId
<1>3. SInv /\ NoStaleId => IdsMatch
  BY SInvMeans
<1> QED BY <1>1, <1>2, <1>3, Invariance, PTL DEF Spec

(***************************************************************************)
(* If the instants of the schedules fit the int of QTimer::start, the one  *)
(* timer of the queue runs whenever a test waits, fires no later than the  *)
(* first test is due, and is off when none waits                           *)
(* (Scheduler::Private::updateTimer).                                      *)
(***************************************************************************)
THEOREM TimerServesQueue ==
  ASSUME WithinTimer
  PROVE  Spec => []TimerArmed
<1>1. Init => SInv /\ TimerArmed
  BY InitSInv
<1>2. SInv /\ TimerArmed /\ [Next]_vars => (SInv /\ TimerArmed)'
  BY StepSInv
<1> QED BY <1>1, <1>2, PTL DEF Spec

-----------------------------------------------------------------------------
(* Restarts. *)

(* No two schedules have the same id. *)
UniqueIds == \A c, d \in Schedules : c.id = d.id => c = d

(***************************************************************************)
(* Every queued test has its file, from the step that queues it to the one *)
(* that takes it out: what a crash at any instant needs.                   *)
(***************************************************************************)
QueuedHasFile == \A i \in testIds : files[i] # NoFile

(***************************************************************************)
(* The random delay decides when the next run is, not whether there is     *)
(* one; once the schedule has begun, the runs of two delays differ by the  *)
(* difference of the delays.                                               *)
(***************************************************************************)
LEMMA DelayShifts ==
  ASSUME NEW d, d.period \in Nat \ {0}, d.start \in Nat, d.end \in Nat,
         NEW a \in Nat, NEW b \in Nat, NEW t \in Nat
  PROVE  /\ periodicNextRun(d, a, t) = Never <=> periodicNextRun(d, b, t) = Never
         /\ t >= d.start /\ periodicNextRun(d, a, t) # Never =>
              periodicNextRun(d, b, t) = periodicNextRun(d, a, t) - a + b
<1> DEFINE s == d.start  e == d.end  p == d.period
           c == (t - s) \div p
           run == s + (c + 1) * p
<1>1. s \in Nat /\ e \in Nat /\ p \in Nat \ {0}
  OBVIOUS
<1>2. \A n \in Nat : periodicNextRun(d, n, t) =
        IF e < t THEN Never ELSE IF s > t THEN s ELSE IF e < run THEN Never ELSE run + n
  BY DEF periodicNextRun
<1>3. ASSUME ~(s > t) PROVE run \in Nat
  <2>1. t - s \in Nat
    BY <1>1, <1>3
  <2>2. c \in Nat
    <3> DEFINE n == t - s
    <3> HIDE DEF n, p
    <3>1. n \in Nat /\ p \in Nat \ {0} => n \div p \in Nat
      BY Division
    <3> QED BY <1>1, <2>1, <3>1 DEF n, p
  <2> HIDE DEF c, p, s
  <2>3. (c + 1) * p \in Nat
    BY <1>1, <2>2
  <2> QED BY <1>1, <2>3
<1> HIDE DEF run, s, e
<1>4. ~(s > t) => run + a # Never /\ run + b # Never
  BY <1>3 DEF Never
<1>5. s # Never
  BY <1>1 DEF Never
<1>6. periodicNextRun(d, a, t) = Never <=> periodicNextRun(d, b, t) = Never
  BY <1>2, <1>4, <1>5, Zenon
<1>7. ASSUME t >= s, periodicNextRun(d, a, t) # Never
      PROVE  periodicNextRun(d, b, t) = periodicNextRun(d, a, t) - a + b
  <2>1. ~(s > t) /\ run \in Nat
    BY <1>1, <1>3, <1>7
  <2>2. periodicNextRun(d, a, t) = run + a /\ periodicNextRun(d, b, t) = run + b
    BY <1>2, <1>7, <2>1
  <2> QED BY <2>1, <2>2
<1> QED BY <1>6, <1>7 DEF s

(* Two entries of the same schedule both have another run, or neither has. *)
LEMMA DelayIndependent ==
  ASSUME now \in Nat, NEW x \in Entry, NEW y \in Entry, x.def = y.def
  PROVE  nextRun(x) = Never <=> nextRun(y) = Never
<1> DEFINE d == x.def
<1>1. d \in Schedules /\ y.def = d /\ x.delay \in Nat /\ y.delay \in Nat
  BY EntryType
<1>2. d.start \in Nat /\ d.end \in Nat /\ d.period \in Nat \ {0}
  BY <1>1, ConstantsAssumption
<1>3. CASE d.type = "periodic"
  <2>1. nextRun(x) = periodicNextRun(d, x.delay, now) /\ nextRun(y) = periodicNextRun(d, y.delay, now)
    BY <1>1, <1>3 DEF nextRun
  <2> HIDE DEF d
  <2> QED BY <1>1, <1>2, <2>1, DelayShifts
<1>4. CASE d.type # "periodic"
  BY <1>1, <1>4 DEF nextRun
<1> QED BY <1>3, <1>4

(* The file of a queued test holds its schedule, as the schedules have ids of their own. *)
LEMMA FileOfTest ==
  ASSUME SInv, QueuedHasFile, UniqueIds, NEW k \in DOMAIN tests
  PROVE  tests[k].def.id \in Ids /\ files[tests[k].def.id] = tests[k].def
<1> DEFINE d == tests[k].def
<1>1. tests \in Seq(Entry) /\ testIds = IdsOf(tests) /\ FilesOwn(files)
  BY DEF SInv, QueueInv
<1>2. tests[k] \in Entry
  BY <1>1, QueueType
<1>3. d \in Schedules /\ d.id \in Ids
  BY <1>2, EntryType
<1>4. d.id \in testIds
  BY <1>1 DEF IdsOf
<1>5. files[d.id] \in Schedules /\ files[d.id].id = d.id
  BY <1>1, <1>3, <1>4 DEF QueuedHasFile, FilesOwn
<1>6. files[d.id] = d
  BY <1>3, <1>5 DEF UniqueIds
<1> QED BY <1>3, <1>6

(***************************************************************************)
(* A restart, with the queue written once more or not: the files are what  *)
(* they were, and each makes a test if its schedule has another run.       *)
(***************************************************************************)
LEMMA Restarted ==
  ASSUME SInv, QueuedHasFile, UniqueIds, NEW clean \in BOOLEAN, Restart(clean)
  PROVE  /\ \A i \in testIds' : files'[i] # NoFile
         /\ \A k \in DOMAIN tests : nextRun(tests[k]) # Never =>
              \E m \in DOMAIN tests' : tests'[m].def = tests[k].def
<1>1. /\ tests \in Seq(Entry) /\ DistinctIds(tests) /\ FilesOwn(files) /\ now \in Nat
  BY DEF SInv, QueueInv
<1>2. DOMAIN tests = 1..Len(tests)
  BY <1>1, QueueType
<1>3. stored = files
  <2>1. ASSUME NEW i \in Ids PROVE (IF indexOf(i) = {} THEN files[i] ELSE tests[CHOOSE k \in indexOf(i) : TRUE].def) = files[i]
    <3>1. CASE indexOf(i) = {}
      BY <3>1
    <3>2. CASE indexOf(i) # {}
      <4> DEFINE k == CHOOSE k \in indexOf(i) : TRUE
      <4>1. k \in indexOf(i)
        BY <3>2
      <4> HIDE DEF k
      <4>2. k \in DOMAIN tests /\ tests[k].def.id = i
        BY <1>2, <4>1 DEF indexOf
      <4>3. tests[k].def = files[i]
        BY <4>2, FileOfTest
      <4> QED BY <3>2, <4>3 DEF k
    <3> QED BY <3>1, <3>2
  <2>2. files = [i \in Ids |-> files[i]]
    BY <1>1 DEF FilesOwn
  <2> QED BY <2>1, <2>2 DEF stored
<1>4. files' = files /\ testIds' = IdsOf(tests') /\ now' = now
  BY <1>3 DEF Restart, IdsOf
<1>5. PICK delays \in DrawnDelays(files), ids \in StoredIds(files) : tests' = load(files, delays, ids)
  BY <1>4 DEF Restart
<1>6. /\ tests' \in Seq(Entry)
      /\ IdsOf(tests') = {i \in Ids : files[i] # NoFile /\ nextRun(Fresh(files[i], delays[i])) # Never}
  BY <1>1, <1>5, LoadedQueue
<1>7. ASSUME NEW k \in DOMAIN tests, nextRun(tests[k]) # Never
      PROVE  \E m \in DOMAIN tests' : tests'[m].def = tests[k].def
  <2> DEFINE i == tests[k].def.id
             y == Fresh(files[i], delays[i])
  <2>1. tests[k] \in Entry /\ i \in Ids /\ files[i] = tests[k].def
    BY <1>1, <1>2, FileOfTest, QueueType
  <2>2. i \in testIds
    BY DEF SInv, QueueInv, IdsOf
  <2>3. files[i] # NoFile /\ files[i] \in Schedules /\ files[i].type # "ondemand"
    BY <1>1, <2>1, <2>2 DEF QueuedHasFile, FilesOwn
  <2>4. delays[i] \in Delays(files[i])
    BY <1>1, <2>1, <2>3, DrawnInRange
  <2>5. y \in Entry /\ y.def = tests[k].def
    BY <2>1, <2>3, <2>4, FreshEntry
  <2>6. nextRun(y) # Never
    BY <1>1, <1>7, <2>1, <2>5, DelayIndependent
  <2>7. i \in IdsOf(tests')
    BY <1>6, <2>1, <2>3, <2>6
  <2>8. PICK m \in DOMAIN tests' : tests'[m].def.id = i
    BY <2>7 DEF IdsOf
  <2>9. tests'[m] \in Entry
    BY <1>6, QueueType
  <2>10. tests'[m].def = tests[k].def
    BY <2>1, <2>8, <2>9, EntryType DEF UniqueIds
  <2> QED BY <2>10
<1> QED BY <1>4, <1>6, <1>7

(* Every step keeps the files of what is queued. *)
LEMMA StepHasFile ==
  ASSUME SInv, QueuedHasFile, UniqueIds, [Next]_vars
  PROVE  QueuedHasFile'
<1>1. CASE UNCHANGED vars \/ Tick \/ \E id \in Ids : executeOnDemandTest(id)
  BY <1>1 DEF vars, Tick, executeOnDemandTest, QueuedHasFile
<1>2. ASSUME NEW d \in Schedules, NEW delay \in Delays(d), enqueue(d, delay) PROVE QueuedHasFile'
  <2>1. CASE d.type = "ondemand"
    BY <1>2, <2>1 DEF enqueue, QueuedHasFile
  <2>2. CASE d.type # "ondemand"
    <3>1. privateEnqueue(Fresh(d, delay)) /\ files' = [files EXCEPT ![d.id] = d]
      BY <1>2, <2>2 DEF enqueue
    <3>2. testIds' = testIds \/ testIds' = testIds \cup {d.id}
      BY <3>1 DEF privateEnqueue, Fresh
    <3>3. testIds \subseteq Ids /\ d.id \in Ids /\ files \in [Ids -> Schedules \cup {NoFile}]
      BY DEF SInv, QueueInv, FilesOwn, Ids
    <3>4. d # NoFile
      BY ConstantsAssumption DEF NoFile
    <3> QED BY <3>1, <3>2, <3>3, <3>4 DEF QueuedHasFile
  <2> QED BY <2>1, <2>2
<1>3. ASSUME NEW id \in Ids, dequeue(id) PROVE QueuedHasFile'
  <2>1. testIds' = testIds \ {id} /\ files' = [files EXCEPT ![id] = NoFile]
    BY <1>3 DEF dequeue
  <2> QED BY <2>1 DEF SInv, QueueInv, FilesOwn, QueuedHasFile
<1>4. CASE timeout
  <2> DEFINE i == Head(tests).def.id
  <2>1. \/ UNCHANGED <<testIds, files>>
        \/ testIds' = testIds \ {i} /\ files' = [files EXCEPT ![i] = NoFile]
    BY <1>4, Zenon DEF timeout, runFirst
  <2> HIDE DEF i
  <2> QED BY <2>1 DEF SInv, QueueInv, FilesOwn, QueuedHasFile
<1>5. ASSUME NEW clean \in BOOLEAN, Restart(clean) PROVE QueuedHasFile'
  BY <1>5, Restarted DEF QueuedHasFile
<1> QED BY <1>1, <1>2, <1>3, <1>4, <1>5 DEF Next

(***************************************************************************)
(* A restart at any instant, clean or not, brings every queued test back   *)
(* that has another run (SchedulerStorage, Client::init), for all          *)
(* schedules with ids of their own.                                        *)
(***************************************************************************)
THEOREM RestartsKeepQueue ==
  ASSUME UniqueIds
  PROVE  Spec => RestartKeeps
<1>1. Init => SInv /\ QueuedHasFile
  BY InitSInv DEF Init, QueuedHasFile
<1>2. SInv /\ QueuedHasFile /\ [Next]_vars => (SInv /\ QueuedHasFile)'
  BY StepSInv, StepHasFile
<1>3. SInv /\ QueuedHasFile /\ [Next]_vars =>
        [(\E k \in DOMAIN tests : /\ nextRun(tests[k]) # Never
                                  /\ \A m \in DOMAIN tests' : tests'[m].def # tests[k].def)
           => \A clean \in BOOLEAN : ~Restart(clean)]_vars
  BY Restarted
<1> QED BY <1>1, <1>2, <1>3, PTL DEF Spec, RestartKeeps

-----------------------------------------------------------------------------
(* Once for each period. *)

(* A multiple of a period, and the next one. *)
LEMMA NextMultiple ==
  ASSUME NEW n \in Int, NEW p \in Nat \ {0}
  PROVE  (n + 1) * p = n * p + p
OBVIOUS

(***************************************************************************)
(* From s to a later t, the next run of a periodic timing stays what it    *)
(* was or moves on by a period at least; it is always still to come.       *)
(***************************************************************************)
LEMMA PeriodicMovesOn ==
  ASSUME NEW d, d.period \in Nat \ {0}, d.start \in Nat, d.end \in Nat, NEW delay \in Nat,
         NEW s \in Nat, NEW t \in Nat, s <= t, periodicNextRun(d, delay, t) # Never
  PROVE  LET run  == periodicNextRun(d, delay, s)
             next == periodicNextRun(d, delay, t)
         IN  /\ run \in Nat /\ next \in Nat /\ s < run /\ t < next
             /\ next = run \/ next >= run + d.period
<1> DEFINE b == d.start  e == d.end  p == d.period
           c(u) == (u - b) \div p
           grid(u) == b + (c(u) + 1) * p
           Run(u) == IF e < u THEN Never ELSE IF b > u THEN b
                     ELSE IF e < grid(u) THEN Never ELSE grid(u) + delay
<1>1. \A u : periodicNextRun(d, delay, u) = Run(u)
  BY DEF periodicNextRun
<1>2. b \in Nat /\ e \in Nat /\ p \in Nat \ {0}
  OBVIOUS
<1> HIDE DEF b, e, p
<1>3. ASSUME NEW u \in Nat
      PROVE  /\ c(u) \in Int /\ c(u) * p \in Int /\ (c(u) + 1) * p \in Int
             /\ c(u) * p <= u - b /\ u - b < (c(u) + 1) * p /\ (c(u) + 1) * p = c(u) * p + p
             /\ (u >= b => c(u) >= 0)
  <2>1. u - b \in Int /\ (u >= b => u - b >= 0)
    BY <1>2
  <2>2. c(u) \in Int /\ c(u) * p <= u - b /\ u - b < (c(u) + 1) * p /\ (u >= b => c(u) >= 0)
    BY <1>2, <2>1, Division
  <2> HIDE DEF c
  <2>3. c(u) * p \in Int /\ (c(u) + 1) * p \in Int
    BY <1>2, <2>2
  <2>4. (c(u) + 1) * p = c(u) * p + p
    BY <1>2, <2>2, NextMultiple
  <2> QED BY <2>2, <2>3, <2>4
<1> HIDE DEF c
<1>4. \A u \in Nat : grid(u) \in Int /\ u < grid(u)
  BY <1>2, <1>3
<1>5. ASSUME t >= b PROVE grid(t) >= b + p
  <2>1. 0 * p <= c(t) * p /\ 0 * p = 0
    BY <1>2, <1>3, <1>5, Multiples
  <2> QED BY <1>2, <1>3, <2>1
<1>6. grid(t) = grid(s) \/ grid(t) >= grid(s) + p
  <2>1. ~(c(t) < c(s))
    <3> SUFFICES ASSUME c(t) < c(s) PROVE FALSE
      OBVIOUS
    <3>1. c(t) + 1 \in Int /\ c(t) + 1 <= c(s)
      BY <1>3
    <3>2. (c(t) + 1) * p <= c(s) * p
      BY <1>2, <1>3, <3>1, Multiples
    <3> QED BY <1>2, <1>3, <3>2
  <2>2. CASE c(t) = c(s)
    BY <2>2
  <2>3. CASE c(t) > c(s)
    <3>1. c(s) + 1 \in Int /\ c(s) + 1 <= c(t)
      BY <1>3, <2>3
    <3>2. (c(s) + 1) * p <= c(t) * p
      BY <1>2, <1>3, <3>1, Multiples
    <3> QED BY <1>2, <1>3, <3>2
  <2>4. c(t) = c(s) \/ c(t) > c(s)
    BY <1>3, <2>1
  <2> QED BY <2>2, <2>3, <2>4
<1> HIDE DEF grid
<1>7. Run(t) # Never
  BY <1>1
<1>8. ~(e < t) /\ (~(b > t) => ~(e < grid(t)))
  BY <1>7
<1>9. /\ Run(s) \in Nat /\ Run(t) \in Nat /\ s < Run(s) /\ t < Run(t)
      /\ Run(t) = Run(s) \/ Run(t) >= Run(s) + p
  <2>1. ~(e < s)
    BY <1>2, <1>8
  <2>2. CASE b > t
    <3>1. Run(s) = b /\ Run(t) = b
      BY <1>2, <1>8, <2>1, <2>2
    <3> QED BY <1>2, <2>2, <3>1
  <2>3. CASE ~(b > t) /\ b > s
    <3>1. Run(s) = b /\ Run(t) = grid(t) + delay
      BY <1>8, <2>1, <2>3
    <3> HIDE DEF Run
    <3> QED BY <1>2, <1>4, <1>5, <2>3, <3>1
  <2>4. CASE ~(b > t) /\ ~(b > s)
    <3>1. ~(e < grid(s))
      BY <1>2, <1>4, <1>6, <1>8, <2>4
    <3>2. Run(s) = grid(s) + delay /\ Run(t) = grid(t) + delay
      BY <1>8, <2>1, <2>4, <3>1
    <3> HIDE DEF Run
    <3> QED BY <1>2, <1>4, <1>6, <2>4, <3>2
  <2> QED BY <2>2, <2>3, <2>4
<1> HIDE DEF Run
<1> QED BY <1>1, <1>9 DEF p

(* The instant at which the timer fires for a test with another run. *)
LEMMA FiringBounds ==
  ASSUME WithinTimer, NEW x \in Entry, NEW t \in Nat
  PROVE  /\ FiresAt(x, t) \in Nat /\ FiresAt(x, t) >= t
         /\ RunAt(x, t) # Never => /\ FiresAt(x, t) >= RunAt(x, t) + Offset
                                   /\ FiresAt(x, t) = t \/ FiresAt(x, t) = RunAt(x, t) + Offset
<1> DEFINE l == LeftAt(x, t)
           r == RunAt(x, t)
<1>1. l \in Int /\ FiresAt(x, t) = IF l <= 0 THEN t ELSE t + l
  BY FiringInstant
<1>2. r = Never \/ r \in Nat
  BY EntryRuns
<1>3. r # Never => l = r - t + Offset
  BY DEF LeftAt
<1> HIDE DEF l, r
<1>4. Offset \in Int
  BY ConstantsAssumption
<1> QED BY <1>1, <1>2, <1>3, <1>4 DEF r

(* The next run and the timer's instant do not depend on the last execution. *)
LEMMA LastIndependent ==
  ASSUME NEW x, NEW y, x.def = y.def, x.delay = y.delay, NEW t
  PROVE  RunAt(x, t) = RunAt(y, t) /\ FiresAt(x, t) = FiresAt(y, t)
<1>1. RunAt(x, t) = RunAt(y, t)
  BY DEF RunAt
<1>2. LeftAt(x, t) = LeftAt(y, t)
  BY <1>1 DEF LeftAt
<1> QED BY <1>1, <1>2 DEF FiresAt

(***************************************************************************)
(* The 1.5 s within which timeout() does not repeat a test cover what the  *)
(* local clock is ahead together with the lateness of the timer.           *)
(***************************************************************************)
GuardCovers == Offset >= 0 \/ MaxLate - Offset <= 3

(***************************************************************************)
(* Two executions, at l and now: the timer was set at s for the run r, and *)
(* fired at f, then at s1 for the run r1, firing at f1.  With the same run *)
(* both times the second would come within 1.5 s of the first.             *)
(***************************************************************************)
LEMMA PeriodBetween ==
  ASSUME GuardCovers, NEW p \in Nat, NEW t \in Nat, NEW l \in Nat,
         NEW s \in Nat, NEW r \in Nat, NEW f \in Nat, NEW s1 \in Nat, NEW r1 \in Nat, NEW f1 \in Nat,
         s < r, f >= s, f >= r + Offset, f = s \/ f = r + Offset, f <= l, l <= f + MaxLate,
         l <= s1, s1 < r1, f1 >= s1, f1 >= r1 + Offset, f1 = s1 \/ f1 = r1 + Offset, f1 <= t, t <= f1 + MaxLate,
         r1 = r \/ r1 >= r + p,
         t - l >= 3
  PROVE  t - l >= p - MaxLate - Abs(Offset)
<1>1. Offset \in Int /\ MaxLate \in Nat
  BY ConstantsAssumption
<1>2. Abs(Offset) \in Nat /\ Abs(Offset) >= Offset /\ Abs(Offset) >= 0 - Offset
  BY <1>1 DEF Abs
<1>3. CASE r1 = r
  <2>1. FALSE
    BY <1>1, <1>3 DEF GuardCovers
  <2> QED BY <2>1
<1>4. CASE r1 >= r + p
  <2>1. t >= r + p + Offset
    BY <1>1, <1>4
  <2>2. l <= r + MaxLate \/ l <= r + Offset + MaxLate
    BY <1>1
  <2> QED BY <1>1, <1>2, <2>1, <2>2
<1> QED BY <1>3, <1>4

(***************************************************************************)
(* The last execution of x was one of a periodic test with a run to come,  *)
(* when the timer set for that run at some instant s had fired.            *)
(***************************************************************************)
LastJustified(x) ==
  x.last # Never =>
    /\ x.def.type = "periodic"
    /\ \E s \in Nat : /\ s <= x.last /\ RunAt(x, s) # Never
                      /\ FiresAt(x, s) <= x.last /\ x.last <= FiresAt(x, s) + MaxLate

(* The entries a queue can have at time t. *)
EntriesAt(t) == {x \in Entry : x.last <= t /\ LastJustified(x)}

(* The timer is set for the first test, since its last execution in this or an earlier process. *)
TimerOfFirst(ts, tm, t, rn) ==
  ts # <<>> => \E s \in Nat : /\ s <= t /\ Head(ts).last <= s /\ rn[Head(ts).def] <= s
                             /\ tm = FiresAt(Head(ts), s)

(* Nothing was executed in the future. *)
RanPast(rn, t) == \A d \in Schedules : rn[d] <= t

(* The timeout is delivered in time. *)
NotLate(tm, t) == tm # Never => t <= tm + MaxLate

(* What keeps the executions a period apart. *)
PeriodInv ==
  /\ tests \in Seq(EntriesAt(now))
  /\ TimerOfFirst(tests, timer, now, ran)
  /\ NotLate(timer, now)
  /\ RanPast(ran, now)

(* The first test of a queue of such entries. *)
LEMMA FirstEntry ==
  ASSUME NEW t, NEW ts \in Seq(EntriesAt(t)), ts # <<>>
  PROVE  Head(ts) \in EntriesAt(t) /\ Head(ts) \in Entry /\ Head(ts).last <= t
<1>1. Head(ts) \in EntriesAt(t)
  OBVIOUS
<1> QED BY <1>1 DEF EntriesAt

(* Such a queue is a queue of entries. *)
LEMMA EntriesAreEntries ==
  ASSUME NEW t, NEW ts \in Seq(EntriesAt(t))
  PROVE  ts \in Seq(Entry)
<1>1. EntriesAt(t) \subseteq Entry
  BY DEF EntriesAt
<1> QED BY <1>1

(* Time passes. *)
LEMMA EntriesLater ==
  ASSUME NEW t \in Nat, NEW ts \in Seq(EntriesAt(t))
  PROVE  ts \in Seq(EntriesAt(t + 1))
<1>1. ASSUME NEW x \in EntriesAt(t) PROVE x \in EntriesAt(t + 1)
  <2>1. x \in Entry /\ x.last <= t /\ LastJustified(x)
    BY DEF EntriesAt
  <2>2. x.last \in Int
    BY <2>1, EntryType DEF Never
  <2> QED BY <2>1, <2>2 DEF EntriesAt
<1>2. EntriesAt(t) \subseteq EntriesAt(t + 1)
  BY <1>1
<1> QED BY <1>2

(* A test that was not executed yet. *)
LEMMA FreshAt ==
  ASSUME NEW d \in Schedules, d.type # "ondemand", NEW delay \in Delays(d), NEW t \in Nat
  PROVE  Fresh(d, delay) \in EntriesAt(t)
<1>1. Fresh(d, delay) \in Entry
  BY FreshEntry
<1>2. Fresh(d, delay).last = Never
  BY DEF Fresh
<1> QED BY <1>1, <1>2 DEF EntriesAt, LastJustified, Never

(* Inserting such an entry. *)
LEMMA InsertedAt ==
  ASSUME NEW t, NEW ts \in Seq(EntriesAt(t)), NEW x \in EntriesAt(t)
  PROVE  insert(ts, x) \in Seq(EntriesAt(t))
<1>1. position(ts, x) \in 1..(Len(ts) + 1)
  BY EntriesAreEntries, PositionType
<1> QED BY <1>1, InsertAtEntries DEF insert

(* What updateTimer() sets, it sets at the present time. *)
LEMMA UpdatedTimerOfFirst ==
  ASSUME WithinTimer, now \in Nat, NEW ts \in Seq(EntriesAt(now)), NEW rn, RanPast(rn, now)
  PROVE  TimerOfFirst(ts, updatedTimer(ts), now, rn) /\ NotLate(updatedTimer(ts), now)
<1>1. CASE ts = <<>>
  BY <1>1 DEF updatedTimer, TimerOfFirst, NotLate
<1>2. CASE ts # <<>>
  <2> DEFINE x == Head(ts)
  <2>1. x \in Entry /\ x.last <= now /\ rn[x.def] <= now
    BY <1>2, FirstEntry, EntryType DEF RanPast
  <2>2. updatedTimer(ts) = FiresAt(x, now)
    BY <1>2, AtNow
  <2>3. FiresAt(x, now) \in Nat /\ FiresAt(x, now) >= now
    BY <2>1, FiringBounds
  <2>4. now <= now
    OBVIOUS
  <2>5. MaxLate \in Nat
    BY ConstantsAssumption
  <2>6. NotLate(FiresAt(x, now), now)
    BY <2>3, <2>5 DEF NotLate
  <2>7. TimerOfFirst(ts, FiresAt(x, now), now, rn)
    BY <2>1, <2>4 DEF TimerOfFirst
  <2> QED BY <2>2, <2>6, <2>7
<1> QED BY <1>1, <1>2

(* The queue that loadData makes: no test of it was executed. *)
LEMMA LoadedAt ==
  ASSUME NEW t \in Nat, NEW fs, FilesOwn(fs), NEW delays \in DrawnDelays(fs), NEW ids \in StoredIds(fs)
  PROVE  load(fs, delays, ids) \in Seq(EntriesAt(t))
<1> DEFINE S == {i \in Ids : fs[i] # NoFile}
<1>1. Len(ids) \in Nat /\ \A k \in 1..Len(ids) : ids[k] \in S
  BY StoredType
<1> HIDE DEF S
<1>2. ASSUME NEW i \in S PROVE Fresh(fs[i], delays[i]) \in EntriesAt(t)
  <2>1. i \in Ids /\ fs[i] # NoFile /\ fs[i] \in Schedules /\ fs[i].type # "ondemand"
    BY DEF S, FilesOwn
  <2>2. delays[i] \in Delays(fs[i])
    BY <2>1, DrawnInRange
  <2> QED BY <2>1, <2>2, FreshAt
<1> DEFINE c == CHOOSE g : Loads(g, fs, delays, ids, Len(ids))
<1>3. Loads(c, fs, delays, ids, Len(ids))
  BY <1>1, LoadsExists
<1>4. load(fs, delays, ids) = c[Len(ids)]
  BY Zenon DEF load, Loads
<1> HIDE DEF c
<1>5. \A k \in 0..Len(ids) : c[k] = IF k = 0 THEN <<>> ELSE offered(c[k - 1], Fresh(fs[ids[k]], delays[ids[k]]))
  BY <1>3 DEF Loads
<1> DEFINE T == {n \in Nat : n <= Len(ids) => c[n] \in Seq(EntriesAt(t))}
<1>6. 0 \in T
  <2>1. c[0] = <<>>
    BY <1>1, <1>5
  <2>2. <<>> \in Seq(EntriesAt(t))
    OBVIOUS
  <2>3. c[0] \in Seq(EntriesAt(t))
    BY <2>1, <2>2
  <2> QED BY <2>3
<1>7. ASSUME NEW n \in Nat, n \in T PROVE n + 1 \in T
  <2> SUFFICES ASSUME n + 1 <= Len(ids) PROVE c[n + 1] \in Seq(EntriesAt(t))
    OBVIOUS
  <2>1. /\ n <= Len(ids) /\ n + 1 \in 0..Len(ids) /\ n + 1 \in 1..Len(ids)
        /\ (n + 1) - 1 = n /\ n + 1 # 0
    BY <1>1
  <2> DEFINE x == Fresh(fs[ids[n + 1]], delays[ids[n + 1]])
  <2>2. c[n + 1] = offered(c[n], x)
    BY <1>5, <2>1
  <2>3. x \in EntriesAt(t)
    BY <1>1, <1>2, <2>1
  <2>4. c[n] \in Seq(EntriesAt(t))
    BY <1>7, <2>1
  <2> HIDE DEF x
  <2>5. offered(c[n], x) \in {c[n], insert(c[n], x)}
    BY DEF offered
  <2> QED BY <2>2, <2>3, <2>4, <2>5, InsertedAt
<1> HIDE DEF T
<1>8. Len(ids) \in T
  BY <1>1, <1>6, <1>7, InductionOnSet
<1> QED BY <1>1, <1>4, <1>8 DEF T

(* Initially nothing is queued. *)
LEMMA InitPeriod == Init => PeriodInv
<1> SUFFICES ASSUME Init PROVE PeriodInv
  OBVIOUS
<1>1. tests = <<>> /\ timer = Never
  BY DEF Init
<1>2. <<>> \in Seq(EntriesAt(now))
  OBVIOUS
<1>3. RanPast(ran, now)
  BY DEF Init, RanPast, Never
<1> QED BY <1>1, <1>2, <1>3 DEF PeriodInv, TimerOfFirst, NotLate

(* Time passes: not beyond the lateness of the timer. *)
LEMMA TickPeriod ==
  ASSUME SInv, PeriodInv, Tick
  PROVE  PeriodInv'
<1>1. now' = now + 1 /\ tests' = tests /\ timer' = timer /\ ran' = ran /\ (timer # Never => now < timer + MaxLate)
  BY DEF Tick
<1>2. now \in Nat /\ timer \in Nat \cup {Never} /\ MaxLate \in Nat
  BY ConstantsAssumption DEF SInv
<1>3. tests \in Seq(EntriesAt(now + 1))
  BY <1>2, EntriesLater DEF PeriodInv
<1>4. NotLate(timer, now + 1)
  BY <1>1, <1>2 DEF NotLate
<1>5. TimerOfFirst(tests, timer, now + 1, ran)
  <2> SUFFICES ASSUME tests # <<>>
               PROVE  \E s \in Nat : /\ s <= now + 1 /\ Head(tests).last <= s /\ ran[Head(tests).def] <= s
                                    /\ timer = FiresAt(Head(tests), s)
    BY DEF TimerOfFirst
  <2>1. PICK s \in Nat : /\ s <= now /\ Head(tests).last <= s /\ ran[Head(tests).def] <= s
                         /\ timer = FiresAt(Head(tests), s)
    BY DEF PeriodInv, TimerOfFirst
  <2>2. s <= now + 1
    BY <1>2, <2>1
  <2> QED BY <2>1, <2>2
<1>6. EntriesAt(now)' = EntriesAt(now')
  BY DEF EntriesAt, LastJustified, Entry, Queued
<1>7. RanPast(ran, now + 1)
  <2>1. ran \in [Schedules -> Nat \cup {Never}]
    BY DEF SInv
  <2>2. \A d \in Schedules : ran[d] \in Int /\ ran[d] <= now
    BY <2>1 DEF PeriodInv, RanPast, Never
  <2> QED BY <1>2, <2>2 DEF RanPast
<1> QED BY <1>1, <1>3, <1>4, <1>5, <1>6, <1>7 DEF PeriodInv

(* The timer is that of the first test if it was set anew, or neither changed. *)
LEMMA TimerKept ==
  ASSUME WithinTimer, SInv, PeriodInv, now' = now, tests' \in Seq(EntriesAt(now)), RanPast(ran', now),
         \/ timer' = updatedTimer(tests')
         \/ timer' = timer /\ ran' = ran /\ tests # <<>> /\ tests' # <<>> /\ Head(tests') = Head(tests)
  PROVE  PeriodInv'
<1>1. now \in Nat
  BY DEF SInv
<1>2. TimerOfFirst(tests', timer', now, ran') /\ NotLate(timer', now)
  <2>1. CASE timer' = updatedTimer(tests')
    BY <1>1, <2>1, UpdatedTimerOfFirst
  <2>2. CASE timer' = timer /\ ran' = ran /\ tests # <<>> /\ tests' # <<>> /\ Head(tests') = Head(tests)
    BY <2>2 DEF PeriodInv, TimerOfFirst
  <2> QED BY <2>1, <2>2
<1> QED BY <1>2 DEF PeriodInv

(* Scheduler::enqueue. *)
LEMMA EnqueuePeriod ==
  ASSUME WithinTimer, SInv, PeriodInv, NEW d \in Schedules, NEW delay \in Delays(d), enqueue(d, delay)
  PROVE  PeriodInv'
<1> DEFINE x == Fresh(d, delay)
<1>1. now' = now /\ now \in Nat /\ tests \in Seq(EntriesAt(now)) /\ tests \in Seq(Entry) /\ DistinctIds(tests)
      /\ testIds = IdsOf(tests) /\ ran' = ran /\ RanPast(ran, now)
  BY DEF enqueue, SInv, QueueInv, PeriodInv
<1>2. CASE tests' = tests /\ timer' = timer
  BY <1>1, <1>2 DEF PeriodInv
<1>3. CASE d.type # "ondemand" /\ ~rejected(x, testIds)
  <2>1. tests' = insert(tests, x) /\ timer' = IF position(tests, x) = 1 THEN updatedTimer(tests') ELSE timer
    BY <1>3 DEF enqueue, privateEnqueue
  <2>2. x \in Entry /\ x \in EntriesAt(now)
    BY <1>1, <1>3, FreshEntry, FreshAt
  <2>3. tests' \in Seq(EntriesAt(now))
    BY <1>1, <2>1, <2>2, InsertedAt
  <2>4. x.def.id \notin IdsOf(tests)
    BY <1>1, <1>3 DEF rejected
  <2>5. tests' # <<>> /\ (position(tests, x) # 1 => tests # <<>> /\ Head(tests') = Head(tests))
    BY <1>1, <2>1, <2>2, <2>4, Inserted
  <2> HIDE DEF x
  <2> QED BY <1>1, <2>1, <2>3, <2>5, TimerKept
<1>4. d.type = "ondemand" \/ rejected(x, testIds) => tests' = tests /\ timer' = timer
  BY DEF enqueue, privateEnqueue
<1> QED BY <1>2, <1>3, <1>4

(* Scheduler::dequeue. *)
LEMMA DequeuePeriod ==
  ASSUME WithinTimer, SInv, PeriodInv, NEW id \in Ids, dequeue(id)
  PROVE  PeriodInv'
<1> DEFINE at == indexOf(id)
           first == CHOOSE i \in at : \A j \in at : i <= j
<1>1. /\ tests' = IF at = {} THEN tests ELSE RemoveAt(tests, first)
      /\ timer' = IF 1 \in at THEN updatedTimer(tests') ELSE timer
      /\ now' = now /\ ran' = ran
  BY DEF dequeue
<1>2. tests \in Seq(EntriesAt(now)) /\ tests \in Seq(Entry) /\ DistinctIds(tests) /\ RanPast(ran, now)
  BY DEF SInv, QueueInv, PeriodInv
<1>3. Len(tests) \in Nat /\ DOMAIN tests = 1..Len(tests)
  BY <1>2, QueueType
<1>4. CASE at = {}
  BY <1>1, <1>4 DEF PeriodInv
<1>5. CASE at # {}
  <2>1. PICK p \in at : TRUE
    BY <1>5
  <2>2. p \in 1..Len(tests) /\ \A j \in at : j = p
    BY <1>2, <1>3, <2>1 DEF indexOf, DistinctIds
  <2>3. first = p
    <3>1. \E i \in at : \A j \in at : i <= j
      BY <1>3, <2>1, <2>2
    <3>2. first \in at
      BY <3>1
    <3> QED BY <2>2, <3>2
  <2> HIDE DEF first
  <2>4. tests' = RemoveAt(tests, p) /\ timer' = IF p = 1 THEN updatedTimer(tests') ELSE timer
    BY <1>1, <1>5, <2>1, <2>2, <2>3
  <2>5. p # 1 => tests' # <<>> /\ Head(tests') = Head(tests)
    BY <1>2, <2>2, <2>4, Removed
  <2>6. tests' \in Seq(EntriesAt(now))
    BY <1>2, <2>2, <2>4, RemoveAtEntries
  <2>7. tests # <<>>
    BY <1>3, <2>2
  <2> QED BY <1>1, <1>2, <2>4, <2>5, <2>6, <2>7, TimerKept
<1> QED BY <1>4, <1>5

(* A new process. *)
LEMMA RestartPeriod ==
  ASSUME WithinTimer, SInv, PeriodInv, NEW clean \in BOOLEAN, Restart(clean)
  PROVE  PeriodInv'
<1>1. timer' = updatedTimer(tests') /\ now' = now /\ ran' = ran /\ RanPast(ran, now)
  BY DEF Restart, PeriodInv
<1>2. PICK delays \in DrawnDelays(files'), ids \in StoredIds(files') : tests' = load(files', delays, ids)
  BY DEF Restart
<1>3. FilesOwn(files')
  BY RestartStep DEF SInv
<1>4. now \in Nat
  BY DEF SInv
<1>5. tests' \in Seq(EntriesAt(now))
  BY <1>2, <1>3, <1>4, LoadedAt
<1> QED BY <1>1, <1>5, TimerKept

(***************************************************************************)
(* Scheduler::Private::timeout finds a test that is to run again, not too  *)
(* soon after the last execution it knows: a period has passed since then, *)
(* and what is queued again was executed for the run of the timer.         *)
(***************************************************************************)
LEMMA FirstRuns ==
  ASSUME WithinTimer, SInv, PeriodInv, tests # <<>>, timer # Never, timer <= now,
         nextRun(Head(tests)) # Never
  PROVE  LET x == Head(tests)
         IN  /\ GuardCovers /\ ~tooSoon(x) /\ x.last # Never =>
                  now - x.last >= x.def.period - MaxLate - Abs(Offset)
             /\ x.def.type = "periodic" => reset(x) \in EntriesAt(now)
<1> DEFINE x == Head(tests)
<1>1. now \in Nat /\ timer \in Nat /\ MaxLate \in Nat /\ now <= timer + MaxLate
  BY ConstantsAssumption DEF SInv, PeriodInv, NotLate
<1>2. x \in EntriesAt(now) /\ x \in Entry /\ x.last <= now
  BY FirstEntry DEF PeriodInv
<1>3. PICK s1 \in Nat : s1 <= now /\ x.last <= s1 /\ timer = FiresAt(x, s1)
  BY DEF PeriodInv, TimerOfFirst
<1> HIDE DEF x
<1>4. RunAt(x, now) # Never
  BY AtNow DEF x
<1> DEFINE d == x.def  r1 == RunAt(x, s1)
<1>5. d.period \in Nat \ {0} /\ d.start \in Nat /\ d.end \in Nat /\ x.delay \in Nat /\ x.last \in Nat \cup {Never}
  BY <1>2, EntryType, ConstantsAssumption
<1>6. ASSUME d.type = "periodic", NEW s \in Nat, NEW t \in Nat, s <= t, RunAt(x, t) # Never
      PROVE  /\ RunAt(x, s) \in Nat /\ RunAt(x, t) \in Nat /\ s < RunAt(x, s) /\ t < RunAt(x, t)
             /\ RunAt(x, t) = RunAt(x, s) \/ RunAt(x, t) >= RunAt(x, s) + d.period
             /\ RunAt(x, s) # Never
  <2>1. \A u : RunAt(x, u) = periodicNextRun(d, x.delay, u)
    BY <1>6 DEF RunAt
  <2>2. periodicNextRun(d, x.delay, t) # Never
    BY <1>6, <2>1
  <2> HIDE DEF d
  <2>3. LET run  == periodicNextRun(d, x.delay, s)
            next == periodicNextRun(d, x.delay, t)
        IN  /\ run \in Nat /\ next \in Nat /\ s < run /\ t < next
            /\ next = run \/ next >= run + d.period
    BY <1>5, <1>6, <2>2, PeriodicMovesOn
  <2>4. \A n \in Nat : n # Never
    BY DEF Never
  <2> QED BY <2>1, <2>3, <2>4
<1>7. ASSUME GuardCovers, ~tooSoon(x), x.last # Never PROVE now - x.last >= d.period - MaxLate - Abs(Offset)
  <2>1. d.type = "periodic"
    BY <1>2, <1>7 DEF EntriesAt, LastJustified
  <2>2. PICK s \in Nat : /\ s <= x.last /\ RunAt(x, s) # Never
                         /\ FiresAt(x, s) <= x.last /\ x.last <= FiresAt(x, s) + MaxLate
    BY <1>2, <1>7 DEF EntriesAt, LastJustified
  <2>3. x.last \in Nat
    BY <1>5, <1>7
  <2>4. now - x.last >= 3
    BY <1>1, <1>7, <2>3 DEF tooSoon
  <2> DEFINE r == RunAt(x, s)  f == FiresAt(x, s)  f1 == FiresAt(x, s1)
  <2>5. r1 # Never /\ r1 \in Nat /\ s1 < r1
    BY <1>1, <1>3, <1>4, <1>6, <2>1
  <2>6. s <= s1
    BY <1>3, <2>2, <2>3
  <2>7. r \in Nat /\ s < r /\ (r1 = r \/ r1 >= r + d.period)
    BY <1>6, <2>1, <2>5, <2>6
  <2>8. f \in Nat /\ f >= s /\ f >= r + Offset /\ (f = s \/ f = r + Offset)
    BY <1>2, <2>2, FiringBounds
  <2>9. f1 \in Nat /\ f1 >= s1 /\ f1 >= r1 + Offset /\ (f1 = s1 \/ f1 = r1 + Offset)
    BY <1>2, <2>5, FiringBounds
  <2>10. f <= x.last /\ x.last <= f + MaxLate /\ f1 <= now /\ now <= f1 + MaxLate
    BY <1>1, <1>3, <2>2
  <2>11. d.period \in Nat
    BY <1>5
  <2> HIDE DEF r, r1, f, f1, d
  <2> QED BY <1>1, <1>3, <1>7, <2>3, <2>4, <2>5, <2>7, <2>8, <2>9, <2>10, <2>11, PeriodBetween
<1>8. ASSUME d.type = "periodic" PROVE reset(x) \in EntriesAt(now)
  <2> DEFINE y == reset(x)
  <2>1. y \in Entry /\ y.def = x.def /\ y.delay = x.delay /\ y.last = now
    BY <1>1, <1>2, <1>8 DEF reset, Entry, Queued
  <2> HIDE DEF y
  <2>2. RunAt(x, s1) # Never
    BY <1>1, <1>3, <1>4, <1>6, <1>8
  <2>3. RunAt(y, s1) = RunAt(x, s1) /\ FiresAt(y, s1) = FiresAt(x, s1)
    BY <2>1, LastIndependent
  <2>4. LastJustified(y)
    BY <1>1, <1>3, <1>8, <2>1, <2>2, <2>3 DEF LastJustified
  <2>5. now <= now
    BY <1>1
  <2> QED BY <2>1, <2>4, <2>5 DEF EntriesAt, y
<1> QED BY <1>7, <1>8 DEF x

(* Scheduler::Private::timeout. *)
LEMMA TimeoutPeriod ==
  ASSUME WithinTimer, SInv, PeriodInv, timeout
  PROVE  PeriodInv'
<1> DEFINE x == Head(tests)
           ts == Tail(tests)
<1>1. /\ timer # Never /\ timer <= now /\ now' = now
      /\ \/ timer' = firesAt(x) /\ tests' = tests
         \/ /\ timer' = updatedTimer(tests')
            /\ (runsAgain(x) /\ tests' = insert(ts, reset(x))) \/ tests' = ts
  BY DEF timeout, runFirst
<1>2. tests # <<>>
  BY <1>1 DEF SInv, OffWhenEmpty
<1>3. tests \in Seq(EntriesAt(now)) /\ RanPast(ran', now)
  <2>1. RanPast(ran, now) /\ now \in Nat /\ ran \in [Schedules -> Nat \cup {Never}]
    BY DEF PeriodInv, SInv
  <2>2. ran' = ran \/ ran' = [ran EXCEPT ![x.def] = now]
    BY DEF timeout, runFirst
  <2>3. RanPast(ran', now)
    BY <2>1, <2>2 DEF RanPast
  <2> QED BY <2>3 DEF PeriodInv
<1>4. CASE timer' = firesAt(x) /\ tests' = tests
  <2>1. timer' = updatedTimer(tests')
    BY <1>2, <1>4 DEF updatedTimer
  <2> QED BY <1>1, <1>3, <1>4, <2>1, TimerKept
<1>5. CASE timer' = updatedTimer(tests') /\ tests' = ts
  <2>1. ts \in Seq(EntriesAt(now))
    BY <1>2, <1>3
  <2> QED BY <1>1, <1>3, <1>5, <2>1, TimerKept
<1>6. CASE timer' = updatedTimer(tests') /\ runsAgain(x) /\ tests' = insert(ts, reset(x))
  <2>1. ts \in Seq(EntriesAt(now))
    BY <1>2, <1>3
  <2>2. reset(x) \in EntriesAt(now)
    BY <1>1, <1>2, <1>6, FirstRuns DEF runsAgain
  <2>3. tests' \in Seq(EntriesAt(now))
    BY <1>6, <2>1, <2>2, InsertedAt
  <2> QED BY <1>1, <1>3, <1>6, <2>3, TimerKept
<1> QED BY <1>1, <1>4, <1>5, <1>6

(* An on-demand test is executed: it is not queued, so the timer is not set for it. *)
LEMMA OnDemandPeriod ==
  ASSUME SInv, PeriodInv, NEW id \in Ids, executeOnDemandTest(id)
  PROVE  PeriodInv'
<1>1. UNCHANGED <<now, tests, timer>>
  BY DEF executeOnDemandTest
<1>2. PICK d \in OnDemands : ran' = [ran EXCEPT ![d] = now]
  BY DEF executeOnDemandTest, SInv
<1>3. now \in Nat /\ ran \in [Schedules -> Nat \cup {Never}] /\ RanPast(ran, now)
      /\ tests \in Seq(EntriesAt(now)) /\ TimerOfFirst(tests, timer, now, ran)
  BY DEF SInv, PeriodInv
<1>4. RanPast(ran', now)
  BY <1>2, <1>3 DEF RanPast
<1>5. TimerOfFirst(tests, timer, now, ran')
  <2> SUFFICES ASSUME tests # <<>> PROVE TimerOfFirst(tests, timer, now, ran')
    BY DEF TimerOfFirst
  <2>1. Head(tests) \in Entry
    BY <1>3, FirstEntry
  <2>2. Head(tests).def \in Schedules /\ Head(tests).def # d
    BY <1>2, <2>1, EntryType DEF OnDemands
  <2>3. ran'[Head(tests).def] = ran[Head(tests).def]
    BY <1>2, <1>3, <2>2
  <2> QED BY <1>3, <2>3 DEF TimerOfFirst
<1> QED BY <1>1, <1>4, <1>5 DEF PeriodInv

(* All of the steps. *)
LEMMA StepPeriod ==
  ASSUME WithinTimer, SInv, PeriodInv, [Next]_vars
  PROVE  PeriodInv'
<1>1. CASE UNCHANGED vars
  <2>1. UNCHANGED <<now, tests, timer, ran>>
    BY <1>1 DEF vars
  <2> QED BY <2>1 DEF PeriodInv
<1>2. CASE Next
  BY <1>2, TickPeriod, EnqueuePeriod, DequeuePeriod, OnDemandPeriod, TimeoutPeriod, RestartPeriod DEF Next
<1> QED BY <1>1, <1>2

-----------------------------------------------------------------------------
(* Executions of an entry that was loaded or added again.                    *)

(***************************************************************************)
(* The execution at l was one for a run of d with some delay: the local    *)
(* clock had reached it, and not by more than the lateness of the timer.   *)
(***************************************************************************)
Behind == IF Offset > 0 THEN Offset ELSE 0
ExecutedFor(d, l) ==
  \E e \in Delays(d), s \in Nat :
    /\ s <= l /\ periodicNextRun(d, e, s) # Never
    /\ periodicNextRun(d, e, s) + Offset <= l /\ l <= periodicNextRun(d, e, s) + Behind + MaxLate

(* So was each last execution of a periodic test that has a run left at t. *)
RanForRun(rn, t) ==
  \A d \in Schedules :
    d.type = "periodic" /\ rn[d] # Never /\ periodicNextRun(d, 0, t) # Never => ExecutedFor(d, rn[d])

(* The delays of a schedule are less than a period's spread. *)
LEMMA DelayBound ==
  ASSUME NEW d \in Schedules, NEW e \in Delays(d)
  PROVE  e \in Nat /\ e <= d.spread /\ 0 \in Delays(d)
<1>1. d.spread \in Nat
  BY ConstantsAssumption
<1> QED BY <1>1 DEF Delays

(***************************************************************************)
(* The run after the one that was next at s, with another delay: as that   *)
(* is no longer the next one at s1, it is a period later, up to the first  *)
(* delay.                                                                  *)
(***************************************************************************)
LEMMA PeriodicAcross ==
  ASSUME NEW d, d.period \in Nat \ {0}, d.start \in Nat, d.end \in Nat,
         NEW e \in Nat, NEW e1 \in Nat, NEW s \in Nat, NEW s1 \in Nat,
         s <= s1, periodicNextRun(d, e, s) # Never, periodicNextRun(d, e1, s1) # Never,
         periodicNextRun(d, e, s1) # periodicNextRun(d, e, s)
  PROVE  /\ periodicNextRun(d, e, s) \in Nat /\ periodicNextRun(d, e1, s1) \in Nat
         /\ periodicNextRun(d, e1, s1) >= periodicNextRun(d, e, s) - e + d.period
<1> DEFINE r == periodicNextRun(d, e, s)
           q == periodicNextRun(d, e, s1)
           r1 == periodicNextRun(d, e1, s1)
<1>1. q # Never
  BY DelayShifts
<1>2. r \in Nat /\ q \in Nat /\ q >= r + d.period
  BY <1>1, PeriodicMovesOn
<1>3. s1 >= d.start
  <2>1. s < d.start => r = d.start
    BY DEF periodicNextRun
  <2>2. s1 < d.start => q = d.start
    BY <1>1 DEF periodicNextRun
  <2>3. q # r
    OBVIOUS
  <2> HIDE DEF r, q
  <2> QED BY <2>1, <2>2, <2>3
<1>4. r1 = q - e + e1
  BY <1>1, <1>3, DelayShifts
<1> HIDE DEF r, q, r1
<1>5. r1 >= r - e + d.period /\ r1 \in Int
  BY <1>2, <1>4
<1>6. periodicNextRun(d, e1, s1) \in Nat
  BY PeriodicMovesOn
<1> QED BY <1>2, <1>5, <1>6 DEF r, r1

(* The timer set at s for the run r fires when the local clock has reached r, or at once. *)
LEMMA FiresNearRun ==
  ASSUME WithinTimer, NEW x \in Entry, x.def.type = "periodic", NEW s \in Nat, RunAt(x, s) # Never
  PROVE  /\ RunAt(x, s) = periodicNextRun(x.def, x.delay, s) /\ RunAt(x, s) \in Nat
         /\ RunAt(x, s) + Offset <= FiresAt(x, s) /\ FiresAt(x, s) <= RunAt(x, s) + Behind
<1>1. RunAt(x, s) = periodicNextRun(x.def, x.delay, s)
  BY DEF RunAt
<1>2. x.def \in Schedules /\ x.delay \in Nat
  BY EntryType
<1>3. x.def.period \in Nat \ {0} /\ x.def.start \in Nat /\ x.def.end \in Nat
  BY <1>2, ConstantsAssumption
<1>4. RunAt(x, s) \in Nat /\ s < RunAt(x, s)
  <2> DEFINE d == x.def  n == x.delay
  <2>1. periodicNextRun(d, n, s) # Never /\ s <= s
    BY <1>1
  <2> HIDE DEF d, n
  <2>2. periodicNextRun(d, n, s) \in Nat /\ s < periodicNextRun(d, n, s)
    BY <1>2, <1>3, <2>1, PeriodicMovesOn DEF d, n
  <2> QED BY <1>1, <2>2 DEF d, n
<1>5. FiresAt(x, s) = s \/ FiresAt(x, s) = RunAt(x, s) + Offset
  BY FiringBounds
<1>6. FiresAt(x, s) >= RunAt(x, s) + Offset /\ FiresAt(x, s) \in Nat
  BY FiringBounds
<1>7. Offset \in Int
  BY ConstantsAssumption
<1>8. FiresAt(x, s) <= RunAt(x, s) + Behind
  BY <1>4, <1>5, <1>6, <1>7 DEF Behind
<1> QED BY <1>1, <1>4, <1>6, <1>8

(* The run for which timeout() executes the first test. *)
LEMMA FirstRun ==
  ASSUME WithinTimer, SInv, PeriodInv, tests # <<>>, timer # Never, timer <= now,
         nextRun(Head(tests)) # Never, Head(tests).def.type = "periodic"
  PROVE  LET x == Head(tests)
         IN  \E s \in Nat : /\ s <= now /\ ran[x.def] <= s
                            /\ periodicNextRun(x.def, x.delay, s) # Never
                            /\ periodicNextRun(x.def, x.delay, s) + Offset <= now
                            /\ now <= periodicNextRun(x.def, x.delay, s) + Behind + MaxLate
<1> DEFINE x == Head(tests)
<1>1. now \in Nat /\ timer \in Nat /\ MaxLate \in Nat /\ now <= timer + MaxLate
  BY ConstantsAssumption DEF SInv, PeriodInv, NotLate
<1>2. x \in Entry
  BY FirstEntry DEF PeriodInv
<1>3. PICK s \in Nat : s <= now /\ x.last <= s /\ ran[x.def] <= s /\ timer = FiresAt(x, s)
  BY DEF PeriodInv, TimerOfFirst
<1>4. RunAt(x, now) # Never /\ x.def.type = "periodic"
  BY AtNow
<1> HIDE DEF x
<1>5. x.def \in Schedules /\ x.delay \in Nat
  BY <1>2, EntryType
<1>6. x.def.period \in Nat \ {0} /\ x.def.start \in Nat /\ x.def.end \in Nat
  BY <1>5, ConstantsAssumption
<1>7. periodicNextRun(x.def, x.delay, s) # Never
  <2>1. periodicNextRun(x.def, x.delay, now) # Never
    BY <1>4 DEF RunAt
  <2>2. periodicNextRun(x.def, x.delay, s) \in Nat
    BY <1>1, <1>3, <1>5, <1>6, <2>1, PeriodicMovesOn
  <2> QED BY <2>2 DEF Never
<1>8. RunAt(x, s) # Never
  BY <1>4, <1>7 DEF RunAt
<1>9. /\ periodicNextRun(x.def, x.delay, s) \in Nat
      /\ periodicNextRun(x.def, x.delay, s) + Offset <= timer
      /\ timer <= periodicNextRun(x.def, x.delay, s) + Behind
  BY <1>2, <1>3, <1>4, <1>8, FiresNearRun
<1>10. Offset \in Int /\ Behind \in Nat
  BY ConstantsAssumption DEF Behind
<1> QED BY <1>1, <1>3, <1>7, <1>9, <1>10 DEF x

(***************************************************************************)
(* The first test is executed, and was executed for a run before, in this  *)
(* or an earlier process, and not early: a period has passed, up to the    *)
(* lateness of the timer, the difference of the clocks and a delay drawn   *)
(* again.                                                                  *)
(***************************************************************************)
LEMMA FirstRunsAgain ==
  ASSUME WithinTimer, SInv, PeriodInv, RanForRun(ran, now), tests # <<>>, timer # Never, timer <= now,
         nextRun(Head(tests)) # Never, Head(tests).def.type = "periodic",
         ran[Head(tests).def] # Never, NotEarly(Head(tests).def)
  PROVE  LET d == Head(tests).def
         IN  now - ran[d] >= d.period - MaxLate - Abs(Offset) - d.spread
<1> DEFINE x == Head(tests)
           d == x.def
           l == ran[d]
<1>1. now \in Nat /\ MaxLate \in Nat /\ Offset \in Int /\ ran \in [Schedules -> Nat \cup {Never}]
  BY ConstantsAssumption DEF SInv
<1>2. x \in Entry
  BY FirstEntry DEF PeriodInv
<1>3. d \in Schedules /\ x.delay \in Nat
  BY <1>2, EntryType
<1>4. d.period \in Nat \ {0} /\ d.start \in Nat /\ d.end \in Nat /\ d.spread \in Nat
  BY <1>3, ConstantsAssumption
<1>5. PICK s1 \in Nat : /\ s1 <= now /\ l <= s1 /\ periodicNextRun(d, x.delay, s1) # Never
                        /\ periodicNextRun(d, x.delay, s1) + Offset <= now
  BY FirstRun
<1>6. periodicNextRun(d, 0, now) # Never
  <2>1. periodicNextRun(d, x.delay, now) # Never
    BY DEF nextRun
  <2> HIDE DEF d, x
  <2> QED BY <1>1, <1>3, <1>4, <2>1, DelayShifts
<1>7. ExecutedFor(d, l)
  BY <1>3, <1>6 DEF RanForRun
<1>8. l \in Nat /\ NotEarly(d)
  BY <1>1, <1>3
<1> HIDE DEF x, d
<1>9. PICK e \in Delays(d), s \in Nat :
        /\ s <= l /\ periodicNextRun(d, e, s) # Never
        /\ periodicNextRun(d, e, s) + Offset <= l /\ l <= periodicNextRun(d, e, s) + Behind + MaxLate
  BY <1>7 DEF ExecutedFor
<1>10. e \in Nat /\ e <= d.spread
  BY <1>3, DelayBound
<1>17. periodicNextRun(d, e, l) # Never => l < periodicNextRun(d, e, l) + Offset
  BY <1>8, <1>9 DEF NotEarly
<1> HIDE DEF l
<1> DEFINE r == periodicNextRun(d, e, s)
           r1 == periodicNextRun(d, x.delay, s1)
<1>11. r \in Nat
  <2>1. s <= s
    OBVIOUS
  <2> QED BY <1>4, <1>9, <1>10, <2>1, PeriodicMovesOn
<1>12. s <= s1 /\ periodicNextRun(d, e, s1) # r
  <2> DEFINE q == periodicNextRun(d, e, l)
             q1 == periodicNextRun(d, e, s1)
  <2>1. q1 # Never
    BY <1>3, <1>4, <1>5, <1>10, DelayShifts
  <2>2. q \in Nat /\ q1 \in Nat /\ (q1 = q \/ q1 >= q + d.period)
    BY <1>4, <1>5, <1>8, <1>10, <2>1, PeriodicMovesOn
  <2>3. q # Never
    BY <2>2 DEF Never
  <2>4. q = r \/ q >= r + d.period
    BY <1>4, <1>8, <1>9, <1>10, <2>3, PeriodicMovesOn
  <2>5. l < q + Offset /\ r + Offset <= l
    BY <1>9, <1>17, <2>3
  <2> HIDE DEF q, q1, r
  <2>6. q # r
    BY <1>1, <1>8, <1>11, <2>2, <2>5
  <2>7. q1 # r
    BY <1>4, <1>11, <2>2, <2>4, <2>6
  <2>8. s <= s1
    BY <1>5, <1>8, <1>9
  <2> QED BY <2>7, <2>8 DEF q1
<1>13. r1 \in Nat /\ r1 >= r - e + d.period
  BY <1>3, <1>4, <1>5, <1>9, <1>10, <1>12, PeriodicAcross
<1>14. r1 + Offset <= now /\ l <= r + Behind + MaxLate
  BY <1>5, <1>9
<1> HIDE DEF r, r1
<1>15. Behind \in Nat /\ Behind - Offset <= Abs(Offset) /\ Abs(Offset) \in Nat
  BY <1>1 DEF Behind, Abs
<1>16. now - l >= d.period - MaxLate - Abs(Offset) - d.spread
  BY <1>1, <1>4, <1>8, <1>10, <1>11, <1>13, <1>14, <1>15
<1> QED BY <1>16 DEF x, d, l

(* As time passes, fewer schedules have a run left. *)
LEMMA TickRan ==
  ASSUME SInv, RanForRun(ran, now), Tick
  PROVE  RanForRun(ran', now')
<1>1. now' = now + 1 /\ ran' = ran /\ now \in Nat
  BY DEF Tick, SInv
<1> SUFFICES ASSUME NEW d \in Schedules, d.type = "periodic", ran[d] # Never, periodicNextRun(d, 0, now + 1) # Never
             PROVE  ExecutedFor(d, ran[d])
  BY <1>1 DEF RanForRun
<1>2. d.period \in Nat \ {0} /\ d.start \in Nat /\ d.end \in Nat
  BY ConstantsAssumption
<1>3. periodicNextRun(d, 0, now) # Never
  <2>1. now <= now + 1 /\ now + 1 \in Nat
    BY <1>1
  <2>2. periodicNextRun(d, 0, now) \in Nat
    BY <1>1, <1>2, <2>1, PeriodicMovesOn
  <2> QED BY <2>2 DEF Never
<1> QED BY <1>3 DEF RanForRun

(* What timeout() executes, it executes for a run. *)
LEMMA TimeoutRan ==
  ASSUME WithinTimer, SInv, PeriodInv, RanForRun(ran, now), timeout
  PROVE  RanForRun(ran', now')
<1> DEFINE x == Head(tests)
<1>1. /\ timer # Never /\ timer <= now /\ now' = now
      /\ ran' = ran \/ ran' = [ran EXCEPT ![x.def] = now]
  BY DEF timeout, runFirst
<1>2. tests # <<>> /\ now \in Nat /\ ran \in [Schedules -> Nat \cup {Never}]
  BY <1>1 DEF SInv, OffWhenEmpty
<1>3. x \in Entry /\ x.def \in Schedules /\ x.delay \in Nat /\ x.delay \in Delays(x.def)
  BY <1>2, FirstEntry, EntryType DEF PeriodInv
<1>4. CASE ran' = ran
  BY <1>1, <1>4
<1>5. CASE ran' = [ran EXCEPT ![x.def] = now]
  <2> SUFFICES ASSUME NEW d \in Schedules, d.type = "periodic", ran'[d] # Never, periodicNextRun(d, 0, now) # Never
               PROVE  ExecutedFor(d, ran'[d])
    BY <1>1 DEF RanForRun
  <2>1. CASE d # x.def
    <3>1. ran'[d] = ran[d]
      BY <1>2, <1>5, <2>1
    <3> QED BY <3>1 DEF RanForRun
  <2>2. CASE d = x.def
    <3>1. d.period \in Nat \ {0} /\ d.start \in Nat /\ d.end \in Nat
      BY ConstantsAssumption
    <3>2. periodicNextRun(d, x.delay, now) # Never
      BY <1>2, <1>3, <3>1, DelayShifts
    <3>3. nextRun(x) # Never
      BY <2>2, <3>2 DEF nextRun
    <3>4. PICK s \in Nat : /\ s <= now /\ periodicNextRun(d, x.delay, s) # Never
                           /\ periodicNextRun(d, x.delay, s) + Offset <= now
                           /\ now <= periodicNextRun(d, x.delay, s) + Behind + MaxLate
      BY <1>1, <1>2, <2>2, <3>3, FirstRun
    <3>5. ran'[d] = now
      BY <1>2, <1>5, <2>2
    <3>6. x.delay \in Delays(d)
      BY <1>3, <2>2
    <3> HIDE DEF x
    <3> QED BY <3>4, <3>5, <3>6 DEF ExecutedFor
  <2> QED BY <2>1, <2>2
<1> QED BY <1>1, <1>4, <1>5

(* All of the steps: on-demand tests are not periodic. *)
LEMMA StepRan ==
  ASSUME WithinTimer, SInv, PeriodInv, RanForRun(ran, now), [Next]_vars
  PROVE  RanForRun(ran', now')
<1>1. CASE UNCHANGED vars
  BY <1>1 DEF vars
<1>2. ASSUME NEW id \in Ids, executeOnDemandTest(id) PROVE RanForRun(ran', now')
  <2>1. PICK c \in OnDemands : ran' = [ran EXCEPT ![c] = now]
    BY <1>2 DEF executeOnDemandTest, SInv
  <2>2. now' = now /\ ran \in [Schedules -> Nat \cup {Never}]
    BY <1>2 DEF executeOnDemandTest, SInv
  <2>3. \A d \in Schedules : d.type = "periodic" => ran'[d] = ran[d]
    BY <2>1, <2>2 DEF OnDemands
  <2> QED BY <2>2, <2>3 DEF RanForRun
<1>3. ASSUME NEW d \in Schedules, NEW delay \in Delays(d), enqueue(d, delay) PROVE RanForRun(ran', now')
  BY <1>3 DEF enqueue
<1>4. ASSUME NEW id \in Ids, dequeue(id) PROVE RanForRun(ran', now')
  BY <1>4 DEF dequeue
<1>5. ASSUME NEW clean \in BOOLEAN, Restart(clean) PROVE RanForRun(ran', now')
  BY <1>5 DEF Restart
<1> QED BY <1>1, <1>2, <1>3, <1>4, <1>5, TickRan, TimeoutRan DEF Next

(* Initially nothing was executed. *)
LEMMA InitRan == Init => RanForRun(ran, now)
BY DEF Init, RanForRun

(***************************************************************************)
(* A step that executes a periodic test with another run: it knows of its  *)
(* last execution, or that was not early.                                  *)
(***************************************************************************)
LEMMA StepExecutes ==
  ASSUME WithinTimer, GuardCovers, SInv, PeriodInv, RanForRun(ran, now),
         NEW k \in DOMAIN tests, Executes(tests[k]),
         tests[k].def.type = "periodic", nextRun(tests[k]) # Never,
         Readded(tests[k]) => NotEarly(tests[k].def)
  PROVE  PeriodPassed(tests[k])
<1> DEFINE x == Head(tests)
           d == x.def
<1>1. timeout /\ tests[k] = x /\ ~tooSoon(x)
  BY DEF Executes
<1>2. timer # Never /\ timer <= now /\ now \in Nat /\ ran \in [Schedules -> Nat \cup {Never}]
  BY <1>1 DEF timeout, SInv
<1>3. tests # <<>>
  BY <1>2 DEF SInv, OffWhenEmpty
<1>4. x \in Entry /\ d \in Schedules
  BY <1>3, FirstEntry, EntryType DEF PeriodInv
<1>5. d.period \in Nat /\ d.spread \in Nat /\ MaxLate \in Nat /\ Offset \in Int
  BY <1>4, ConstantsAssumption
<1>6. Abs(Offset) \in Nat
  BY <1>5 DEF Abs
<1> SUFFICES ASSUME ran[d] # Never PROVE now - ran[d] >= d.period - Slack(x)
  BY <1>1 DEF PeriodPassed
<1>7. ran[d] \in Nat
  BY <1>2, <1>4
<1>8. CASE Readded(x)
  <2>1. Slack(x) = MaxLate + Abs(Offset) + d.spread
    BY <1>8 DEF Slack
  <2>2. now - ran[d] >= d.period - MaxLate - Abs(Offset) - d.spread
    BY <1>1, <1>2, <1>3, <1>8, FirstRunsAgain
  <2> HIDE DEF x, d
  <2> QED BY <1>2, <1>5, <1>6, <1>7, <2>1, <2>2
<1>9. CASE ~Readded(x)
  <2>1. Slack(x) = MaxLate + Abs(Offset) + 0
    BY <1>9 DEF Slack
  <2>2. x.last = ran[d]
    BY <1>9 DEF Readded
  <2>3. now - ran[d] >= d.period - MaxLate - Abs(Offset)
    BY <1>1, <1>2, <1>3, <2>2, FirstRuns
  <2> HIDE DEF x, d
  <2> QED BY <1>2, <1>5, <1>6, <1>7, <2>1, <2>3
<1> QED BY <1>8, <1>9

(***************************************************************************)
(* Two executions of a periodic test are a period apart, up to the         *)
(* lateness of the timer and the difference of the clocks, whatever else   *)
(* is queued or removed in between (Scheduler::Private::timeout,           *)
(* PeriodicTiming::nextRun), and, unless the earlier one was early, also   *)
(* when the test itself was removed and added again or loaded by a new     *)
(* process, up to the delay it then draws: if the instants fit the int of  *)
(* QTimer::start, and the 1.5 s of timeout() cover a local clock that is   *)
(* ahead.                                                                  *)
(***************************************************************************)
THEOREM ExecutedOncePerPeriod ==
  ASSUME WithinTimer, GuardCovers
  PROVE  Spec => OncePerPeriod
<1> DEFINE I == SInv /\ PeriodInv /\ RanForRun(ran, now)
<1>1. Init => I
  BY InitSInv, InitPeriod, InitRan
<1>2. I /\ [Next]_vars => I'
  BY StepSInv, StepPeriod, StepRan
<1>3. I /\ [Next]_vars =>
        [\A k \in DOMAIN tests :
           /\ Executes(tests[k])
           /\ tests[k].def.type = "periodic" /\ nextRun(tests[k]) # Never
           /\ Readded(tests[k]) => NotEarly(tests[k].def)
           => PeriodPassed(tests[k])]_vars
  BY StepExecutes
<1> HIDE DEF I
<1> QED BY <1>1, <1>2, <1>3, PTL DEF Spec, OncePerPeriod
=============================================================================
