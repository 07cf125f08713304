---------------------------- MODULE TimerProofs ----------------------------
(* Proofs of the safety properties of Timer and of the calendar it asks,    *)
(* for every calendar, all timings, any offsets and any length of time.     *)
EXTENDS Timer, WellFoundedInduction, TLAPS

(***************************************************************************)
(* Lemmas about numbers: the least of a set, products and quotients.       *)
(***************************************************************************)
(* A set of naturals that is not empty has a least number. *)
LEMMA LeastNumber ==
  ASSUME NEW T \in SUBSET Nat, T # {}
  PROVE  \E m \in T : \A k \in T : m <= k
<1> DEFINE R == OpToRel(<, Nat)
<1>1. IsWellFoundedOn(R, Nat)
  BY NatLessThanWellFounded
<1>2. \A x, y \in Nat : y < x => <<y, x>> \in R
  BY DEF OpToRel
<1> HIDE DEF R
<1>3. PICK x \in T : \A y \in T : ~(<<y, x>> \in R)
  BY <1>1, WFMin
<1>4. \A y \in T : ~(y < x)
  BY <1>2, <1>3
<1>5. \A y \in T : x <= y
  BY <1>4
<1> QED BY <1>5

(* Min is the least number of such a set, and the only one. *)
LEMMA MinIsLeast ==
  ASSUME NEW T \in SUBSET Nat, T # {}
  PROVE  /\ Min(T) \in T /\ \A k \in T : Min(T) <= k
         /\ \A m \in T : (\A k \in T : m <= k) => Min(T) = m
<1>1. \E m \in T : \A k \in T : m <= k
  BY LeastNumber
<1>2. Min(T) \in T /\ \A k \in T : Min(T) <= k
  BY <1>1, Zenon DEF Min
<1>3. ASSUME NEW m \in T, \A k \in T : m <= k PROVE Min(T) = m
  <2>1. m <= Min(T) /\ Min(T) <= m
    BY <1>2, <1>3
  <2>2. m \in Nat /\ Min(T) \in Nat
    BY <1>2
  <2> QED BY <2>1, <2>2
<1> QED BY <1>2, <1>3

(* Division by a period: the multiple of it at or before a. *)
LEMMA Division ==
  ASSUME NEW a \in Int, NEW p \in Nat \ {0}
  PROVE  /\ (a \div p) \in Int /\ (a \div p) * p <= a /\ a < (a \div p + 1) * p
         /\ (a % p) \in 0..(p - 1) /\ a = (a \div p) * p + (a % p)
         /\ a >= 0 => (a \div p) >= 0
<1>1. (a \div p) \in Int /\ (a \div p) * p <= a /\ a < (a \div p + 1) * p
  OBVIOUS
<1>2. (a % p) \in 0..(p - 1) /\ a = (a \div p) * p + (a % p)
  OBVIOUS
<1>3. a >= 0 => (a \div p) >= 0
  OBVIOUS
<1> QED BY <1>1, <1>2, <1>3

(* A multiple of a period grows with its factor. *)
LEMMA Multiples ==
  ASSUME NEW a \in Int, NEW b \in Int, NEW p \in Nat, a <= b
  PROVE  a * p \in Int /\ b * p \in Int /\ a * p <= b * p
OBVIOUS

(* A remainder does not reach the next multiple. *)
LEMMA Carry ==
  ASSUME NEW a \in Int, NEW b \in Int, NEW p \in Nat \ {0}, NEW r \in 0..(p - 1), a < b
  PROVE  a * p + r \in Int /\ b * p \in Int /\ a * p + r < b * p
<1>1. (a + 1) * p \in Int /\ b * p \in Int /\ (a + 1) * p <= b * p
  BY Multiples
<1>2. (a + 1) * p = a * p + p /\ a * p \in Int
  OBVIOUS
<1> DEFINE x == a * p  y == (a + 1) * p  z == b * p
<1>3. x \in Int /\ y \in Int /\ z \in Int /\ y <= z /\ y = x + p
  BY <1>1, <1>2
<1> HIDE DEF x, y, z
<1>4. x + r \in Int /\ x + r < z
  BY <1>3
<1> QED BY <1>3, <1>4 DEF x, z

(* The quotient and the remainder are the only ones. *)
LEMMA OneQuotient ==
  ASSUME NEW a \in Int, NEW n \in Int, NEW p \in Nat \ {0}, NEW r \in 0..(p - 1), a = n * p + r
  PROVE  (a \div p) = n /\ (a % p) = r
<1> DEFINE q == a \div p  m == a % p
<1>1. q \in Int /\ m \in 0..(p - 1) /\ a = q * p + m
  BY Division
<1> HIDE DEF q, m
<1>2. ~(q < n)
  BY <1>1, Carry
<1>3. ~(n < q)
  BY <1>1, Carry
<1>4. q = n
  BY <1>1, <1>2, <1>3
<1>5. q * p \in Int
  BY <1>1
<1>6. m = r
  BY <1>1, <1>4, <1>5
<1> QED BY <1>4, <1>6 DEF q, m

-----------------------------------------------------------------------------
(***************************************************************************)
(* Times of a day: an hour, a minute and a second of QTime.                *)
(***************************************************************************)
Hours == 0..(HoursPerDay - 1)
Minutes == 0..(MinutesPerHour - 1)
Seconds == 0..(SecondsPerMinute - 1)
DaySeconds == HoursPerDay * MinutesPerHour * SecondsPerMinute
Times == 0..(DaySeconds - 1)

(* The lists of a calendar hold numbers of a QTime and are not empty. *)
Lists(c) ==
  /\ c.hours \in (SUBSET Hours) \ {{}}
  /\ c.minutes \in (SUBSET Minutes) \ {{}}
  /\ c.seconds \in (SUBSET Seconds) \ {{}}

(* The units of time are positive. *)
LEMMA Units ==
  /\ HoursPerDay \in Nat \ {0} /\ MinutesPerHour \in Nat \ {0} /\ SecondsPerMinute \in Nat \ {0}
BY CalendarAssumption

(* So are products of them. *)
LEMMA Products ==
  ASSUME NEW a \in Nat \ {0}, NEW b \in Nat \ {0}
  PROVE  a * b \in Nat \ {0}
<1>1. 1 * b <= a * b /\ a * b \in Int
  BY Multiples
<1> QED BY <1>1

(* A day has a whole number of seconds, of two ticks each. *)
LEMMA DayLength ==
  /\ DaySeconds \in Nat \ {0} /\ DayTicks = 2 * DaySeconds /\ DayTicks \in Nat \ {0}
  /\ MinutesPerHour * SecondsPerMinute \in Nat \ {0}
<1> DEFINE h == HoursPerDay  m == MinutesPerHour  s == SecondsPerMinute
<1>1. h \in Nat \ {0} /\ m \in Nat \ {0} /\ s \in Nat \ {0}
  BY Units
<1> HIDE DEF h, m, s
<1>2. h * m \in Nat \ {0} /\ m * s \in Nat \ {0} /\ s * m \in Nat \ {0} /\ 2 * s \in Nat \ {0}
  BY <1>1, Products
<1>3. (h * m) * s \in Nat \ {0}
  BY <1>1, <1>2, Products
<1>4. 2 * s * m * h = 2 * (h * m * s)
  BY <1>1
<1> QED BY <1>2, <1>3, <1>4 DEF DaySeconds, DayTicks, TicksPerSecond, h, m, s

(* A time of a day is a number of seconds below those of a day. *)
LEMMA TimeInDay ==
  ASSUME NEW h \in Hours, NEW m \in Minutes, NEW s \in Seconds
  PROVE  toSecs(h, m, s) \in Times
<1>1. h * MinutesPerHour + m \in Int /\ h * MinutesPerHour + m < HoursPerDay * MinutesPerHour
  BY Units, Carry DEF Hours, Minutes
<1>2. HoursPerDay * MinutesPerHour \in Int
  BY Units
<1>3. toSecs(h, m, s) \in Int /\ toSecs(h, m, s) < DaySeconds
  BY <1>1, <1>2, Units, Carry DEF toSecs, DaySeconds, Seconds
<1>4. h * MinutesPerHour \in Nat
  BY Units DEF Hours
<1>5. h * MinutesPerHour + m \in Nat
  BY <1>4, Units DEF Minutes
<1>6. (h * MinutesPerHour + m) * SecondsPerMinute \in Nat
  <2> DEFINE x == h * MinutesPerHour + m
  <2>1. x \in Nat
    BY <1>5
  <2> HIDE DEF x
  <2>2. x * SecondsPerMinute \in Nat
    BY <2>1, Units
  <2> QED BY <2>2 DEF x
<1>7. toSecs(h, m, s) >= 0
  BY <1>6, Units DEF toSecs, Seconds
<1> QED BY <1>3, <1>7, DayLength DEF Times

(* Times of a day are ordered by the hour, then the minute, then the second. *)
LEMMA TimeOrder ==
  ASSUME NEW h \in Hours, NEW m \in Minutes, NEW s \in Seconds,
         NEW k \in Hours, NEW n \in Minutes, NEW t \in Seconds,
         h < k \/ (h = k /\ m < n) \/ (h = k /\ m = n /\ s <= t)
  PROVE  toSecs(h, m, s) <= toSecs(k, n, t)
<1> DEFINE x == h * MinutesPerHour + m  y == k * MinutesPerHour + n
<1>1. h \in Int /\ k \in Int /\ m \in Int /\ n \in Int /\ s \in Int /\ t \in Int /\ t >= 0 /\ n >= 0
  BY Units DEF Hours, Minutes, Seconds
<1>2. h * MinutesPerHour \in Int /\ k * MinutesPerHour \in Int
  BY <1>1, Units
<1>3. x \in Int /\ y \in Int
  BY <1>1, <1>2
<1>4. h < k => x < y
  <2>1. h < k => h * MinutesPerHour + m < k * MinutesPerHour
    BY <1>1, Units, Carry DEF Minutes
  <2> QED BY <1>1, <1>2, <2>1
<1>5. h = k /\ m < n => x < y
  BY <1>1, <1>2
<1>6. h = k /\ m = n => x = y
  OBVIOUS
<1> HIDE DEF x, y
<1>7. CASE x < y
  <2>1. x * SecondsPerMinute + s < y * SecondsPerMinute
        /\ x * SecondsPerMinute + s \in Int /\ y * SecondsPerMinute \in Int
    BY <1>3, <1>7, Units, Carry DEF Seconds
  <2>2. x * SecondsPerMinute + s <= y * SecondsPerMinute + t
    BY <1>1, <2>1
  <2> QED BY <2>2 DEF toSecs, x, y
<1>8. CASE x = y /\ s <= t
  <2>1. y * SecondsPerMinute \in Int
    BY <1>3, Units
  <2>2. y * SecondsPerMinute + s <= y * SecondsPerMinute + t
    BY <1>1, <1>8, <2>1
  <2> QED BY <1>8, <2>2 DEF toSecs, x, y
<1> QED BY <1>4, <1>5, <1>6, <1>7, <1>8

(* An hour before that of an instant has no time that is late enough. *)
LEMMA EarlierHour ==
  ASSUME NEW ref \in Nat, NEW h \in Hours, NEW m \in Minutes, NEW s \in Seconds,
         toSecs(h, m, s) >= ref
  PROVE  h >= ref \div (SecondsPerMinute * MinutesPerHour)
<1> DEFINE p == MinutesPerHour * SecondsPerMinute
           q == ref \div p
           r == m * SecondsPerMinute + s
<1>1. p \in Nat \ {0} /\ SecondsPerMinute * MinutesPerHour = p
  BY DayLength, Units
<1>2. r \in Int /\ r < p /\ r >= 0
  <2>1. r \in Int /\ r < p
    BY Units, Carry DEF Minutes, Seconds
  <2>2. m * SecondsPerMinute \in Nat
    BY Units DEF Minutes
  <2> QED BY <2>1, <2>2, Units DEF Seconds
<1>3. toSecs(h, m, s) = h * p + r
  <2>1. (h * MinutesPerHour + m) * SecondsPerMinute = h * p + m * SecondsPerMinute
    BY Units DEF Hours, Minutes
  <2>2. h * p \in Int /\ m * SecondsPerMinute \in Int
    BY Units DEF Hours, Minutes
  <2> QED BY <2>1, <2>2, Units DEF toSecs, Seconds
<1>4. h \in Int
  BY Units DEF Hours
<1> HIDE DEF p, r
<1>5. q \in Int /\ q * p <= ref
  BY <1>1, Division
<1> HIDE DEF q
<1>6. ~(h < q)
  <2> SUFFICES ASSUME h < q PROVE FALSE
    OBVIOUS
  <2>1. h * p + r < q * p /\ h * p + r \in Int /\ q * p \in Int
    BY <1>1, <1>2, <1>4, <1>5, Carry
  <2> QED BY <1>3, <1>5, <2>1
<1>7. h >= q
  BY <1>4, <1>5, <1>6
<1> QED BY <1>1, <1>7 DEF q

(* The numbers of a calendar's lists are those of a time of day. *)
LEMMA ListTypes ==
  ASSUME NEW c, Lists(c)
  PROVE  /\ c.hours \subseteq Hours /\ c.minutes \subseteq Minutes /\ c.seconds \subseteq Seconds
         /\ c.hours \in SUBSET Nat /\ c.minutes \in SUBSET Nat /\ c.seconds \in SUBSET Nat
         /\ c.hours # {} /\ c.minutes # {} /\ c.seconds # {}
<1>1. Hours \subseteq Nat /\ Minutes \subseteq Nat /\ Seconds \subseteq Nat
  BY Units DEF Hours, Minutes, Seconds
<1> QED BY <1>1 DEF Lists

(***************************************************************************)
(* findTime returns the first time of the lists that is not before ref,    *)
(* and no time only when there is none.                                    *)
(***************************************************************************)
LEMMA FindTimeFirst ==
  ASSUME NEW c, Lists(c), NEW ref \in Nat
  PROVE  /\ findTime(c, ref) # Never =>
              \E h \in c.hours, m \in c.minutes, s \in c.seconds :
                findTime(c, ref) = toSecs(h, m, s) /\ toSecs(h, m, s) >= ref
         /\ \A h \in c.hours, m \in c.minutes, s \in c.seconds : toSecs(h, m, s) >= ref =>
              findTime(c, ref) # Never /\ findTime(c, ref) <= toSecs(h, m, s)
<1> DEFINE refHour == ref \div (SecondsPerMinute * MinutesPerHour)
           hs == {h \in c.hours : /\ h >= refHour
                                  /\ \E m \in c.minutes, s \in c.seconds : toSecs(h, m, s) >= ref}
           ms(h) == {m \in c.minutes : \E s \in c.seconds : toSecs(h, m, s) >= ref}
           ss(h, m) == {s \in c.seconds : toSecs(h, m, s) >= ref}
           H == Min(hs)
           M == Min(ms(H))
           S == Min(ss(H, M))
<1>1. findTime(c, ref) = IF hs = {} THEN Never ELSE toSecs(H, M, S)
  BY Zenon DEF findTime
<1>2. /\ c.hours \subseteq Hours /\ c.minutes \subseteq Minutes /\ c.seconds \subseteq Seconds
      /\ c.hours \in SUBSET Nat /\ c.minutes \in SUBSET Nat /\ c.seconds \in SUBSET Nat
  BY ListTypes
<1>3. ASSUME NEW h \in c.hours, NEW m \in c.minutes, NEW s \in c.seconds, toSecs(h, m, s) >= ref
      PROVE  h \in hs
  <2>1. h >= refHour
    BY <1>2, <1>3, EarlierHour
  <2> QED BY <1>3, <2>1
<1>4. ASSUME hs # {}
      PROVE  /\ H \in c.hours /\ M \in c.minutes /\ S \in c.seconds /\ toSecs(H, M, S) >= ref
             /\ \A h \in hs : H <= h
             /\ \A m \in ms(H) : M <= m
             /\ \A s \in ss(H, M) : S <= s
  <2>1. hs \in SUBSET Nat
    BY <1>2
  <2>2. H \in hs /\ \A h \in hs : H <= h
    BY <1>4, <2>1, MinIsLeast
  <2> HIDE DEF H
  <2>3. ms(H) # {} /\ ms(H) \in SUBSET Nat
    BY <1>2, <2>2
  <2>4. M \in ms(H) /\ \A m \in ms(H) : M <= m
    <3> DEFINE T == ms(H)
    <3>1. T # {} /\ T \in SUBSET Nat
      BY <2>3
    <3> HIDE DEF T
    <3>2. Min(T) \in T /\ \A m \in T : Min(T) <= m
      BY <3>1, MinIsLeast
    <3> QED BY <3>2 DEF T
  <2> HIDE DEF M
  <2>5. ss(H, M) # {} /\ ss(H, M) \in SUBSET Nat
    BY <1>2, <2>4
  <2>6. S \in ss(H, M) /\ \A s \in ss(H, M) : S <= s
    <3> DEFINE T == ss(H, M)
    <3>1. T # {} /\ T \in SUBSET Nat
      BY <2>5
    <3> HIDE DEF T
    <3>2. Min(T) \in T /\ \A m \in T : Min(T) <= m
      BY <3>1, MinIsLeast
    <3> QED BY <3>2 DEF T
  <2> HIDE DEF S
  <2> QED BY <2>2, <2>4, <2>6
<1> HIDE DEF H, M, S
<1>5. ASSUME NEW h \in c.hours, NEW m \in c.minutes, NEW s \in c.seconds, toSecs(h, m, s) >= ref
      PROVE  hs # {} /\ toSecs(H, M, S) <= toSecs(h, m, s)
  <2>1. hs # {} /\ H <= h
    BY <1>3, <1>4, <1>5
  <2>2. H = h => M <= m
    BY <1>4, <1>5, <2>1
  <2>3. H = h /\ M = m => S <= s
    BY <1>4, <1>5, <2>1
  <2> HIDE DEF hs
  <2>4. H \in Hours /\ M \in Minutes /\ S \in Seconds /\ h \in Hours /\ m \in Minutes /\ s \in Seconds
    BY <1>2, <1>4, <2>1
  <2>5. H \in Int /\ h \in Int /\ M \in Int /\ m \in Int
    BY <2>4, Units DEF Hours, Minutes
  <2>6. H < h \/ (H = h /\ M < m) \/ (H = h /\ M = m /\ S <= s)
    BY <2>1, <2>2, <2>3, <2>5
  <2> QED BY <2>1, <2>4, <2>6, TimeOrder
<1>6. hs # {} => toSecs(H, M, S) # Never
  <2>1. hs # {} => toSecs(H, M, S) \in Times
    BY <1>2, <1>4, TimeInDay
  <2> QED BY <2>1, DayLength DEF Times, Never
<1> HIDE DEF hs
<1>7. findTime(c, ref) # Never => hs # {} /\ findTime(c, ref) = toSecs(H, M, S)
  BY <1>1, Zenon
<1>8. hs # {} => findTime(c, ref) = toSecs(H, M, S)
  BY <1>1, Zenon
<1>9. findTime(c, ref) # Never =>
        \E h \in c.hours, m \in c.minutes, s \in c.seconds :
          findTime(c, ref) = toSecs(h, m, s) /\ toSecs(h, m, s) >= ref
  BY <1>4, <1>7, Zenon
<1>10. ASSUME NEW h \in c.hours, NEW m \in c.minutes, NEW s \in c.seconds, toSecs(h, m, s) >= ref
       PROVE  findTime(c, ref) # Never /\ findTime(c, ref) <= toSecs(h, m, s)
  <2>1. hs # {} /\ toSecs(H, M, S) <= toSecs(h, m, s)
    BY <1>5, <1>10
  <2> QED BY <1>6, <1>8, <2>1, Zenon
<1> QED BY <1>9, <1>10, Zenon

(* The first time of the lists is made of the least numbers. *)
LEMMA FirstTime ==
  ASSUME NEW c, Lists(c)
  PROVE  /\ Min(c.hours) \in c.hours /\ Min(c.minutes) \in c.minutes /\ Min(c.seconds) \in c.seconds
         /\ \A h \in c.hours, m \in c.minutes, s \in c.seconds :
              toSecs(Min(c.hours), Min(c.minutes), Min(c.seconds)) <= toSecs(h, m, s)
<1> DEFINE H == Min(c.hours)  M == Min(c.minutes)  S == Min(c.seconds)
<1>1. /\ c.hours \subseteq Hours /\ c.minutes \subseteq Minutes /\ c.seconds \subseteq Seconds
      /\ c.hours \in SUBSET Nat /\ c.minutes \in SUBSET Nat /\ c.seconds \in SUBSET Nat
      /\ c.hours # {} /\ c.minutes # {} /\ c.seconds # {}
  BY ListTypes
<1>2. H \in c.hours /\ \A h \in c.hours : H <= h
  BY <1>1, MinIsLeast
<1>3. M \in c.minutes /\ \A m \in c.minutes : M <= m
  BY <1>1, MinIsLeast
<1>4. S \in c.seconds /\ \A s \in c.seconds : S <= s
  BY <1>1, MinIsLeast
<1> HIDE DEF H, M, S
<1>5. ASSUME NEW h \in c.hours, NEW m \in c.minutes, NEW s \in c.seconds
      PROVE  toSecs(H, M, S) <= toSecs(h, m, s)
  <2>1. H \in Hours /\ M \in Minutes /\ S \in Seconds /\ h \in Hours /\ m \in Minutes /\ s \in Seconds
    BY <1>1, <1>2, <1>3, <1>4
  <2>2. H <= h /\ M <= m /\ S <= s /\ H \in Int /\ h \in Int /\ M \in Int /\ m \in Int
    BY <1>2, <1>3, <1>4, <2>1, Units DEF Hours, Minutes
  <2>3. H < h \/ (H = h /\ M < m) \/ (H = h /\ M = m /\ S <= s)
    BY <2>2
  <2> QED BY <2>1, <2>3, TimeOrder
<1> QED BY <1>2, <1>3, <1>4, <1>5 DEF H, M, S

-----------------------------------------------------------------------------
(***************************************************************************)
(* Days and instants.                                                      *)
(***************************************************************************)
(* An instant is the start of its day plus the seconds of its time. *)
LEMMA InstantOfDay ==
  ASSUME NEW n \in Nat, NEW x \in Times
  PROVE  /\ at(n, x) = n * DayTicks + 2 * x /\ 2 * x \in 0..(DayTicks - 1)
         /\ n * DayTicks \in Nat /\ at(n, x) \in Nat
         /\ (at(n, x) \div DayTicks) = n
<1>1. x \in Nat /\ x < DaySeconds /\ DaySeconds \in Nat /\ DayTicks = 2 * DaySeconds /\ DayTicks \in Nat \ {0}
  BY DayLength DEF Times
<1>2. 2 * x \in 0..(DayTicks - 1)
  <2>1. 2 * x < 2 * DaySeconds
    BY <1>1
  <2> QED BY <1>1, <2>1
<1>3. at(n, x) = n * DayTicks + 2 * x
  BY <1>1 DEF at, TicksPerSecond
<1> HIDE DEF DayTicks
<1>4. n * DayTicks \in Nat
  BY <1>1
<1>5. at(n, x) \in Nat
  BY <1>2, <1>3, <1>4
<1>6. (at(n, x) \div DayTicks) = n
  BY <1>1, <1>2, <1>3, <1>5, OneQuotient
<1> QED BY <1>2, <1>3, <1>4, <1>5, <1>6

(* The search of nextRun at instant t: where it begins, and the days it looks at. *)
From(c, t) == IF c.start > t THEN c.start ELSE t
Today(c, t) == From(c, t) \div DayTicks
Ref(c, t) == (From(c, t) % DayTicks) \div TicksPerSecond
Days(c, t) ==
  {n \in DOMAIN DateOf :
     /\ n >= Today(c, t) /\ DateOf[n].year <= DateOf[Today(c, t)].year + 2
     /\ DateOf[n].month \in c.months /\ DateOf[n].day \in c.daysOfMonth
     /\ dayOfWeek(n) \in c.daysOfWeek}
Later(c, t) == Days(c, t) \ {Today(c, t)}

(* Whether it stays with today, the day it takes, and the run it finds then. *)
StaysToday(c, t, l) ==
  /\ Today(c, t) \in Days(c, t) /\ findTime(c, Ref(c, t)) # Never
  /\ l = Never \/ secsTo(l, at(Today(c, t), findTime(c, Ref(c, t)))) > 1
DayTaken(c, t, l) == IF StaysToday(c, t, l) THEN Today(c, t) ELSE Min(Later(c, t))
Found(c, t, l) ==
  IF StaysToday(c, t, l) THEN at(Today(c, t), findTime(c, Ref(c, t)))
  ELSE at(DayTaken(c, t, l), toSecs(Min(c.hours), Min(c.minutes), Min(c.seconds)))

(* nextRun in these terms: what it finds, unless it is dropped. *)
LEMMA RunFound ==
  ASSUME NEW c, NEW t, NEW l
  PROVE  calendarNextRun(c, t, l) =
           IF ~StaysToday(c, t, l) /\ Later(c, t) = {} THEN Never
           ELSE IF /\ DateOf[DayTaken(c, t, l)].year = DateOf[Today(c, t)].year + 2
                   /\ DateOf[DayTaken(c, t, l)].month = Max(c.months) THEN Never
           ELSE IF c.end # Never /\ c.end < Found(c, t, l) THEN Never ELSE Found(c, t, l)
BY Zenon DEF calendarNextRun, StaysToday, DayTaken, Found, Later, Days, Today, Ref, From

(* Days are numbers, none of them is over. *)
LEMMA DaysOfSearch ==
  ASSUME NEW c, c.start \in Nat \cup {Never}, NEW t \in Int
  PROVE  /\ From(c, t) \in Int /\ From(c, t) >= t /\ Today(c, t) \in Int
         /\ Days(c, t) \in SUBSET Nat /\ Later(c, t) \in SUBSET Nat
         /\ \A n \in Days(c, t) : n >= Today(c, t)
         /\ From(c, t) = Today(c, t) * DayTicks + (From(c, t) % DayTicks)
         /\ (From(c, t) % DayTicks) \in 0..(DayTicks - 1) /\ Ref(c, t) \in Nat
<1>1. From(c, t) \in Int /\ From(c, t) >= t
  BY DEF From, Never
<1>2. DayTicks \in Nat \ {0}
  BY DayLength
<1>3. \A n \in DOMAIN DateOf : n \in Nat
  BY DEF DateOf
<1>4. Days(c, t) \in SUBSET Nat /\ \A n \in Days(c, t) : n >= Today(c, t)
  BY <1>3, Zenon DEF Days
<1> DEFINE f == From(c, t)
<1>5. f \in Int
  BY <1>1
<1> HIDE DEF f
<1>6. /\ (f \div DayTicks) \in Int /\ f = (f \div DayTicks) * DayTicks + (f % DayTicks)
      /\ (f % DayTicks) \in 0..(DayTicks - 1)
  BY <1>2, <1>5, Division
<1>7. (f % DayTicks) \in Nat
  BY <1>2, <1>6
<1> DEFINE r == f % DayTicks
<1>8. r \in Nat
  BY <1>7
<1> HIDE DEF r
<1>9. (r \div TicksPerSecond) \in Nat
  BY <1>8 DEF TicksPerSecond
<1> QED BY <1>1, <1>4, <1>6, <1>9 DEF f, r, Today, Ref, Later

(* An instant of a day of the search is asked for unless it is one of today that is over. *)
LEMMA NotOver ==
  ASSUME NEW c, c.start \in Nat \cup {Never}, NEW t \in Int,
         NEW n \in Days(c, t), NEW x \in Times
  PROVE  at(n, x) \notin 0..(From(c, t) - (From(c, t) % TicksPerSecond) - 1)
           <=> (n # Today(c, t) \/ x >= Ref(c, t))
<1> DEFINE f == From(c, t)  d == Today(c, t)  r == f % DayTicks  q == Ref(c, t)  a == at(n, x)
<1>1. /\ f \in Int /\ d \in Int /\ n \in Nat /\ n >= d
      /\ f = d * DayTicks + r /\ r \in 0..(DayTicks - 1) /\ q = r \div 2
  BY DaysOfSearch DEF Ref, TicksPerSecond
<1>2. /\ a = n * DayTicks + 2 * x /\ n * DayTicks \in Nat /\ a \in Nat /\ x \in Nat
  BY <1>1, InstantOfDay DEF Times
<1>3. DaySeconds \in Nat \ {0} /\ DayTicks = 2 * DaySeconds /\ DayTicks \in Nat \ {0}
  BY DayLength
<1> HIDE DEF f, d, r, q, a
<1>4. r \in Nat
  BY <1>1, <1>3
<1>5. q \in Int /\ (r % 2) \in 0..1 /\ r = q * 2 + (r % 2)
  BY <1>1, <1>4, Division
<1>6. (f % 2) \in 0..1
  BY <1>1, Division
<1>7. CASE n # d
  <2>1. d < n
    BY <1>1, <1>7
  <2>2. f < n * DayTicks
    BY <1>1, <1>3, <2>1, Carry
  <2>3. f - (f % 2) - 1 < a
    BY <1>1, <1>2, <1>6, <2>2
  <2>4. a \notin 0..(f - (f % 2) - 1)
    BY <1>1, <1>2, <1>6, <2>3
  <2> QED BY <1>7, <2>4 DEF a, f, d, TicksPerSecond
<1>8. CASE n = d
  <2> DEFINE b == d * DaySeconds  z == d * DayTicks  y == r % 2
  <2>1. b \in Int /\ z \in Int /\ z = b * 2
    BY <1>1, <1>3
  <2>2. f = z + r /\ a = z + 2 * x
    BY <1>1, <1>2, <1>8
  <2>3. y \in 0..1 /\ r = q * 2 + y
    BY <1>5
  <2> HIDE DEF b, z, y
  <2>4. b + q \in Int /\ f = (b + q) * 2 + y
    BY <1>5, <2>1, <2>2, <2>3
  <2>5. y \in 0..(2 - 1) /\ 2 \in Nat \ {0}
    BY <2>3
  <2>6. (f % 2) = y
    BY <1>1, <2>4, <2>5, OneQuotient
  <2>7. f - (f % 2) - 1 = z + q * 2 - 1
    BY <1>5, <2>1, <2>2, <2>3, <2>6
  <2>8. a \notin 0..(f - (f % 2) - 1) <=> x >= q
    BY <1>2, <1>5, <2>1, <2>2, <2>7
  <2> QED BY <1>8, <2>8 DEF a, f, d, q, TicksPerSecond
<1> QED BY <1>7, <1>8

(* What the lists ask for: these instants and no others. *)
LEMMA AskedInstants ==
  ASSUME NEW c, Lists(c), c.start \in Nat \cup {Never}, NEW t \in Int
  PROVE  /\ Asked(c, t) \in SUBSET Nat
         /\ \A y \in Asked(c, t) :
              \E n \in Days(c, t), h \in c.hours, m \in c.minutes, s \in c.seconds :
                y = at(n, toSecs(h, m, s)) /\ (n # Today(c, t) \/ toSecs(h, m, s) >= Ref(c, t))
         /\ \A n \in Days(c, t), h \in c.hours, m \in c.minutes, s \in c.seconds :
              (n # Today(c, t) \/ toSecs(h, m, s) >= Ref(c, t)) => at(n, toSecs(h, m, s)) \in Asked(c, t)
<1> DEFINE gone == 0..(From(c, t) - (From(c, t) % TicksPerSecond) - 1)
<1>1. \A y : y \in Asked(c, t) <=>
              /\ \E n \in Days(c, t), h \in c.hours, m \in c.minutes, s \in c.seconds : y = at(n, toSecs(h, m, s))
              /\ y \notin gone
  BY DEF Asked, Days, Today, From
<1>2. \A h \in c.hours, m \in c.minutes, s \in c.seconds : toSecs(h, m, s) \in Times
  <2>1. c.hours \subseteq Hours /\ c.minutes \subseteq Minutes /\ c.seconds \subseteq Seconds
    BY ListTypes
  <2> QED BY <2>1, TimeInDay
<1>3. Days(c, t) \in SUBSET Nat
  BY DaysOfSearch
<1>4. \A n \in Days(c, t), x \in Times : at(n, x) \in Nat
  BY <1>3, InstantOfDay
<1>5. \A n \in Days(c, t), x \in Times :
        at(n, x) \notin gone <=> (n # Today(c, t) \/ x >= Ref(c, t))
  BY NotOver
<1> HIDE DEF gone
<1>6. Asked(c, t) \in SUBSET Nat
  BY <1>1, <1>2, <1>4
<1>7. ASSUME NEW y \in Asked(c, t)
      PROVE  \E n \in Days(c, t), h \in c.hours, m \in c.minutes, s \in c.seconds :
               y = at(n, toSecs(h, m, s)) /\ (n # Today(c, t) \/ toSecs(h, m, s) >= Ref(c, t))
  <2>1. PICK n \in Days(c, t), h \in c.hours, m \in c.minutes, s \in c.seconds :
           y = at(n, toSecs(h, m, s))
    BY <1>1
  <2>2. y \notin gone /\ toSecs(h, m, s) \in Times
    BY <1>1, <1>2
  <2>3. n # Today(c, t) \/ toSecs(h, m, s) >= Ref(c, t)
    BY <1>5, <2>1, <2>2
  <2> QED BY <2>1, <2>3
<1>8. ASSUME NEW n \in Days(c, t), NEW h \in c.hours, NEW m \in c.minutes, NEW s \in c.seconds,
             n # Today(c, t) \/ toSecs(h, m, s) >= Ref(c, t)
      PROVE  at(n, toSecs(h, m, s)) \in Asked(c, t)
  <2>1. toSecs(h, m, s) \in Times
    BY <1>2
  <2>2. at(n, toSecs(h, m, s)) \notin gone
    BY <1>5, <1>8, <2>1
  <2> QED BY <1>1, <2>2
<1> QED BY <1>6, <1>7, <1>8

-----------------------------------------------------------------------------
(***************************************************************************)
(* What nextRun finds.                                                     *)
(***************************************************************************)
(* It is asked for, on the day taken; a run of another day lies after t. *)
LEMMA FoundIsAsked ==
  ASSUME NEW c, Lists(c), c.start \in Nat \cup {Never}, NEW t \in Int, NEW l,
         StaysToday(c, t, l) \/ Later(c, t) # {}
  PROVE  /\ Found(c, t, l) \in Asked(c, t) /\ Found(c, t, l) \in Nat
         /\ (Found(c, t, l) \div DayTicks) = DayTaken(c, t, l)
         /\ ~StaysToday(c, t, l) => Found(c, t, l) > t
<1> DEFINE d == Today(c, t)  e == Min(Later(c, t))  q == Ref(c, t)
           x == findTime(c, q)
           y == toSecs(Min(c.hours), Min(c.minutes), Min(c.seconds))
<1>1. /\ d \in Int /\ q \in Nat /\ Days(c, t) \in SUBSET Nat /\ Later(c, t) \in SUBSET Nat
      /\ \A n \in Days(c, t) : n >= d
  BY DaysOfSearch
<1>2. c.hours \subseteq Hours /\ c.minutes \subseteq Minutes /\ c.seconds \subseteq Seconds
  BY ListTypes
<1>3. CASE StaysToday(c, t, l)
  <2>1. d \in Days(c, t) /\ x # Never
    BY <1>3, Zenon DEF StaysToday
  <2>2. PICK h \in c.hours, m \in c.minutes, s \in c.seconds : x = toSecs(h, m, s) /\ toSecs(h, m, s) >= q
    BY <1>1, <2>1, FindTimeFirst
  <2>3. x \in Times
    BY <1>2, <2>2, TimeInDay
  <2>4. at(d, x) \in Nat /\ (at(d, x) \div DayTicks) = d
    BY <1>1, <2>1, <2>3, InstantOfDay
  <2>5. at(d, x) \in Asked(c, t)
    BY <2>1, <2>2, AskedInstants
  <2>6. Found(c, t, l) = at(d, x) /\ DayTaken(c, t, l) = d
    BY <1>3, Zenon DEF Found, DayTaken
  <2> QED BY <1>3, <2>4, <2>5, <2>6, Zenon
<1>4. CASE ~StaysToday(c, t, l)
  <2>1. e \in Later(c, t)
    BY <1>1, <1>4, MinIsLeast
  <2>2. e \in Days(c, t) /\ e # d
    BY <2>1 DEF Later
  <2>3. Min(c.hours) \in c.hours /\ Min(c.minutes) \in c.minutes /\ Min(c.seconds) \in c.seconds
    BY FirstTime
  <2>4. y \in Times
    BY <1>2, <2>3, TimeInDay
  <2>5. at(e, y) \in Nat /\ (at(e, y) \div DayTicks) = e
    BY <1>1, <2>2, <2>4, InstantOfDay
  <2>6. at(e, y) \in Asked(c, t)
    BY <2>2, <2>3, AskedInstants
  <2>7. Found(c, t, l) = at(e, y) /\ DayTaken(c, t, l) = e
    BY <1>4, Zenon DEF Found, DayTaken
  <2>8. at(e, y) > t
    <3> DEFINE f == From(c, t)  r == f % DayTicks  z == e * DayTicks  b == 2 * y
    <3>1. f \in Int /\ f >= t /\ f = d * DayTicks + r /\ r \in 0..(DayTicks - 1)
      BY DaysOfSearch
    <3>2. e \in Nat /\ d < e
      BY <1>1, <2>2
    <3>3. at(e, y) = z + b /\ z \in Nat
      BY <2>4, <3>2, InstantOfDay
    <3>4. y \in Nat
      BY <2>4, DayLength DEF Times
    <3>5. b \in Nat
      <4> HIDE DEF y
      <4> QED BY <3>4
    <3> HIDE DEF f, r, d, e, y
    <3>6. f < e * DayTicks
      BY <1>1, <3>1, <3>2, DayLength, Carry
    <3> HIDE DEF z, b
    <3>7. f < z
      BY <3>6 DEF z
    <3> QED BY <3>1, <3>3, <3>5, <3>7
  <2> QED BY <2>5, <2>6, <2>7, <2>8
<1> QED BY <1>3, <1>4

(***************************************************************************)
(* It is the first instant that is asked for, unless the first one was     *)
(* executed already.                                                       *)
(***************************************************************************)
LEMMA FoundIsFirst ==
  ASSUME NEW c, Lists(c), c.start \in Nat \cup {Never}, NEW t \in Int, NEW l,
         Asked(c, t) # {}, l = Never \/ secsTo(l, Min(Asked(c, t))) > 1
  PROVE  (StaysToday(c, t, l) \/ Later(c, t) # {}) /\ Found(c, t, l) = Min(Asked(c, t))
<1> DEFINE d == Today(c, t)  q == Ref(c, t)  A == Asked(c, t)
           x == findTime(c, q)
           y == toSecs(Min(c.hours), Min(c.minutes), Min(c.seconds))
<1>1. /\ d \in Int /\ q \in Nat /\ Days(c, t) \in SUBSET Nat /\ Later(c, t) \in SUBSET Nat
      /\ \A n \in Days(c, t) : n >= d
  BY DaysOfSearch
<1>2. \A h \in c.hours, m \in c.minutes, s \in c.seconds : toSecs(h, m, s) \in Times
  <2>1. c.hours \subseteq Hours /\ c.minutes \subseteq Minutes /\ c.seconds \subseteq Seconds
    BY ListTypes
  <2> QED BY <2>1, TimeInDay
<1>3. A \in SUBSET Nat
  BY AskedInstants
<1>4. /\ Min(A) \in A /\ \A k \in A : Min(A) <= k
      /\ \A m \in A : (\A k \in A : m <= k) => Min(A) = m
  BY <1>3, MinIsLeast
<1>5. PICK n \in Days(c, t), h \in c.hours, m \in c.minutes, s \in c.seconds :
         Min(A) = at(n, toSecs(h, m, s)) /\ (n # d \/ toSecs(h, m, s) >= q)
  BY <1>4, AskedInstants
<1>6. Min(A) \in Nat
  BY <1>3, <1>4
<1> HIDE DEF A
<1>7. ASSUME d \in Days(c, t), x # Never PROVE n = d /\ at(d, x) = Min(A)
  <2>1. PICK hh \in c.hours, mm \in c.minutes, ss \in c.seconds :
           x = toSecs(hh, mm, ss) /\ toSecs(hh, mm, ss) >= q
    BY <1>1, <1>7, FindTimeFirst
  <2>2. at(d, x) \in A
    BY <1>7, <2>1, AskedInstants DEF A
  <2>3. Min(A) <= at(d, x)
    BY <1>4, <2>2
  <2>4. x \in Times /\ toSecs(h, m, s) \in Times
    BY <1>2, <2>1
  <2> DEFINE w == toSecs(h, m, s)
  <2>5. w \in Times /\ x \in Times /\ Min(A) = at(n, w) /\ d \in Nat /\ n \in Nat /\ n >= d
    BY <1>1, <1>5, <1>7, <2>4
  <2>6. n = d => x <= w
    BY <1>1, <1>5, FindTimeFirst
  <2> HIDE DEF x, w, d
  <2>7. at(d, x) = d * DayTicks + 2 * x /\ 2 * x \in 0..(DayTicks - 1) /\ at(d, x) \in Nat
    BY <2>5, InstantOfDay
  <2>8. at(n, w) = n * DayTicks + 2 * w /\ 2 * w \in 0..(DayTicks - 1) /\ n * DayTicks \in Nat
    BY <2>5, InstantOfDay
  <2>9. ~(d < n)
    <3> SUFFICES ASSUME d < n PROVE FALSE
      OBVIOUS
    <3>1. d * DayTicks + 2 * x < n * DayTicks
      BY <2>5, <2>7, DayLength, Carry
    <3>2. at(d, x) < n * DayTicks
      BY <2>7, <3>1
    <3>3. at(d, x) < at(n, w)
      BY <2>7, <2>8, <3>2, DayLength
    <3> QED BY <1>6, <2>3, <2>5, <2>7, <3>3
  <2>10. n = d
    BY <2>5, <2>9
  <2>11. w = x
    <3>1. x <= w /\ x \in Nat /\ w \in Nat
      BY <2>5, <2>6, <2>10, DayLength DEF Times
    <3> DEFINE z == d * DayTicks
    <3>2. z \in Nat /\ at(d, x) = z + 2 * x /\ at(n, w) = z + 2 * w
      BY <2>7, <2>8, <2>10
    <3>3. at(n, w) <= at(d, x)
      BY <2>3, <2>5
    <3> HIDE DEF z
    <3> QED BY <3>1, <3>2, <3>3
  <2> QED BY <2>5, <2>10, <2>11
<1>8. CASE n = d
  <2>1. d \in Days(c, t) /\ toSecs(h, m, s) >= q
    BY <1>5, <1>8
  <2>2. x # Never
    BY <1>1, <2>1, FindTimeFirst
  <2>3. at(d, x) = Min(A)
    BY <1>7, <2>1, <2>2
  <2>4. StaysToday(c, t, l)
    BY <2>1, <2>2, <2>3, Zenon DEF StaysToday, A
  <2>5. Found(c, t, l) = at(d, x)
    BY <2>4, Zenon DEF Found
  <2> QED BY <2>3, <2>4, <2>5, Zenon DEF A
<1>9. CASE n # d
  <2>1. ~StaysToday(c, t, l)
    BY <1>7, <1>9, Zenon DEF StaysToday
  <2>2. n \in Later(c, t)
    BY <1>9 DEF Later
  <2> DEFINE e == Min(Later(c, t))  w == toSecs(h, m, s)
  <2>3. e \in Later(c, t) /\ e <= n
    BY <1>1, <2>2, MinIsLeast
  <2>4. e \in Days(c, t) /\ e # d
    BY <2>3 DEF Later
  <2>5. /\ Min(c.hours) \in c.hours /\ Min(c.minutes) \in c.minutes /\ Min(c.seconds) \in c.seconds
        /\ y <= w
    BY FirstTime
  <2>6. at(e, y) \in A
    BY <2>4, <2>5, AskedInstants DEF A
  <2>7. Min(A) <= at(e, y) /\ Min(A) = at(n, w)
    BY <1>4, <1>5, <2>6
  <2>8. y \in Times /\ w \in Times /\ e \in Nat /\ n \in Nat
    BY <1>1, <1>2, <2>4, <2>5
  <2>9. Found(c, t, l) = at(e, y)
    BY <2>1, Zenon DEF Found, DayTaken
  <2> HIDE DEF e, y, w
  <2>10. at(e, y) = e * DayTicks + 2 * y /\ 2 * y \in 0..(DayTicks - 1) /\ at(e, y) \in Nat
    BY <2>8, InstantOfDay
  <2>11. at(n, w) = n * DayTicks + 2 * w /\ 2 * w \in 0..(DayTicks - 1) /\ n * DayTicks \in Nat /\ at(n, w) \in Nat
    BY <2>8, InstantOfDay
  <2>12. e < n => at(e, y) < at(n, w)
    <3> SUFFICES ASSUME e < n PROVE at(e, y) < at(n, w)
      OBVIOUS
    <3>1. e * DayTicks + 2 * y < n * DayTicks
      BY <2>8, <2>10, DayLength, Carry
    <3>2. at(e, y) < n * DayTicks
      BY <2>10, <3>1
    <3> QED BY <2>10, <2>11, <3>2, DayLength
  <2>13. e = n => at(e, y) <= at(n, w)
    <3> SUFFICES ASSUME e = n PROVE at(e, y) <= at(n, w)
      OBVIOUS
    <3> DEFINE z == n * DayTicks
    <3>1. z \in Nat /\ at(e, y) = z + 2 * y /\ at(n, w) = z + 2 * w
      BY <2>10, <2>11
    <3>2. y \in Nat /\ w \in Nat
      BY <2>8, DayLength DEF Times
    <3> HIDE DEF z
    <3> QED BY <2>5, <3>1, <3>2
  <2>14. at(e, y) = at(n, w)
    <3>1. e < n \/ e = n
      BY <2>3, <2>8
    <3> QED BY <2>7, <2>10, <2>11, <2>12, <2>13, <3>1
  <2> QED BY <2>2, <2>7, <2>9, <2>14 DEF A
<1> QED BY <1>8, <1>9

(***************************************************************************)
(* A calendar's next run is asked for and within its bounds; it is the     *)
(* first instant that is, unless that one was executed or is in the last   *)
(* month of the search; and it is not the run that was executed at l.      *)
(***************************************************************************)
LEMMA CalendarRun ==
  ASSUME NEW c, Lists(c), c.start \in Nat \cup {Never}, c.end \in Nat \cup {Never},
         NEW t \in Int, NEW l
  PROVE  LET run == calendarNextRun(c, t, l) A == Asked(c, t)
         IN  /\ run \in Nat \cup {Never}
             /\ run # Never => run \in A /\ (c.end = Never \/ run <= c.end)
             /\ run # Never => run > t \/ l = Never \/ secsTo(l, run) > 1
             /\ (l = Never \/ secsTo(l, Min(A)) > 1) /\ A # {} /\ ~InLastMonth(c, t, Min(A)) =>
                  run = IF c.end # Never /\ c.end < Min(A) THEN Never ELSE Min(A)
<1> DEFINE run == calendarNextRun(c, t, l)
           none == ~StaysToday(c, t, l) /\ Later(c, t) = {}
           dropped == /\ DateOf[DayTaken(c, t, l)].year = DateOf[Today(c, t)].year + 2
                      /\ DateOf[DayTaken(c, t, l)].month = Max(c.months)
           found == Found(c, t, l)
           over == c.end # Never /\ c.end < found
<1>1. run = IF none THEN Never ELSE IF dropped THEN Never ELSE IF over THEN Never ELSE found
  BY Zenon, RunFound
<1>2. ~none => /\ found \in Asked(c, t) /\ found \in Nat /\ (found \div DayTicks) = DayTaken(c, t, l)
               /\ ~StaysToday(c, t, l) => found > t
  BY Zenon, FoundIsAsked
<1>3. ~none => (dropped <=> InLastMonth(c, t, found))
  BY <1>2, Zenon DEF InLastMonth, Today, From
<1>4. Asked(c, t) # {} /\ (l = Never \/ secsTo(l, Min(Asked(c, t))) > 1)
        => ~none /\ found = Min(Asked(c, t))
  BY Zenon, FoundIsFirst
<1>5. StaysToday(c, t, l) => l = Never \/ secsTo(l, found) > 1
  BY Zenon DEF StaysToday, Found
<1> HIDE DEF run, none, dropped, found
<1>6. run \in Nat \cup {Never}
  BY <1>1, <1>2
<1>7. run # Never => run = found /\ ~none /\ ~over
  BY <1>1, Zenon
<1>8. run # Never => run \in Asked(c, t) /\ (c.end = Never \/ run <= c.end)
  <2>1. ~over /\ ~none => c.end = Never \/ found <= c.end
    BY <1>2
  <2> HIDE DEF over
  <2> QED BY <1>2, <1>7, <2>1, Zenon
<1>9. run # Never => run > t \/ l = Never \/ secsTo(l, run) > 1
  <2>1. ~none /\ ~StaysToday(c, t, l) => found > t
    BY <1>2
  <2>2. CASE StaysToday(c, t, l)
    BY <1>5, <1>7, <2>2, Zenon
  <2>3. CASE ~StaysToday(c, t, l)
    BY <1>7, <2>1, <2>3, Zenon
  <2> QED BY <2>2, <2>3
<1>10. (l = Never \/ secsTo(l, Min(Asked(c, t))) > 1) /\ Asked(c, t) # {} /\ ~InLastMonth(c, t, Min(Asked(c, t))) =>
         run = IF c.end # Never /\ c.end < Min(Asked(c, t)) THEN Never ELSE Min(Asked(c, t))
  BY <1>1, <1>3, <1>4, Zenon
<1> QED BY <1>6, <1>8, <1>9, <1>10, Zenon DEF run

(***************************************************************************)
(* A periodic next run lies after t and not before the start; unless it is *)
(* the start, it passes the end by no more than the delay.                 *)
(***************************************************************************)
LEMMA PeriodicRun ==
  ASSUME NEW d, d.period \in Nat \ {0}, d.start \in Nat, d.end \in Nat,
         NEW delay \in Nat, NEW t \in Int
  PROVE  LET run == periodicNextRun(d, delay, t)
         IN  /\ run \in Nat \cup {Never}
             /\ run # Never => run > t /\ run >= d.start /\ (run = d.start \/ run <= d.end + delay)
<1> DEFINE s == d.start  e == d.end  p == d.period
           q == (t - s) \div p
           base == s + (q + 1) * p
           run == IF e < t THEN Never ELSE IF s > t THEN s
                  ELSE IF e < base THEN Never ELSE base + delay
<1>1. periodicNextRun(d, delay, t) = run
  BY Zenon DEF periodicNextRun
<1>2. s \in Nat /\ e \in Nat /\ p \in Nat \ {0}
  OBVIOUS
<1> HIDE DEF s, e, p
<1>3. t - s \in Int
  BY <1>2
<1>4. q \in Int /\ t - s < (q + 1) * p
  BY <1>2, <1>3, Division
<1> HIDE DEF q
<1>5. (q + 1) * p \in Int
  BY <1>2, <1>4
<1> DEFINE z == (q + 1) * p
<1>6. z \in Int /\ t - s < z /\ base = s + z
  BY <1>4, <1>5
<1> HIDE DEF z, base
<1>7. base \in Int /\ base > t
  BY <1>2, <1>6
<1>8. run \in Nat \cup {Never} /\ (run # Never => run > t /\ run >= s /\ (run = s \/ run <= e + delay))
  <2>1. CASE e < t
    BY <2>1
  <2>2. CASE ~(e < t) /\ s > t
    BY <1>2, <2>2
  <2>3. CASE ~(e < t) /\ ~(s > t)
    BY <1>2, <1>7, <2>3 DEF Never
  <2> QED BY <2>1, <2>2, <2>3
<1> HIDE DEF run
<1> QED BY <1>1, <1>8, Zenon DEF s, e

-----------------------------------------------------------------------------
(***************************************************************************)
(* The two clocks.                                                         *)
(***************************************************************************)
ClockInv == clock \in Nat /\ offset \in Offsets

(* The constants have their types. *)
LEMMA Constants ==
  /\ \A o \in Offsets : o \in Int
  /\ 0 \in Offsets /\ Starts \subseteq Nat
  /\ MaxInt \in Nat \ {0} /\ MaxLate \in Nat
<1>1. /\ Offsets \subseteq {TicksPerSecond * o : o \in -10..10} /\ 0 \in Offsets
      /\ Starts \subseteq Nat /\ MaxInt \in Nat \ {0} /\ MaxLate \in Nat
  BY TimerAssumption, Zenon
<1>2. \A o \in -10..10 : TicksPerSecond * o \in Int
  BY DEF TicksPerSecond
<1> QED BY <1>1, <1>2

(* A timing is a periodic one or a calendar. *)
LEMMA Kinds ==
  ASSUME NEW t \in Timings
  PROVE  \/ /\ t.type = "periodic" /\ t.period \in Nat \ {0}
            /\ t.start \in Nat /\ t.end \in Nat /\ t.delay \in Nat
         \/ /\ t.type = "calendar" /\ Lists(t)
            /\ t.start \in Nat \cup {Never} /\ t.end \in Nat \cup {Never}
BY TimingsAssumption, Zenon DEF Lists, Hours, Minutes, Seconds

(* The local clock and the offset are numbers from the beginning. *)
LEMMA InitClock == Init => ClockInv
BY Constants DEF Init, ClockInv

(* Every step keeps them so. *)
LEMMA StepClock == ClockInv /\ [Next]_vars => ClockInv'
<1> SUFFICES ASSUME ClockInv, [Next]_vars PROVE ClockInv'
  OBVIOUS
<1> USE DEF ClockInv
<1>1. CASE Tick
  BY <1>1 DEF Tick
<1>2. ASSUME NEW t \in Timings, updateTimer(t) PROVE ClockInv'
  BY <1>2 DEF updateTimer
<1>3. CASE stop \/ onTimeout \/ timeout
  BY <1>3 DEF stop, onTimeout, timeout
<1>4. ASSUME NEW o \in Offsets, readResponse(o) PROVE ClockInv'
  BY <1>4 DEF readResponse
<1>5. CASE UNCHANGED vars
  BY <1>5 DEF vars
<1> QED BY <1>1, <1>2, <1>3, <1>4, <1>5 DEF Next

(* The clocks stay numbers in every behaviour. *)
LEMMA ClockAlways == Spec => []ClockInv
BY InitClock, StepClock, PTL DEF Spec

(* The present, by the network's clock. *)
LEMMA Present ==
  ASSUME ClockInv
  PROVE  /\ currentDateTime \in Int
         /\ (Offsets \subseteq Nat => currentDateTime >= clock /\ currentDateTime \in Nat)
<1>1. clock \in Nat /\ offset \in Int /\ offset \in Offsets
  BY Constants DEF ClockInv
<1> QED BY <1>1 DEF currentDateTime

(***************************************************************************)
(* A calendar's next run is an instant its lists ask for, not over, within *)
(* its bounds, and the first of them that was not executed, the last month *)
(* of the search apart (CalendarTiming::nextRun, findTime): for every      *)
(* calendar, all lists and any instants.                                   *)
(***************************************************************************)
THEOREM CalendarFirst == Spec => []CalendarRight
<1>1. ClockInv => CalendarRight
  <2> SUFFICES ASSUME ClockInv, NEW c \in {t \in Timings : t.type = "calendar"}, NEW l \in {last, Never}
               PROVE  LET run   == calendarNextRun(c, currentDateTime, l)
                          asked == Asked(c, currentDateTime)
                          first == Min(asked)
                      IN  /\ run # Never => run \in asked /\ (c.end = Never \/ run <= c.end)
                          /\ (l = Never \/ secsTo(l, first) > 1) /\ asked # {}
                               /\ ~InLastMonth(c, currentDateTime, first) =>
                               run = IF c.end # Never /\ c.end < first THEN Never ELSE first
    BY Zenon DEF CalendarRight
  <2>1. c.type = "calendar" /\ c \in Timings
    OBVIOUS
  <2>2. c.type # "periodic"
    BY <2>1
  <2>3. Lists(c) /\ c.start \in Nat \cup {Never} /\ c.end \in Nat \cup {Never}
    BY <2>1, <2>2, Kinds, Zenon
  <2>4. currentDateTime \in Int
    BY Present
  <2> QED BY <2>3, <2>4, CalendarRun, Zenon
<1> QED BY <1>1, ClockAlways, PTL

(***************************************************************************)
(* A periodic next run lies after the present, not before the start, and   *)
(* passes the end by the random delay at most (PeriodicTiming::nextRun),   *)
(* whatever the offset; the timings must not end before they start, or the *)
(* run is the start itself.                                                *)
(***************************************************************************)
THEOREM PeriodicWithinBounds ==
  ASSUME \A p \in Timings : p.type = "periodic" => p.start <= p.end
  PROVE  Spec => []PeriodicBounded
<1>1. ClockInv => PeriodicBounded
  <2> SUFFICES ASSUME ClockInv, NEW p \in Timings, p.type = "periodic",
                      periodicNextRun(p, p.delay, currentDateTime) # Never
               PROVE  /\ periodicNextRun(p, p.delay, currentDateTime) > currentDateTime
                      /\ periodicNextRun(p, p.delay, currentDateTime) >= p.start
                      /\ periodicNextRun(p, p.delay, currentDateTime) <= p.end + p.delay
    BY Zenon DEF PeriodicBounded
  <2> DEFINE run == periodicNextRun(p, p.delay, currentDateTime)
  <2>1. p.type # "calendar"
    OBVIOUS
  <2>2. p.period \in Nat \ {0} /\ p.start \in Nat /\ p.end \in Nat /\ p.delay \in Nat
    BY <2>1, Kinds, Zenon
  <2>3. currentDateTime \in Int
    BY Present
  <2>4. /\ run \in Nat \cup {Never} /\ run # Never
        /\ run > currentDateTime /\ run >= p.start /\ (run = p.start \/ run <= p.end + p.delay)
    BY <2>2, <2>3, PeriodicRun, Zenon
  <2>5. p.start <= p.end
    OBVIOUS
  <2> HIDE DEF run
  <2>6. run <= p.end + p.delay
    BY <2>2, <2>4, <2>5
  <2> QED BY <2>4, <2>6 DEF run
<1> QED BY <1>1, ClockAlways, PTL

-----------------------------------------------------------------------------
(***************************************************************************)
(* The Timer of a controller.  WaitsInParts is not inductive: the parts    *)
(* that are over must be counted.  k of them make the Timer late by k      *)
(* delays at most, and k + 1 of them and the rest are the whole interval.  *)
(***************************************************************************)
TimerType ==
  /\ timing \in Timings /\ qtimer \in Nat \cup {Never} /\ rest \in Nat
  /\ wait.target \in Int /\ wait.left \in Int

PartsOver(k) ==
  /\ qtimer + rest >= wait.target
  /\ qtimer + rest <= wait.target + k * MaxLate
  /\ clock <= qtimer + MaxLate
  /\ k * MaxInt + rest <= wait.left
  /\ rest > 0 => (k + 1) * MaxInt + rest = wait.left

TimerInv == ClockInv /\ TimerType /\ (qtimer # Never => \E k \in Nat : PartsOver(k))

(* The next run of a timing of the Timer, and the time left to it. *)
LEMMA TimerRun ==
  ASSUME ClockInv, NEW t \in Timings, NEW l
  PROVE  /\ nextRun(t, l) \in Nat \cup {Never} /\ timeLeft(nextRun(t, l)) \in Int
         /\ timeLeft(nextRun(t, l)) # 0 => timeLeft(nextRun(t, l)) = nextRun(t, l) - clock
         /\ Offsets \subseteq Nat /\ t.type = "periodic" => timeLeft(nextRun(t, l)) >= 0
<1> DEFINE run == nextRun(t, l)
<1>1. clock \in Nat /\ currentDateTime \in Int
  BY Present DEF ClockInv
<1>2. CASE t.type = "calendar"
  <2>1. t.type # "periodic"
    BY <1>2
  <2>2. Lists(t) /\ t.start \in Nat \cup {Never} /\ t.end \in Nat \cup {Never}
    BY <2>1, Kinds, Zenon
  <2>3. run = calendarNextRun(t, currentDateTime, l)
    BY <1>2, Zenon DEF nextRun
  <2>4. calendarNextRun(t, currentDateTime, l) \in Nat \cup {Never}
    BY <1>1, <2>2, CalendarRun, Zenon
  <2> HIDE DEF run
  <2>5. run \in Nat \cup {Never}
    BY <2>3, <2>4, Zenon
  <2>6. timeLeft(run) \in Int /\ (timeLeft(run) # 0 => timeLeft(run) = run - clock)
    BY <1>1, <2>5 DEF timeLeft
  <2> QED BY <2>1, <2>5, <2>6 DEF run
<1>3. CASE t.type # "calendar"
  <2>1. t.period \in Nat \ {0} /\ t.start \in Nat /\ t.end \in Nat /\ t.delay \in Nat
    BY <1>3, Kinds, Zenon
  <2>2. run = periodicNextRun(t, t.delay, currentDateTime)
    BY <1>3, Zenon DEF nextRun
  <2> DEFINE next == periodicNextRun(t, t.delay, currentDateTime)
  <2>3. next \in Nat \cup {Never} /\ (next # Never => next > currentDateTime)
    BY <1>1, <2>1, PeriodicRun, Zenon
  <2> HIDE DEF run, next
  <2>4. run \in Nat \cup {Never} /\ (run # Never => run > currentDateTime)
    BY <2>2, <2>3, Zenon DEF next
  <2>5. timeLeft(run) \in Int /\ (timeLeft(run) # 0 => timeLeft(run) = run - clock)
    BY <1>1, <2>4 DEF timeLeft
  <2>6. Offsets \subseteq Nat => timeLeft(run) >= 0
    <3>1. Offsets \subseteq Nat => currentDateTime >= clock
      BY Present
    <3> QED BY <1>1, <2>4, <3>1 DEF timeLeft
  <2> QED BY <2>4, <2>5, <2>6 DEF run
<1> QED BY <1>2, <1>3

(* Private::start for an interval that is not negative: a first part of it, and the rest. *)
LEMMA FirstPart ==
  ASSUME NEW ms \in Int, privateStart(ms), clock \in Nat
  PROVE  /\ rest' \in Nat /\ qtimer' \in Nat \cup {Never}
         /\ ms < 0 => qtimer' = Never
         /\ ms >= 0 => /\ qtimer' \in Nat /\ qtimer' >= clock /\ qtimer' + rest' = clock + ms
                       /\ rest' > 0 => MaxInt + rest' = ms
                       /\ rest' <= ms
<1>1. MaxInt \in Nat
  BY Constants
<1>2. CASE ms > MaxInt
  <2>1. rest' = ms - MaxInt /\ qtimer' = clock + MaxInt
    BY <1>2 DEF privateStart
  <2> QED BY <1>1, <1>2, <2>1
<1>3. CASE ~(ms > MaxInt)
  <2>1. rest' = 0 /\ qtimer' = IF ms < 0 THEN Never ELSE clock + ms
    BY <1>3 DEF privateStart
  <2>2. ms < 0 => qtimer' = Never
    BY <2>1
  <2>3. ms >= 0 => qtimer' = clock + ms
    BY <2>1
  <2> QED BY <2>1, <2>2, <2>3
<1> QED BY <1>2, <1>3

(* Timer::start: the whole interval is still to come, or all stays as it was. *)
LEMMA TimerStarts ==
  ASSUME TimerInv, NEW t \in Timings, NEW running \in {qtimer, Never},
         NEW again, start(t, running, again),
         timing' \in Timings, UNCHANGED <<clock, offset>>
  PROVE  TimerInv'
<1> DEFINE run == nextRun(t, Never)  ms == timeLeft(nextRun(t, Never))
<1>1. clock \in Nat /\ ClockInv /\ ClockInv' /\ TimerType /\ clock' = clock
  BY DEF TimerInv, ClockInv
<1>2. run \in Nat \cup {Never} /\ ms \in Int /\ (ms # 0 => ms = run - clock)
  BY <1>1, TimerRun
<1>3. /\ ms = 0 => qtimer' = running /\ UNCHANGED <<rest, wait>>
      /\ ms # 0 => wait' = [target |-> run, left |-> ms, again |-> again] /\ privateStart(ms)
  BY Zenon DEF start
<1> HIDE DEF run, ms
<1>4. CASE ms = 0
  <2>1. UNCHANGED <<rest, wait>> /\ (qtimer' = qtimer \/ qtimer' = Never)
    BY <1>3, <1>4
  <2>2. TimerType'
    BY <1>1, <2>1 DEF TimerType
  <2>3. CASE qtimer' = Never
    BY <1>1, <2>2, <2>3, Zenon DEF TimerInv
  <2>4. CASE qtimer' = qtimer
    <3>1. \A k \in Nat : PartsOver(k) => PartsOver(k)'
      BY <1>1, <2>1, <2>4 DEF PartsOver
    <3> QED BY <1>1, <2>2, <2>4, <3>1, Zenon DEF TimerInv
  <2> QED BY <2>1, <2>3, <2>4
<1>5. CASE ms # 0
  <2>1. wait'.target = run /\ wait'.left = ms /\ privateStart(ms)
    BY <1>3, <1>5
  <2>2. /\ rest' \in Nat /\ qtimer' \in Nat \cup {Never} /\ (ms < 0 => qtimer' = Never)
        /\ ms >= 0 => /\ qtimer' \in Nat /\ qtimer' >= clock /\ qtimer' + rest' = clock + ms
                      /\ rest' > 0 => MaxInt + rest' = ms
                      /\ rest' <= ms
    BY <1>1, <1>2, <2>1, FirstPart
  <2>3. TimerType'
    BY <1>2, <2>1, <2>2 DEF TimerType
  <2>4. ASSUME ms >= 0 PROVE PartsOver(0)'
    <3>1. /\ qtimer' \in Nat /\ qtimer' >= clock /\ qtimer' + rest' = clock + ms
          /\ rest' > 0 => MaxInt + rest' = ms
          /\ rest' <= ms
      BY <2>2, <2>4
    <3>2. clock + ms = run /\ run \in Int
      BY <1>1, <1>2, <1>5
    <3>3. MaxInt \in Nat /\ MaxLate \in Nat
      BY Constants
    <3>4. 0 * MaxLate = 0 /\ 0 * MaxInt = 0 /\ (0 + 1) * MaxInt = MaxInt
      BY <3>3
    <3>5. rest' \in Nat /\ wait'.target = run /\ wait'.left = ms
      BY <2>1, <2>2
    <3>6. qtimer' + rest' >= run /\ qtimer' + rest' <= run + 0 * MaxLate
      BY <3>1, <3>2, <3>4
    <3>7. clock <= qtimer' + MaxLate
      <4>1. clock \in Nat /\ qtimer' \in Nat /\ qtimer' >= clock /\ MaxLate \in Nat
        BY <1>1, <3>1, <3>3, Zenon
      <4>2. \A a, b, c \in Nat : a >= b => b <= a + c
        OBVIOUS
      <4> QED BY <4>1, <4>2, Zenon
    <3>8. 0 * MaxInt + rest' <= ms /\ (rest' > 0 => (0 + 1) * MaxInt + rest' = ms)
      BY <3>1, <3>4, <3>5
    <3> QED BY <1>1, <3>5, <3>6, <3>7, <3>8, Zenon DEF PartsOver
  <2>5. ms >= 0 \/ qtimer' = Never
    BY <1>2, <2>2
  <2>6. qtimer' # Never => (\E k \in Nat : PartsOver(k))'
    <3> SUFFICES ASSUME qtimer' # Never PROVE \E k \in Nat : PartsOver(k)'
      OBVIOUS
    <3>1. PartsOver(0)'
      BY <2>4, <2>5
    <3> QED BY <3>1
  <2> QED BY <1>1, <2>3, <2>6, Zenon DEF TimerInv
<1> QED BY <1>4, <1>5

(* A part more: the product of one factor more. *)
LEMMA OneMore ==
  ASSUME NEW k \in Nat, NEW p \in Nat
  PROVE  k * p \in Nat /\ (k + 1) * p = k * p + p /\ ((k + 1) + 1) * p = (k + 1) * p + p
OBVIOUS

(* Private::onTimeout with a rest: the next part starts, late by its own delay only. *)
LEMMA NextPart ==
  ASSUME TimerInv, qtimer # Never, clock >= qtimer, rest > 0, privateStart(rest),
         UNCHANGED <<clock, offset, timing, wait>>
  PROVE  TimerInv'
<1>1. clock \in Nat /\ ClockInv /\ ClockInv' /\ TimerType /\ clock' = clock
  BY DEF TimerInv, ClockInv
<1>2. rest \in Nat /\ qtimer \in Nat
  BY <1>1 DEF TimerType
<1>3. /\ rest' \in Nat /\ qtimer' \in Nat /\ qtimer' >= clock /\ qtimer' + rest' = clock + rest
      /\ rest' > 0 => MaxInt + rest' = rest
      /\ rest' <= rest
  BY <1>1, <1>2, FirstPart
<1>4. TimerType'
  BY <1>1, <1>3 DEF TimerType
<1>5. PICK k \in Nat : PartsOver(k)
  BY DEF TimerInv
<1>6. MaxInt \in Nat /\ MaxLate \in Nat
  BY Constants
<1> DEFINE a == k * MaxLate  b == k * MaxInt  e == (k + 1) * MaxInt  g == ((k + 1) + 1) * MaxInt
           h == (k + 1) * MaxLate  goal == wait.target  left == wait.left
<1>7. a \in Nat /\ b \in Nat /\ e = b + MaxInt /\ g = e + MaxInt /\ h = a + MaxLate
  BY <1>6, OneMore
<1>8. /\ qtimer + rest >= wait.target /\ qtimer + rest <= wait.target + a
      /\ clock <= qtimer + MaxLate /\ e + rest = wait.left
      /\ wait.target \in Int /\ wait.left \in Int /\ wait' = wait
  BY <1>1, <1>5 DEF PartsOver, TimerType
<1>9. /\ goal \in Int /\ left \in Int /\ qtimer + rest >= goal /\ qtimer + rest <= goal + a
      /\ clock <= qtimer + MaxLate /\ e + rest = left /\ e \in Nat
  BY <1>6, <1>7, <1>8
<1> HIDE DEF a, b, e, g, h, goal, left
<1>10. qtimer' + rest' >= goal
  <2>1. \A c, q, r, x, y \in Nat, w \in Int : c >= q /\ x + y = c + r /\ q + r >= w => x + y >= w
    OBVIOUS
  <2> QED BY <1>1, <1>2, <1>3, <1>9, <2>1, Zenon
<1>11. qtimer' + rest' <= goal + h /\ clock <= qtimer' + MaxLate
  <2>1. \A c, q, r, x, y, z, l \in Nat, w \in Int :
          c <= q + l /\ x + y = c + r /\ q + r <= w + z => x + y <= w + (z + l)
    OBVIOUS
  <2>2. \A c, x, l \in Nat : x >= c => c <= x + l
    OBVIOUS
  <2>3. h = a + MaxLate /\ a \in Nat
    BY <1>7, Zenon
  <2>4. qtimer' + rest' <= goal + (a + MaxLate)
    BY <1>1, <1>2, <1>3, <1>6, <1>9, <2>1, <2>3, Zenon
  <2>5. clock <= qtimer' + MaxLate
    BY <1>1, <1>3, <1>6, <2>2, Zenon
  <2> QED BY <2>3, <2>4, <2>5, Zenon
<1>12. e + rest' <= left /\ (rest' > 0 => g + rest' = left)
  <2>1. \A x, r, y \in Nat, w \in Int : x + r = w /\ y <= r => x + y <= w
    OBVIOUS
  <2>2. \A x \in Nat : \A z \in Nat : \A y \in Nat : (x + z) + y = x + (z + y)
    OBVIOUS
  <2>3. g = e + MaxInt
    BY <1>7, Zenon
  <2>4. e + rest' <= left
    <3>1. e \in Nat /\ left \in Int /\ e + rest = left
      BY <1>9, Zenon
    <3>2. rest \in Nat /\ rest' \in Nat /\ rest' <= rest
      BY <1>2, <1>3, Zenon
    <3> QED BY <2>1, <3>1, <3>2, Zenon
  <2>5. ASSUME rest' > 0 PROVE (e + MaxInt) + rest' = left
    <3>1. MaxInt + rest' = rest
      BY <1>3, <2>5, Zenon
    <3>2. e \in Nat /\ MaxInt \in Nat /\ rest' \in Nat
      BY <1>3, <1>6, <1>9, Zenon
    <3>3. \A z \in Nat : \A y \in Nat : (e + z) + y = e + (z + y)
      BY <2>2, <3>2, Zenon
    <3>4. \A y \in Nat : (e + MaxInt) + y = e + (MaxInt + y)
      BY <3>2, <3>3, Zenon
    <3>5. (e + MaxInt) + rest' = e + (MaxInt + rest')
      BY <3>2, <3>4, Zenon
    <3> QED BY <1>9, <3>1, <3>5, Zenon
  <2> QED BY <2>3, <2>4, <2>5, Zenon
<1>13. PartsOver(k + 1)'
  BY <1>1, <1>8, <1>10, <1>11, <1>12, Zenon DEF PartsOver, e, g, h, goal, left
<1>14. (\E n \in Nat : PartsOver(n))'
  <2>1. k + 1 \in Nat
    OBVIOUS
  <2> QED BY <1>13, <2>1
<1> QED BY <1>1, <1>4, <1>14, Zenon DEF TimerInv

(* A step that leaves the Timer and the clock alone keeps its invariant. *)
LEMMA TimerLeft ==
  ASSUME TimerInv, ClockInv', UNCHANGED <<clock, timing, qtimer, rest, wait>>
  PROVE  TimerInv'
<1>1. TimerType'
  BY DEF TimerInv, TimerType
<1>2. \A k \in Nat : PartsOver(k) => PartsOver(k)'
  BY DEF PartsOver
<1> QED BY <1>1, <1>2, Zenon DEF TimerInv

(* Every step keeps the Timer's invariant. *)
LEMMA StepTimer == TimerInv /\ [Next]_vars => TimerInv'
<1> SUFFICES ASSUME TimerInv, [Next]_vars PROVE TimerInv'
  OBVIOUS
<1>1. ClockInv /\ ClockInv' /\ TimerType
  BY StepClock DEF TimerInv
<1>2. CASE Tick
  <2>1. clock' = clock + 1 /\ UNCHANGED timerVars
    BY <1>2, Zenon DEF Tick
  <2>2. TimerType'
    BY <1>1, <2>1 DEF TimerType, timerVars
  <2>3. qtimer # Never => clock < qtimer + MaxLate
    <3>1. \A x \in {qtimer, due} \ {Never} : clock < x + MaxLate
      BY <1>2, Zenon DEF Tick
    <3> QED BY <3>1
  <2>4. ASSUME NEW k \in Nat, PartsOver(k), qtimer # Never PROVE PartsOver(k)'
    <3>1. UNCHANGED <<qtimer, rest, wait>>
      BY <2>1, Zenon DEF timerVars
    <3>2. clock + 1 <= qtimer + MaxLate
      <4>1. clock \in Nat /\ qtimer \in Nat /\ MaxLate \in Nat
        BY <1>1, <2>4, Constants DEF ClockInv, TimerType
      <4> QED BY <2>3, <2>4, <4>1
    <3>3. clock' <= qtimer' + MaxLate
      BY <2>1, <3>1, <3>2
    <3> QED BY <2>4, <3>1, <3>3 DEF PartsOver
  <2> QED BY <1>1, <2>1, <2>2, <2>4, Zenon DEF TimerInv, timerVars
<1>3. ASSUME NEW t \in Timings, updateTimer(t) PROVE TimerInv'
  <2>1. start(t, qtimer, FALSE) /\ timing' \in Timings /\ UNCHANGED <<clock, offset>>
    BY <1>3 DEF updateTimer
  <2>2. qtimer \in {qtimer, Never}
    OBVIOUS
  <2> QED BY <2>1, <2>2, TimerStarts
<1>4. CASE stop
  <2>1. qtimer' = Never /\ UNCHANGED <<clock, offset, timing, rest, wait>>
    BY <1>4, Zenon DEF stop
  <2>2. TimerType'
    BY <1>1, <2>1 DEF TimerType
  <2> QED BY <1>1, <2>1, <2>2, Zenon DEF TimerInv
<1>5. CASE onTimeout
  <2>1. qtimer # Never /\ clock >= qtimer /\ UNCHANGED <<clock, offset, timing>>
    BY <1>5, Zenon DEF onTimeout
  <2>2. CASE rest > 0
    <3>1. privateStart(rest) /\ UNCHANGED wait
      BY <1>5, <2>2, Zenon DEF onTimeout
    <3> QED BY <2>1, <2>2, <3>1, NextPart
  <2>3. CASE ~(rest > 0) /\ active
    <3>1. start(timing, Never, TRUE)
      BY <1>5, <2>3, Zenon DEF onTimeout
    <3>2. timing \in Timings /\ timing' \in Timings /\ Never \in {qtimer, Never}
      BY <1>1, <2>1 DEF TimerType
    <3> QED BY <2>1, <3>1, <3>2, TimerStarts
  <2>4. CASE ~(rest > 0) /\ ~active
    <3>1. qtimer' = Never /\ UNCHANGED <<rest, wait>>
      BY <1>5, <2>4, Zenon DEF onTimeout
    <3>2. TimerType'
      BY <1>1, <2>1, <3>1 DEF TimerType
    <3> QED BY <1>1, <3>1, <3>2, Zenon DEF TimerInv
  <2> QED BY <2>2, <2>3, <2>4
<1>6. CASE timeout
  <2>1. UNCHANGED <<clock, timing, qtimer, rest, wait>>
    BY <1>6, Zenon DEF timeout, timerVars
  <2> QED BY <1>1, <2>1, TimerLeft
<1>7. ASSUME NEW o \in Offsets, readResponse(o) PROVE TimerInv'
  <2>1. UNCHANGED <<clock, timing, qtimer, rest, wait>>
    BY <1>7, Zenon DEF readResponse, timerVars
  <2> QED BY <1>1, <2>1, TimerLeft
<1>8. CASE UNCHANGED vars
  <2>1. UNCHANGED <<clock, timing, qtimer, rest, wait>>
    BY <1>8, Zenon DEF vars, timerVars
  <2> QED BY <1>1, <2>1, TimerLeft
<1> QED BY <1>2, <1>3, <1>4, <1>5, <1>6, <1>7, <1>8, Zenon DEF Next

(* Before the Timer is started nothing is waited for. *)
LEMMA InitTimer == Init => TimerInv
<1> SUFFICES ASSUME Init PROVE TimerInv
  OBVIOUS
<1>1. ClockInv
  BY InitClock
<1>2. qtimer = Never /\ rest = 0 /\ wait = [target |-> Never, left |-> 0, again |-> FALSE] /\ timing \in Timings
  BY Zenon DEF Init
<1>3. TimerType
  BY <1>2 DEF TimerType, Never
<1> QED BY <1>1, <1>2, <1>3, Zenon DEF TimerInv

(* The number of parts that are over is at most that of the whole intervals of an int. *)
LEMMA PartsBound ==
  ASSUME NEW k \in Nat, NEW left \in Int, NEW r \in Nat, k * MaxInt + r <= left
  PROVE  k * MaxLate <= MaxLate * (left \div MaxInt) /\ MaxLate * (left \div MaxInt) \in Int
         /\ k * MaxLate \in Int
<1> DEFINE q == left \div MaxInt
<1>1. MaxInt \in Nat \ {0} /\ MaxLate \in Nat
  BY Constants
<1>2. q \in Int /\ left < (q + 1) * MaxInt
  BY <1>1, Division
<1> HIDE DEF q
<1>3. ~(q < k)
  <2> SUFFICES ASSUME q < k PROVE FALSE
    OBVIOUS
  <2>1. q + 1 <= k /\ q + 1 \in Int
    BY <1>2
  <2>2. (q + 1) * MaxInt <= k * MaxInt /\ (q + 1) * MaxInt \in Int /\ k * MaxInt \in Int
    BY <1>1, <2>1, Multiples
  <2> QED BY <1>2, <2>2
<1>4. k <= q
  BY <1>2, <1>3
<1>5. k * MaxLate <= q * MaxLate /\ k * MaxLate \in Int /\ q * MaxLate \in Int
  BY <1>1, <1>2, <1>4, Multiples
<1>6. q * MaxLate = MaxLate * q
  BY <1>1, <1>2
<1> QED BY <1>5, <1>6 DEF q

(***************************************************************************)
(* A Timer does not fire before the instant it was started for, and each   *)
(* part of a long interval makes it later by no more than its own delay    *)
(* (Timer::Private::start and onTimeout): for any range of an int, any     *)
(* delay of the event loop and any offsets.                                *)
(***************************************************************************)
THEOREM PartsAddUp == Spec => []WaitsInParts
<1>1. TimerInv => WaitsInParts
  <2> SUFFICES ASSUME TimerInv, qtimer # Never
               PROVE  /\ qtimer + rest >= wait.target
                      /\ qtimer + rest <= wait.target + MaxLate * (wait.left \div MaxInt)
    BY Zenon DEF WaitsInParts
  <2>1. PICK k \in Nat : PartsOver(k)
    BY DEF TimerInv
  <2>2. qtimer \in Nat /\ rest \in Nat /\ wait.target \in Int /\ wait.left \in Int
    BY DEF TimerInv, TimerType
  <2> DEFINE a == k * MaxLate  b == MaxLate * (wait.left \div MaxInt)
  <2>3. /\ qtimer + rest >= wait.target /\ qtimer + rest <= wait.target + a
        /\ k * MaxInt + rest <= wait.left
    BY <2>1 DEF PartsOver
  <2>4. a <= b /\ a \in Int /\ b \in Int
    BY <2>2, <2>3, PartsBound
  <2> HIDE DEF a, b
  <2>5. qtimer + rest <= wait.target + b
    BY <2>2, <2>3, <2>4
  <2> QED BY <2>3, <2>5 DEF b
<1> QED BY <1>1, InitTimer, StepTimer, PTL DEF Spec

-----------------------------------------------------------------------------
(* Starting with a periodic timing: active only with a QTimer that runs. *)
LEMMA PeriodicStarts ==
  ASSUME Offsets \subseteq Nat, TimerInv, NEW t \in Timings, t.type = "periodic",
         NEW running, NEW again, start(t, running, again)
  PROVE  active' => qtimer' # Never
<1> DEFINE ms == timeLeft(nextRun(t, Never))
<1>1. ClockInv /\ clock \in Nat
  BY DEF TimerInv, ClockInv
<1>2. ms \in Int /\ ms >= 0
  BY <1>1, TimerRun
<1>3. active' => ms # 0
  BY Zenon DEF start
<1>4. ms # 0 => privateStart(ms)
  BY Zenon DEF start
<1> HIDE DEF ms
<1>5. privateStart(ms) => qtimer' \in Nat
  BY <1>1, <1>2, FirstPart
<1>6. \A x \in Nat : x # Never
  BY DEF Never
<1> QED BY <1>3, <1>4, <1>5, <1>6, Zenon

(* A step keeps an active Timer with a periodic timing running. *)
LEMMA StepAlive ==
  ASSUME Offsets \subseteq Nat, TimerInv, PeriodicAlive, [Next]_vars
  PROVE  PeriodicAlive'
<1>1. ASSUME UNCHANGED <<timing, active, qtimer>> PROVE PeriodicAlive'
  BY <1>1, Zenon DEF PeriodicAlive
<1>2. CASE Tick
  BY <1>1, <1>2, Zenon DEF Tick, timerVars
<1>3. ASSUME NEW t \in Timings, updateTimer(t) PROVE PeriodicAlive'
  <2>1. start(t, qtimer, FALSE) /\ timing' = t
    BY <1>3, Zenon DEF updateTimer
  <2>2. t.type = "periodic" => (active' => qtimer' # Never)
    BY <2>1, PeriodicStarts
  <2> QED BY <2>1, <2>2, Zenon DEF PeriodicAlive
<1>4. CASE stop
  <2>1. active' = FALSE
    BY <1>4, Zenon DEF stop
  <2> QED BY <2>1, Zenon DEF PeriodicAlive
<1>5. CASE onTimeout
  <2>1. qtimer # Never /\ timing' = timing /\ timing \in Timings /\ clock \in Nat /\ rest \in Nat
    BY <1>5 DEF onTimeout, TimerInv, TimerType, ClockInv
  <2>2. CASE rest > 0
    <3>1. privateStart(rest)
      BY <1>5, <2>2, Zenon DEF onTimeout
    <3>2. qtimer' \in Nat
      BY <2>1, <2>2, <3>1, FirstPart
    <3>3. \A x \in Nat : x # Never
      BY DEF Never
    <3> QED BY <3>2, <3>3, Zenon DEF PeriodicAlive
  <2>3. CASE ~(rest > 0) /\ active
    <3>1. start(timing, Never, TRUE)
      BY <1>5, <2>3, Zenon DEF onTimeout
    <3>2. timing.type = "periodic" => (active' => qtimer' # Never)
      BY <2>1, <3>1, PeriodicStarts
    <3> QED BY <2>1, <3>2, Zenon DEF PeriodicAlive
  <2>4. CASE ~(rest > 0) /\ ~active
    <3>1. active' = active
      BY <1>5, <2>4, Zenon DEF onTimeout
    <3> QED BY <2>4, <3>1, Zenon DEF PeriodicAlive
  <2> QED BY <2>2, <2>3, <2>4
<1>6. CASE timeout
  BY <1>1, <1>6, Zenon DEF timeout, timerVars
<1>7. ASSUME NEW o \in Offsets, readResponse(o) PROVE PeriodicAlive'
  BY <1>1, <1>7, Zenon DEF readResponse, timerVars
<1>8. CASE UNCHANGED vars
  BY <1>1, <1>8, Zenon DEF vars, timerVars
<1> QED BY <1>2, <1>3, <1>4, <1>5, <1>6, <1>7, <1>8, Zenon DEF Next

(***************************************************************************)
(* As long as the local clock is not ahead of the network's, a Timer with  *)
(* a periodic timing that is active has its QTimer running: it has started *)
(* itself again (Timer::Private::onTimeout).  Without the hypothesis the   *)
(* next run may be over by the local clock, and a QTimer does not start    *)
(* with a negative interval.                                               *)
(***************************************************************************)
THEOREM PeriodicStaysAlive ==
  ASSUME Offsets \subseteq Nat
  PROVE  Spec => []PeriodicAlive
<1>1. Init => PeriodicAlive
  BY Zenon DEF Init, PeriodicAlive
<1>2. TimerInv /\ PeriodicAlive /\ [Next]_vars => PeriodicAlive'
  BY StepAlive
<1> QED BY <1>1, <1>2, InitTimer, StepTimer, PTL DEF Spec

-----------------------------------------------------------------------------
(***************************************************************************)
(* The test of the scheduler.  NotTwice is not inductive: the runs that    *)
(* were executed must be over by the local clock and not after the last    *)
(* execution, and all before the one that is waited for.                   *)
(***************************************************************************)
TestType ==
  /\ target \in Nat \cup {Never} /\ due \in Nat \cup {Never} /\ last \in Nat \cup {Never}
  /\ done \in SUBSET Nat

RunsInOrder ==
  /\ due # Never => target # Never /\ target <= due
  /\ \A x \in done : /\ x <= clock /\ last # Never /\ x <= last
                     /\ target # Never => x < target

TestInv == test \in Timings /\ (test.type = "calendar" => TestType /\ RunsInOrder)

(* A run more than a second after l lies after it. *)
LEMMA SecondsAfter ==
  ASSUME NEW l \in Int, NEW run \in Int, secsTo(l, run) > 1
  PROVE  l < run
<1>1. CASE run > l
  BY <1>1
<1>2. CASE run = l
  <2>1. secsTo(l, run) = 0
    BY <1>2 DEF secsTo, TicksPerSecond
  <2> QED BY <2>1
<1>3. CASE run < l
  <2>1. secsTo(l, run) = -((l - run) \div 2)
    BY <1>3 DEF secsTo, TicksPerSecond
  <2>2. ((l - run) \div 2) >= 0 /\ ((l - run) \div 2) \in Int
    BY <1>3
  <2>3. -((l - run) \div 2) <= 0
    BY <2>2
  <2> QED BY <2>1, <2>3
<1> QED BY <1>1, <1>2, <1>3

(* updateTimer of a calendar: the run it waits for is none of those before the present and l. *)
LEMMA WaitsForNext ==
  ASSUME ClockInv, test \in Timings, test.type = "calendar", NEW l \in Int, waitFor(l)
  PROVE  /\ target' \in Nat \cup {Never} /\ due' \in Nat \cup {Never}
         /\ due' # Never => target' # Never /\ target' <= due'
         /\ target' # Never => target' > currentDateTime \/ l = Never \/ l < target'
<1> DEFINE run == calendarNextRun(test, currentDateTime, l)
<1>1. clock \in Nat /\ currentDateTime \in Int
  BY Present DEF ClockInv
<1>2. test.type # "periodic"
  OBVIOUS
<1>3. Lists(test) /\ test.start \in Nat \cup {Never} /\ test.end \in Nat \cup {Never}
  BY <1>2, Kinds, Zenon
<1>4. /\ run \in Nat \cup {Never}
      /\ run # Never => run > currentDateTime \/ l = Never \/ secsTo(l, run) > 1
  BY <1>1, <1>3, CalendarRun, Zenon
<1>5. target' = run /\ due' = IF run = Never THEN Never ELSE IF run < clock THEN clock ELSE run
  BY Zenon DEF waitFor, nextRun
<1> HIDE DEF run
<1>6. run # Never /\ secsTo(l, run) > 1 => l < run
  BY <1>4, SecondsAfter
<1>7. due' \in Nat \cup {Never} /\ (due' # Never => run # Never /\ run <= due')
  <2>1. CASE run = Never
    BY <1>5, <2>1
  <2>2. CASE run # Never /\ run < clock
    <3>1. due' = clock
      BY <1>5, <2>2, Zenon
    <3> QED BY <1>1, <1>4, <2>2, <3>1
  <2>3. CASE run # Never /\ ~(run < clock)
    <3>1. due' = run
      BY <1>5, <2>3, Zenon
    <3> QED BY <1>1, <1>4, <2>3, <3>1
  <2> QED BY <2>1, <2>2, <2>3
<1> QED BY <1>4, <1>5, <1>6, <1>7

(* A step that leaves the test alone keeps its invariant, as time only passes. *)
LEMMA TestLeft ==
  ASSUME ClockInv, TestInv, clock' \in Nat, clock' >= clock, UNCHANGED testVars
  PROVE  TestInv'
<1>1. clock \in Nat /\ UNCHANGED <<test, last, due, target, done>>
  BY Zenon DEF testVars, ClockInv
<1>2. TestType => TestType'
  BY <1>1, Zenon DEF TestType
<1>3. ASSUME TestType, RunsInOrder PROVE RunsInOrder'
  <2>1. \A x \in done : x <= clock'
    <3> SUFFICES ASSUME NEW x \in done PROVE x <= clock'
      OBVIOUS
    <3>1. x \in Nat /\ x <= clock
      BY <1>3 DEF TestType, RunsInOrder
    <3> QED BY <1>1, <3>1
  <2> QED BY <1>1, <1>3, <2>1, Zenon DEF RunsInOrder
<1> QED BY <1>1, <1>2, <1>3, Zenon DEF TestInv

(* Scheduler::Private::timeout keeps the runs in order. *)
LEMMA TestExecutes ==
  ASSUME Offsets \subseteq Nat, ClockInv, TestInv, test.type = "calendar", timeout
  PROVE  TestType' /\ RunsInOrder'
<1> DEFINE now == currentDateTime
<1>1. clock \in Nat /\ now \in Nat /\ now >= clock
  BY Present DEF ClockInv
<1>2. /\ target \in Nat \cup {Never} /\ due \in Nat \cup {Never} /\ last \in Nat \cup {Never}
      /\ done \in SUBSET Nat /\ test \in Timings /\ RunsInOrder
  BY DEF TestInv, TestType
<1>3. due # Never /\ clock >= due /\ clock' = clock
  BY Zenon DEF timeout
<1>4. target \in Nat /\ target <= clock
  <2>1. target # Never /\ target <= due
    BY <1>2, <1>3 DEF RunsInOrder
  <2>2. target \in Nat /\ due \in Nat
    BY <1>2, <1>3, <2>1
  <2> QED BY <1>1, <1>3, <2>1, <2>2
<1>5. \A x \in done : x \in Nat /\ x <= clock /\ last # Never /\ x <= last
  BY <1>2, Zenon DEF RunsInOrder
<1> HIDE DEF now
<1>6. CASE last # Never /\ now - last < 3
  <2>1. waitFor(last) /\ UNCHANGED <<last, done>>
    BY <1>6, Zenon DEF timeout, now
  <2>2. last \in Nat
    BY <1>2, <1>6
  <2>3. /\ target' \in Nat \cup {Never} /\ due' \in Nat \cup {Never}
        /\ due' # Never => target' # Never /\ target' <= due'
        /\ target' # Never => target' > now \/ last = Never \/ last < target'
    BY <1>2, <2>1, <2>2, WaitsForNext DEF now
  <2>4. ASSUME NEW x \in done, target' # Never PROVE x < target'
    <3>1. target' \in Nat /\ (target' > now \/ last < target')
      BY <1>6, <2>3, <2>4
    <3>2. x \in Nat /\ x <= clock /\ x <= last
      BY <1>5
    <3> QED BY <1>1, <2>2, <3>1, <3>2
  <2>5. TestType'
    BY <1>2, <2>1, <2>3, Zenon DEF TestType
  <2>6. RunsInOrder'
    BY <1>3, <1>5, <2>1, <2>3, <2>4, Zenon DEF RunsInOrder
  <2> QED BY <2>5, <2>6
<1>7. CASE ~(last # Never /\ now - last < 3)
  <2>1. last' = now /\ waitFor(now) /\ done' = done \cup {target}
    BY <1>7, Zenon DEF timeout, now
  <2>2. /\ target' \in Nat \cup {Never} /\ due' \in Nat \cup {Never}
        /\ due' # Never => target' # Never /\ target' <= due'
        /\ target' # Never => target' > now \/ now = Never \/ now < target'
    <3>1. now \in Int
      BY <1>1
    <3> QED BY <1>2, <2>1, <3>1, WaitsForNext DEF now
  <2>3. \A x \in done \cup {target} : x \in Nat /\ x <= clock
    BY <1>4, <1>5
  <2>4. now # Never
    BY <1>1 DEF Never
  <2>5. ASSUME NEW x \in done' PROVE x <= clock /\ x <= now /\ (target' # Never => x < target')
    <3>1. x \in Nat /\ x <= clock
      BY <2>1, <2>3
    <3>2. x <= now
      BY <1>1, <3>1
    <3>3. target' # Never => target' \in Nat /\ now < target'
      BY <1>1, <2>2, <2>4
    <3>4. target' # Never => x < target'
      BY <1>1, <3>1, <3>2, <3>3
    <3> QED BY <3>1, <3>2, <3>4
  <2>6. TestType'
    <3>1. done' \in SUBSET Nat
      BY <2>1, <2>3
    <3>2. last' \in Nat \cup {Never}
      BY <1>1, <2>1
    <3> QED BY <2>2, <3>1, <3>2, Zenon DEF TestType
  <2>7. RunsInOrder'
    BY <1>3, <2>1, <2>2, <2>4, <2>5, Zenon DEF RunsInOrder
  <2> QED BY <2>6, <2>7
<1> QED BY <1>6, <1>7

(* Every step keeps the runs in order. *)
LEMMA StepTest ==
  ASSUME Offsets \subseteq Nat, ClockInv, TestInv, [Next]_vars
  PROVE  TestInv'
<1>1. ClockInv' /\ clock \in Nat
  BY StepClock DEF ClockInv
<1>2. clock' \in Nat
  BY <1>1 DEF ClockInv
<1>3. ASSUME UNCHANGED <<clock, testVars>> PROVE TestInv'
  <2>1. clock' >= clock
    BY <1>1, <1>3
  <2> QED BY <1>2, <1>3, <2>1, TestLeft
<1>4. CASE Tick
  <2>1. clock' = clock + 1 /\ UNCHANGED testVars
    BY <1>4, Zenon DEF Tick
  <2>2. clock' >= clock
    BY <1>1, <2>1
  <2> QED BY <1>2, <2>1, <2>2, TestLeft
<1>5. ASSUME NEW t \in Timings, updateTimer(t) PROVE TestInv'
  BY <1>3, <1>5, Zenon DEF updateTimer
<1>6. CASE stop
  BY <1>3, <1>6, Zenon DEF stop
<1>7. CASE onTimeout
  BY <1>3, <1>7, Zenon DEF onTimeout
<1>8. CASE timeout
  <2>1. test' = test /\ test \in Timings
    BY <1>8, Zenon DEF timeout, TestInv
  <2>2. test.type = "calendar" => TestType' /\ RunsInOrder'
    BY <1>8, TestExecutes
  <2> QED BY <2>1, <2>2, Zenon DEF TestInv
<1>9. ASSUME NEW o \in Offsets, readResponse(o) PROVE TestInv'
  <2>1. UNCHANGED <<clock, testVars>>
    BY <1>9, Zenon DEF readResponse
  <2> QED BY <1>3, <2>1
<1>10. CASE UNCHANGED vars
  BY <1>3, <1>10, Zenon DEF vars
<1> QED BY <1>4, <1>5, <1>6, <1>7, <1>8, <1>9, <1>10, Zenon DEF Next

(* At the start nothing was executed. *)
LEMMA InitTest ==
  ASSUME Init
  PROVE  TestInv
<1>1. ClockInv
  BY InitClock
<1>2. /\ test \in Timings /\ last = Never /\ done = {} /\ target = nextRun(test, Never)
      /\ due = IF target = Never THEN Never ELSE IF target < clock THEN clock ELSE target
  BY Zenon DEF Init
<1>3. clock \in Nat /\ target \in Nat \cup {Never}
  <2>1. nextRun(test, Never) \in Nat \cup {Never}
    BY <1>1, <1>2, TimerRun
  <2> QED BY <1>1, <1>2, <2>1, Zenon DEF ClockInv
<1>4. due \in Nat \cup {Never} /\ (due # Never => target # Never /\ target <= due)
  <2>1. CASE target = Never
    BY <1>2, <2>1
  <2>2. CASE target # Never /\ target < clock
    BY <1>2, <1>3, <2>2
  <2>3. CASE target # Never /\ ~(target < clock)
    BY <1>2, <1>3, <2>3
  <2> QED BY <2>1, <2>2, <2>3
<1>5. TestType /\ RunsInOrder
  BY <1>2, <1>3, <1>4 DEF TestType, RunsInOrder
<1> QED BY <1>2, <1>5, Zenon DEF TestInv

(***************************************************************************)
(* As long as the local clock is not ahead of the network's, however often *)
(* the offset is measured again, a run of a calendar that was executed is  *)
(* never the one that is waited for (CalendarTiming::reset and the         *)
(* comparison with lastExecution in nextRun).                              *)
(***************************************************************************)
THEOREM RunsOnce ==
  ASSUME Offsets \subseteq Nat
  PROVE  Spec => []NotTwice
<1>1. Init => TestInv
  BY InitTest
<1>2. ClockInv /\ TestInv /\ [Next]_vars => TestInv'
  BY StepTest
<1>3. TestInv => NotTwice
  <2> SUFFICES ASSUME TestInv, test.type = "calendar" PROVE target \notin done
    BY Zenon DEF NotTwice
  <2>1. TestType /\ RunsInOrder
    BY Zenon DEF TestInv
  <2>2. \A x \in done : x \in Nat /\ (target # Never => x < target)
    BY <2>1, Zenon DEF TestType, RunsInOrder
  <2>3. \A x \in Nat : x # Never /\ ~(x < x)
    BY DEF Never
  <2> QED BY <2>2, <2>3, Zenon
<1> QED BY <1>1, <1>2, <1>3, ClockAlways, PTL DEF Spec
=============================================================================
