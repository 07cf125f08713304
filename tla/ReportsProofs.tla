--------------------------- MODULE ReportsProofs ---------------------------
(* Proofs of the safety properties of Reports, for every set of tasks and   *)
(* every number of results, POSTs and restarts.                             *)
EXTENDS Reports, FiniteSetTheorems, FunctionTheorems, WellFoundedInduction, TLAPS

(***************************************************************************)
(* Induction, stated with a set: the least counterexample.                 *)
(***************************************************************************)
LEMMA LeastNumber ==
  ASSUME NEW T \in SUBSET Nat, T # {}
  PROVE  \E m \in T : \A k \in T : m <= k
<1> DEFINE R == OpToRel(<, Nat)
<1>1. IsWellFoundedOn(R, Nat)
  BY NatLessThanWellFounded
<1>2. \A x, y \in Nat : y < x => <<y, x>> \in R
  BY DEF OpToRel
<1> HIDE DEF R
<1>3. PICK x \in T : \A y \in T : ~(<<y, x>> \in R)
  BY <1>1, WFMin
<1>4. \A y \in T : ~(y < x)
  BY <1>2, <1>3
<1>5. \A y \in T : x <= y
  BY <1>4
<1> QED BY <1>5

(* A set with 0 that has the successor of each of its numbers has all numbers. *)
LEMMA InductionOnSet ==
  ASSUME NEW T, 0 \in T, \A n \in Nat : n \in T => n + 1 \in T
  PROVE  \A n \in Nat : n \in T
<1> SUFFICES ASSUME Nat \ T # {} PROVE FALSE
  OBVIOUS
<1>1. PICK m \in Nat \ T : \A k \in Nat \ T : m <= k
  BY LeastNumber
<1>2. m # 0 /\ m - 1 \in Nat /\ m - 1 \in T
  BY <1>1
<1> QED BY <1>1, <1>2

-----------------------------------------------------------------------------
(* The list of reports, by its entries. *)

(* No two entries are reports of the same task. *)
Distinct(rs) == \A i, j \in DOMAIN rs : rs[i].taskId = rs[j].taskId => i = j

(* g[i] is what is left of the first i entries of rs without those of the tasks ts. *)
Filters(g, rs, ts, n) ==
  g = [i \in 0..n |-> IF i = 0 THEN <<>>
                      ELSE IF rs[i].taskId \in ts THEN g[i - 1] ELSE Append(g[i - 1], rs[i])]

(* The recursion of without() has a solution, for a list of any length. *)
LEMMA FiltersExists ==
  ASSUME NEW rs, NEW ts
  PROVE  \A n \in Nat : \E g : Filters(g, rs, ts, n)
<1> DEFINE T == {n \in Nat : \E g : Filters(g, rs, ts, n)}
<1>1. 0 \in T
  <2> DEFINE g == [i \in 0..0 |-> <<>>]
  <2>1. g = [i \in 0..0 |-> IF i = 0 THEN <<>>
                            ELSE IF rs[i].taskId \in ts THEN g[i - 1] ELSE Append(g[i - 1], rs[i])]
    OBVIOUS
  <2> HIDE DEF g
  <2>2. Filters(g, rs, ts, 0)
    BY <2>1 DEF Filters
  <2> QED BY <2>2
<1>2. ASSUME NEW n \in Nat, n \in T PROVE n + 1 \in T
  <2>1. PICK g : Filters(g, rs, ts, n)
    BY <1>2
  <2> DEFINE next == IF rs[n + 1].taskId \in ts THEN g[n] ELSE Append(g[n], rs[n + 1])
             h == [i \in 0..(n + 1) |-> IF i = n + 1 THEN next ELSE g[i]]
  <2>2. \A i \in 0..n : g[i] = IF i = 0 THEN <<>>
                               ELSE IF rs[i].taskId \in ts THEN g[i - 1] ELSE Append(g[i - 1], rs[i])
    BY <2>1 DEF Filters
  <2>3. \A i \in 0..n : h[i] = g[i]
    OBVIOUS
  <2>4. h[n + 1] = next
    OBVIOUS
  <2> DEFINE Rec(i) == IF i = 0 THEN <<>>
                       ELSE IF rs[i].taskId \in ts THEN h[i - 1] ELSE Append(h[i - 1], rs[i])
  <2>5. ASSUME NEW i \in 0..(n + 1) PROVE h[i] = Rec(i)
    <3> HIDE DEF h
    <3>1. CASE i = n + 1
      <4>1. i - 1 = n /\ i # 0 /\ n \in 0..n
        BY <3>1
      <4>2. h[i - 1] = g[n]
        BY <2>3, <4>1
      <4> QED BY <2>4, <3>1, <4>1, <4>2
    <3>2. CASE i \in 0..n /\ i # 0
      <4>1. i - 1 \in 0..n
        BY <3>2
      <4>2. h[i] = g[i] /\ h[i - 1] = g[i - 1]
        BY <2>3, <3>2, <4>1
      <4> QED BY <2>2, <3>2, <4>2
    <3>3. CASE i = 0
      <4>1. h[0] = g[0] /\ g[0] = <<>>
        BY <2>2, <2>3
      <4> QED BY <3>3, <4>1
    <3> QED BY <3>1, <3>2, <3>3
  <2>6. h = [i \in 0..(n + 1) |-> Rec(i)]
    BY <2>5
  <2>7. Filters(h, rs, ts, n + 1)
    BY <2>6 DEF Filters
  <2> QED BY <2>7
<1> HIDE DEF T
<1>3. \A n \in Nat : n \in T
  BY <1>1, <1>2, InductionOnSet
<1> QED BY <1>3 DEF T

(* without() is what the recursion gives for the whole list. *)
LEMMA WithoutFilters ==
  ASSUME NEW rs, NEW ts, Len(rs) \in Nat
  PROVE  \E g : Filters(g, rs, ts, Len(rs)) /\ without(rs, ts) = g[Len(rs)]
<1> DEFINE k == CHOOSE g : Filters(g, rs, ts, Len(rs))
<1>1. Filters(k, rs, ts, Len(rs))
  BY FiltersExists
<1>2. without(rs, ts) = k[Len(rs)]
  BY Zenon DEF without, Filters
<1> QED BY <1>1, <1>2

(* The entries of a list to which one is appended. *)
LEMMA EntriesAppend ==
  ASSUME NEW S, NEW q \in Seq(S), NEW x \in S
  PROVE  Append(q, x) \in Seq(S) /\ ToSet(Append(q, x)) = ToSet(q) \cup {x}
<1>1. /\ Append(q, x) \in Seq(S) /\ Len(q) \in Nat
      /\ DOMAIN Append(q, x) = 1..(Len(q) + 1) /\ DOMAIN q = 1..Len(q)
      /\ \A i \in 1..Len(q) : Append(q, x)[i] = q[i]
      /\ Append(q, x)[Len(q) + 1] = x
  OBVIOUS
<1>2. \A i \in 1..(Len(q) + 1) : i \in 1..Len(q) \/ i = Len(q) + 1
  BY <1>1
<1>3. \A i \in 1..Len(q) : i \in 1..(Len(q) + 1)
  BY <1>1
<1>4. Len(q) + 1 \in 1..(Len(q) + 1)
  BY <1>1
<1> QED BY <1>1, <1>2, <1>3, <1>4 DEF ToSet

(***************************************************************************)
(* What is left of a list without the reports of some tasks: exactly the   *)
(* entries of the other tasks, and no two of one task if there were none.  *)
(***************************************************************************)
LEMMA WithoutEntries ==
  ASSUME NEW rs \in Seq(Report), NEW ts
  PROVE  /\ without(rs, ts) \in Seq(Report)
         /\ ToSet(without(rs, ts)) = {r \in ToSet(rs) : r.taskId \notin ts}
         /\ Distinct(rs) => Distinct(without(rs, ts))
<1>0. Len(rs) \in Nat /\ DOMAIN rs = 1..Len(rs) /\ \A i \in 1..Len(rs) : rs[i] \in Report
  OBVIOUS
<1>1. PICK g : Filters(g, rs, ts, Len(rs)) /\ without(rs, ts) = g[Len(rs)]
  BY <1>0, WithoutFilters
<1>2. \A i \in 0..Len(rs) : g[i] = IF i = 0 THEN <<>>
                                   ELSE IF rs[i].taskId \in ts THEN g[i - 1] ELSE Append(g[i - 1], rs[i])
  BY <1>1 DEF Filters
<1> DEFINE Left(n) == {rs[k] : k \in {k \in 1..n : rs[k].taskId \notin ts}}
           Good(n) == /\ g[n] \in Seq(Report)
                      /\ ToSet(g[n]) = Left(n)
                      /\ Distinct(rs) => Distinct(g[n])
           T == {n \in Nat : n <= Len(rs) => Good(n)}
<1>3. 0 \in T
  <2>1. g[0] = <<>>
    BY <1>0, <1>2
  <2>2. ToSet(<<>>) = {} /\ <<>> \in Seq(Report) /\ Distinct(<<>>)
    BY DEF ToSet, Distinct
  <2>3. Left(0) = {}
    OBVIOUS
  <2> QED BY <2>1, <2>2, <2>3
<1>4. ASSUME NEW n \in Nat, n \in T PROVE n + 1 \in T
  <2> SUFFICES ASSUME n + 1 <= Len(rs) PROVE Good(n + 1)
    OBVIOUS
  <2>1. Good(n) /\ n + 1 \in 0..Len(rs) /\ n + 1 \in 1..Len(rs) /\ (n + 1) - 1 = n /\ n + 1 # 0
    BY <1>0, <1>4
  <2>2. g[n + 1] = IF rs[n + 1].taskId \in ts THEN g[n] ELSE Append(g[n], rs[n + 1])
    BY <1>2, <2>1
  <2>3. \A k : k \in 1..(n + 1) <=> k \in 1..n \/ k = n + 1
    OBVIOUS
  <2>4. CASE rs[n + 1].taskId \in ts
    <3>1. Left(n + 1) = Left(n)
      BY <2>3, <2>4
    <3> HIDE DEF Left
    <3> QED BY <2>1, <2>2, <2>4, <3>1
  <2>5. CASE rs[n + 1].taskId \notin ts
    <3>1. Left(n + 1) = Left(n) \cup {rs[n + 1]}
      BY <2>3, <2>5
    <3>2. g[n + 1] = Append(g[n], rs[n + 1]) /\ rs[n + 1] \in Report /\ g[n] \in Seq(Report)
      BY <1>0, <2>1, <2>2, <2>5
    <3>3. g[n + 1] \in Seq(Report) /\ ToSet(g[n + 1]) = Left(n) \cup {rs[n + 1]}
      BY <2>1, <3>2, EntriesAppend
    <3>4. ASSUME Distinct(rs) PROVE Distinct(g[n + 1])
      <4> DEFINE q == g[n]  x == rs[n + 1]
      <4>1. /\ q \in Seq(Report) /\ Len(q) \in Nat /\ Distinct(q)
            /\ DOMAIN Append(q, x) = 1..(Len(q) + 1) /\ DOMAIN q = 1..Len(q)
            /\ \A i \in 1..Len(q) : Append(q, x)[i] = q[i]
            /\ Append(q, x)[Len(q) + 1] = x
        BY <2>1, <3>2, <3>4
      <4>2. \A i \in 1..Len(q) : q[i].taskId # x.taskId
        <5> SUFFICES ASSUME NEW i \in 1..Len(q) PROVE q[i].taskId # x.taskId
          OBVIOUS
        <5>1. q[i] \in Left(n)
          BY <2>1, <4>1 DEF ToSet
        <5>2. PICK k \in 1..n : q[i] = rs[k]
          BY <5>1
        <5>3. k \in 1..Len(rs) /\ k # n + 1
          BY <1>0, <2>1
        <5> QED BY <1>0, <2>1, <3>4, <5>2, <5>3 DEF Distinct
      <4> HIDE DEF q, x
      <4>3. ASSUME NEW i \in 1..(Len(q) + 1), NEW j \in 1..(Len(q) + 1),
                   Append(q, x)[i].taskId = Append(q, x)[j].taskId
            PROVE  i = j
        <5>1. i \in 1..Len(q) \/ i = Len(q) + 1
          BY <4>1
        <5>2. j \in 1..Len(q) \/ j = Len(q) + 1
          BY <4>1
        <5> QED BY <4>1, <4>2, <4>3, <5>1, <5>2 DEF Distinct
      <4>4. Distinct(Append(q, x))
        BY <4>1, <4>3 DEF Distinct
      <4> QED BY <3>2, <4>4 DEF q, x
    <3> QED BY <3>1, <3>3, <3>4
  <2> QED BY <2>4, <2>5
<1> HIDE DEF T
<1>5. Len(rs) \in T
  BY <1>0, <1>3, <1>4, InductionOnSet
<1>6. Good(Len(rs))
  BY <1>0, <1>5 DEF T
<1>7. Left(Len(rs)) = {r \in ToSet(rs) : r.taskId \notin ts}
  BY <1>0 DEF ToSet
<1> QED BY <1>1, <1>6, <1>7

-----------------------------------------------------------------------------
(* The operators of Reports, by the entries of the list. *)

(* The files fs hold what the list rs does: DiskMirrorsMemory for any list and files. *)
Mirror(rs, fs) ==
  /\ Distinct(rs)
  /\ \A r \in ToSet(rs) : fs[r.taskId] = r.results
  /\ \A t \in Tasks : (\A r \in ToSet(rs) : r.taskId # t) => fs[t] = <<>>

(* An entry of a list of reports is a report. *)
LEMMA EntryType ==
  ASSUME NEW rs \in Seq(Report)
  PROVE  /\ Len(rs) \in Nat /\ DOMAIN rs = 1..Len(rs)
         /\ \A i \in DOMAIN rs : rs[i] \in Report /\ rs[i] \in ToSet(rs)
         /\ \A r \in ToSet(rs) : /\ r \in Report /\ r.taskId \in Tasks /\ r.results \in Seq(Results)
                                /\ \E i \in DOMAIN rs : r = rs[i]
<1>1. Len(rs) \in Nat /\ DOMAIN rs = 1..Len(rs) /\ \A i \in DOMAIN rs : rs[i] \in Report
  OBVIOUS
<1>2. \A r \in Report : r.taskId \in Tasks /\ r.results \in Seq(Results)
  BY DEF Report
<1> QED BY <1>1, <1>2 DEF ToSet

(* The results of some tasks in a list. *)
LEMMA ResultsIn ==
  ASSUME NEW rs, NEW ts, NEW n
  PROVE  n \in ResultsOf(rs, ts) <=> \E r \in ToSet(rs) : r.taskId \in ts /\ n \in ToSet(r.results)
BY DEF ResultsOf, ToSet

(* The tasks of a list. *)
LEMMA TasksIn ==
  ASSUME NEW rs, NEW t
  PROVE  t \in TaskIds(rs) <=> \E r \in ToSet(rs) : r.taskId = t
BY DEF TaskIds, ToSet

(* The report of a task, where there is one, is the only one; the property says what Mirror says. *)
LEMMA TheReport ==
  ASSUME reports \in Seq(Report), Distinct(reports), NEW t
  PROVE  /\ IndexOf(t) = {} <=> \A r \in ToSet(reports) : r.taskId # t
         /\ IndexOf(t) # {} => /\ reportByTaskId(t) \in ToSet(reports)
                               /\ reportByTaskId(t).taskId = t
         /\ \A i \in IndexOf(t) : reports[i] = reportByTaskId(t)
<1>1. IndexOf(t) = {} <=> \A r \in ToSet(reports) : r.taskId # t
  BY DEF IndexOf, ToSet
<1>2. ASSUME NEW i \in IndexOf(t) PROVE reports[i] = reportByTaskId(t)
  <2> DEFINE c == CHOOSE k \in IndexOf(t) : \A j \in IndexOf(t) : k <= j
  <2>1. \A j \in IndexOf(t) : j = i
    BY DEF IndexOf, Distinct
  <2>2. i \in Nat
    BY EntryType DEF IndexOf
  <2>3. i <= i
    BY <2>2
  <2>4. c \in IndexOf(t)
    BY <2>1, <2>3
  <2>5. c = i
    BY <2>1, <2>4
  <2> QED BY <2>5 DEF reportByTaskId
<1>3. \A i \in IndexOf(t) : reports[i] \in ToSet(reports) /\ reports[i].taskId = t
  BY DEF IndexOf, ToSet
<1> QED BY <1>1, <1>2, <1>3

(* DiskMirrorsMemory is Mirror of the list and the files. *)
LEMMA MirrorMeans ==
  ASSUME reports \in Seq(Report)
  PROVE  Mirror(reports, reportFiles) => DiskMirrorsMemory
<1> SUFFICES ASSUME Mirror(reports, reportFiles) PROVE DiskMirrorsMemory
  OBVIOUS
<1>1. \A i, j \in DOMAIN reports : reports[i].taskId = reports[j].taskId => i = j
  BY DEF Mirror, Distinct
<1>2. ASSUME NEW t \in Tasks
      PROVE  reportFiles[t] = IF IndexOf(t) = {} THEN NoFile ELSE reportByTaskId(t).results
  <2>1. CASE IndexOf(t) = {}
    BY <2>1, TheReport DEF Mirror, NoFile
  <2>2. CASE IndexOf(t) # {}
    <3>1. reportByTaskId(t) \in ToSet(reports) /\ reportByTaskId(t).taskId = t
      BY <2>2, TheReport DEF Mirror
    <3>2. reportFiles[reportByTaskId(t).taskId] = reportByTaskId(t).results
      BY <3>1 DEF Mirror
    <3> QED BY <2>2, <3>1, <3>2
  <2> QED BY <2>1, <2>2
<1> QED BY <1>1, <1>2 DEF DiskMirrorsMemory

(* A report is its task and its results. *)
LEMMA ReportRecord ==
  ASSUME NEW t \in Tasks, NEW x \in Seq(Results)
  PROVE  /\ [taskId |-> t, results |-> x] \in Report
         /\ [taskId |-> t, results |-> x].taskId = t /\ [taskId |-> t, results |-> x].results = x
         /\ \A r \in Report : r.taskId = t /\ r.results = x => r = [taskId |-> t, results |-> x]
BY DEF Report

(* Reports of one task with the same results are the same. *)
LEMMA SameReport ==
  ASSUME NEW r \in Report, NEW s \in Report, r.taskId = s.taskId, r.results = s.results
  PROVE  r = s
BY DEF Report

(* Adding or modifying the report of a task leaves the other reports as they are. *)
LEMMA WithReportEntries ==
  ASSUME reports \in Seq(Report), Distinct(reports), NEW t \in Tasks, NEW x \in Seq(Results)
  PROVE  /\ withReport(t, x) \in Seq(Report)
         /\ ToSet(withReport(t, x)) = {r \in ToSet(reports) : r.taskId # t}
                                      \cup {[taskId |-> t, results |-> x]}
         /\ Distinct(withReport(t, x))
<1> DEFINE new == [taskId |-> t, results |-> x]
<1>1. new \in Report /\ new.taskId = t
  BY ReportRecord
<1> HIDE DEF new
<1>2. /\ Len(reports) \in Nat /\ DOMAIN reports = 1..Len(reports)
      /\ \A i \in DOMAIN reports : reports[i] \in Report
  BY EntryType
<1>3. CASE IndexOf(t) = {}
  <2> DEFINE q == Append(reports, new)
  <2>1. withReport(t, x) = q
    BY <1>3 DEF withReport, new
  <2>2. q \in Seq(Report) /\ ToSet(q) = ToSet(reports) \cup {new}
    BY <1>1, EntriesAppend
  <2>3. \A r \in ToSet(reports) : r.taskId # t
    BY <1>3, TheReport
  <2>4. ToSet(q) = {r \in ToSet(reports) : r.taskId # t} \cup {new}
    BY <2>2, <2>3
  <2>5. /\ DOMAIN q = 1..(Len(reports) + 1) /\ q[Len(reports) + 1] = new
        /\ \A i \in 1..Len(reports) : q[i] = reports[i]
    BY <1>1, <1>2
  <2> HIDE DEF q
  <2>6. \A i \in 1..Len(reports) : reports[i].taskId # t
    BY <1>2, <2>3, EntryType
  <2>7. ASSUME NEW i \in 1..(Len(reports) + 1), NEW j \in 1..(Len(reports) + 1),
               q[i].taskId = q[j].taskId
        PROVE  i = j
    <3>1. i \in 1..Len(reports) \/ i = Len(reports) + 1
      BY <1>2
    <3>2. j \in 1..Len(reports) \/ j = Len(reports) + 1
      BY <1>2
    <3> QED BY <1>1, <1>2, <2>5, <2>6, <2>7, <3>1, <3>2 DEF Distinct
  <2>8. Distinct(q)
    BY <2>5, <2>7 DEF Distinct
  <2> QED BY <2>1, <2>2, <2>4, <2>8 DEF new
<1>4. CASE IndexOf(t) # {}
  <2> DEFINE q == [i \in DOMAIN reports |-> IF i \in IndexOf(t) THEN new ELSE reports[i]]
  <2>1. withReport(t, x) = q
    BY <1>4 DEF withReport, new
  <2>2. q \in [1..Len(reports) -> Report]
    BY <1>1, <1>2
  <2>3. q \in Seq(Report)
    BY <1>2, <2>2
  <2>4. /\ DOMAIN q = DOMAIN reports
        /\ \A i \in DOMAIN reports : q[i] = IF reports[i].taskId = t THEN new ELSE reports[i]
    BY DEF IndexOf
  <2> HIDE DEF q
  <2>5. \A i \in DOMAIN reports : q[i].taskId = reports[i].taskId
    BY <1>1, <2>4
  <2>6. Distinct(q)
    BY <2>4, <2>5 DEF Distinct
  <2>7. PICK k \in DOMAIN reports : reports[k].taskId = t
    BY <1>4 DEF IndexOf
  <2>8. ToSet(q) = {r \in ToSet(reports) : r.taskId # t} \cup {new}
    BY <2>4, <2>7 DEF ToSet
  <2> QED BY <2>1, <2>3, <2>6, <2>8 DEF new
<1> QED BY <1>3, <1>4

(* A report that is stored in the list and in its file keeps the two alike. *)
LEMMA MirrorWith ==
  ASSUME reports \in Seq(Report), reportFiles \in [Tasks -> Seq(Results)],
         Mirror(reports, reportFiles), NEW t \in Tasks, NEW x \in Seq(Results)
  PROVE  Mirror(withReport(t, x), [reportFiles EXCEPT ![t] = x])
<1> DEFINE q == withReport(t, x)
           new == [taskId |-> t, results |-> x]
           fs == [reportFiles EXCEPT ![t] = x]
<1>1. Distinct(reports)
  BY DEF Mirror
<1>2. /\ Distinct(q) /\ ToSet(q) = {r \in ToSet(reports) : r.taskId # t} \cup {new}
  BY <1>1, WithReportEntries
<1>3. new.taskId = t /\ new.results = x
  OBVIOUS
<1>4. fs[t] = x /\ \A u \in Tasks : u # t => fs[u] = reportFiles[u]
  OBVIOUS
<1> HIDE DEF q, new, fs
<1>5. ASSUME NEW r \in ToSet(q) PROVE fs[r.taskId] = r.results
  <2>1. CASE r = new
    BY <1>3, <1>4, <2>1
  <2>2. CASE r \in ToSet(reports) /\ r.taskId # t
    BY <1>4, <2>2, EntryType DEF Mirror
  <2> QED BY <1>2, <2>1, <2>2
<1>6. ASSUME NEW u \in Tasks, \A r \in ToSet(q) : r.taskId # u PROVE fs[u] = <<>>
  <2>1. u # t
    BY <1>2, <1>3, <1>6
  <2>2. \A r \in ToSet(reports) : r.taskId # u
    BY <1>2, <1>6, <2>1
  <2> QED BY <1>4, <2>1, <2>2 DEF Mirror
<1>7. Mirror(q, fs)
  BY <1>2, <1>5, <1>6 DEF Mirror
<1> QED BY <1>7 DEF q, fs

(* Removing the reports of some tasks with their files keeps the two alike. *)
LEMMA MirrorWithout ==
  ASSUME NEW rs \in Seq(Report), NEW fs \in [Tasks -> Seq(Results)], NEW ts, Mirror(rs, fs)
  PROVE  /\ Mirror(without(rs, ts), filesWithout(fs, ts \cap TaskIds(rs)))
         /\ filesWithout(fs, ts \cap TaskIds(rs)) \in [Tasks -> Seq(Results)]
<1> DEFINE q == without(rs, ts)
           gs == filesWithout(fs, ts \cap TaskIds(rs))
<1>1. /\ Distinct(q) /\ ToSet(q) = {r \in ToSet(rs) : r.taskId \notin ts}
  BY WithoutEntries DEF Mirror
<1>2. <<>> \in Seq(Results)
  OBVIOUS
<1>3. /\ gs \in [Tasks -> Seq(Results)]
      /\ \A t \in Tasks : gs[t] = IF t \in ts \cap TaskIds(rs) THEN <<>> ELSE fs[t]
  BY <1>2 DEF filesWithout, NoFile
<1> HIDE DEF q, gs
<1>4. ASSUME NEW r \in ToSet(q) PROVE gs[r.taskId] = r.results
  <2>1. r \in ToSet(rs) /\ r.taskId \notin ts /\ r.taskId \in Tasks
    BY <1>1, EntryType
  <2> QED BY <1>3, <2>1 DEF Mirror
<1>5. ASSUME NEW t \in Tasks, \A r \in ToSet(q) : r.taskId # t PROVE gs[t] = <<>>
  <2>1. CASE \A r \in ToSet(rs) : r.taskId # t
    BY <1>3, <2>1 DEF Mirror
  <2>2. CASE \E r \in ToSet(rs) : r.taskId = t
    <3>1. t \in TaskIds(rs)
      BY <2>2, TasksIn
    <3>2. t \in ts
      BY <1>1, <1>5, <2>2
    <3> QED BY <1>3, <3>1, <3>2
  <2> QED BY <2>1, <2>2
<1>6. Mirror(q, gs)
  BY <1>1, <1>4, <1>5 DEF Mirror
<1> QED BY <1>3, <1>6 DEF q, gs

(* The tasks of a list are finitely many. *)
LEMMA FiniteTasks ==
  ASSUME NEW rs \in Seq(Report)
  PROVE  IsFiniteSet(TaskIds(rs))
<1> DEFINE f == [i \in 1..Len(rs) |-> rs[i].taskId]
<1>1. Len(rs) \in Nat /\ DOMAIN rs = 1..Len(rs)
  BY EntryType
<1>2. f \in Surjection(1..Len(rs), TaskIds(rs))
  BY <1>1 DEF Surjection, TaskIds
<1>3. IsFiniteSet(1..Len(rs))
  BY <1>1, FS_Interval
<1> QED BY <1>2, <1>3, FS_Surjection

(***************************************************************************)
(* Whatever the order of the files, loading them gives the reports that    *)
(* were stored, except those without results, and keeps list and files     *)
(* alike.                                                                  *)
(***************************************************************************)
LEMMA LoadedEntries ==
  ASSUME NEW rs \in Seq(Report), NEW fs \in [Tasks -> Seq(Results)], Mirror(rs, fs),
         NEW q \in loaded(fs)
  PROVE  /\ q \in Seq(Report)
         /\ ToSet(q) = {r \in ToSet(rs) : r.results # <<>>}
         /\ Mirror(q, fs)
<1> DEFINE S == {t \in Tasks : fs[t] # NoFile}
           D == 1..Cardinality(S)
<1>1. S \subseteq TaskIds(rs)
  BY TasksIn DEF Mirror, NoFile
<1>2. IsFiniteSet(S)
  BY <1>1, FiniteTasks, FS_Subset
<1>3. Cardinality(S) \in Nat /\ IsFiniteSet(D) /\ Cardinality(D) = Cardinality(S)
  <2>1. Cardinality(S) \in Nat
    BY <1>2, FS_CardinalityType
  <2> DEFINE c == Cardinality(S)
  <2> HIDE DEF c
  <2>2. c \in Nat
    BY <2>1 DEF c
  <2>3. IsFiniteSet(1..c) /\ Cardinality(1..c) = IF 1 > c THEN 0 ELSE c - 1 + 1
    BY <2>2, FS_Interval
  <2>4. Cardinality(1..c) = c
    BY <2>2, <2>3
  <2> QED BY <2>2, <2>3, <2>4 DEF c
<1>4. PICK ids \in SetToSeqs(S) : q = [i \in DOMAIN ids |-> [taskId |-> ids[i], results |-> fs[ids[i]]]]
  BY DEF loaded
<1>5. ids \in [D -> S] /\ \A i, j \in D : i # j => ids[i] # ids[j]
  BY DEF SetToSeqs
<1>6. ids \in Injection(D, S)
  BY <1>5 DEF Injection, IsInjective
<1>7. ids \in Surjection(D, S)
  BY <1>2, <1>3, <1>6, FS_Injection
<1>8. \A t \in S : \E i \in D : ids[i] = t
  BY <1>7 DEF Surjection
<1>9. \A i \in D : ids[i] \in Tasks /\ fs[ids[i]] \in Seq(Results) /\ fs[ids[i]] # <<>>
  BY <1>5 DEF NoFile
<1>10. DOMAIN q = D /\ \A i \in D : q[i] = [taskId |-> ids[i], results |-> fs[ids[i]]]
  BY <1>4, <1>5
<1>11. \A t \in Tasks : t \in S <=> fs[t] # <<>>
  BY DEF NoFile
<1> HIDE DEF S
<1>12. \A i \in D : q[i] \in Report /\ q[i].taskId = ids[i] /\ q[i].results = fs[ids[i]]
  BY <1>9, <1>10, ReportRecord
<1>13. q \in Seq(Report)
  <2>1. q = [i \in D |-> [taskId |-> ids[i], results |-> fs[ids[i]]]]
    BY <1>4, <1>5
  <2>2. q \in [D -> Report]
    BY <1>9, <2>1, ReportRecord
  <2> QED BY <1>3, <2>2
<1>14. Distinct(q)
  BY <1>5, <1>10, <1>12 DEF Distinct
<1>15. ASSUME NEW r \in ToSet(q) PROVE r \in ToSet(rs) /\ r.results # <<>> /\ fs[r.taskId] = r.results
  <2>1. PICK i \in D : r = q[i]
    BY <1>10 DEF ToSet
  <2>2. r \in Report /\ r.taskId = ids[i] /\ r.results = fs[ids[i]] /\ fs[ids[i]] # <<>> /\ ids[i] \in Tasks
    BY <1>9, <1>12, <2>1
  <2>3. PICK s \in ToSet(rs) : s.taskId = ids[i]
    BY <2>2 DEF Mirror
  <2>4. s.results = fs[ids[i]] /\ s \in Report
    BY <2>3, EntryType DEF Mirror
  <2>5. s = r
    BY <2>2, <2>3, <2>4, SameReport
  <2> QED BY <2>2, <2>5
<1>16. ASSUME NEW r \in ToSet(rs), r.results # <<>> PROVE r \in ToSet(q)
  <2>1. r \in Report /\ r.taskId \in Tasks /\ fs[r.taskId] = r.results
    BY EntryType DEF Mirror
  <2>2. PICK i \in D : ids[i] = r.taskId
    BY <1>8, <1>11, <1>16, <2>1
  <2>3. q[i] \in Report /\ q[i].taskId = r.taskId /\ q[i].results = r.results
    BY <1>12, <2>1, <2>2
  <2>4. q[i] = r
    BY <2>1, <2>3, SameReport
  <2> QED BY <1>10, <2>4 DEF ToSet
<1>17. ToSet(q) = {r \in ToSet(rs) : r.results # <<>>}
  BY <1>15, <1>16
<1>18. ASSUME NEW t \in Tasks, \A r \in ToSet(q) : r.taskId # t PROVE fs[t] = <<>>
  <2> SUFFICES ASSUME fs[t] # <<>> PROVE FALSE
    OBVIOUS
  <2>1. PICK i \in D : ids[i] = t
    BY <1>8, <1>11
  <2>2. q[i] \in ToSet(q) /\ q[i].taskId = t
    BY <1>10, <1>12, <2>1 DEF ToSet
  <2> QED BY <1>18, <2>2
<1>19. Mirror(q, fs)
  BY <1>14, <1>15, <1>18 DEF Mirror
<1> QED BY <1>13, <1>17, <1>19

-----------------------------------------------------------------------------
(* The inductive invariant. *)

(* A report has results of its own task only. *)
Own(rs, pr) ==
  \A rep \in ToSet(rs) : \A n \in ToSet(rep.results) : n \in DOMAIN pr /\ pr[n] = rep.taskId

(***************************************************************************)
(* A POST under way carries every result that is now in a report, except   *)
(* those produced meanwhile: what its reply removes, the server has.       *)
(***************************************************************************)
Covered(rs, posts, ex) ==
  \A r \in posts : \A rep \in ToSet(rs) : \A n \in ToSet(rep.results) :
    n \in ex \/ \E s \in ToSet(r.payload) : s.taskId = rep.taskId /\ n \in ToSet(s.results)

(* No result is lost, except in flight. *)
KeptIn(rs, pr, sv, ex) ==
  \A n \in DOMAIN pr :
    \/ pr[n] \in Toolbox
    \/ n \in sv
    \/ n \in ex
    \/ \E rep \in ToSet(rs) : n \in ToSet(rep.results)

StoreInv ==
  /\ Mirror(reports, reportFiles)
  /\ Own(reports, produced)
  /\ Covered(reports, replies, exposed)
  /\ KeptIn(reports, produced, server, exposed)

RInv == TypeOK /\ StoreInv /\ HistoryComplete

(* KeptIn is LostOnlyInFlight. *)
LEMMA KeptMeans ==
  ASSUME reports \in Seq(Report), KeptIn(reports, produced, server, exposed)
  PROVE  LostOnlyInFlight
<1>1. \A n : (\E rep \in ToSet(reports) : n \in ToSet(rep.results)) => n \in Held
  BY ResultsIn, EntryType DEF Held
<1> QED BY <1>1 DEF KeptIn, LostOnlyInFlight, Uploadable

(* There are no results in a list with no entries. *)
LEMMA EmptyList ==
  ToSet(<<>>) = {} /\ <<>> \in Seq(Report) /\ <<>> \in Seq(Results) /\ <<>> \in Seq(Tasks) /\ Distinct(<<>>)
BY DEF ToSet, Distinct

(* The invariant holds initially. *)
LEMMA InitRInv == Init => RInv
<1> SUFFICES ASSUME Init PROVE RInv
  OBVIOUS
<1>1. TypeOK
  <2>0. 0 \in 0..MaxStarts /\ 0 \in 0..MaxRestarts
    BY TasksAssumption
  <2>1. W!TypeOK
    BY <2>0 DEF Init, W!Init, W!TypeOK, W!Statuses
  <2>2. reports \in Seq(Report) /\ produced \in Seq(Tasks) /\ Len(produced) <= MaxResults
    BY EmptyList, TasksAssumption DEF Init
  <2>3. /\ reportFiles \in [Tasks -> Seq(Results)] /\ saved \in [Tasks -> [Days -> Seq(Results)]]
        /\ shown \in [Tasks -> [Days -> Seq(Results)]]
    BY EmptyList DEF Init, NoFile
  <2>5. today \in Days /\ producedOn \in Seq(Days) /\ Len(producedOn) = Len(produced)
    BY DaysAssumption DEF Init, Days
  <2>4. isImmediate \in BOOLEAN /\ timerOn \in BOOLEAN /\ restarts \in 0..MaxRestarts
    BY <2>0, Zenon DEF Init
  <2> QED BY <2>1, <2>2, <2>3, <2>4, <2>5 DEF Init, TypeOK
<1>2. StoreInv
  BY EmptyList DEF Init, StoreInv, Mirror, Own, Covered, KeptIn, NoFile, W!Init
<1>3. HistoryComplete
  BY EmptyList DEF Init, HistoryComplete, IsWhole, Of, NoFile, W!Init
<1> QED BY <1>1, <1>2, <1>3 DEF RInv

-----------------------------------------------------------------------------
(* The parts of a step. *)

(* The WebRequester of the controller keeps its type; a POST carries the list it is given. *)
LEMMA StartEffect ==
  ASSUME W!TypeOK, NEW p \in Seq(Report), W!start(p)
  PROVE  W!TypeOK' /\ \A r \in replies' : r \in replies \/ r.payload = p
<1>1. CASE ~url
  BY <1>1 DEF W!TypeOK, W!start, W!setStatus, W!Statuses
<1>2. CASE url
  <2> DEFINE new == [nr |-> nstarts + 1, payload |-> p]
  <2>1. nstarts < MaxStarts /\ nstarts' = nstarts + 1 /\ replies' = replies \cup {new}
    BY <1>2 DEF W!start
  <2>2. nstarts + 1 \in 1..MaxStarts /\ nstarts + 1 \in 0..MaxStarts
    <3>1. nstarts \in 0..MaxStarts /\ MaxStarts \in Nat
      BY TasksAssumption DEF W!TypeOK
    <3> QED BY <2>1, <3>1
  <2>3. new \in W!Reply /\ new.payload = p
    BY <2>2 DEF W!Reply
  <2> HIDE DEF new
  <2>4. replies' \subseteq W!Reply
    BY <2>1, <2>3 DEF W!TypeOK
  <2>5. status' \in W!Statuses /\ signal' \in {"none", "started", "finished", "error"}
    BY <1>2 DEF W!start, W!setStatus, W!Statuses
  <2>6. W!TypeOK'
    BY <1>2, <2>1, <2>2, <2>4, <2>5 DEF W!TypeOK, W!start
  <2> QED BY <2>1, <2>3, <2>6
<1> QED BY <1>1, <1>2

(* What is said of the requester does not change with its variables unchanged. *)
LEMMA WebUnchanged ==
  ASSUME W!TypeOK, UNCHANGED webVars
  PROVE  W!TypeOK' /\ replies' = replies /\ nstarts' = nstarts
BY DEF W!TypeOK, webVars

(***************************************************************************)
(* sendReports removes the reports of the toolbox, with their files, and   *)
(* posts the list that is left.                                            *)
(***************************************************************************)
LEMMA SendEffect ==
  ASSUME W!TypeOK, NEW rs \in Seq(Report), NEW fs \in [Tasks -> Seq(Results)], Mirror(rs, fs),
         sendReports(rs, fs)
  PROVE  /\ reports' \in Seq(Report) /\ reportFiles' \in [Tasks -> Seq(Results)]
         /\ Mirror(reports', reportFiles')
         /\ ToSet(reports') = {r \in ToSet(rs) : r.taskId \notin Toolbox}
         /\ W!TypeOK'
         /\ \A r \in replies' : r \in replies \/ r.payload = reports'
<1>1. /\ reports' = without(rs, Toolbox)
      /\ reportFiles' = filesWithout(fs, Toolbox \cap TaskIds(rs))
      /\ UNCHANGED webVars \/ W!start(without(rs, Toolbox))
  BY DEF sendReports
<1>2. /\ reports' \in Seq(Report)
      /\ ToSet(reports') = {r \in ToSet(rs) : r.taskId \notin Toolbox}
  BY <1>1, WithoutEntries
<1>3. reportFiles' \in [Tasks -> Seq(Results)] /\ Mirror(reports', reportFiles')
  BY <1>1, MirrorWithout
<1>4. CASE UNCHANGED webVars
  BY <1>2, <1>3, <1>4, WebUnchanged
<1>5. CASE W!start(without(rs, Toolbox))
  <2>1. W!start(reports')
    BY <1>1, <1>5
  <2>2. W!TypeOK' /\ \A r \in replies' : r \in replies \/ r.payload = without(rs, Toolbox)
    BY <1>1, <1>2, <1>5, StartEffect
  <2> QED BY <1>1, <1>2, <1>3, <2>2
<1> QED BY <1>1, <1>4, <1>5

(***************************************************************************)
(* A list to which sendReports is applied, or which is only stored, keeps  *)
(* what the invariant says of it: pr, sv and ex are the histories after    *)
(* the step.                                                               *)
(***************************************************************************)
LEMMA StoreKept ==
  ASSUME NEW rs, NEW pr, NEW sv, NEW ex,
         Own(rs, pr), Covered(rs, replies, ex), KeptIn(rs, pr, sv, ex),
         NEW q, ToSet(q) \subseteq ToSet(rs),
         \A r \in ToSet(rs) : r.taskId \notin Toolbox => r \in ToSet(q),
         NEW posts, \A r \in posts : r \in replies \/ r.payload = q
  PROVE  Own(q, pr) /\ Covered(q, posts, ex) /\ KeptIn(q, pr, sv, ex)
<1>1. Own(q, pr)
  BY DEF Own
<1>2. Covered(q, posts, ex)
  BY DEF Covered
<1>3. KeptIn(q, pr, sv, ex)
  BY DEF KeptIn, Own
<1> QED BY <1>1, <1>2, <1>3

(* The results of task t's report once its next result, number n, is added. *)
ResultsWith(t, n) ==
  IF IndexOf(t) = {} THEN <<n>> ELSE Append(reportByTaskId(t).results, n)

(* They are those it had and n. *)
LEMMA ResultsWithEntries ==
  ASSUME reports \in Seq(Report), Distinct(reports), NEW t \in Tasks, NEW n \in Results
  PROVE  /\ ResultsWith(t, n) \in Seq(Results)
         /\ n \in ToSet(ResultsWith(t, n))
         /\ \A m \in ToSet(ResultsWith(t, n)) :
              m = n \/ \E r \in ToSet(reports) : r.taskId = t /\ m \in ToSet(r.results)
         /\ \A r \in ToSet(reports) : r.taskId = t => ToSet(r.results) \subseteq ToSet(ResultsWith(t, n))
<1>1. CASE IndexOf(t) = {}
  <2>1. ResultsWith(t, n) = <<n>>
    BY <1>1 DEF ResultsWith
  <2>2. <<n>> \in Seq(Results) /\ ToSet(<<n>>) = {n}
    BY DEF ToSet
  <2>3. \A r \in ToSet(reports) : r.taskId # t
    BY <1>1, TheReport
  <2> QED BY <2>1, <2>2, <2>3
<1>2. CASE IndexOf(t) # {}
  <2> DEFINE c == reportByTaskId(t)
  <2>1. c \in ToSet(reports) /\ c.taskId = t
    BY <1>2, TheReport
  <2>2. c.results \in Seq(Results)
    BY <2>1, EntryType
  <2>3. ResultsWith(t, n) = Append(c.results, n)
    BY <1>2 DEF ResultsWith
  <2>4. \A r \in ToSet(reports) : r.taskId = t => r = c
    <3> SUFFICES ASSUME NEW r \in ToSet(reports), r.taskId = t PROVE r = c
      OBVIOUS
    <3>1. PICK i \in DOMAIN reports : r = reports[i]
      BY EntryType
    <3>2. i \in IndexOf(t)
      BY <3>1 DEF IndexOf
    <3> QED BY <3>1, <3>2, TheReport
  <2> HIDE DEF c
  <2> DEFINE d == c.results
  <2>5. d \in Seq(Results)
    BY <2>2
  <2> HIDE DEF d
  <2>6. Append(d, n) \in Seq(Results) /\ ToSet(Append(d, n)) = ToSet(d) \cup {n}
    BY <2>5, EntriesAppend
  <2> QED BY <2>1, <2>3, <2>4, <2>6 DEF d
<1> QED BY <1>1, <1>2

(***************************************************************************)
(* Storing the next result keeps what the invariant says of the list: the  *)
(* result is in the report of its task, and exposed if a POST is under     *)
(* way.                                                                    *)
(***************************************************************************)
LEMMA StoredResult ==
  ASSUME RInv, NEW t \in Tasks, Len(produced) + 1 <= MaxResults,
         NEW ex, ex = IF replies = {} THEN exposed ELSE exposed \cup {Len(produced) + 1}
  PROVE  LET n == Len(produced) + 1
             x == ResultsWith(t, n)
             rs == withReport(t, x)
             fs == [reportFiles EXCEPT ![t] = x]
         IN  /\ rs \in Seq(Report) /\ fs \in [Tasks -> Seq(Results)]
             /\ Mirror(rs, fs)
             /\ Own(rs, Append(produced, t))
             /\ Covered(rs, replies, ex)
             /\ KeptIn(rs, Append(produced, t), server, ex)
<1> DEFINE n == Len(produced) + 1
           x == ResultsWith(t, n)
           rs == withReport(t, x)
           fs == [reportFiles EXCEPT ![t] = x]
           pr == Append(produced, t)
           new == [taskId |-> t, results |-> x]
<1>1. /\ reports \in Seq(Report) /\ reportFiles \in [Tasks -> Seq(Results)] /\ produced \in Seq(Tasks)
      /\ Mirror(reports, reportFiles) /\ Own(reports, produced)
      /\ Covered(reports, replies, exposed) /\ KeptIn(reports, produced, server, exposed)
  BY DEF RInv, TypeOK, StoreInv
<1>2. Distinct(reports)
  BY <1>1 DEF Mirror
<1>3. Len(produced) \in Nat /\ n \in Results
  BY <1>1, TasksAssumption DEF Results
<1>4. /\ DOMAIN produced = 1..Len(produced) /\ DOMAIN pr = 1..(Len(produced) + 1)
      /\ pr[n] = t /\ \A m \in 1..Len(produced) : pr[m] = produced[m]
  BY <1>1
<1>5. \A m : m \in DOMAIN pr <=> m \in DOMAIN produced \/ m = n
  BY <1>3, <1>4
<1> HIDE DEF pr
<1>6. \A m \in DOMAIN produced : m \in DOMAIN pr /\ pr[m] = produced[m]
  BY <1>4, <1>5
<1>7. n \in DOMAIN pr /\ pr[n] = t
  BY <1>4, <1>5
<1> HIDE DEF n
<1>8. /\ x \in Seq(Results) /\ n \in ToSet(x)
      /\ \A m \in ToSet(x) : m = n \/ \E r \in ToSet(reports) : r.taskId = t /\ m \in ToSet(r.results)
      /\ \A r \in ToSet(reports) : r.taskId = t => ToSet(r.results) \subseteq ToSet(x)
  BY <1>1, <1>2, <1>3, ResultsWithEntries
<1> HIDE DEF x
<1>9. fs \in [Tasks -> Seq(Results)]
  BY <1>1, <1>8
<1>10. rs \in Seq(Report) /\ ToSet(rs) = {r \in ToSet(reports) : r.taskId # t} \cup {new}
  BY <1>1, <1>2, <1>8, WithReportEntries
<1>11. Mirror(rs, fs)
  BY <1>1, <1>8, MirrorWith
<1>12. new.taskId = t /\ new.results = x
  OBVIOUS
<1> HIDE DEF new, rs, fs
<1>13. Own(rs, pr)
  <2> SUFFICES ASSUME NEW rep \in ToSet(rs), NEW m \in ToSet(rep.results)
               PROVE  m \in DOMAIN pr /\ pr[m] = rep.taskId
    BY DEF Own
  <2>1. CASE rep \in ToSet(reports)
    BY <1>1, <1>6, <2>1 DEF Own
  <2>2. CASE rep = new
    BY <1>1, <1>6, <1>7, <1>8, <1>12, <2>2 DEF Own
  <2> QED BY <1>10, <2>1, <2>2
<1>14. Covered(rs, replies, ex)
  <2> SUFFICES ASSUME NEW r \in replies, NEW rep \in ToSet(rs), NEW m \in ToSet(rep.results)
               PROVE  m \in ex \/ \E s \in ToSet(r.payload) : s.taskId = rep.taskId /\ m \in ToSet(s.results)
    BY DEF Covered
  <2>1. exposed \subseteq ex /\ n \in ex
    BY DEF n
  <2>2. CASE rep \in ToSet(reports)
    BY <1>1, <2>1, <2>2 DEF Covered
  <2>3. CASE rep = new
    <3>1. CASE m = n
      BY <2>1, <3>1
    <3>2. CASE m # n
      <4>1. PICK old \in ToSet(reports) : old.taskId = t /\ m \in ToSet(old.results)
        BY <1>8, <1>12, <2>3, <3>2
      <4>2. m \in exposed \/ \E s \in ToSet(r.payload) : s.taskId = old.taskId /\ m \in ToSet(s.results)
        BY <1>1, <4>1 DEF Covered
      <4> QED BY <1>12, <2>1, <2>3, <4>1, <4>2
    <3> QED BY <3>1, <3>2
  <2> QED BY <1>10, <2>2, <2>3
<1>15. KeptIn(rs, pr, server, ex)
  <2> SUFFICES ASSUME NEW m \in DOMAIN pr, pr[m] \notin Toolbox, m \notin server, m \notin ex
               PROVE  \E rep \in ToSet(rs) : m \in ToSet(rep.results)
    BY DEF KeptIn
  <2>1. exposed \subseteq ex
    OBVIOUS
  <2>2. CASE m = n
    BY <1>8, <1>10, <1>12, <2>2
  <2>3. CASE m \in DOMAIN produced
    <3>1. PICK rep \in ToSet(reports) : m \in ToSet(rep.results)
      BY <1>1, <1>6, <2>1, <2>3 DEF KeptIn
    <3> QED BY <1>8, <1>10, <1>12, <3>1
  <2> QED BY <1>5, <2>2, <2>3
<1> QED BY <1>9, <1>10, <1>11, <1>13, <1>14, <1>15 DEF n, x, rs, fs, pr

(* One more element at the end. *)
LEMMA AppendAt ==
  ASSUME NEW S, NEW s \in Seq(S), NEW e \in S
  PROVE  /\ Append(s, e) \in Seq(S) /\ Len(Append(s, e)) = Len(s) + 1
         /\ Append(s, e)[Len(s) + 1] = e
         /\ \A m \in 1..Len(s) : Append(s, e)[m] = s[m]
OBVIOUS

(* A new largest number at the end of an increasing sequence. *)
LEMMA IncreasingAppend ==
  ASSUME NEW q \in Seq(Results), NEW n \in Results, \A m \in ToSet(q) : m < n,
         \A i, j \in DOMAIN q : i < j => q[i] < q[j]
  PROVE  /\ Append(q, n) \in Seq(Results) /\ ToSet(Append(q, n)) = ToSet(q) \cup {n}
         /\ \A i, j \in DOMAIN Append(q, n) : i < j => Append(q, n)[i] < Append(q, n)[j]
<1>1. Len(q) \in Nat /\ DOMAIN q = 1..Len(q)
  OBVIOUS
<1>2. \A i \in 1..Len(q) : q[i] \in Results /\ q[i] < n
  BY <1>1 DEF ToSet
<1>3. /\ DOMAIN Append(q, n) = 1..(Len(q) + 1) /\ Append(q, n)[Len(q) + 1] = n
      /\ \A i \in 1..Len(q) : Append(q, n)[i] = q[i]
  BY <1>1
<1>4. ASSUME NEW i \in 1..(Len(q) + 1), NEW j \in 1..(Len(q) + 1), i < j
      PROVE  Append(q, n)[i] < Append(q, n)[j]
  <2>1. i \in 1..Len(q)
    BY <1>1, <1>4
  <2>2. j \in 1..Len(q) \/ j = Len(q) + 1
    BY <1>1
  <2> QED BY <1>1, <1>2, <1>3, <1>4, <2>1, <2>2
<1> QED BY <1>3, <1>4, EntriesAppend

(* What withResult leaves of the results rs when w is the day: only those of one task on it change. *)
LEMMA WithResultAt ==
  ASSUME NEW rs \in [Tasks -> [Days -> Seq(Results)]], NEW w \in Days, NEW t \in Tasks,
         NEW n \in Results, NEW new,
         new = [rs EXCEPT ![t][w] = Append(@, n)]
  PROVE  /\ \A u \in Tasks, d \in Days :
              new[u][d] = IF u = t /\ d = w THEN Append(rs[u][d], n) ELSE rs[u][d]
         /\ new \in [Tasks -> [Days -> Seq(Results)]]
<1> DEFINE f == [rs[t] EXCEPT ![w] = Append(rs[t][w], n)]
<1>1. new = [rs EXCEPT ![t] = f]
  OBVIOUS
<1>2. /\ f = [d \in Days |-> f[d]]
      /\ \A d \in Days : f[d] = IF d = w THEN Append(rs[t][d], n) ELSE rs[t][d]
  OBVIOUS
<1>3. Append(rs[t][w], n) \in Seq(Results) /\ rs[t] \in [Days -> Seq(Results)]
  OBVIOUS
<1>6. f \in [Days -> Seq(Results)]
  BY <1>3
<1> HIDE DEF f
<1>4. /\ new = [u \in Tasks |-> new[u]]
      /\ \A u \in Tasks : new[u] = IF u = t THEN f ELSE rs[u]
  BY <1>1
<1>5. new \in [Tasks -> [Days -> Seq(Results)]]
  BY <1>1, <1>6
<1> QED BY <1>2, <1>4, <1>5

(***************************************************************************)
(* The file of today takes the next result of task t at its end, and so    *)
(* does the list; then the files older than the backlog go.                *)
(***************************************************************************)
LEMMA HistoryStep ==
  ASSUME RInv, NEW t \in Tasks, Len(produced) + 1 <= MaxResults,
         produced' = Append(produced, t), producedOn' = Append(producedOn, today),
         saved' = rotate(withResult(saved, t, Len(produced) + 1)),
         shown' = withResult(shown, t, Len(produced) + 1), today' = today
  PROVE  /\ saved' \in [Tasks -> [Days -> Seq(Results)]] /\ shown' \in [Tasks -> [Days -> Seq(Results)]]
         /\ produced' \in Seq(Tasks) /\ Len(produced') <= MaxResults
         /\ producedOn' \in Seq(Days) /\ Len(producedOn') = Len(produced')
         /\ HistoryComplete'
<1> DEFINE n == Len(produced) + 1
<1>1. /\ produced \in Seq(Tasks) /\ producedOn \in Seq(Days) /\ Len(producedOn) = Len(produced)
      /\ saved \in [Tasks -> [Days -> Seq(Results)]] /\ shown \in [Tasks -> [Days -> Seq(Results)]]
      /\ today \in Days
  BY DEF RInv, TypeOK
<1>2. Len(produced) \in Nat /\ n \in Results /\ n \in Nat
  BY <1>1, TasksAssumption DEF Results
<1>3. /\ produced' \in Seq(Tasks) /\ Len(produced') <= MaxResults
      /\ DOMAIN produced = 1..Len(produced) /\ DOMAIN produced' = 1..(Len(produced) + 1)
      /\ produced'[n] = t /\ \A m \in 1..Len(produced) : produced'[m] = produced[m]
  BY <1>1
<1>4. /\ producedOn' \in Seq(Days) /\ Len(producedOn') = Len(produced')
      /\ producedOn'[n] = today /\ \A m \in 1..Len(produced) : producedOn'[m] = producedOn[m]
  <2>1. /\ producedOn' \in Seq(Days) /\ Len(producedOn') = Len(producedOn) + 1
        /\ producedOn'[Len(producedOn) + 1] = today
        /\ \A m \in 1..Len(producedOn) : producedOn'[m] = producedOn[m]
    BY <1>1, AppendAt
  <2>2. Len(produced') = Len(produced) + 1
    BY <1>1
  <2> QED BY <1>1, <2>1, <2>2
<1>5. /\ \A m : m \in DOMAIN produced' <=> m \in DOMAIN produced \/ m = n
      /\ \A m \in DOMAIN produced :
           m < n /\ produced'[m] = produced[m] /\ producedOn'[m] = producedOn[m]
  BY <1>2, <1>3, <1>4
<1>6. today \in Int /\ \A d \in Days : d \in Int
  BY <1>1 DEF Days
<1>0. shown' = withResult(shown, t, n) /\ saved' = rotate(withResult(saved, t, n))
  OBVIOUS
<1> HIDE DEF n
<1>7. /\ \A u \in Tasks, d \in Days :
           shown'[u][d] = IF u = t /\ d = today THEN Append(shown[u][d], n) ELSE shown[u][d]
      /\ \A u \in Tasks, d \in Days :
           withResult(saved, t, n)[u][d] = IF u = t /\ d = today THEN Append(saved[u][d], n) ELSE saved[u][d]
      /\ shown' \in [Tasks -> [Days -> Seq(Results)]]
  <2>1. shown \in [Tasks -> [Days -> Seq(Results)]] /\ saved \in [Tasks -> [Days -> Seq(Results)]]
        /\ today \in Days
    BY <1>1
  <2> DEFINE sv == withResult(saved, t, n)
             sh == withResult(shown, t, n)
  <2>2. sh = [shown EXCEPT ![t][today] = Append(@, n)] /\ sv = [saved EXCEPT ![t][today] = Append(@, n)]
    BY DEF withResult
  <2> HIDE DEF sv, sh
  <2>3. \A u \in Tasks, d \in Days :
          sh[u][d] = IF u = t /\ d = today THEN Append(shown[u][d], n) ELSE shown[u][d]
    BY <1>2, <2>1, <2>2, WithResultAt
  <2>6. sh \in [Tasks -> [Days -> Seq(Results)]]
    BY <1>2, <2>1, <2>2, WithResultAt
  <2>4. \A u \in Tasks, d \in Days :
          sv[u][d] = IF u = t /\ d = today THEN Append(saved[u][d], n) ELSE saved[u][d]
    BY <1>2, <2>1, <2>2, WithResultAt
  <2>5. shown' = sh
    BY <1>0 DEF sh
  <2> QED BY <2>3, <2>4, <2>5, <2>6 DEF sv
<1>8. \A u \in Tasks, d \in Days :
        saved'[u][d] = IF d < today - Backlog THEN NoFile
                       ELSE IF u = t /\ d = today THEN Append(saved[u][d], n) ELSE saved[u][d]
  <2> DEFINE sv == withResult(saved, t, n)
  <2> HIDE DEF sv
  <2>1. saved' = rotate(sv)
    BY <1>0 DEF sv
  <2>2. \A u \in Tasks, d \in Days : saved'[u][d] = IF d < today - Backlog THEN NoFile ELSE sv[u][d]
    BY <2>1 DEF rotate
  <2>3. \A u \in Tasks, d \in Days :
          sv[u][d] = IF u = t /\ d = today THEN Append(saved[u][d], n) ELSE saved[u][d]
    BY <1>7 DEF sv
  <2> QED BY <2>2, <2>3
<1>9. /\ \A u, d : u # t \/ d # today => Of(u, d)' = Of(u, d)
      /\ \A u, d : u = t /\ d = today => Of(u, d)' = Of(u, d) \cup {n}
      /\ \A u, d : \A m \in Of(u, d) : m < n
  BY <1>3, <1>4, <1>5 DEF Of, n
<1>10. ~(today < today - Backlog)
  BY <1>6, DaysAssumption
<1>11. ASSUME NEW u \in Tasks, NEW d \in Days
       PROVE  /\ saved'[u][d] \in Seq(Results) /\ shown'[u][d] \in Seq(Results)
              /\ IsWhole(saved[u][d], u, d)' \/ (saved'[u][d] = NoFile /\ d < today - Backlog)
              /\ shown'[u][d] = saved'[u][d] \/ (IsWhole(shown[u][d], u, d)' /\ d < today - Backlog)
  <2>1. /\ IsWhole(saved[u][d], u, d) \/ (saved[u][d] = NoFile /\ d < today - Backlog)
        /\ shown[u][d] = saved[u][d] \/ (IsWhole(shown[u][d], u, d) /\ d < today - Backlog)
    BY DEF RInv, HistoryComplete
  <2>2. saved[u][d] \in Seq(Results) /\ shown[u][d] \in Seq(Results) /\ NoFile \in Seq(Results)
    BY <1>1 DEF NoFile
  <2>3. CASE u = t /\ d = today
    <3>1. IsWhole(saved[u][d], u, d) /\ shown[u][d] = saved[u][d]
      BY <1>10, <2>1, <2>3
    <3>2. saved'[u][d] = Append(saved[u][d], n) /\ shown'[u][d] = saved'[u][d]
      <4>1. shown'[u][d] = Append(shown[u][d], n)
        BY <1>7, <2>3
      <4>2. ~(d < today - Backlog)
        BY <1>10, <2>3
      <4>3. saved'[u][d] = Append(saved[u][d], n)
        BY <1>8, <2>3, <4>2
      <4> QED BY <3>1, <4>1, <4>3
    <3>3. \A m \in ToSet(saved[u][d]) : m < n
      BY <1>9, <3>1 DEF IsWhole
    <3>4. /\ saved'[u][d] \in Seq(Results) /\ ToSet(saved'[u][d]) = ToSet(saved[u][d]) \cup {n}
          /\ \A i, j \in DOMAIN saved'[u][d] : i < j => saved'[u][d][i] < saved'[u][d][j]
      BY <1>2, <2>2, <3>1, <3>2, <3>3, IncreasingAppend DEF IsWhole
    <3>5. ToSet(saved'[u][d]) = Of(u, d)'
      BY <1>9, <2>3, <3>1, <3>4 DEF IsWhole
    <3> QED BY <3>2, <3>4, <3>5 DEF IsWhole
  <2>4. CASE u # t \/ d # today
    <3>1. Of(u, d)' = Of(u, d) /\ shown'[u][d] = shown[u][d]
      BY <1>7, <1>9, <2>4
    <3>2. saved'[u][d] = IF d < today - Backlog THEN NoFile ELSE saved[u][d]
      BY <1>8, <2>4
    <3>3. IsWhole(saved[u][d], u, d) /\ saved'[u][d] = saved[u][d] => IsWhole(saved[u][d], u, d)'
      BY <3>1 DEF IsWhole
    <3>4. IsWhole(shown[u][d], u, d) => IsWhole(shown[u][d], u, d)'
      BY <3>1 DEF IsWhole
    <3>5. IsWhole(saved[u][d], u, d) /\ shown[u][d] = saved[u][d] => IsWhole(shown[u][d], u, d)
      BY Zenon
    <3> QED BY <2>1, <2>2, <3>1, <3>2, <3>3, <3>4, <3>5
  <2> QED BY <2>3, <2>4
<1>12. saved' \in [Tasks -> [Days -> Seq(Results)]]
  <2>1. saved' = [u \in Tasks |-> [d \in Days |-> saved'[u][d]]]
    BY DEF rotate
  <2> QED BY <1>11, <2>1
<1>13. HistoryComplete'
  BY <1>11 DEF HistoryComplete
<1> QED BY <1>3, <1>4, <1>7, <1>12, <1>13

-----------------------------------------------------------------------------
(* Every step keeps the invariant. *)

(* Client::taskFinished. *)
LEMMA FinishedStep ==
  ASSUME RInv, NEW t \in Tasks, taskFinished(t)
  PROVE  RInv'
<1> DEFINE n == Len(produced) + 1
           x == ResultsWith(t, n)
           rs == withReport(t, x)
           fs == [reportFiles EXCEPT ![t] = x]
<1>1. /\ n <= MaxResults /\ produced' = Append(produced, t) /\ producedOn' = Append(producedOn, today)
      /\ exposed' = IF replies = {} THEN exposed ELSE exposed \cup {n}
      /\ saved' = rotate(withResult(saved, t, n))
      /\ shown' = withResult(shown, t, n)
      /\ UNCHANGED <<configVars, today, server, restarts>>
  BY DEF taskFinished
<1>2. sendReports(rs, fs) \/ (reports' = rs /\ reportFiles' = fs /\ UNCHANGED webVars)
  BY DEF taskFinished, ResultsWith
<1>3. /\ saved' \in [Tasks -> [Days -> Seq(Results)]] /\ shown' \in [Tasks -> [Days -> Seq(Results)]]
      /\ produced' \in Seq(Tasks) /\ Len(produced') <= MaxResults
      /\ producedOn' \in Seq(Days) /\ Len(producedOn') = Len(produced')
      /\ HistoryComplete'
  BY <1>1, HistoryStep
<1>4. /\ rs \in Seq(Report) /\ fs \in [Tasks -> Seq(Results)] /\ Mirror(rs, fs)
      /\ Own(rs, produced') /\ Covered(rs, replies, exposed') /\ KeptIn(rs, produced', server, exposed')
  BY <1>1, StoredResult
<1>5. n \in Results
  BY <1>1, TasksAssumption DEF RInv, TypeOK, Results
<1>6. exposed' \subseteq Results
  BY <1>1, <1>5 DEF RInv, TypeOK
<1>7. W!TypeOK
  BY DEF RInv, TypeOK
<1> HIDE DEF n, rs, fs
<1>8. /\ reports' \in Seq(Report) /\ reportFiles' \in [Tasks -> Seq(Results)]
      /\ Mirror(reports', reportFiles') /\ W!TypeOK'
      /\ ToSet(reports') \subseteq ToSet(rs)
      /\ \A r \in ToSet(rs) : r.taskId \notin Toolbox => r \in ToSet(reports')
      /\ \A r \in replies' : r \in replies \/ r.payload = reports'
  <2>1. CASE sendReports(rs, fs)
    <3>1. /\ reports' \in Seq(Report) /\ reportFiles' \in [Tasks -> Seq(Results)]
          /\ Mirror(reports', reportFiles')
          /\ ToSet(reports') = {r \in ToSet(rs) : r.taskId \notin Toolbox}
          /\ W!TypeOK'
          /\ \A r \in replies' : r \in replies \/ r.payload = reports'
      BY <1>4, <1>7, <2>1, SendEffect
    <3> QED BY <3>1
  <2>2. CASE reports' = rs /\ reportFiles' = fs /\ UNCHANGED webVars
    BY <1>4, <1>7, <2>2, WebUnchanged
  <2> QED BY <1>2, <2>1, <2>2
<1>9. /\ Own(reports', produced') /\ Covered(reports', replies', exposed')
      /\ KeptIn(reports', produced', server, exposed')
  BY <1>4, <1>8, StoreKept
<1>10. StoreInv'
  BY <1>1, <1>8, <1>9 DEF StoreInv
<1>11. TypeOK'
  BY <1>1, <1>3, <1>6, <1>8 DEF RInv, TypeOK, configVars
<1> QED BY <1>3, <1>10, <1>11 DEF RInv

(* HistoryComplete does not change with the history. *)
LEMMA HistoryKept ==
  ASSUME HistoryComplete, UNCHANGED <<today, saved, shown, produced, producedOn>>
  PROVE  HistoryComplete'
BY DEF HistoryComplete, IsWhole, Of

(* The report timer: the list is posted. *)
LEMMA TimeoutStep ==
  ASSUME RInv, ReportTimeout
  PROVE  RInv'
<1>1. sendReports(reports, reportFiles) /\ UNCHANGED <<historyVars, configVars, ghostVars>>
  BY DEF ReportTimeout
<1>2. /\ reports \in Seq(Report) /\ reportFiles \in [Tasks -> Seq(Results)] /\ W!TypeOK
      /\ Mirror(reports, reportFiles) /\ Own(reports, produced)
      /\ Covered(reports, replies, exposed) /\ KeptIn(reports, produced, server, exposed)
  BY DEF RInv, TypeOK, StoreInv
<1>3. /\ reports' \in Seq(Report) /\ reportFiles' \in [Tasks -> Seq(Results)]
      /\ Mirror(reports', reportFiles')
      /\ ToSet(reports') = {r \in ToSet(reports) : r.taskId \notin Toolbox}
      /\ W!TypeOK'
      /\ \A r \in replies' : r \in replies \/ r.payload = reports'
  BY <1>1, <1>2, SendEffect
<1>4. ToSet(reports') \subseteq ToSet(reports) /\ \A r \in ToSet(reports) : r.taskId \notin Toolbox => r \in ToSet(reports')
  BY <1>3
<1>5. /\ Own(reports', produced) /\ Covered(reports', replies', exposed)
      /\ KeptIn(reports', produced, server, exposed)
  BY <1>2, <1>3, <1>4, StoreKept
<1>6. StoreInv'
  BY <1>1, <1>3, <1>5 DEF StoreInv, ghostVars
<1>7. TypeOK'
  BY <1>1, <1>3 DEF RInv, TypeOK, historyVars, configVars, ghostVars
<1>8. HistoryComplete'
  BY <1>1, HistoryKept DEF RInv, historyVars, ghostVars
<1> QED BY <1>6, <1>7, <1>8 DEF RInv

(***************************************************************************)
(* A reply: the server has, or may have, what the reply's tasks are; the   *)
(* reports that are removed had no other results than these and exposed    *)
(* ones.                                                                   *)
(***************************************************************************)
LEMMA ReplyStep ==
  ASSUME RInv, Reply
  PROVE  RInv'
<1>0. PICK r \in replies : \E ids \in SUBSET TaskIds(r.payload) :
        \/ \E outcome \in {"filled", "failed", "network"} : ReplyArrives(r, outcome, ids)
        \/ ids = TaskIds(r.payload) /\ ReplyArrives(r, "empty", ids)
  BY DEF Reply
<1>1. PICK ids \in SUBSET TaskIds(r.payload), outcome \in {"filled", "failed", "network", "empty"} :
        /\ ReplyArrives(r, outcome, ids)
        /\ outcome = "empty" => ids = TaskIds(r.payload)
  BY <1>0
<1>2. /\ reports \in Seq(Report) /\ reportFiles \in [Tasks -> Seq(Results)] /\ W!TypeOK
      /\ Mirror(reports, reportFiles) /\ Own(reports, produced)
      /\ Covered(reports, replies, exposed) /\ KeptIn(reports, produced, server, exposed)
  BY DEF RInv, TypeOK, StoreInv
<1>3. /\ W!requestFinished(r, outcome, ids)
      /\ server' = server \cup ResultsOf(r.payload, ids)
      /\ UNCHANGED <<historyVars, configVars, today, produced, producedOn, exposed, restarts>>
      /\ onFinished \/ UNCHANGED storeVars
      /\ signal' # "finished" => UNCHANGED storeVars
  BY <1>1 DEF ReplyArrives
<1>4. r.payload \in Seq(Report)
  BY <1>2 DEF W!TypeOK, W!Reply
<1>5. TaskIds(r.payload) \subseteq Tasks /\ ids \subseteq Tasks
  BY <1>4, EntryType, TasksIn
<1>6. W!TypeOK'
  <2>1. response' \in (SUBSET Tasks) \cup {{}}
    BY <1>2, <1>3, <1>5 DEF W!TypeOK, W!requestFinished
  <2>2. status' \in W!Statuses /\ signal' \in {"none", "started", "finished", "error"}
    BY <1>3 DEF W!requestFinished, W!setStatus, W!Statuses
  <2>3. errorString' \in {"none", "timed out", "other"}
    BY <1>2, <1>3 DEF W!TypeOK, W!requestFinished
  <2>4. replies' \subseteq W!Reply /\ currentReply' \in 0..MaxStarts
    <3>1. 0 \in 0..MaxStarts
      BY TasksAssumption
    <3> QED BY <1>2, <1>3, <3>1 DEF W!TypeOK, W!requestFinished
  <2>5. UNCHANGED <<url, nstarts>> /\ timer' = FALSE
    BY <1>3 DEF W!requestFinished
  <2> QED BY <1>2, <2>1, <2>2, <2>3, <2>4, <2>5 DEF W!TypeOK
<1>7. replies' \subseteq replies
  BY <1>3 DEF W!requestFinished
<1>8. ResultsOf(r.payload, ids) \subseteq Results
  <2> SUFFICES ASSUME NEW n \in ResultsOf(r.payload, ids) PROVE n \in Results
    OBVIOUS
  <2>1. PICK s \in ToSet(r.payload) : n \in ToSet(s.results)
    BY ResultsIn
  <2>2. s.results \in Seq(Results)
    BY <1>4, <2>1, EntryType
  <2> QED BY <2>1, <2>2 DEF ToSet
<1>9. server \subseteq server' /\ server' \subseteq Results
  BY <1>3, <1>8 DEF RInv, TypeOK
<1>10. CASE UNCHANGED storeVars
  <2>1. UNCHANGED <<reports, reportFiles, produced, exposed>>
    BY <1>3, <1>10 DEF storeVars
  <2>2. StoreInv'
    <3>1. Covered(reports, replies', exposed)
      BY <1>2, <1>7 DEF Covered
    <3>2. KeptIn(reports, produced, server', exposed)
      BY <1>2, <1>9 DEF KeptIn
    <3> QED BY <1>2, <2>1, <3>1, <3>2 DEF StoreInv
  <2>3. TypeOK'
    BY <1>3, <1>6, <1>9, <2>1 DEF RInv, TypeOK, historyVars, configVars
  <2>4. HistoryComplete'
    BY <1>3, HistoryKept DEF RInv, historyVars
  <2> QED BY <2>2, <2>3, <2>4 DEF RInv
<1>11. CASE signal' = "finished" /\ onFinished
  <2>1. /\ reports' = without(reports, response')
        /\ reportFiles' = filesWithout(reportFiles, response' \cap TaskIds(reports))
    BY <1>11 DEF onFinished
  <2>2. outcome \in {"filled", "empty"}
    BY <1>3, <1>11 DEF W!requestFinished, W!setStatus
  <2>3. response' = ids \/ ids = TaskIds(r.payload)
    BY <1>1, <1>3, <2>2 DEF W!requestFinished
  <2>4. /\ reports' \in Seq(Report)
        /\ ToSet(reports') = {s \in ToSet(reports) : s.taskId \notin response'}
    BY <1>2, <2>1, WithoutEntries
  <2>5. Mirror(reports', reportFiles') /\ reportFiles' \in [Tasks -> Seq(Results)]
    BY <1>2, <2>1, MirrorWithout
  <2>6. ASSUME NEW rep \in ToSet(reports), rep \notin ToSet(reports'), NEW n \in ToSet(rep.results)
        PROVE  n \in server' \/ n \in exposed
    <3>1. rep.taskId \in response'
      BY <2>4, <2>6
    <3>2. CASE n \in exposed
      BY <3>2
    <3>3. CASE \E s \in ToSet(r.payload) : s.taskId = rep.taskId /\ n \in ToSet(s.results)
      <4>1. PICK s \in ToSet(r.payload) : s.taskId = rep.taskId /\ n \in ToSet(s.results)
        BY <3>3
      <4>2. s.taskId \in TaskIds(r.payload)
        BY <4>1, TasksIn
      <4>3. s.taskId \in ids
        BY <2>3, <3>1, <4>1, <4>2
      <4>4. n \in ResultsOf(r.payload, ids)
        BY <4>1, <4>3, ResultsIn
      <4> QED BY <1>3, <4>4
    <3> QED BY <1>2, <2>6, <3>2, <3>3 DEF Covered
  <2>7. Own(reports', produced) /\ Covered(reports', replies', exposed)
    BY <1>2, <1>7, <2>4 DEF Own, Covered
  <2>8. KeptIn(reports', produced, server', exposed)
    <3> SUFFICES ASSUME NEW n \in DOMAIN produced, produced[n] \notin Toolbox, n \notin server', n \notin exposed
                 PROVE  \E rep \in ToSet(reports') : n \in ToSet(rep.results)
      BY DEF KeptIn
    <3>1. PICK rep \in ToSet(reports) : n \in ToSet(rep.results)
      BY <1>2, <1>9 DEF KeptIn
    <3> QED BY <2>6, <3>1
  <2>9. StoreInv'
    BY <1>3, <2>5, <2>7, <2>8 DEF StoreInv
  <2>10. TypeOK'
    BY <1>3, <1>6, <1>9, <2>4, <2>5 DEF RInv, TypeOK, historyVars, configVars
  <2>11. HistoryComplete'
    BY <1>3, HistoryKept DEF RInv, historyVars
  <2> QED BY <2>9, <2>10, <2>11 DEF RInv
<1> QED BY <1>3, <1>10, <1>11

(* The request is aborted: the server may have got a part of it. *)
LEMMA AbortStep ==
  ASSUME RInv, RequestTimeout
  PROVE  RInv'
<1>1. /\ W!timeout
      /\ UNCHANGED <<storeVars, historyVars, configVars, today, produced, producedOn, exposed, restarts>>
  BY DEF RequestTimeout
<1>2. PICK r \in replies : \E ids \in SUBSET TaskIds(r.payload) : server' = server \cup ResultsOf(r.payload, ids)
  BY DEF RequestTimeout
<1>3. PICK ids \in SUBSET TaskIds(r.payload) : server' = server \cup ResultsOf(r.payload, ids)
  BY <1>2
<1>4. /\ W!TypeOK /\ Mirror(reports, reportFiles) /\ Own(reports, produced)
      /\ Covered(reports, replies, exposed) /\ KeptIn(reports, produced, server, exposed)
  BY DEF RInv, TypeOK, StoreInv
<1>5. r.payload \in Seq(Report)
  BY <1>4 DEF W!TypeOK, W!Reply
<1>6. server \subseteq server' /\ server' \subseteq Results
  <2>1. ASSUME NEW n \in ResultsOf(r.payload, ids) PROVE n \in Results
    <3>1. PICK s \in ToSet(r.payload) : n \in ToSet(s.results)
      BY <2>1, ResultsIn
    <3>2. s.results \in Seq(Results)
      BY <1>5, <3>1, EntryType
    <3> QED BY <3>1, <3>2 DEF ToSet
  <2> QED BY <1>3, <2>1 DEF RInv, TypeOK
<1>7. replies' \subseteq replies
  BY <1>1 DEF W!timeout
<1>8. W!TypeOK'
  <2>1. 0 \in 0..MaxStarts
    BY TasksAssumption
  <2> QED BY <1>1, <1>4, <1>7, <2>1 DEF W!TypeOK, W!timeout, W!setStatus, W!Statuses
<1>9. StoreInv'
  <2>1. Covered(reports, replies', exposed)
    BY <1>4, <1>7 DEF Covered
  <2>2. KeptIn(reports, produced, server', exposed)
    BY <1>4, <1>6 DEF KeptIn
  <2> QED BY <1>1, <1>4, <2>1, <2>2 DEF StoreInv, storeVars
<1>10. TypeOK'
  BY <1>1, <1>6, <1>8 DEF RInv, TypeOK, storeVars, historyVars, configVars
<1>11. HistoryComplete'
  BY <1>1, HistoryKept DEF RInv, historyVars
<1> QED BY <1>9, <1>10, <1>11 DEF RInv

(* A new configuration changes neither list nor files. *)
LEMMA UpdateStep ==
  ASSUME RInv, NEW timing \in {"none", "immediate", "periodic"}, updateTimer(timing)
  PROVE  RInv'
<1>1. W!setUrl /\ UNCHANGED <<storeVars, historyVars, ghostVars>>
  BY DEF updateTimer
<1>2. isImmediate' \in BOOLEAN /\ timerOn' \in BOOLEAN
  BY DEF updateTimer, RInv, TypeOK
<1>3. W!TypeOK' /\ replies' = replies
  BY <1>1 DEF RInv, TypeOK, W!TypeOK, W!setUrl
<1>4. StoreInv'
  BY <1>1, <1>3 DEF RInv, StoreInv, storeVars, ghostVars
<1>5. TypeOK'
  BY <1>1, <1>2, <1>3 DEF RInv, TypeOK, storeVars, historyVars, ghostVars
<1>6. HistoryComplete'
  BY <1>1, HistoryKept DEF RInv, historyVars, ghostVars
<1> QED BY <1>4, <1>5, <1>6 DEF RInv

(* What a new process finds of the history is what it lists, rotated at the end of the old one or not. *)
LEMMA RotatedHistory ==
  ASSUME RInv, saved' \in {saved, rotate(saved)}, shown' = saved', UNCHANGED <<today, produced, producedOn>>
  PROVE  saved' \in [Tasks -> [Days -> Seq(Results)]] /\ HistoryComplete'
<1>1. saved \in [Tasks -> [Days -> Seq(Results)]] /\ NoFile \in Seq(Results)
  BY DEF RInv, TypeOK, NoFile
<1>2. saved' \in [Tasks -> [Days -> Seq(Results)]]
  <2>1. rotate(saved) = [u \in Tasks |-> [d \in Days |-> IF d < today - Backlog THEN NoFile ELSE saved[u][d]]]
    BY DEF rotate
  <2>2. \A u \in Tasks, d \in Days :
          (IF d < today - Backlog THEN NoFile ELSE saved[u][d]) \in Seq(Results)
    BY <1>1
  <2>3. rotate(saved) \in [Tasks -> [Days -> Seq(Results)]]
    BY <2>1, <2>2
  <2> QED BY <1>1, <2>3
<1>3. \A u \in Tasks, d \in Days :
        saved'[u][d] = saved[u][d] \/ (saved'[u][d] = NoFile /\ d < today - Backlog)
  BY DEF rotate
<1>4. HistoryComplete'
  BY <1>3 DEF RInv, HistoryComplete, IsWhole, Of
<1> QED BY <1>2, <1>4

(* A restart loads what was stored; no POST of the old process is under way in the new one. *)
LEMMA RestartStep ==
  ASSUME RInv, Restart
  PROVE  RInv'
<1>1. /\ restarts < MaxRestarts /\ restarts' = restarts + 1 /\ reports' \in loaded(reportFiles)
      /\ saved' \in {saved, rotate(saved)} /\ shown' = saved'
      /\ isImmediate' \in BOOLEAN /\ timerOn' = FALSE /\ newRequester
      /\ UNCHANGED <<reportFiles, today, produced, producedOn, server, exposed>>
  BY DEF Restart
<1>2. /\ reports \in Seq(Report) /\ reportFiles \in [Tasks -> Seq(Results)]
      /\ Mirror(reports, reportFiles) /\ Own(reports, produced)
      /\ KeptIn(reports, produced, server, exposed)
  BY DEF RInv, TypeOK, StoreInv
<1>3. /\ reports' \in Seq(Report) /\ Mirror(reports', reportFiles)
      /\ ToSet(reports') = {r \in ToSet(reports) : r.results # <<>>}
  BY <1>1, <1>2, LoadedEntries
<1>4. W!TypeOK' /\ replies' = {}
  <2>1. 0 \in 0..MaxStarts
    BY TasksAssumption
  <2> QED BY <1>1, <2>1 DEF newRequester, W!TypeOK, W!Statuses
<1>5. Own(reports', produced)
  BY <1>2, <1>3 DEF Own
<1>6. Covered(reports', replies', exposed)
  BY <1>4 DEF Covered
<1>7. KeptIn(reports', produced, server, exposed)
  BY <1>2, <1>3, EmptyList DEF KeptIn
<1>8. StoreInv'
  BY <1>1, <1>3, <1>5, <1>6, <1>7 DEF StoreInv
<1>9. restarts' \in 0..MaxRestarts
  BY <1>1, TasksAssumption DEF RInv, TypeOK
<1>10. TypeOK'
  <2>1. saved' \in [Tasks -> [Days -> Seq(Results)]]
    BY <1>1, RotatedHistory
  <2> QED BY <1>1, <1>3, <1>4, <1>9, <2>1 DEF RInv, TypeOK
<1>11. HistoryComplete'
  BY <1>1, RotatedHistory
<1> QED BY <1>8, <1>10, <1>11 DEF RInv

(* Midnight: what is old enough to be gone stays old enough. *)
LEMMA DayStep ==
  ASSUME RInv, dayPasses
  PROVE  RInv'
<1>1. /\ today < MaxDays /\ today' = today + 1
      /\ UNCHANGED <<storeVars, historyVars, configVars, produced, producedOn, server, exposed, restarts, webVars>>
  BY DEF dayPasses
<1>2. W!TypeOK' /\ replies' = replies
  BY <1>1, WebUnchanged DEF RInv, TypeOK
<1>3. today \in Days /\ today' \in Days /\ \A d \in Days : d < today - Backlog => d < today' - Backlog
  BY <1>1, DaysAssumption DEF RInv, TypeOK, Days
<1>4. StoreInv'
  BY <1>1, <1>2 DEF RInv, StoreInv, storeVars
<1>5. TypeOK'
  BY <1>1, <1>2, <1>3 DEF RInv, TypeOK, storeVars, historyVars, configVars
<1>6. HistoryComplete'
  BY <1>1, <1>3 DEF RInv, HistoryComplete, IsWhole, Of, historyVars
<1> QED BY <1>4, <1>5, <1>6 DEF RInv

(* RInv is an invariant. *)
LEMMA StepRInv == RInv /\ [Next]_vars => RInv'
<1> SUFFICES ASSUME RInv, [Next]_vars PROVE RInv'
  OBVIOUS
<1>1. CASE UNCHANGED vars
  <2>1. UNCHANGED <<storeVars, historyVars, configVars, ghostVars, webVars>>
    BY <1>1 DEF vars
  <2>2. W!TypeOK' /\ replies' = replies
    BY <2>1, WebUnchanged DEF RInv, TypeOK
  <2>3. StoreInv'
    BY <2>1, <2>2 DEF RInv, StoreInv, storeVars, ghostVars
  <2>4. TypeOK'
    BY <2>1, <2>2 DEF RInv, TypeOK, storeVars, historyVars, configVars, ghostVars
  <2>5. HistoryComplete'
    BY <2>1, HistoryKept DEF RInv, historyVars, ghostVars
  <2> QED BY <2>3, <2>4, <2>5 DEF RInv
<1>2. CASE Next
  BY <1>2, FinishedStep, UpdateStep, TimeoutStep, ReplyStep, AbortStep, DayStep, RestartStep DEF Next
<1> QED BY <1>1, <1>2

-----------------------------------------------------------------------------
(* The theorems. *)

(* RInv holds in every reachable state. *)
THEOREM Invariance == Spec => []RInv
BY InitRInv, StepRInv, PTL DEF Spec

(* The lists, files and histories keep their types, and the counters their bounds. *)
THEOREM TypeCorrect == Spec => []TypeOK
<1>1. RInv => TypeOK
  BY DEF RInv
<1> QED BY <1>1, Invariance, PTL

(***************************************************************************)
(* However replies, timeouts, new results and restarts interleave, the     *)
(* report files are at every step what the list of reports is: a process   *)
(* that ends there loses no result, and brings none back (ReportScheduler, *)
(* ReportStorage).                                                         *)
(***************************************************************************)
THEOREM FilesMirrorReports == Spec => []DiskMirrorsMemory
<1>1. RInv => DiskMirrorsMemory
  BY MirrorMeans DEF RInv, TypeOK, StoreInv
<1> QED BY <1>1, Invariance, PTL

(***************************************************************************)
(* A result for the server that was produced while no POST was under way   *)
(* is in a report until the server has it, for any number of overlapping   *)
(* POSTs and any partial insertion (ReportController::onFinished).         *)
(***************************************************************************)
THEOREM NoQuietLoss == Spec => []LostOnlyInFlight
<1>1. RInv => LostOnlyInFlight
  BY KeptMeans DEF RInv, TypeOK, StoreInv
<1> QED BY <1>1, Invariance, PTL

(***************************************************************************)
(* The history of a task holds each of its results once and in order, on   *)
(* disk and in the list shown, also after restarts (ResultStorage), until  *)
(* a rotation removes whole days that are older than the backlog           *)
(* (ResultController), for a backlog of any number of days.                *)
(***************************************************************************)
THEOREM HistoryRight == Spec => []HistoryComplete
<1>1. RInv => HistoryComplete
  BY DEF RInv
<1> QED BY <1>1, Invariance, PTL
=============================================================================
