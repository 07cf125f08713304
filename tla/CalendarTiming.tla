--------------------------- MODULE CalendarTiming ---------------------------
(***************************************************************************)
(* The next run of a CalendarTiming (libclient/timing/calendartiming.cpp): *)
(* lists of months, days, hours, minutes and seconds at which to run.      *)
(*                                                                         *)
(* Instants are ticks of half a second, so that an instant may lie between *)
(* two seconds; a small calendar, given by the constants, stands for       *)
(* QDate and QTime.  Nested loops over sorted lists, which stop at the     *)
(* first that fits, are minima of sets.                                    *)
(***************************************************************************)
EXTENDS PeriodicTiming, FiniteSets, FiniteSetsExt, Sequences

CONSTANTS
  MonthDays,         \* per year of a cycle, the lengths of its months
  WeekLength,        \* days of a week
  HoursPerDay, MinutesPerHour, SecondsPerMinute,
  MaxYear            \* bound: the last year of the model's calendar

ASSUME CalendarAssumption ==
  /\ \A y \in DOMAIN MonthDays : DOMAIN MonthDays[y] = DOMAIN MonthDays[1]
  /\ {WeekLength, HoursPerDay, MinutesPerHour, SecondsPerMinute} \subseteq Nat \ {0}
  /\ MaxYear \in Nat

TicksPerSecond == 2
DayTicks == TicksPerSecond * SecondsPerMinute * MinutesPerHour * HoursPerDay

(* external: QDate.  The days in order, and the number of the first. *)
MonthsOf(y) == MonthDays[(y % Len(MonthDays)) + 1]
Dates == {x \in [year : 0..MaxYear, month : DOMAIN MonthDays[1], day : 1..31] :
            x.day <= MonthsOf(x.year)[x.month]}
before(x, z) == \/ x.year < z.year
                \/ x.year = z.year /\ (x.month < z.month \/ (x.month = z.month /\ x.day < z.day))
Number == [x \in Dates |-> Cardinality({z \in Dates : before(z, x)})]
DateOf == [n \in 0..(Cardinality(Dates) - 1) |-> CHOOSE x \in Dates : Number[x] = n]
dayOfWeek(n) == (n % WeekLength) + 1

toSecs(h, m, s) == (h * MinutesPerHour + m) * SecondsPerMinute + s
at(n, secs) == n * DayTicks + secs * TicksPerSecond
secsTo(a, b) == IF b >= a THEN (b - a) \div TicksPerSecond ELSE -((a - b) \div TicksPerSecond)

(***************************************************************************)
(* findTime: the first time of the lists that is not before ref.           *)
(***************************************************************************)
\* Fault: the minute has to be late enough by itself.
findTime_minuteByItself(c, ref) ==
  LET refMinute == (ref \div SecondsPerMinute) % MinutesPerHour
      refHour   == ref \div (SecondsPerMinute * MinutesPerHour)
      hs == {h \in c.hours : h >= refHour}
      ms == {m \in c.minutes : m >= refMinute}
  IN  IF hs = {} \/ ms = {} THEN Never ELSE toSecs(Min(hs), Min(ms), Min(c.seconds))
findTime(c, ref) ==
  LET refHour == ref \div (SecondsPerMinute * MinutesPerHour)
      hs == {h \in c.hours : /\ h >= refHour
                             /\ \E m \in c.minutes, s \in c.seconds : toSecs(h, m, s) >= ref}
      ms(h) == {m \in c.minutes : \E s \in c.seconds : toSecs(h, m, s) >= ref}
      ss(h, m) == {s \in c.seconds : toSecs(h, m, s) >= ref}
  IN  IF hs = {} THEN Never
      ELSE LET h == Min(hs) m == Min(ms(h)) IN toSecs(h, m, Min(ss(h, m)))

(***************************************************************************)
(* nextRun at instant t, after an execution at instant last.  A run of     *)
(* today that was executed already makes it go on with the next day, not   *)
(* with the next time of today.  The search ends with the second year      *)
(* after this one, and drops what it finds in that year's last month.      *)
(***************************************************************************)
\* Fault: the last execution is not looked at.
calendarNextRun_repeats(c, t, last) ==
  LET from  == IF c.start > t THEN c.start ELSE t
      today == from \div DayTicks
      time  == findTime(c, (from % DayTicks) \div TicksPerSecond)
      days  == {n \in DOMAIN DateOf :
                  /\ n >= today /\ DateOf[n].year <= DateOf[today].year + 2
                  /\ DateOf[n].month \in c.months /\ DateOf[n].day \in c.daysOfMonth
                  /\ dayOfWeek(n) \in c.daysOfWeek}
      later == days \ {today}
      run   == IF today \in days /\ time # Never THEN at(today, time)
               ELSE IF later = {} THEN Never
               ELSE at(Min(later), toSecs(Min(c.hours), Min(c.minutes), Min(c.seconds)))
  IN  IF run = Never \/ (c.end # Never /\ c.end < run) THEN Never ELSE run
calendarNextRun(c, t, last) ==
  LET from  == IF c.start > t THEN c.start ELSE t
      today == from \div DayTicks
      lastYear == DateOf[today].year + 2
      days  == {n \in DOMAIN DateOf :
                  /\ n >= today /\ DateOf[n].year <= lastYear
                  /\ DateOf[n].month \in c.months /\ DateOf[n].day \in c.daysOfMonth
                  /\ dayOfWeek(n) \in c.daysOfWeek}
      time  == findTime(c, (from % DayTicks) \div TicksPerSecond)
      later == days \ {today}
      isToday == /\ today \in days /\ time # Never
                 /\ last = Never \/ secsTo(last, at(today, time)) > 1
      day   == IF isToday THEN today ELSE Min(later)
      run   == IF isToday THEN at(today, time)
               ELSE at(day, toSecs(Min(c.hours), Min(c.minutes), Min(c.seconds)))
  IN  IF ~isToday /\ later = {} THEN Never
      ELSE IF DateOf[day].year = lastYear /\ DateOf[day].month = Max(c.months) THEN Never
      ELSE IF c.end # Never /\ c.end < run THEN Never ELSE run

-----------------------------------------------------------------------------
(***************************************************************************)
(* What the lists ask for: the instants from t on (and not before the      *)
(* start) in the three years that are searched.                            *)
(***************************************************************************)
Asked(c, t) ==
  LET from == IF c.start > t THEN c.start ELSE t
      lastYear == DateOf[from \div DayTicks].year + 2
  IN  {at(n, toSecs(h, m, s)) :
         n \in {n \in DOMAIN DateOf :
                  /\ n >= from \div DayTicks /\ DateOf[n].year <= lastYear
                  /\ DateOf[n].month \in c.months /\ DateOf[n].day \in c.daysOfMonth
                  /\ dayOfWeek(n) \in c.daysOfWeek},
         h \in c.hours, m \in c.minutes, s \in c.seconds}
      \ 0..(from - (from % TicksPerSecond) - 1)
InLastMonth(c, t, run) ==
  LET from == IF c.start > t THEN c.start ELSE t
      date == DateOf[run \div DayTicks]
  IN  date.year = DateOf[from \div DayTicks].year + 2 /\ date.month = Max(c.months)
=============================================================================
