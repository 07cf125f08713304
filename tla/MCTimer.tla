------------------------------ MODULE MCTimer ------------------------------
EXTENDS Timer

Periodic(from, till, period, delay) ==
  [type |-> "periodic", start |-> from, end |-> till, period |-> period, delay |-> delay]
Calendar(from, till, months, daysOfMonth, daysOfWeek, hours, minutes, seconds) ==
  [type |-> "calendar", start |-> from, end |-> till, months |-> months,
   daysOfMonth |-> daysOfMonth, daysOfWeek |-> daysOfWeek,
   hours |-> hours, minutes |-> minutes, seconds |-> seconds]

\* Years of three, three and four days; a day has eight seconds.
MCMonthDays == <<<<2, 1>>, <<2, 1>>, <<2, 2>>>>

\* Often and with a delay; with an end; twice a day; the first of every month;
\* the day only the long year has.
MCTimings ==
  {Periodic(0, 1000, 6, 1), Periodic(10, 17, 4, 2),
   Calendar(Never, Never, {1, 2}, {1, 2}, {1, 2}, {0, 1}, {1}, {0}),
   Calendar(Never, 60, {1, 2}, {1}, {1, 2}, {0}, {0, 1}, {1}),
   Calendar(10, Never, {2}, {2}, {1, 2}, {1}, {0}, {0})}
=============================================================================
