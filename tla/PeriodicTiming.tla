--------------------------- MODULE PeriodicTiming ---------------------------
(***************************************************************************)
(* The next run of a PeriodicTiming (libclient/timing/periodictiming.cpp). *)
(* d is its definition, delay the random delay drawn when it was made.     *)
(***************************************************************************)
EXTENDS Integers

Never == -1     \* an invalid QDateTime

\* Fault: the completed periods, without the next one.
periodicNextRun_completed(d, delay, t) ==
  LET run == d.start + ((t - d.start) \div d.period) * d.period
  IN  IF d.end < t THEN Never
      ELSE IF d.start > t THEN d.start
      ELSE IF d.end < run THEN Never ELSE run + delay
\* Fault: the end is not looked at again.
periodicNextRun_endless(d, delay, t) ==
  LET run == d.start + ((t - d.start) \div d.period + 1) * d.period
  IN  IF d.end < t THEN Never
      ELSE IF d.start > t THEN d.start ELSE run + delay

(* The first instant of the grid after t, plus the random delay. *)
periodicNextRun(d, delay, t) ==
  LET completedPeriods == (t - d.start) \div d.period
      run == d.start + (completedPeriods + 1) * d.period
  IN  IF d.end < t THEN Never
      ELSE IF d.start > t THEN d.start
      ELSE IF d.end < run THEN Never ELSE run + delay
=============================================================================
