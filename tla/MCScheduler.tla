---------------------------- MODULE MCScheduler -----------------------------
(* Small instances of Scheduler: 2 or 3 schedules, a clock of few instants,  *)
(* cron expressions given by the instants they match, and one that matches  *)
(* no date ("0 0 30 2 *"), for which the library returns the zero time.     *)
EXTENDS Scheduler, FiniteSetsExt, TLC

CONSTANTS LastTime, Every, Odd, Never

ClockTimes == 1..LastTime
EveryOrNever == {Every, Never}
\* Nothing tells one schedule from another but its row.
AnySchedule == Permutations(Schedules)
AllCrons == {Every, Odd, Never}

\* Matches reach beyond the clock, so that a recurring cron has a next run.
Matches(c) ==
  CASE c = Every -> 1..(LastTime + 1)
    [] c = Odd -> {t \in 1..(LastTime + 2) : t % 2 = 1}
    [] c = Never -> {}

NextMatch(c, t) ==
  LET later == {m \in Matches(c) : m > t}
  IN  IF later = {} THEN 0 ELSE Min(later)

CronTable == [c \in Crons |-> [t \in Times |-> NextMatch(c, t)]]

\* One schedule that never matches takes a row of every batch from two that recur.
CONSTANT Stuck
OneNeverInit ==
  /\ Init
  /\ cron = [s \in Schedules |-> IF s = Stuck THEN Never ELSE Every]
OneNeverSpec == OneNeverInit /\ [][Next]_vars /\ Fairness
=============================================================================
