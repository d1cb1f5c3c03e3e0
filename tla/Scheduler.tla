----------------------------- MODULE Scheduler ------------------------------
(***************************************************************************)
(* The persistent scheduler (internal/scheduler/scheduler.go over the      *)
(* schedules and schedule_occurrences tables): one loop that, at each      *)
(* tick, reads a bounded batch of due rows and handles them one at a time  *)
(* from that snapshot, while the management API creates and deletes        *)
(* schedules, database calls fail, the wall clock moves either way and the *)
(* process restarts.  Instants are naturals; 0 is Go's zero time, which    *)
(* the cron library returns when nothing matches within five years.        *)
(***************************************************************************)
EXTENDS Naturals, Sequences, FiniteSets

CONSTANTS
  Schedules,  \* schedule identities, never reused
  Crons,      \* cron expressions with their time zone
  Times,      \* values of the wall clock
  NextAfter,  \* NextAfter[c][t]: first instant after t that matches c, or 0
  Batch,      \* rows a tick reads at most (BatchSize)
  Hour,       \* how far a schedule moves when its next run cannot be computed
  None        \* no run is prepared

Snapshot == [id : Schedules, at : Nat]
Pending == [id : Schedules, at : Nat, to : Nat]

\* What the cron library promises.
ASSUME SchedulerAssumption ==
  /\ Times \subseteq Nat \ {0}
  /\ NextAfter \in [Crons -> [Times -> Nat]]
  /\ \A c \in Crons, t \in Times : NextAfter[c][t] = 0 \/ NextAfter[c][t] > t
  /\ Batch \in Nat \ {0}
  /\ Hour \in Nat \ {0}
  /\ None \notin Pending

VARIABLES
  row,     \* the row of each schedule: "absent", "off" (not enabled), "on", "deleted"
  cron,    \* its cron_expr and timezone
  next,    \* its next_run_at
  last,    \* its last_run_at (0: NULL)
  occ,     \* schedule_occurrences, primary key (schedule_id, scheduled_for)
  fired,   \* per schedule, scheduled_for of the runs created, oldest first
  now,     \* the wall clock
  due,     \* rest of the snapshot the tick works on: records [id, at]
  tickNow, \* the instant the tick was given
  pending  \* the run prepared and not yet recorded: record or None

db == <<row, cron, next, last, occ, fired>>
vars == <<row, cron, next, last, occ, fired, now, due, tickNow, pending>>

Live(s) == row[s] \in {"on", "off"}
Due(s) == row[s] = "on" /\ next[s] <= now

-----------------------------------------------------------------------------
Init ==
  /\ row = [s \in Schedules |-> "absent"]
  /\ cron \in [Schedules -> Crons]
  /\ next = [s \in Schedules |-> 0]
  /\ last = [s \in Schedules |-> 0]
  /\ occ = {}
  /\ fired = [s \in Schedules |-> <<>>]
  /\ now \in Times
  /\ due = {}
  /\ tickNow = 0
  /\ pending = None

\* POST /actions/:id/schedules
CreateSchedule(s, enabled) ==
  /\ row[s] = "absent"
  /\ row' = [row EXCEPT ![s] = enabled]
  /\ next' = [next EXCEPT ![s] = NextAfter[cron[s]][now]]
  /\ UNCHANGED <<cron, last, occ, fired, now, due, tickNow, pending>>

\* DELETE /schedules/:id; occurrences go with the row, runs stay.
DeleteSchedule(s) ==
  /\ Live(s)
  /\ row' = [row EXCEPT ![s] = "deleted"]
  /\ occ' = {o \in occ : o[1] # s}
  /\ UNCHANGED <<cron, next, last, fired, now, due, tickNow, pending>>

SetClock(t) ==
  /\ now' = t
  /\ UNCHANGED <<db, due, tickNow, pending>>

-----------------------------------------------------------------------------
\* ListDueSchedules: the first Batch due rows by next_run_at.
Selection(D) ==
  /\ D \subseteq {s \in Schedules : Due(s)}
  /\ Cardinality(D) <= Batch
  /\ \A s \in Schedules \ D : Due(s) =>
       Cardinality(D) = Batch /\ \A d \in D : next[d] <= next[s]

Tick ==
  /\ due = {} /\ pending = None
  /\ \E D \in SUBSET Schedules :
       /\ Selection(D)
       /\ due' = {[id |-> s, at |-> next[s]] : s \in D}
  /\ tickNow' = now
  /\ UNCHANGED <<db, now, pending>>

\* The loop takes the rows of the snapshot in the order of the query.
Takes(e) ==
  /\ pending = None
  /\ e \in due
  /\ \A d \in due : e.at <= d.at
  /\ due' = due \ {e}

\* AdvanceScheduleNextRun, which fails on a row that is gone or on the database.
AdvanceScheduleNextRun(s, t) ==
  /\ \/ Live(s) /\ next' = [next EXCEPT ![s] = t]
     \/ UNCHANGED next
  /\ UNCHANGED <<row, cron, last, occ, fired>>

\* Mutant of CalculationFails: one hour into the past.
CalculationFailsBackwards(e) ==
  /\ Takes(e)
  /\ AdvanceScheduleNextRun(e.id, tickNow - Hour)
  /\ UNCHANGED <<now, tickNow, pending>>

\* The time zone cannot be loaded: one hour into the future.
CalculationFails(e) ==
  /\ Takes(e)
  /\ AdvanceScheduleNextRun(e.id, tickNow + Hour)
  /\ UNCHANGED <<now, tickNow, pending>>

\* Mutant of NextRun: the next run is computed from the occurrence just handled.
NextRunFromOccurrence(e) ==
  IF e.at \in Times THEN NextAfter[cron[e.id]][e.at] ELSE NextAfter[cron[e.id]][tickNow]

\* CalculateNextRun, from the instant of the tick.
NextRun(e) == NextAfter[cron[e.id]][tickNow]

\* The delivery context is invalid or the action is not runnable.
Skip(e) ==
  /\ Takes(e)
  /\ AdvanceScheduleNextRun(e.id, NextRun(e))
  /\ UNCHANGED <<now, tickNow, pending>>

Prepare(e) ==
  /\ Takes(e)
  /\ pending' = [id |-> e.id, at |-> e.at, to |-> NextRun(e)]
  /\ UNCHANGED <<db, now, tickNow>>

\* Mutant of Record: the schedule is not advanced in the transaction.
RecordWithoutAdvance ==
  /\ pending # None
  /\ Live(pending.id)
  /\ <<pending.id, pending.at>> \notin occ
  /\ occ' = occ \cup {<<pending.id, pending.at>>}
  /\ fired' = [fired EXCEPT ![pending.id] = Append(@, pending.at)]
  /\ last' = [last EXCEPT ![pending.id] = pending.at]
  /\ pending' = None
  /\ UNCHANGED <<row, cron, next, now, due, tickNow>>

\* Mutant of Record: no occurrence, and the run comes before a separate advance
\* that may be lost.
RecordInTwoSteps ==
  /\ pending # None
  /\ Live(pending.id)
  /\ fired' = [fired EXCEPT ![pending.id] = Append(@, pending.at)]
  /\ \/ next' = [next EXCEPT ![pending.id] = pending.to]
     \/ UNCHANGED next
  /\ last' = [last EXCEPT ![pending.id] = pending.at]
  /\ pending' = None
  /\ UNCHANGED <<row, cron, occ, now, due, tickNow>>

\* RecordScheduleOccurrence: occurrence, run and advance in one transaction.
Record ==
  /\ pending # None
  /\ Live(pending.id)
  /\ <<pending.id, pending.at>> \notin occ
  /\ occ' = occ \cup {<<pending.id, pending.at>>}
  /\ fired' = [fired EXCEPT ![pending.id] = Append(@, pending.at)]
  /\ next' = [next EXCEPT ![pending.id] = pending.to]
  /\ last' = [last EXCEPT ![pending.id] = pending.at]
  /\ pending' = None
  /\ UNCHANGED <<row, cron, now, due, tickNow>>

\* The row is gone, the occurrence exists, or the database fails: nothing but
\* a log line.
RecordFails ==
  /\ pending # None
  /\ pending' = None
  /\ UNCHANGED <<db, now, due, tickNow>>

\* Stop or crash, and the next start: the snapshot is gone.
Restart ==
  /\ due' = {} /\ pending' = None /\ tickNow' = 0
  /\ UNCHANGED <<db, now>>

-----------------------------------------------------------------------------
Api == \E s \in Schedules :
  DeleteSchedule(s) \/ \E enabled \in {"on", "off"} : CreateSchedule(s, enabled)

Loop ==
  \/ Tick
  \/ \E e \in due : CalculationFails(e) \/ Skip(e) \/ Prepare(e)
  \/ Record \/ RecordFails

Next == Api \/ (\E t \in Times : SetClock(t)) \/ Loop \/ Restart

Spec == Init /\ [][Next]_vars

(***************************************************************************)
(* Fairness: the ticker keeps firing and the loop is scheduled, the        *)
(* database does not refuse for ever the write that moves a schedule on,   *)
(* and the process does not end at every tick before a row is handled, or  *)
(* before the transaction of a prepared run returns.                       *)
(***************************************************************************)
Handles(s) == \E e \in due :
  /\ e.id = s
  /\ Prepare(e) \/ ((Skip(e) \/ CalculationFails(e)) /\ next' # next)

Fairness ==
  /\ WF_vars(Loop)
  /\ SF_vars(Record \/ RecordFails)
  /\ \A s \in Schedules :
       /\ SF_vars(Handles(s))
       /\ SF_vars(Record /\ pending.id = s)

FairSpec == Spec /\ Fairness

-----------------------------------------------------------------------------
TypeOK ==
  /\ row \in [Schedules -> {"absent", "off", "on", "deleted"}]
  /\ cron \in [Schedules -> Crons]
  /\ next \in [Schedules -> Nat]
  /\ last \in [Schedules -> Nat]
  /\ occ \subseteq Schedules \X Nat
  /\ fired \in [Schedules -> Seq(Nat)]
  /\ now \in Times
  /\ due \subseteq Snapshot
  /\ tickNow \in Nat
  /\ pending \in Pending \cup {None}

\* A cron expression that always has a next match.
Recurring(c) == \A t \in Times : NextAfter[c][t] > t

\* No instant of a schedule fires twice, and the instants of a recurring one
\* fire in order, whatever the clock does and wherever a call fails or the
\* process restarts.  A schedule whose cron never matches stays due at the zero
\* time for ever: there the primary key of schedule_occurrences is all that
\* stands between it and a run per tick.
FiresOnceInOrder ==
  \A s \in Schedules : \A i, j \in DOMAIN fired[s] : i < j =>
    /\ fired[s][i] # fired[s][j]
    /\ Recurring(cron[s]) => fired[s][i] < fired[s][j]

\* For a recurring schedule that key is only a second line of
\* defence: its next_run_at is past every recorded occurrence.
OccurrencesArePast ==
  \A s \in Schedules : Live(s) /\ Recurring(cron[s]) =>
    /\ \A o \in occ : o[1] = s => o[2] < next[s]
    /\ last[s] < next[s]

\* The loop only moves the next_run_at of a recurring schedule forward, and past
\* the instant of the tick: occurrences missed while the process was down or
\* the clock jumped are made up for by one run, not by a burst of them.
MissedRunsCoalesce ==
  [][\A s \in Schedules :
       /\ Recurring(cron[s])
       /\ row[s] = "on"
       /\ next'[s] # next[s]
       => next'[s] > next[s] /\ next'[s] > tickNow]_vars

\* As many schedules that are due for ever as a tick reads rows: their cron never
\* matches, so nothing moves them on, and at the zero time they come first.
Crowded ==
  Cardinality({s \in Schedules : Due(s) /\ ~Recurring(cron[s])}) >= Batch

\* No due schedule that recurs is starved by failures or by the others in a full
\* batch, unless the schedules that never match fill the batch by themselves.
\* Those are not handled ever: nothing is claimed of them.
DueIsHandled ==
  \A s \in Schedules :
    Due(s) /\ Recurring(cron[s]) ~> ~Due(s) \/ Crowded
=============================================================================
