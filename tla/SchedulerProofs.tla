-------------------------- MODULE SchedulerProofs --------------------------
(***************************************************************************)
(* Theorems about Scheduler, for any schedules, cron expressions, clock    *)
(* values and batch size.                                                  *)
(***************************************************************************)
EXTENDS Scheduler, TLAPS

(***************************************************************************)
(* The inductive invariant.  The heart of it is that the snapshot of a     *)
(* tick stays exact until its row is handled: only the loop writes         *)
(* next_run_at, and it handles a row once per tick.  So what is recorded   *)
(* is the current next_run_at, which is past everything recorded before.   *)
(***************************************************************************)

\* A schedule that was never created has no history.
NoHistory ==
  \A s \in Schedules : row[s] = "absent" =>
    /\ fired[s] = <<>> /\ last[s] = 0
    /\ \A o \in occ : o[1] # s

\* next_run_at is past the whole history of a recurring schedule.
HistoryIsPast ==
  \A s \in Schedules : Recurring(cron[s]) /\ row[s] # "absent" =>
    /\ \A i \in DOMAIN fired[s] : fired[s][i] < next[s]
    /\ last[s] < next[s]
    /\ \A o \in occ : o[1] = s => o[2] < next[s]

\* The rest of the snapshot is what the database holds, and it was due.
SnapshotIsExact ==
  \A e \in due :
    row[e.id] # "absent" /\ e.at = next[e.id] /\ e.at <= tickNow /\ tickNow \in Times

\* So is the row of the prepared run, which left the snapshot.
PendingIsExact ==
  pending # None =>
    /\ row[pending.id] # "absent"
    /\ pending.at = next[pending.id] /\ pending.at <= tickNow /\ tickNow \in Times
    /\ pending.to = NextAfter[cron[pending.id]][tickNow]
    /\ \A e \in due : e.id # pending.id

\* A recurring schedule fires its instants in order.
FiresInOrder ==
  \A s \in Schedules : Recurring(cron[s]) =>
    \A i, j \in DOMAIN fired[s] : i < j => fired[s][i] < fired[s][j]

Inv ==
  TypeOK /\ NoHistory /\ HistoryIsPast /\ SnapshotIsExact /\ PendingIsExact /\ FiresInOrder

-----------------------------------------------------------------------------
\* CalculateNextRun of a recurring cron expression is past the tick.
LEMMA NextRunIsLater ==
  ASSUME TypeOK, NEW e \in due, e.id \in Schedules, tickNow \in Times
  PROVE  /\ NextRun(e) \in Nat
         /\ Recurring(cron[e.id]) => NextRun(e) > tickNow
BY SchedulerAssumption DEF TypeOK, NextRun, Recurring

\* Init establishes the invariant: there is neither schedule nor history.
LEMMA InitInv == Init => Inv
BY SchedulerAssumption
   DEF Init, Inv, TypeOK, NoHistory, HistoryIsPast, SnapshotIsExact, PendingIsExact,
       FiresInOrder

\* Handling a row of the snapshot without a run: it is moved to t, past the
\* tick when its cron recurs, or it is left alone when the write fails.
LEMMA AdvanceStep ==
  ASSUME Inv, NEW e \in due, Takes(e), NEW t \in Nat,
         Recurring(cron[e.id]) => t > tickNow,
         AdvanceScheduleNextRun(e.id, t), UNCHANGED <<now, tickNow, pending>>
  PROVE  Inv'
<1> USE DEF Inv
<1>1. e \in Snapshot /\ e.id \in Schedules /\ e.at = next[e.id] /\ e.at <= tickNow /\ tickNow \in Nat
  BY SchedulerAssumption DEF TypeOK, SnapshotIsExact, Snapshot
<1>2. pending = None /\ pending' = None /\ due' = due \ {e} /\ tickNow' = tickNow
  BY DEF Takes
<1>3. row' = row /\ cron' = cron /\ last' = last /\ occ' = occ /\ fired' = fired
  BY DEF AdvanceScheduleNextRun
<1>4. /\ next' \in [Schedules -> Nat]
      /\ \A s \in Schedules : s # e.id => next'[s] = next[s]
      /\ Recurring(cron[e.id]) => next'[e.id] >= next[e.id]
  <2>1. next[e.id] \in Nat /\ next \in [Schedules -> Nat]
    BY <1>1 DEF TypeOK
  <2>2. CASE UNCHANGED next
    BY <2>1, <2>2
  <2>3. CASE next' = [next EXCEPT ![e.id] = t]
    BY <1>1, <2>1, <2>3
  <2> QED BY <2>2, <2>3 DEF AdvanceScheduleNextRun
<1>5. TypeOK'
  BY <1>2, <1>3, <1>4 DEF TypeOK
<1>6. NoHistory'
  BY <1>3 DEF NoHistory
<1>7. HistoryIsPast'
  <2> SUFFICES ASSUME NEW s \in Schedules, Recurring(cron[s]), row[s] # "absent"
               PROVE  /\ \A i \in DOMAIN fired[s] : fired[s][i] < next'[s]
                      /\ last[s] < next'[s]
                      /\ \A o \in occ : o[1] = s => o[2] < next'[s]
    BY <1>3 DEF HistoryIsPast, Recurring
  <2>1. next'[s] \in Nat /\ next[s] \in Nat /\ next'[s] >= next[s] /\ last[s] \in Nat
    <3>1. CASE s = e.id
      BY <1>4, <3>1 DEF TypeOK
    <3>2. CASE s # e.id
      BY <1>4, <3>2 DEF TypeOK
    <3> QED BY <3>1, <3>2
  <2>2. \A i \in DOMAIN fired[s] : fired[s][i] \in Nat
    BY DEF TypeOK
  <2>3. \A o \in occ : o[2] \in Nat
    BY DEF TypeOK
  <2> QED BY <2>1, <2>2, <2>3 DEF HistoryIsPast
<1>8. SnapshotIsExact'
  <2> SUFFICES ASSUME NEW d \in due, d # e
               PROVE  row[d.id] # "absent" /\ d.at = next'[d.id] /\ d.at <= tickNow /\ tickNow \in Times
    BY <1>2, <1>3 DEF SnapshotIsExact
  <2>1. d \in Snapshot /\ d.at = next[d.id]
    BY DEF TypeOK, SnapshotIsExact
  <2>2. d.id # e.id
    BY <1>1, <2>1 DEF Snapshot
  <2> QED BY <1>4, <2>1, <2>2 DEF SnapshotIsExact, Snapshot
<1>9. PendingIsExact'
  BY <1>2 DEF PendingIsExact
<1>10. FiresInOrder'
  BY <1>3 DEF FiresInOrder, Recurring
<1> QED BY <1>5, <1>6, <1>7, <1>8, <1>9, <1>10

\* A schedule is created with no history, and no snapshot knows it.
LEMMA CreateStep ==
  ASSUME Inv, NEW s \in Schedules, NEW enabled \in {"on", "off"}, CreateSchedule(s, enabled)
  PROVE  Inv'
<1> USE DEF Inv, CreateSchedule
<1>1. TypeOK'
  BY SchedulerAssumption DEF TypeOK
<1>2. NoHistory'
  BY DEF NoHistory, TypeOK
<1>3. HistoryIsPast'
  <2> SUFFICES ASSUME NEW q \in Schedules, Recurring(cron[q]), row'[q] # "absent"
               PROVE  /\ \A i \in DOMAIN fired[q] : fired[q][i] < next'[q]
                      /\ last[q] < next'[q]
                      /\ \A o \in occ : o[1] = q => o[2] < next'[q]
    BY DEF HistoryIsPast, Recurring
  <2>1. CASE q # s
    BY <2>1 DEF HistoryIsPast, TypeOK
  <2>2. CASE q = s
    <3>1. next'[q] > now /\ now \in Nat
      BY <2>2, SchedulerAssumption DEF Recurring, TypeOK
    <3>2. fired[q] = <<>> /\ last[q] = 0 /\ \A o \in occ : o[1] # q
      BY <2>2 DEF NoHistory
    <3> QED BY <2>2, <3>1, <3>2, SchedulerAssumption DEF TypeOK
  <2> QED BY <2>1, <2>2
<1>4. SnapshotIsExact'
  <2> SUFFICES ASSUME NEW e \in due
               PROVE  row'[e.id] # "absent" /\ e.at = next'[e.id] /\ e.at <= tickNow /\ tickNow \in Times
    BY DEF SnapshotIsExact
  <2>1. e.id \in Schedules /\ e.id # s
    BY DEF TypeOK, SnapshotIsExact, Snapshot
  <2> QED BY <2>1 DEF SnapshotIsExact, TypeOK
<1>5. PendingIsExact'
  <2> SUFFICES ASSUME pending # None
               PROVE  /\ row'[pending.id] # "absent"
                      /\ pending.at = next'[pending.id] /\ pending.at <= tickNow /\ tickNow \in Times
                      /\ pending.to = NextAfter[cron[pending.id]][tickNow]
                      /\ \A e \in due : e.id # pending.id
    BY DEF PendingIsExact
  <2>1. pending.id \in Schedules /\ pending.id # s
    BY DEF TypeOK, PendingIsExact, Pending
  <2> QED BY <2>1 DEF PendingIsExact, TypeOK
<1>6. FiresInOrder'
  BY DEF FiresInOrder, Recurring
<1> QED BY <1>1, <1>2, <1>3, <1>4, <1>5, <1>6

\* A deleted row keeps its place in the snapshot and in the history.
LEMMA DeleteStep ==
  ASSUME Inv, NEW s \in Schedules, DeleteSchedule(s)
  PROVE  Inv'
<1> USE DEF Inv, DeleteSchedule
<1>1. \A q \in Schedules : row'[q] = "absent" <=> row[q] = "absent"
  BY DEF TypeOK, Live
<1>2. TypeOK'
  BY DEF TypeOK
<1>3. NoHistory'
  BY <1>1 DEF NoHistory
<1>4. HistoryIsPast'
  BY <1>1 DEF HistoryIsPast, Recurring
<1>5. SnapshotIsExact'
  BY <1>1 DEF SnapshotIsExact, TypeOK, Snapshot
<1>6. PendingIsExact'
  BY <1>1 DEF PendingIsExact, TypeOK, Pending
<1>7. FiresInOrder'
  BY DEF FiresInOrder, Recurring
<1> QED BY <1>2, <1>3, <1>4, <1>5, <1>6, <1>7

\* What a tick reads is exact when it reads it.
LEMMA TickStep ==
  ASSUME Inv, Tick
  PROVE  Inv'
<1> USE DEF Inv
<1>1. PICK D \in SUBSET Schedules : Selection(D) /\ due' = {[id |-> s, at |-> next[s]] : s \in D}
  BY DEF Tick
<1>2. UNCHANGED <<row, cron, next, last, occ, fired, now, pending>> /\ tickNow' = now /\ pending = None
  BY DEF Tick, db
<1>3. \A s \in D : row[s] = "on" /\ next[s] <= now
  BY <1>1 DEF Selection, Due
<1>4. TypeOK'
  BY <1>1, <1>2, SchedulerAssumption DEF TypeOK, Snapshot
<1>5. SnapshotIsExact'
  BY <1>1, <1>2, <1>3 DEF SnapshotIsExact, TypeOK
<1>6. NoHistory' /\ PendingIsExact'
  BY <1>2 DEF NoHistory, PendingIsExact
<1>7. HistoryIsPast' /\ FiresInOrder'
  BY <1>2 DEF HistoryIsPast, FiresInOrder, Recurring
<1> QED BY <1>4, <1>5, <1>6, <1>7

\* The prepared run takes the place of its row in the snapshot.
LEMMA PrepareStep ==
  ASSUME Inv, NEW e \in due, Prepare(e)
  PROVE  Inv'
<1> USE DEF Inv
<1>1. /\ UNCHANGED <<row, cron, next, last, occ, fired, now, tickNow>>
      /\ pending' = [id |-> e.id, at |-> e.at, to |-> NextRun(e)]
      /\ due' = due \ {e}
  BY DEF Prepare, Takes, db
<1>2. e \in Snapshot /\ e.id \in Schedules /\ e.at = next[e.id] /\ tickNow \in Times
  BY DEF TypeOK, SnapshotIsExact, Snapshot
<1>3. TypeOK'
  <2>1. pending' \in Pending
    BY <1>1, <1>2, NextRunIsLater DEF Pending, Snapshot
  <2> QED BY <1>1, <2>1 DEF TypeOK
<1>4. SnapshotIsExact'
  BY <1>1 DEF SnapshotIsExact
<1>5. PendingIsExact'
  <2>1. \A d \in due' : d.id # e.id
    <3> SUFFICES ASSUME NEW d \in due, d # e PROVE d.id # e.id
      BY <1>1
    <3>1. d \in Snapshot /\ d.at = next[d.id]
      BY DEF TypeOK, SnapshotIsExact
    <3> QED BY <1>2, <3>1 DEF Snapshot
  <2> QED BY <1>1, <1>2, <2>1 DEF PendingIsExact, SnapshotIsExact, NextRun
<1>6. NoHistory' /\ HistoryIsPast' /\ FiresInOrder'
  BY <1>1 DEF NoHistory, HistoryIsPast, FiresInOrder, Recurring
<1> QED BY <1>3, <1>4, <1>5, <1>6

\* The occurrence that is recorded is the current next_run_at: later than all
\* that was recorded before, earlier than the next_run_at written with it.
LEMMA RecordStep ==
  ASSUME Inv, Record
  PROVE  Inv'
<1> USE DEF Inv
<1> DEFINE p == pending
<1>1. p # None /\ p \in Pending /\ p.id \in Schedules /\ p.at \in Nat /\ p.to \in Nat
  BY DEF Record, TypeOK, Pending
<1>2. /\ occ' = occ \cup {<<p.id, p.at>>}
      /\ fired' = [fired EXCEPT ![p.id] = Append(@, p.at)]
      /\ next' = [next EXCEPT ![p.id] = p.to]
      /\ last' = [last EXCEPT ![p.id] = p.at]
      /\ pending' = None
      /\ UNCHANGED <<row, cron, now, due, tickNow>>
  BY DEF Record
<1>3. /\ p.at = next[p.id] /\ p.at <= tickNow /\ tickNow \in Times /\ tickNow \in Nat
      /\ row[p.id] # "absent"
      /\ p.to = NextAfter[cron[p.id]][tickNow]
      /\ \A e \in due : e.id # p.id
  BY <1>1, SchedulerAssumption DEF PendingIsExact
<1>4. Recurring(cron[p.id]) => p.to > p.at
  <2>1. Recurring(cron[p.id]) => p.to > tickNow
    BY <1>3 DEF Recurring
  <2> QED BY <1>1, <1>3, <2>1
<1>5. fired'[p.id] = Append(fired[p.id], p.at) /\ fired[p.id] \in Seq(Nat)
  BY <1>1, <1>2 DEF TypeOK
<1>6. TypeOK'
  BY <1>1, <1>2, <1>5 DEF TypeOK
<1>7. NoHistory'
  BY <1>1, <1>2, <1>3 DEF NoHistory, TypeOK
<1>8. HistoryIsPast'
  <2> SUFFICES ASSUME NEW s \in Schedules, Recurring(cron[s]), row[s] # "absent"
               PROVE  /\ \A i \in DOMAIN fired'[s] : fired'[s][i] < next'[s]
                      /\ last'[s] < next'[s]
                      /\ \A o \in occ' : o[1] = s => o[2] < next'[s]
    BY <1>2 DEF HistoryIsPast, Recurring
  <2>1. CASE s # p.id
    BY <1>1, <1>2, <2>1 DEF HistoryIsPast, TypeOK
  <2>2. CASE s = p.id
    <3>1. next'[s] = p.to /\ last'[s] = p.at /\ next[s] = p.at /\ p.to > p.at
      BY <1>1, <1>2, <1>3, <1>4, <2>2 DEF TypeOK
    <3>2. \A i \in DOMAIN fired[s] : fired[s][i] < p.at /\ fired[s][i] \in Nat
      BY <3>1 DEF HistoryIsPast, TypeOK
    <3>3. \A i \in DOMAIN fired'[s] : fired'[s][i] < p.to
      <4> SUFFICES ASSUME NEW i \in DOMAIN fired'[s] PROVE fired'[s][i] < p.to
        OBVIOUS
      <4>1. (i \in DOMAIN fired[s] /\ fired'[s][i] = fired[s][i]) \/ fired'[s][i] = p.at
        <5>1. PICK k : k = Len(fired[s])
          OBVIOUS
        <5>2. fired'[s] = Append(fired[s], p.at) /\ fired[s] \in Seq(Nat)
          BY <1>5, <2>2
        <5>3. /\ k \in Nat /\ DOMAIN fired[s] = 1..k /\ DOMAIN fired'[s] = 1..(k + 1)
              /\ \A j \in 1..k : fired'[s][j] = fired[s][j]
              /\ fired'[s][k + 1] = p.at
          BY <1>1, <5>1, <5>2
        <5> QED BY <5>3
      <4> QED BY <1>1, <3>1, <3>2, <4>1
    <3>4. \A o \in occ : o[1] = s => o[2] < p.at /\ o[2] \in Nat
      BY <3>1 DEF HistoryIsPast, TypeOK
    <3> QED BY <1>1, <1>2, <3>1, <3>3, <3>4
  <2> QED BY <2>1, <2>2
<1>9. SnapshotIsExact'
  <2> SUFFICES ASSUME NEW e \in due
               PROVE  row[e.id] # "absent" /\ e.at = next'[e.id] /\ e.at <= tickNow /\ tickNow \in Times
    BY <1>2 DEF SnapshotIsExact
  <2>1. e.id \in Schedules /\ e.id # p.id
    BY <1>3 DEF TypeOK, Snapshot
  <2> QED BY <1>1, <1>2, <2>1 DEF SnapshotIsExact, TypeOK
<1>10. PendingIsExact'
  BY <1>2 DEF PendingIsExact
<1>11. FiresInOrder'
  <2> SUFFICES ASSUME NEW s \in Schedules, Recurring(cron[s]),
                      NEW i \in DOMAIN fired'[s], NEW j \in DOMAIN fired'[s], i < j
               PROVE  fired'[s][i] < fired'[s][j]
    BY <1>2 DEF FiresInOrder, Recurring
  <2>1. CASE s # p.id
    BY <1>1, <1>2, <2>1 DEF FiresInOrder, TypeOK
  <2>2. CASE s = p.id
    <3>1. \A k \in DOMAIN fired[s] : fired[s][k] < p.at
      BY <1>3, <2>2 DEF HistoryIsPast, TypeOK
    <3>2. fired'[s] = Append(fired[s], p.at) /\ fired[s] \in Seq(Nat)
      BY <1>5, <2>2
    <3>3. i \in DOMAIN fired[s] /\ fired'[s][i] = fired[s][i]
      BY <1>1, <3>2
    <3>4. CASE j \in DOMAIN fired[s]
      BY <3>2, <3>3, <3>4 DEF FiresInOrder
    <3>5. CASE j \notin DOMAIN fired[s]
      BY <1>1, <3>1, <3>2, <3>3, <3>5
    <3> QED BY <3>4, <3>5
  <2> QED BY <2>1, <2>2
<1> QED BY <1>6, <1>7, <1>8, <1>9, <1>10, <1>11

\* Every step keeps the invariant.
LEMMA StepInv == Inv /\ [Next]_vars => Inv'
<1> SUFFICES ASSUME Inv, [Next]_vars PROVE Inv'
  OBVIOUS
<1>1. ASSUME NEW s \in Schedules, NEW enabled \in {"on", "off"}, CreateSchedule(s, enabled)
      PROVE  Inv'
  BY <1>1, CreateStep
<1>2. ASSUME NEW s \in Schedules, DeleteSchedule(s) PROVE Inv'
  BY <1>2, DeleteStep
<1>3. ASSUME NEW t \in Times, SetClock(t) PROVE Inv'
  <2>1. now' \in Times /\ UNCHANGED <<row, cron, next, last, occ, fired, due, tickNow, pending>>
    BY <1>3 DEF SetClock, db
  <2>2. TypeOK'
    BY <2>1 DEF Inv, TypeOK
  <2>3. NoHistory' /\ SnapshotIsExact' /\ PendingIsExact'
    BY <2>1 DEF Inv, NoHistory, SnapshotIsExact, PendingIsExact
  <2>4. HistoryIsPast' /\ FiresInOrder'
    BY <2>1 DEF Inv, HistoryIsPast, FiresInOrder, Recurring
  <2> QED BY <2>2, <2>3, <2>4 DEF Inv
<1>4. CASE Tick
  BY <1>4, TickStep
<1>5. ASSUME NEW e \in due, CalculationFails(e) PROVE Inv'
  <2>1. tickNow + Hour \in Nat /\ tickNow + Hour > tickNow
    BY SchedulerAssumption DEF Inv, TypeOK
  <2> QED BY <1>5, <2>1, AdvanceStep DEF CalculationFails
<1>6. ASSUME NEW e \in due, Skip(e) PROVE Inv'
  <2>1. NextRun(e) \in Nat /\ (Recurring(cron[e.id]) => NextRun(e) > tickNow)
    BY NextRunIsLater DEF Inv, TypeOK, SnapshotIsExact, Snapshot
  <2> QED BY <1>6, <2>1, AdvanceStep DEF Skip
<1>7. ASSUME NEW e \in due, Prepare(e) PROVE Inv'
  BY <1>7, PrepareStep
<1>8. CASE Record
  BY <1>8, RecordStep
<1>9. CASE RecordFails \/ Restart \/ UNCHANGED vars
  <2>1. /\ UNCHANGED <<row, cron, next, last, occ, fired, now>>
        /\ due' = {} \/ (due' = due /\ tickNow' = tickNow)
        /\ pending' = None \/ (pending' = pending /\ due' = due /\ tickNow' = tickNow)
        /\ tickNow' \in {0, tickNow}
    BY <1>9 DEF RecordFails, Restart, db, vars
  <2>2. TypeOK'
    BY <2>1 DEF Inv, TypeOK
  <2>3. NoHistory' /\ SnapshotIsExact'
    BY <2>1 DEF Inv, NoHistory, SnapshotIsExact
  <2>4. PendingIsExact'
    BY <2>1 DEF Inv, PendingIsExact
  <2>5. HistoryIsPast' /\ FiresInOrder'
    BY <2>1 DEF Inv, HistoryIsPast, FiresInOrder, Recurring
  <2> QED BY <2>2, <2>3, <2>4, <2>5 DEF Inv
<1> QED
  BY <1>1, <1>2, <1>3, <1>4, <1>5, <1>6, <1>7, <1>8, <1>9 DEF Next, Api, Loop

-----------------------------------------------------------------------------
\* The invariant holds in every reachable state.
THEOREM InvHolds == Spec => []Inv
BY InitInv, StepInv, PTL DEF Spec

\* Every variable has its type.
THEOREM TypeCorrect == Spec => []TypeOK
<1>1. Inv => TypeOK
  BY DEF Inv
<1> QED BY <1>1, InvHolds, PTL

(***************************************************************************)
(* What no cron expression is needed for: as long as a row is there, all   *)
(* that it fired is in schedule_occurrences, and the key refuses a repeat. *)
(***************************************************************************)
FiredIsRecorded ==
  \A s \in Schedules : Live(s) =>
    \A i \in DOMAIN fired[s] : <<s, fired[s][i]>> \in occ

NeverAgain ==
  \A s \in Schedules : \A i, j \in DOMAIN fired[s] :
    fired[s][i] = fired[s][j] => i = j

OnceInv == FiredIsRecorded /\ NeverAgain

\* Recording a run keeps the history recorded and without a repeat.
LEMMA RecordOnce ==
  ASSUME TypeOK, OnceInv, Record
  PROVE  OnceInv'
<1> DEFINE p == pending
<1>1. /\ p.id \in Schedules /\ p.at \in Nat /\ Live(p.id)
      /\ fired \in [Schedules -> Seq(Nat)] /\ <<p.id, p.at>> \notin occ
  BY DEF Record, TypeOK, Pending
<1>2. /\ occ' = occ \cup {<<p.id, p.at>>} /\ row' = row
      /\ fired' = [fired EXCEPT ![p.id] = Append(@, p.at)]
  BY DEF Record
<1>3. \A s \in Schedules \ {p.id} : fired'[s] = fired[s]
  BY <1>1, <1>2
<1>4. fired'[p.id] = Append(fired[p.id], p.at) /\ fired[p.id] \in Seq(Nat)
  BY <1>1, <1>2
<1>5. \A i \in DOMAIN fired[p.id] :
        fired[p.id][i] # p.at /\ <<p.id, fired[p.id][i]>> \in occ
  BY <1>1 DEF OnceInv, FiredIsRecorded
<1>6. \A i \in DOMAIN fired'[p.id] :
        \/ i \in DOMAIN fired[p.id] /\ fired'[p.id][i] = fired[p.id][i]
        \/ i = Len(fired[p.id]) + 1 /\ fired'[p.id][i] = p.at
  BY <1>1, <1>4
<1>7. FiredIsRecorded'
  <2> SUFFICES ASSUME NEW s \in Schedules, Live(s), NEW i \in DOMAIN fired'[s]
               PROVE  <<s, fired'[s][i]>> \in occ'
    BY <1>2 DEF FiredIsRecorded, Live
  <2>1. CASE s = p.id
    BY <1>2, <1>5, <1>6, <2>1
  <2>2. CASE s # p.id
    BY <1>2, <1>3, <2>2 DEF OnceInv, FiredIsRecorded
  <2> QED BY <2>1, <2>2
<1>8. NeverAgain'
  <2> SUFFICES ASSUME NEW s \in Schedules, NEW i \in DOMAIN fired'[s],
                      NEW j \in DOMAIN fired'[s], fired'[s][i] = fired'[s][j]
               PROVE  i = j
    BY DEF NeverAgain
  <2>1. CASE s = p.id
    BY <1>5, <1>6, <2>1 DEF OnceInv, NeverAgain
  <2>2. CASE s # p.id
    BY <1>3, <2>2 DEF OnceInv, NeverAgain
  <2> QED BY <2>1, <2>2
<1> QED BY <1>7, <1>8 DEF OnceInv

\* Every other step leaves the history alone, or starts or ends a schedule.
LEMMA StepOnce == Inv /\ OnceInv /\ [Next]_vars => OnceInv'
<1> SUFFICES ASSUME Inv, OnceInv, [Next]_vars PROVE OnceInv'
  OBVIOUS
<1>1. CASE Record
  BY <1>1, RecordOnce DEF Inv
<1>2. ASSUME UNCHANGED <<row, occ, fired>> PROVE OnceInv'
  BY <1>2 DEF OnceInv, FiredIsRecorded, NeverAgain, Live
<1>3. ASSUME NEW s \in Schedules, NEW enabled \in {"on", "off"}, CreateSchedule(s, enabled)
      PROVE  OnceInv'
  <2>1. /\ row' = [row EXCEPT ![s] = enabled] /\ UNCHANGED <<occ, fired>>
        /\ fired[s] = <<>>
    BY <1>3 DEF CreateSchedule, Inv, NoHistory
  <2>2. \A q \in Schedules \ {s} : row'[q] = row[q]
    BY <2>1 DEF Inv, TypeOK
  <2> QED BY <2>1, <2>2 DEF OnceInv, FiredIsRecorded, NeverAgain, Live
<1>4. ASSUME NEW s \in Schedules, DeleteSchedule(s) PROVE OnceInv'
  <2>1. /\ row' = [row EXCEPT ![s] = "deleted"] /\ fired' = fired
        /\ occ' = {o \in occ : o[1] # s} /\ row'[s] = "deleted"
    BY <1>4 DEF DeleteSchedule, Inv, TypeOK
  <2>2. \A q \in Schedules \ {s} : row'[q] = row[q]
    BY <2>1 DEF Inv, TypeOK
  <2> QED BY <2>1, <2>2 DEF OnceInv, FiredIsRecorded, NeverAgain, Live
<1>5. ASSUME NEW t \in Times, SetClock(t) PROVE OnceInv'
  BY <1>2, <1>5 DEF SetClock, db
<1>6. ASSUME NEW e \in due, CalculationFails(e) \/ Skip(e) \/ Prepare(e) PROVE OnceInv'
  BY <1>2, <1>6 DEF CalculationFails, Skip, Prepare, AdvanceScheduleNextRun, db
<1>7. CASE Tick \/ RecordFails \/ Restart \/ UNCHANGED vars
  BY <1>2, <1>7 DEF Tick, RecordFails, Restart, db, vars
<1> QED BY <1>1, <1>3, <1>4, <1>5, <1>6, <1>7 DEF Next, Api, Loop

\* No instant of a schedule fires twice, whatever its cron expression, the
\* clock, the failures and the restarts are; and those of a recurring schedule
\* fire in order.
THEOREM AtMostOnce == Spec => []FiresOnceInOrder
<1>1. Init => OnceInv
  BY DEF Init, OnceInv, FiredIsRecorded, NeverAgain
<1>2. Inv /\ OnceInv => FiresOnceInOrder
  <2> SUFFICES ASSUME Inv, OnceInv, NEW s \in Schedules,
                      NEW i \in DOMAIN fired[s], NEW j \in DOMAIN fired[s], i < j
               PROVE  /\ fired[s][i] # fired[s][j]
                      /\ Recurring(cron[s]) => fired[s][i] < fired[s][j]
    BY DEF FiresOnceInOrder
  <2>1. i # j
    BY DEF Inv, TypeOK
  <2>2. fired[s][i] # fired[s][j]
    BY <2>1 DEF OnceInv, NeverAgain
  <2>3. Recurring(cron[s]) => fired[s][i] < fired[s][j]
    BY DEF Inv, FiresInOrder
  <2> QED BY <2>2, <2>3
<1> QED BY <1>1, <1>2, StepOnce, InvHolds, PTL DEF Spec

\* The next run of a recurring schedule is later than every recorded
\* occurrence, so the primary key never refuses an insertion.
THEOREM PastOccurrences == Spec => []OccurrencesArePast
<1>1. Inv => OccurrencesArePast
  BY DEF Inv, OccurrencesArePast, HistoryIsPast, Live
<1> QED BY <1>1, InvHolds, PTL

\* Handling a due row moves it past the tick, so that missed occurrences
\* coalesce into one run.
THEOREM Coalesces == Spec => MissedRunsCoalesce
<1>1. Inv /\ [Next]_vars =>
        [\A s \in Schedules :
           /\ Recurring(cron[s])
           /\ row[s] = "on"
           /\ next'[s] # next[s]
           => next'[s] > next[s] /\ next'[s] > tickNow]_vars
  <2> SUFFICES ASSUME Inv, [Next]_vars, NEW s \in Schedules,
                      Recurring(cron[s]), row[s] = "on", next'[s] # next[s]
               PROVE  next'[s] > next[s] /\ next'[s] > tickNow
    OBVIOUS
  <2>1. next \in [Schedules -> Nat] /\ next[s] \in Nat /\ tickNow \in Nat
    BY DEF Inv, TypeOK
  <2>2. ASSUME NEW e \in due, NEW t \in Nat, AdvanceScheduleNextRun(e.id, t),
               Recurring(cron[e.id]) => t > tickNow
        PROVE  next'[s] > next[s] /\ next'[s] > tickNow
    <3>1. next' = [next EXCEPT ![e.id] = t] /\ s = e.id
      BY <2>1, <2>2 DEF AdvanceScheduleNextRun
    <3>2. next[s] <= tickNow
      BY <3>1 DEF Inv, SnapshotIsExact
    <3> QED BY <2>1, <2>2, <3>1, <3>2
  <2>3. ASSUME NEW e \in due, CalculationFails(e)
        PROVE  next'[s] > next[s] /\ next'[s] > tickNow
    <3>1. tickNow + Hour \in Nat /\ tickNow + Hour > tickNow
      BY <2>1, SchedulerAssumption
    <3> QED BY <2>2, <2>3, <3>1 DEF CalculationFails
  <2>4. ASSUME NEW e \in due, Skip(e)
        PROVE  next'[s] > next[s] /\ next'[s] > tickNow
    <3>1. NextRun(e) \in Nat /\ (Recurring(cron[e.id]) => NextRun(e) > tickNow)
      BY NextRunIsLater DEF Inv, TypeOK, SnapshotIsExact, Snapshot
    <3> QED BY <2>2, <2>4, <3>1 DEF Skip
  <2>5. CASE Record
    <3>1. pending \in Pending /\ next' = [next EXCEPT ![pending.id] = pending.to]
      BY <2>5 DEF Record, Inv, TypeOK
    <3>2. s = pending.id /\ next'[s] = pending.to /\ pending.to \in Nat
      BY <2>1, <3>1 DEF Pending
    <3>3. /\ pending.at = next[s] /\ pending.at <= tickNow /\ tickNow \in Times
          /\ pending.to = NextAfter[cron[s]][tickNow]
      BY <2>5, <3>2 DEF Inv, PendingIsExact, Record
    <3>4. pending.to > tickNow
      BY <3>3 DEF Recurring
    <3> QED BY <2>1, <3>2, <3>3, <3>4
  <2>6. ASSUME NEW q \in Schedules, NEW enabled \in {"on", "off"}, CreateSchedule(q, enabled)
        PROVE  FALSE
    BY <2>1, <2>6 DEF CreateSchedule
  <2>7. Next
    BY DEF vars
  <2>8. ASSUME UNCHANGED next PROVE FALSE
    BY <2>8
  <2>9. ~ Tick /\ ~ RecordFails /\ ~ Restart
    BY <2>8 DEF Tick, RecordFails, Restart, db
  <2>10. /\ \A q \in Schedules : ~ DeleteSchedule(q)
         /\ \A t \in Times : ~ SetClock(t)
         /\ \A e \in due : ~ Prepare(e)
    BY <2>8 DEF DeleteSchedule, SetClock, Prepare, db
  <2> QED
    BY <2>3, <2>4, <2>5, <2>6, <2>7, <2>9, <2>10 DEF Next, Api, Loop
<1> QED BY <1>1, InvHolds, PTL DEF Spec, MissedRunsCoalesce
=============================================================================
