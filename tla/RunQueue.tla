------------------------------ MODULE RunQueue ------------------------------
(***************************************************************************)
(* The persistent run queue (internal/runner/runner.go over the runs and   *)
(* run_tokens tables of internal/store/sqlite_store.go): callers that      *)
(* prepare and insert runs, a pool of workers that drain the queue and     *)
(* execute what they claim, graceful stop, crash, and the recovery of      *)
(* orphan runs at the next start.  Each database statement or transaction, *)
(* and each call to the sandbox, is one step.                              *)
(***************************************************************************)
EXTENDS Naturals, FiniteSets

CONSTANTS
  Runs,      \* run identities
  Actions,   \* action identities
  ActionOf,  \* the action each run is created for
  Workers,   \* the goroutines of the worker pool
  NoRun,     \* a worker holds no run
  Faults,    \* what may fail beyond the code's retries, end early or come late
  MaxLimit,  \* cap on actions.max_concurrency
  MaxDowns   \* cap on the number of stops and crashes

ASSUME QueueAssumption ==
  /\ IsFiniteSet(Runs)
  /\ NoRun \notin Runs
  /\ ActionOf \in [Runs -> Actions]
  /\ Faults \subseteq {"revoke", "status", "release", "create", "evict", "expire", "crash"}
  /\ MaxLimit \in Nat \ {0}
  /\ MaxDowns \in Nat

VARIABLES
  \* database
  status,    \* runs.status; "prepared" is a run a caller holds, not yet inserted
  created,   \* runs.created_at, taken by PrepareRun (0: id not handed out yet)
  token,     \* the run_tokens row of each run
  limit,     \* actions.max_concurrency
  \* sandbox service
  session,   \* the sandbox session of each run
  \* process
  phase,     \* "up", "stopping" (the context is cancelled) or "down"
  wakeup,    \* the wakeup channel (capacity 1) holds a value
  pc,        \* what each worker does next
  cur,       \* the run each worker executes
  outcome,   \* the status each worker is about to record
  guarded,   \* runs whose deferred calls are installed
  \* bookkeeping of the model
  expired,   \* tokens past their ExpiresAt
  clock,     \* creation times handed out
  downs,     \* stops and crashes so far
  lost       \* runs whose final status write failed all its attempts

db == <<status, created, token, limit>>
marks == <<expired, clock, lost>>
vars == <<status, created, token, limit, session, phase, wakeup, pc, cur,
          outcome, guarded, expired, clock, downs, lost>>

Terminal == {"succeeded", "failed", "timed_out", "interrupted"}
Status == {"absent", "prepared", "queued", "running"} \cup Terminal
TokenState == {"none", "active", "revoked"}
Phase == {"up", "stopping", "down"}

\* "abandoned": the client gave the creation up, and the gateway may still
\* complete it; "late": it did; "evicted": the gateway ended the session.
Session == {"none", "open", "evicted", "abandoned", "late"}

\* The stages of executeRun in program order, before its outcome is known.
Stage == {"load", "issue", "provision", "upload", "exec"}
\* A panic runs the deferred calls and then ends the process.
Unwinding == {"panic", "unwind"}
\* Stages in which the worker's run still has status running.
Busy == Stage \cup Unwinding \cup {"revoke", "record"}
\* The deferred calls, run after finishRun.
Deferred == {"release", "rerevoke"}
PC == {"idle", "drain", "exited"} \cup Busy \cup Deferred

\* Mutant of HasSlot: <= for < in the claim query.
HasSlotOffByOne(r) ==
  Cardinality({q \in Runs : ActionOf[q] = ActionOf[r] /\ status[q] = "running"})
    <= limit[ActionOf[r]]

RunningOf(a) == {r \in Runs : ActionOf[r] = a /\ status[r] = "running"}
HasSlot(r) == Cardinality(RunningOf(ActionOf[r])) < limit[ActionOf[r]]
Eligible == {r \in Runs : status[r] = "queued" /\ HasSlot(r)}

\* The rows that AuthenticateMiddleware reads admit a request with the token of
\* r, and do so until the token expires.
Live(r) == token[r] = "active" /\ status[r] = "running"
Capable(r) == Live(r) /\ r \notin expired

-----------------------------------------------------------------------------
Init ==
  /\ status = [r \in Runs |-> "absent"]
  /\ created = [r \in Runs |-> 0]
  /\ token = [r \in Runs |-> "none"]
  /\ limit \in [Actions -> 1..MaxLimit]
  /\ session = [r \in Runs |-> "none"]
  /\ phase = "up"
  /\ wakeup = FALSE
  /\ pc = [w \in Workers |-> "idle"]
  /\ cur = [w \in Workers |-> NoRun]
  /\ outcome = [w \in Workers |-> "failed"]
  /\ guarded = {}
  /\ expired = {}
  /\ clock = 0
  /\ downs = 0
  /\ lost = {}

-----------------------------------------------------------------------------
\* Callers: the run id and created_at are fixed before the row is inserted.
PrepareRun(r) ==
  /\ phase = "up"
  /\ status[r] = "absent"
  /\ created[r] = 0
  /\ clock' = clock + 1
  /\ status' = [status EXCEPT ![r] = "prepared"]
  /\ created' = [created EXCEPT ![r] = clock']
  /\ UNCHANGED <<token, limit, session, phase, wakeup, pc, cur, outcome, guarded, expired, downs, lost>>

\* A handler that outlives http.Server.Shutdown may insert while stopping.
CreateRun(r) ==
  /\ phase # "down"
  /\ status[r] = "prepared"
  /\ status' = [status EXCEPT ![r] = "queued"]
  /\ wakeup' = TRUE
  /\ UNCHANGED <<created, token, limit, session, phase, pc, cur, outcome, guarded, marks, downs>>

CreateRunFails(r) ==
  /\ phase # "down"
  /\ status[r] = "prepared"
  /\ status' = [status EXCEPT ![r] = "absent"]
  /\ UNCHANGED <<created, token, limit, session, phase, wakeup, pc, cur, outcome, guarded, marks, downs>>

\* The statement commits although the request's context ended while it ran: the
\* caller reads an error, and the queue is not woken.
CreateRunUnheard(r) ==
  /\ phase # "down"
  /\ status[r] = "prepared"
  /\ status' = [status EXCEPT ![r] = "queued"]
  /\ UNCHANGED <<created, token, limit, session, phase, wakeup, pc, cur, outcome, guarded, marks, downs>>

\* PUT /actions/:id ignores a limit that is not positive.
UpdateLimit(a, n) ==
  /\ phase = "up"
  /\ limit' = [limit EXCEPT ![a] = n]
  /\ UNCHANGED <<status, created, token, session, phase, wakeup, pc, cur, outcome, guarded, marks, downs>>

-----------------------------------------------------------------------------
\* Mutant of Tick: no ticker, a worker only reacts to the wakeup channel.
TickOnlyOnWakeup(w) ==
  /\ phase # "down"
  /\ pc[w] = "idle"
  /\ wakeup
  /\ wakeup' = FALSE
  /\ pc' = [pc EXCEPT ![w] = "drain"]
  /\ UNCHANGED <<db, session, phase, cur, outcome, guarded, marks, downs>>

\* workerLoop: select picks any ready case, the tick among them.
Tick(w) ==
  /\ phase # "down"
  /\ pc[w] = "idle"
  /\ pc' = [pc EXCEPT ![w] = "drain"]
  /\ UNCHANGED <<db, session, phase, wakeup, cur, outcome, guarded, marks, downs>>

Wake(w) ==
  /\ phase # "down"
  /\ pc[w] = "idle"
  /\ wakeup
  /\ wakeup' = FALSE
  /\ pc' = [pc EXCEPT ![w] = "drain"]
  /\ UNCHANGED <<db, session, phase, cur, outcome, guarded, marks, downs>>

Exit(w) ==
  /\ phase = "stopping"
  /\ pc[w] = "idle"
  /\ pc' = [pc EXCEPT ![w] = "exited"]
  /\ UNCHANGED <<db, session, phase, wakeup, cur, outcome, guarded, marks, downs>>

\* Mutant of DrainEnds: the loop does not look at the context.
DrainEndsOnlyWhenEmpty(w) ==
  /\ phase # "down"
  /\ pc[w] = "drain"
  /\ Eligible = {}
  /\ pc' = [pc EXCEPT ![w] = "idle"]
  /\ UNCHANGED <<db, session, phase, wakeup, cur, outcome, guarded, marks, downs>>

\* drainQueue returns: context cancelled, claim error, or nothing to claim.
DrainEnds(w) ==
  /\ phase # "down"
  /\ pc[w] = "drain"
  /\ pc' = [pc EXCEPT ![w] = "idle"]
  /\ UNCHANGED <<db, session, phase, wakeup, cur, outcome, guarded, marks, downs>>

\* Mutants of Claim: the row is read but not marked running; latest run first.
ClaimWithoutMark(w, r) ==
  /\ phase = "up"
  /\ pc[w] = "drain"
  /\ r \in Eligible
  /\ cur' = [cur EXCEPT ![w] = r]
  /\ pc' = [pc EXCEPT ![w] = "load"]
  /\ UNCHANGED <<db, session, phase, wakeup, outcome, guarded, marks, downs>>

ClaimLatestFirst(w, r) ==
  /\ phase = "up"
  /\ pc[w] = "drain"
  /\ r \in Eligible
  /\ \A q \in Eligible : created[r] >= created[q]
  /\ status' = [status EXCEPT ![r] = "running"]
  /\ cur' = [cur EXCEPT ![w] = r]
  /\ pc' = [pc EXCEPT ![w] = "load"]
  /\ UNCHANGED <<created, token, limit, session, phase, wakeup, outcome, guarded, marks, downs>>

\* ClaimNextQueuedRun: the earliest queued run whose action has a free slot.
Claim(w, r) ==
  /\ phase = "up"
  /\ pc[w] = "drain"
  /\ r \in Eligible
  /\ \A q \in Eligible : created[r] <= created[q]
  /\ status' = [status EXCEPT ![r] = "running"]
  /\ cur' = [cur EXCEPT ![w] = r]
  /\ pc' = [pc EXCEPT ![w] = "load"]
  /\ UNCHANGED <<created, token, limit, session, phase, wakeup, outcome, guarded, marks, downs>>

-----------------------------------------------------------------------------
\* executeRun.  The stages use the worker's context: none succeeds once the
\* runner is stopping.
Advance(w, from, to) ==
  /\ phase = "up"
  /\ pc[w] = from
  /\ pc' = [pc EXCEPT ![w] = to]

\* Mutant of LoadVersion: the run goes to the sandbox without a token.
LoadVersionSkipToken(w) ==
  /\ Advance(w, "load", "provision")
  /\ UNCHANGED <<db, session, phase, wakeup, cur, outcome, guarded, marks, downs>>

LoadVersion(w) ==
  /\ Advance(w, "load", "issue")
  /\ UNCHANGED <<db, session, phase, wakeup, cur, outcome, guarded, marks, downs>>

\* From here on the deferred calls run, however executeRun returns.
IssueToken(w) ==
  /\ Advance(w, "issue", "provision")
  /\ token' = [token EXCEPT ![cur[w]] = "active"]
  /\ guarded' = guarded \cup {cur[w]}
  /\ UNCHANGED <<status, created, limit, session, phase, wakeup, cur, outcome, marks, downs>>

\* The token is stored, but Stop cancelled the statement and an error is read.
IssueTokenUnheard(w) ==
  /\ phase = "stopping"
  /\ pc[w] = "issue"
  /\ pc' = [pc EXCEPT ![w] = "revoke"]
  /\ token' = [token EXCEPT ![cur[w]] = "active"]
  /\ outcome' = [outcome EXCEPT ![w] = "failed"]
  /\ UNCHANGED <<status, created, limit, session, phase, wakeup, cur, guarded, marks, downs>>

CreateSession(w) ==
  /\ Advance(w, "provision", "upload")
  /\ session' = [session EXCEPT ![cur[w]] = "open"]
  /\ UNCHANGED <<db, phase, wakeup, cur, outcome, guarded, marks, downs>>

UploadArtifact(w) ==
  /\ Advance(w, "upload", "exec")
  /\ session[cur[w]] = "open"
  /\ UNCHANGED <<db, session, phase, wakeup, cur, outcome, guarded, marks, downs>>

\* Mutant of Exec: a status outside the set the domain defines.
ExecUnknownStatus(w) ==
  /\ Advance(w, "exec", "revoke")
  /\ \E s \in {"succeeded", "failed", "timeout"} : outcome' = [outcome EXCEPT ![w] = s]
  /\ UNCHANGED <<db, session, phase, wakeup, cur, guarded, marks, downs>>

Exec(w) ==
  /\ Advance(w, "exec", "revoke")
  /\ session[cur[w]] = "open"
  /\ \E s \in {"succeeded", "failed", "timed_out"} : outcome' = [outcome EXCEPT ![w] = s]
  /\ UNCHANGED <<db, session, phase, wakeup, cur, guarded, marks, downs>>

\* Mutant of StageFails: an error path that returns without finishRun.
StageFailsUnfinished(w) ==
  /\ phase # "down"
  /\ pc[w] \in Stage
  /\ pc' = [pc EXCEPT ![w] = "drain"]
  /\ cur' = [cur EXCEPT ![w] = NoRun]
  /\ UNCHANGED <<db, session, phase, wakeup, outcome, guarded, marks, downs>>

\* Creations whose answer nobody waits for any more.
GivenUp(R) ==
  [r \in Runs |-> IF r \in R /\ "create" \in Faults THEN "abandoned" ELSE session[r]]

\* Any stage may fail, and then the run is finished as failed.  A creation that
\* reports an error may have opened the session, or still do so.
StageFails(w) ==
  /\ phase # "down"
  /\ pc[w] \in Stage
  /\ pc' = [pc EXCEPT ![w] = "revoke"]
  /\ outcome' = [outcome EXCEPT ![w] = "failed"]
  /\ \/ UNCHANGED session
     \/ pc[w] = "provision" /\ session' = [session EXCEPT ![cur[w]] = "open"]
     \/ pc[w] = "provision" /\ session' = GivenUp({cur[w]})
  /\ UNCHANGED <<db, phase, wakeup, cur, guarded, marks, downs>>

\* ReadArtifactBundle finds the directory but no file in it, as while another
\* request removes it: err.Error() of a nil error panics.
BundleIsEmpty(w) ==
  /\ "crash" \in Faults
  /\ phase # "down"
  /\ pc[w] = "upload"
  /\ downs < MaxDowns
  /\ pc' = [pc EXCEPT ![w] = "panic"]
  /\ downs' = downs + 1
  /\ UNCHANGED <<db, session, phase, wakeup, cur, outcome, guarded, marks>>

\* The gateway and the clock act on their own.
LateCreation(r) ==
  /\ session[r] = "abandoned"
  /\ session' = [session EXCEPT ![r] = "late"]
  /\ UNCHANGED <<db, phase, wakeup, pc, cur, outcome, guarded, marks, downs>>

Evict(r) ==
  /\ "evict" \in Faults
  /\ session[r] \in {"open", "late"}
  /\ session' = [session EXCEPT ![r] = "evicted"]
  /\ UNCHANGED <<db, phase, wakeup, pc, cur, outcome, guarded, marks, downs>>

\* ExpiresAt counts from before the stages: slow ones use its buffer up.
Expire(r) ==
  /\ "expire" \in Faults
  /\ Capable(r)
  /\ expired' = expired \cup {r}
  /\ UNCHANGED <<db, session, phase, wakeup, pc, cur, outcome, guarded, clock, downs, lost>>

-----------------------------------------------------------------------------
\* finishRun, with a context of its own: first the token, then the status.
Revoked(w) == [token EXCEPT ![cur[w]] = IF @ = "active" THEN "revoked" ELSE @]
RevokeTokens(w) ==
  /\ token' = Revoked(w) \/ ("revoke" \in Faults /\ UNCHANGED token)
  /\ UNCHANGED <<status, created, limit>>

FinishRevoke(w) ==
  /\ phase # "down"
  /\ pc[w] = "revoke"
  /\ RevokeTokens(w)
  /\ pc' = [pc EXCEPT ![w] = "record"]
  /\ UNCHANGED <<session, phase, wakeup, cur, outcome, guarded, marks, downs>>

\* A run that failed before its defers were installed returns straight to
\* drainQueue.
Return(w) ==
  /\ outcome' = [outcome EXCEPT ![w] = "failed"]
  /\ IF cur[w] \in guarded
       THEN /\ pc' = [pc EXCEPT ![w] = "release"]
            /\ UNCHANGED cur
       ELSE /\ pc' = [pc EXCEPT ![w] = "drain"]
            /\ cur' = [cur EXCEPT ![w] = NoRun]

RecordStatus(w) ==
  /\ phase # "down"
  /\ pc[w] = "record"
  /\ status' = [status EXCEPT ![cur[w]] = outcome[w]]
  /\ Return(w)
  /\ UNCHANGED <<created, token, limit, session, phase, wakeup, guarded, marks, downs>>

RecordStatusFails(w) ==
  /\ phase # "down"
  /\ "status" \in Faults
  /\ pc[w] = "record"
  /\ lost' = lost \cup {cur[w]}
  /\ Return(w)
  /\ UNCHANGED <<db, session, phase, wakeup, guarded, expired, clock, downs>>

\* A gateway that is still at work on the creation knows no such session, which
\* Release takes for an acknowledgement.
Release(w) ==
  \/ session' = [session EXCEPT ![cur[w]] = IF @ = "abandoned" THEN @ ELSE "none"]
  \/ "release" \in Faults /\ UNCHANGED session

\* The deferred calls run in reverse order: Release, then a second revocation.
ReleaseSession(w) ==
  /\ phase # "down"
  /\ pc[w] = "release"
  /\ Release(w)
  /\ pc' = [pc EXCEPT ![w] = "rerevoke"]
  /\ UNCHANGED <<db, phase, wakeup, cur, outcome, guarded, marks, downs>>

DeferredRevoke(w) ==
  /\ phase # "down"
  /\ pc[w] = "rerevoke"
  /\ RevokeTokens(w)
  /\ pc' = [pc EXCEPT ![w] = "drain"]
  /\ cur' = [cur EXCEPT ![w] = NoRun]
  /\ UNCHANGED <<session, phase, wakeup, outcome, guarded, marks, downs>>

-----------------------------------------------------------------------------
\* Runner.Stop cancels the workers' context and waits for them.
Stop ==
  /\ phase = "up"
  /\ downs < MaxDowns
  /\ phase' = "stopping"
  /\ downs' = downs + 1
  /\ UNCHANGED <<db, session, wakeup, pc, cur, outcome, guarded, marks>>

\* What the end of the process takes with it: channel, workers, the runs that
\* callers prepared but did not insert, and the answers of the gateway.
ForgetProcess ==
  /\ phase' = "down"
  /\ wakeup' = FALSE
  /\ pc' = [w \in Workers |-> "idle"]
  /\ cur' = [w \in Workers |-> NoRun]
  /\ outcome' = [w \in Workers |-> "failed"]
  /\ status' = [r \in Runs |-> IF status[r] = "prepared" THEN "absent" ELSE status[r]]
  /\ session' = GivenUp({r \in Runs : \E w \in Workers : cur[w] = r /\ pc[w] = "provision"})
  /\ UNCHANGED <<created, limit, guarded, marks>>

\* Mutant of StopReturns: Stop does not wait for the worker pool.
StopWithoutWait ==
  /\ phase = "stopping"
  /\ ForgetProcess
  /\ UNCHANGED <<token, downs>>

StopReturns ==
  /\ phase = "stopping"
  /\ \A w \in Workers : pc[w] = "exited"
  /\ ForgetProcess
  /\ UNCHANGED <<token, downs>>

Crash ==
  /\ "crash" \in Faults
  /\ phase # "down"
  /\ downs < MaxDowns
  /\ ForgetProcess
  /\ downs' = downs + 1
  /\ UNCHANGED token

\* The deferred calls of a worker that panics, and the end of the process.
UnwindRelease(w) ==
  /\ phase # "down"
  /\ pc[w] = "panic"
  /\ Release(w)
  /\ pc' = [pc EXCEPT ![w] = "unwind"]
  /\ UNCHANGED <<db, phase, wakeup, cur, outcome, guarded, marks, downs>>

UnwindRevoke(w) ==
  /\ phase # "down"
  /\ pc[w] = "unwind"
  /\ token' = Revoked(w) \/ ("revoke" \in Faults /\ UNCHANGED token)
  /\ ForgetProcess
  /\ UNCHANGED downs

\* Mutants of Start: the workers start without recovery; recovery interrupts
\* queued runs as well.
StartWithoutRecovery ==
  /\ phase = "down"
  /\ phase' = "up"
  /\ lost' = {}
  /\ UNCHANGED <<db, session, wakeup, pc, cur, outcome, guarded, expired, clock, downs>>

StartInterruptsQueued ==
  /\ phase = "down"
  /\ phase' = "up"
  /\ token' = [r \in Runs |-> IF Live(r) THEN "revoked" ELSE token[r]]
  /\ status' = [r \in Runs |-> IF status[r] \in {"queued", "running"} THEN "interrupted" ELSE status[r]]
  /\ lost' = {}
  /\ UNCHANGED <<created, limit, session, wakeup, pc, cur, outcome, guarded, expired, clock, downs>>

\* Runner.Start: one recovery transaction, then the workers.  When it fails
\* three times the process exits before any worker is launched: no step.
Start ==
  /\ phase = "down"
  /\ phase' = "up"
  /\ token' = [r \in Runs |-> IF Live(r) THEN "revoked" ELSE token[r]]
  /\ status' = [r \in Runs |-> IF status[r] = "running" THEN "interrupted" ELSE status[r]]
  /\ lost' = {}
  /\ UNCHANGED <<created, limit, session, wakeup, pc, cur, outcome, guarded, expired, clock, downs>>

-----------------------------------------------------------------------------
Caller == \E r \in Runs :
  PrepareRun(r) \/ CreateRun(r) \/ CreateRunFails(r) \/ CreateRunUnheard(r)
Outside == \E r \in Runs : LateCreation(r) \/ Evict(r) \/ Expire(r)

\* The steps of the loop around executeRun, and those of executeRun itself.
Loop(w) ==
  \/ Tick(w) \/ Wake(w) \/ Exit(w) \/ DrainEnds(w)
  \/ \E r \in Runs : Claim(w, r)

Execute(w) ==
  \/ LoadVersion(w) \/ IssueToken(w) \/ IssueTokenUnheard(w) \/ CreateSession(w)
  \/ UploadArtifact(w) \/ Exec(w) \/ StageFails(w) \/ BundleIsEmpty(w)
  \/ FinishRevoke(w) \/ RecordStatus(w) \/ RecordStatusFails(w)
  \/ ReleaseSession(w) \/ DeferredRevoke(w)
  \/ UnwindRelease(w) \/ UnwindRevoke(w)

Process == Stop \/ StopReturns \/ Crash \/ Start

Next ==
  \/ Caller
  \/ Outside
  \/ \E a \in Actions, n \in 1..MaxLimit : UpdateLimit(a, n)
  \/ \E w \in Workers : Loop(w) \/ Execute(w)
  \/ Process

Spec == Init /\ [][Next]_vars

(***************************************************************************)
(* Fairness.  The ticker fires again and again, goroutines are scheduled,  *)
(* every call of executeRun ends (the sandbox bounds Exec by its timeout,  *)
(* the database calls by their retries), and the service is started again. *)
(* A claim can be refused by a transient database error any number of      *)
(* times but not for ever, hence strong fairness for Claim; the exit of a  *)
(* worker competes with its ticker in a select that picks at random.       *)
(* Nothing is assumed of callers, of crashes or of Stop.                   *)
(***************************************************************************)
Fairness ==
  /\ \A w \in Workers :
       /\ WF_vars(Tick(w))
       /\ WF_vars(DrainEnds(w))
       /\ SF_vars(\E r \in Runs : Claim(w, r))
       /\ SF_vars(Exit(w))
       /\ WF_vars(Execute(w))
  /\ WF_vars(StopReturns)
  /\ WF_vars(Start)

FairSpec == Spec /\ Fairness

-----------------------------------------------------------------------------
TypeOK ==
  /\ status \in [Runs -> Status]
  /\ created \in [Runs -> Nat]
  /\ token \in [Runs -> TokenState]
  /\ limit \in [Actions -> 1..MaxLimit]
  /\ session \in [Runs -> Session]
  /\ phase \in Phase
  /\ wakeup \in BOOLEAN
  /\ pc \in [Workers -> PC]
  /\ cur \in [Workers -> Runs \cup {NoRun}]
  /\ outcome \in [Workers -> Terminal]
  /\ guarded \in SUBSET Runs
  /\ expired \in SUBSET Runs
  /\ clock \in Nat
  /\ downs \in Nat
  /\ lost \in SUBSET Runs

Owned(r) == \E w \in Workers : cur[w] = r /\ pc[w] \in Busy

\* No run is executed by two workers: a claim is exclusive, and a run that was
\* given up by one worker is never picked up by another.
OneOwner ==
  \A v, w \in Workers : v # w /\ cur[v] # NoRun => cur[v] # cur[w]

\* No concurrency slot leaks: while the process lives, a run with status
\* running (what the claim query counts) is in the hands of a worker that will
\* still record its outcome, or its final status write failed.
RunningIsOwned ==
  \A r \in Runs : status[r] = "running" /\ phase # "down" => Owned(r) \/ r \in lost

\* A capability ends with its run: while the process lives, a token the
\* runtime API accepts belongs to a run whose worker has not passed the
\* revocation yet; only if revocations fail can it last until the status is
\* written, and only if that fails as well can it last until a restart.  None of
\* this relies on the expiry of the token.
CapabilityHasOwner ==
  \A r \in Runs : Live(r) /\ phase # "down" =>
    \/ \E w \in Workers : cur[w] = r /\ pc[w] \in Stage \cup Unwinding \cup {"revoke"}
    \/ "revoke" \in Faults /\ (Owned(r) \/ r \in lost)

\* Nothing in the service takes from a program what it needs to call back: while
\* it executes, only the expiry of its token can make the runtime API refuse it,
\* and only an eviction by the gateway can end its session.
ExecIsEquipped ==
  \A w \in Workers : pc[w] = "exec" =>
    /\ cur[w] \notin expired => Capable(cur[w])
    /\ session[cur[w]] \in {"open", "evicted"}

\* Whatever stage an execution fails at, its session does not survive the
\* worker's return, as long as releases succeed and the process does not crash,
\* unless the client gave its creation up and the gateway completed it after the
\* release; and a graceful stop leaves nothing else for the recovery: no session,
\* no accepted token and no run still running, as long as the call that ends each
\* succeeds.
NothingIsLeft ==
  "crash" \notin Faults =>
    /\ "release" \notin Faults =>
         \A r \in Runs : session[r] = "open" => \E w \in Workers : cur[w] = r
    /\ phase = "down" =>
         /\ "revoke" \notin Faults => \A r \in Runs : token[r] # "active"
         /\ "status" \notin Faults => \A r \in Runs : status[r] # "running"

\* No step makes more runs of an action running than its current limit allows.
LimitRespected ==
  [][\A a \in Actions :
       Cardinality(RunningOf(a)') > Cardinality(RunningOf(a))
         => Cardinality(RunningOf(a)') <= limit[a]]_vars

\* FIFO: a queued run is never overtaken by a later one of the same action.
ClaimsInOrder ==
  [][\A q, r \in Runs :
       /\ ActionOf[q] = ActionOf[r]
       /\ status[q] = "queued" /\ status[r] = "queued"
       /\ created[q] < created[r]
       /\ status'[r] = "running"
       => status'[q] = "running"]_vars

\* The runner keeps the contract of runs and tokens; a prepared run is no row.
Contract == INSTANCE RunContract WITH
  status <- [r \in Runs |-> IF status[r] = "prepared" THEN "absent" ELSE status[r]]
KeepsContract == Contract!Spec

\* Every queued run is claimed, across lowered limits, lost wakeups, transient
\* claim errors, stops and crashes.
QueuedIsClaimed == \A r \in Runs : status[r] = "queued" ~> status[r] # "queued"

\* Every claimed run reaches a terminal status.
RunningEnds == \A r \in Runs : status[r] = "running" ~> status[r] \in Terminal

\* A graceful stop ends: Stop's wait for the workers cannot hang.
StopEnds == phase = "stopping" ~> phase = "down"
=============================================================================
