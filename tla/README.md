# ActionsCat: specifications, model checking and proofs

ActionsCat (Go) stores *actions*, small programs with versions and builds, and
executes them in sandboxes when an operator, a cron schedule or a message event
asks for it. A program in its sandbox calls back with a token that lives as
long as its run. This directory holds TLA+ specifications of that core, the TLC
configurations that check them, and TLAPS proofs about them. `PROJECT.json`
maps every definition to the lines it models.

Source paths below are relative to `src/`.

## 1. Inventory

### Components, state and operations

| Component | State | Operations | Module |
|---|---|---|---|
| Run queue and worker pool (`internal/runner`, `runs`, `run_tokens` in `internal/store`) | rows of runs and tokens, wakeup channel, one goroutine per worker, sandbox sessions | PrepareRun, CreateRun, claim, executeRun with its stages and defers, finishRun with retries, Stop, recovery in Start | `RunContract`, `RunQueue` |
| Scheduler (`internal/scheduler`, `schedules`, `schedule_occurrences`) | next_run_at, last_run_at, occurrences; the snapshot of a tick | Tick, processDueSchedule, RecordScheduleOccurrence, AdvanceScheduleNextRun, create and delete | `Scheduler` |
| Runtime API and state files (`internal/runtime`, `internal/store/state_store.go`) | requests in flight, files and temporary files | authenticate in two reads, WriteState, frostagent/send | `RuntimeAPI` |
| Action, version and activation service (`internal/action`) | rows of actions and versions, a mutex per action, source directories | create, update, delete, create version with rollback, activate | `Registry` |
| Builder and artifact store (`internal/build`, `internal/store/source_artifact_store.go`) | rows of builds, build sessions, artifact directories | BuildVersion, InjectSDK, CanonicalizeGoModSDK | `Registry`, `Sandbox`, `GoModFile` |
| Matcher engine and dispatch (`internal/matcher`, `internal/api/dispatch.go`) | rows of matchers, the snapshot a request walks | Normalize, MatchAndDispatch, create and delete matchers | `Dispatch`, `Routing` |
| Delivery contexts, SDK, FrostAgent client (`internal/domain/delivery.go`, `pkg/actionscat`, `internal/frostagent`) | none: conversions | Validate, Environment, GetContext, Reply, Send, NormalizeSendMessageRequest | `Routing` |
| SQLite store (`internal/store/db.go`) | tables, UNIQUE and foreign keys | every statement is a step | guards of all modules |
| Management API (`internal/api/management.go`) | none of its own | handlers of the operations above | actions of all modules |
| Sandbox client (`internal/sandbox/client.go`) | table of sessions; the workers of the gateway | CreateSession, UploadFiles, Exec, ExportFiles, Release, ToolchainBaseline | `Backend`, `Sandbox` |
| Router, authentication, configuration, fake sandbox, adapters, examples | none to speak of | | not modelled, see section 7 |

### Interactions

* The scheduler, the dispatcher and the management API *create* runs; the queue
  is the only consumer. They meet in the table `runs` and in a channel of
  capacity one, whose value is dropped when it is full.
* The queue issues and revokes tokens, the runtime API reads tokens and runs:
  two components that share two tables and no lock.
* The registry decides what is executable; the queue, the scheduler and the
  dispatcher read it in statements of their own before they insert.
* The builder and the runner reach a sandbox only through the interface
  `Backend`. The client turns each of its calls into many commands over HTTP,
  each of which can fail, end late or be answered by somebody else's rules.
* `OpenDB` allows a single connection, so every statement or transaction is
  atomic and all of them are totally ordered. Every module takes one statement
  or one transaction as one step. What the code does *between* statements is
  where interleavings matter.

### Hard behaviours, and what makes each component correct

* **Queue**: concurrent claims, limits that change under it, four kinds of
  failure with retries that end, crash between any two steps, graceful stop.
  Correct when a run is executed once, slots and tokens never leak, nothing but
  expiry or eviction takes from a program what it calls back with, a queued run is
  eventually claimed, and a restart repairs what a crash left.
* **Scheduler**: stale snapshots, clock jumps, failing writes, restarts.
  Correct when each occurrence fires at most once and in order, missed ones
  coalesce, and no due schedule that recurs starves, unless those that never match
  fill the batch.
* **Runtime API**: check-then-act over two reads while runs end and tokens are
  revoked; atomic replacement of files. Correct when no request is let through
  after its token was unusable, effects belong to the token's action, files are
  never torn and a write that was answered ok leaves nothing else.
* **Registry**: files and rows that must agree although each is written on its
  own; numbers drawn by `MAX + 1`; inserts that commit while an error is read.
  Correct when a row never promises files that are not there, and what is active or
  queued can be executed; section 6 names the one exception.
* **Dispatch**: a walk over a snapshot while rows change; partial failure;
  cancelled contexts. Correct when runs follow the ranking, no steady match is
  lost without a word (two ways remain, section 6), and answers are exact.
* **Sandbox**: calls that are many commands, a creation that completes after it
  was given up, a gateway that answers with another contract, workers that are
  evicted, two timeouts of the same length, failures whose status is not read.
  Correct when a program only runs under the policy that was asked for, files
  arrive byte for byte, no session is left without an explanation, outcomes are
  honest and every caller ends.
* **Routing**: six conversions by four packages, with precedence among five
  writers of the same variables. Correct when a reply reaches its trigger.

`PROJECT.json` lists the hazards one by one, each at its line, with the
properties that would catch it.

## 2. The modules

Each `MC*` module extends a specification with the constants of its instances;
each `*Proofs` module extends it with theorems (`RunQueueProofs`,
`SchedulerProofs`, `RuntimeAPIProofs`, `RegistryProofs`, `DispatchProofs`,
`RoutingProofs`; `SandboxProofs` on policies and leaks, and `SandboxFilesProofs`,
which builds on it, on files, outcomes and the contract). Operators whose comment says
"Mutant of" are deliberate bugs: with one put in the place of the definition it
names, TLC finds a property violated, which shows that the property sees it.

**`RunContract`** is the abstract specification: what the runner promises of a
run and its token, without workers, queue or process. `RunQueue` implements it
(`KeepsContract`, with an identity mapping on rows that hides a run a caller has
prepared but not inserted), and `RuntimeAPI` is built on it, so that the runtime
API is checked against *any* runner that keeps the contract.

**`RunQueue`** has one program counter per worker. `Claim` is the transaction of
`ClaimNextQueuedRun`; `Tick`, `Wake`, `DrainEnds` and `Exit` are the select loop;
`Advance` and the named stages are `executeRun` up to the outcome, and
`StageFails` its error returns; `guarded` are the runs whose defers are installed.
Then come `FinishRevoke`, `RecordStatus`, `ReleaseSession` and `DeferredRevoke` in
the order of the code. A session is not only open or gone: a creation that failed
may have opened it, one that was given up (`GivenUp`: a transport error, or `Stop`
cancelling the call) may be completed by the gateway after the release was
acknowledged (`LateCreation`), and the gateway may evict it (`Evict`). `Live` is
what the rows say of a token, `Capable` adds its expiry, which `Expire` lets pass at
any time. `BundleIsEmpty` is the panic of `err.Error()` on a nil error: the defers
run (`UnwindRelease`, `UnwindRevoke`) and the process ends. `CreateRunUnheard` and
`IssueTokenUnheard` are inserts that commit while their context ends. `Stop`, `StopReturns`, `Crash` and `Start` are the life
of the process. `created` is taken in `PrepareRun`, two steps before the insert,
from a clock that never repeats a value. `CreateRun` inserts and fills the
wakeup channel in one step: a wakeup that comes later is one more spurious wake,
which `Tick` subsumes; runs that the scheduler inserts in its transaction are
the same step. `pending` and `cancelled` exist as constants of the domain, but
nothing sets them.

**`Scheduler`** keeps the rows, the occurrences, the snapshot of the tick
(`due`, with the `next_run_at` each row had) and the run that is prepared.
`Selection` is the query with its order and limit; `CalculationFails`, `Skip`,
`Prepare`, `Record` and `RecordFails` are the paths of `processDueSchedule`.
`NextAfter` is the cron library, a constant with the library's promise: the
first match after an instant, or zero.

**`RuntimeAPI`** extends `RunContract`. A request goes through `Arrive`,
`LookupToken`, `CheckRun`, then the steps of its handler: temporary file, write,
rename and reply, or the call to FrostAgent. `RunStep` is any step of the
contract, `Expire` lets a token pass its time, `Restart` loses the requests.
`WriteFails` may leave its temporary file: the code drops the error of its removal.

**`Registry`** gives every management request a record of what it is doing.
Version creation draws its number under the mutex of the action, stages, clears,
renames, inserts and rolls back; a build draws its number, inserts its row,
uses its session, saves and records; activation, update and preparation of runs
are two steps each, because the code reads and writes in two statements.
`InsertVersionUnheard` and `CreateBuildUnheard` commit a row while the caller reads an
error; `unheard` remembers those versions, whose creator goes on to `RollbackSource`.

**`Dispatch`** walks a snapshot: `ListMatchers` reads it (in any order that
`ORDER BY` allows, and cut short by an iteration error, since `rows.Err` is not
read), `Evaluate`, `Prepare` and `CreateRun` handle one row, `CreateRunFails`
is the `continue` of the error path, `Refuse` and `Answer` end it. `Cancel` ends
the context at any step. Three histories say what is owed: `steady`, the matchers
that accept the event and were there, enabled and runnable, all through a request
(`Disturb` takes out those that the management API changes); `cut`, those that an
error of the iteration left out of the list; `failed`, those whose own run could not
be created.

**`Backend`** is the abstract specification of the sandbox boundary: what the
comments of `internal/sandbox/backend.go` promise of a session, with an upload
and an export as one step each. `UploadFiles` takes an open session to a ready
one, with all of the files unless the sandbox is lost by then; only an empty file
may be missing or stale, since the status of its `touch` is not read. `Exec` needs a ready session, or one that was opened for nothing but a
command, as the toolchain check is. `Sandbox` implements it (`KeepsContract`); the
mapping takes the place of a session's owner to a stage of the contract and hides
the files of a worker until the upload has returned, so a partial upload must
never be seen by a command.

**`Sandbox`** is the client with the code that calls it: one build
(`BuildVersion`), the runs of its artifact (`executeRun`) and a toolchain check,
one program counter per session, one step per command sent to a worker. A file is
a sequence of cells, so that chunks of different sizes, appends and truncations
show. `CreateSession`, `CreateRefused` and `CreateAbandoned` are the outcomes of
a creation; `LateCreation` is the gateway completing one that was given up.
`NextFile`, `TouchFile`, `SendChunk` are the loop of `UploadFiles`; `Locate`,
`ReadChunk`, `ReadCutShort`, `ExportFails` and `NextCandidate` that of
`ExportFiles` under the candidate loop of the builder; `ExecAnswer` is what
`Exec` returns for a program of a given span. `ignored` records the failures the
code does not look at (exit status of a touch, a lookup, a read; an export error
before another candidate), `abandoned` and `unreleased` what the properties on
leaks need. A version has a `go.mod` as a sequence of lines, and `InjectSDK` uploads
what `GoModFor` makes of it. `Target` is where a name arrives: the client drops
`sandbox/`, and a shell reads the quoted rest, which changes the names that the
constant `Expands` lists. `Execute` gives a program any span and exit status 0, 1 or
none. `SandboxAssumption` asks of the constants what the types of the code give:
sizes and timeouts are naturals, a `go.mod` has lines; `NamesAssumption` that the
model value for nothing is none of the things it stands for. In `Registry`
and `RunQueue` the same sessions are coarser: there the interleaving of builds,
workers and rows matters, here that of commands.

**`GoModFile`** is the line loop of `CanonicalizeGoModSDK` as it is: `ReadLine` is one
turn with its two flags, `Block` the end of a replace block, `GoModFor` the choice of
`InjectSDK`. A line is what `go` reads in it (`says`) and whether it is written in
the form the loop recognises (`plain`); `WellFormed`, `Requires`, `Replaces` and
`Meaning` are what `go` reads in the whole file, which the result is compared with.

**`Routing`** is a pipeline with one step per conversion. A string is the
sequence of its parts between colons, so formatting with `:` is concatenation
and `Split` is exact, also for identifiers that contain colons. `Parts` is any
set that has the words the code itself writes (`RoutingAssumption`); `Over(f, g)`
is a map that is written after another and wins where both have a variable.

## 3. The runs

| Run | Question | Bounds | Distinct states |
|---|---|---|---|
| `RunQueueSafety` | single execution, slots, tokens, what a program keeps, refinement of `RunContract` under every fault | 2 runs of one action, 2 workers, limit 1..2, one stop, crash or panic, evictions and expiry | 1 899 000 |
| `RunQueueThree` | no open session without its worker, a stop that leaves no token and no running run, first in first out per action | 3 runs of 2 actions, 2 workers, one stop, creations given up and completed late | 1 748 000 |
| `RunQueueLive` | queued runs are claimed, running ones end, Stop returns | 2 runs, 2 workers, crash or panic, failing revocation and release | 136 000 |
| `SchedulerSafety` | once, in order, coalescing | 3 schedules, batch of 2, 3 instants, 3 crons, one of which never matches | 1 878 000 |
| `SchedulerLive` | no due schedule that recurs starves | 3 schedules, one of which never matches, batch of 2, 2 instants | 17 500 |
| `RuntimeAPI` | late requests, isolation, atomic files, temporary files | 3 requests of 2 runs of 2 actions | 1 562 000 |
| `RegistrySafety` | rows and files agree, what is active is executable | 2 requests, 2 versions, 2 builds, failures, unheard commits and crashes anywhere | 4 405 000 |
| `Dispatch` | ranking, no lost match, exact answers, answered at all | 4 matchers of 2 actions, 1 event walk, failures and a leaving client | 190 000 |
| `Routing` | replies reach their trigger | every combination of about 1 700 triggers and 3 072 request bodies | 6 889 249 |
| `Sandbox` | policies, exact files, what a `go.mod` keeps, leaks, honest outcomes, `Backend` implemented, callers end | a build with a run of its artifact, and a toolchain check; 4 versions, 5 contracts the gateway may give, every failure anywhere; every `go.mod` of up to 6 lines of 9 kinds, plain or not | 687 000 |
| `RegistryUpdate`, `SandboxTimeout` | the two findings of section 6 | as `RegistrySafety`, `Sandbox` | until violated |

Why these bounds are enough. The hazards of the queue need two workers and two
runs that compete for a slot; the order of claims needs a third run of another
action, which is what a worker may overtake with. A snapshot goes stale with one
row handled and one left, hence a batch of two of three schedules, and
starvation needs a batch smaller than the number of schedules; in `SchedulerLive`
one that never matches holds a place of every batch, and the other two compete for
the second. That rows which never match may fill a batch is `Crowded`, and there
`DueIsHandled` claims nothing (section 6). The middleware
needs one request per effect and a second writer of the same file. Numbers
drawn twice need two requests and two rows. The walk of a dispatch needs a tie,
a matcher that continues, one that stops and one below both; a second request
shares nothing with the first but the end of the table `runs`, so one is enough.
The crons of `SchedulerSafety` match every instant, every other one, and none.
In `Sandbox` a version has a source that overflows one upload chunk, an empty
file, a `go.mod` of its own that replaces the SDK, a source file named
`entrypoint`, a top directory named `sandbox`, a name with a `$`, and an entrypoint
that no artifact has, spread over four versions; binaries reach from nothing over one short, one
full and one and a half export blocks to beyond the size limit; timeouts lie
below and at the cap of `Exec`, which equals the timeout of the HTTP client as in
the code (120 s each); programs run up to one unit beyond. A build and a run
share nothing but the artifact, so one of each is enough; the toolchain check
shares nothing with either. `MCSandbox` writes a `go.mod` line by line (`WriteLine`)
while there are no sessions, which would only multiply the states: six lines are two
blocks with an entry each, or one with directives before and after, and the loop
keeps no more of what it read than two flags and one open block. Clocks and `MaxDowns`, `MaxVersions`, `MaxLimit`,
`MaxBinary`, `MaxSpan`, `MaxLag`, `MaxLines` are the only caps, and each
guards a constant named so. Identities are never reused, as in the code, so
every instance ends; deadlock checking is off where the instance really stops.
Symmetry is used for workers, schedules, builds and callers, which run the same code on
interchangeable identities, and never in a run with a liveness property.

Deep properties worth reading first: `RunningIsOwned`, `CapabilityHasOwner`,
`ClaimsInOrder`, `NothingIsLeft` and `KeepsContract` of the queue;
`MissedRunsCoalesce` and `DueIsHandled` of the scheduler; `AcceptedWasUsable` of
the runtime API; `GoModIsCanonical` of the builder; `RowsHaveFiles` and `PairsAreExecutable` of the registry;
`EveryMatchIsServed` of the dispatch; `LeaksAreExplained`, `FilesArriveExact` and
`KeepsContract` of the sandbox.

## 4. Fairness

Stated beside each specification, and only for what the program schedules:

* `RunQueue`: the ticker fires again and again, goroutines are scheduled, every
  call of `executeRun` ends (the sandbox bounds Exec by its timeout, database
  calls by their retries), and the service is started again: weak fairness.
  A claim may be refused by database errors any number of times but not for
  ever, and the exit of a worker competes with its ticker in a select that picks
  at random: strong fairness. Nothing is assumed of callers, crashes or Stop.
* `Scheduler`: the loop runs (weak); the write that moves a schedule on does not
  fail for ever (strong, per schedule), and the process does not end each time
  before the transaction of a prepared run returns (strong).
* `Dispatch`: `net/http` runs a handler to its end (weak, per request). Calls
  may fail always; a failing call is also a step.
* `Sandbox`: every HTTP call ends, at the latest with the client's timeout, and
  the goroutine that made it goes on (weak, per session). Nothing is assumed of
  the gateway: it may fail every command, and late creations may never complete.

## 5. The proofs

All theorems hold for every value of the constants that the modules' ASSUMEs
allow: any finite set of runs, any number of workers, any limits, any subset of
the faults, any clock and cron table that keeps the library's promise.

* **`RunQueueProofs`**. The property `OneOwner` is not inductive: a claim keeps
  it only because a run that a worker holds is `running`. The invariant `Inv`
  therefore says what each place of a worker's program implies: a worker that
  executes holds a run (`HoldsInExecution`), the held run has the status and the
  token of that place (`HolderStatus`, `HolderToken`), a run nobody claimed has
  no token (`UnclaimedToken`), a session exists where it is used
  (`HolderSession`: open or evicted), a process that is down has no workers
  (`DownIsEmpty`), and a run whose status write was lost is given up until the
  restart (`LostIsSettled`). Nothing in it speaks of expiry, so `ExecEquipped` says
  exactly that a live program loses its token by expiry only and its session by
  eviction only. From it: `TypeCorrect`, `SingleOwner`, `NoSlotLeak`,
  `CapabilityIsOwned`, `ExecEquipped`. `ClaimsWithinLimit` and `ClaimsKeepOrder`
  are action properties and need that one step adds at most one running run, and
  only by a claim (`RunningGrowth`, over cardinalities). `NothingStays` needs the
  converse of `HolderStatus` and its companions: not what a worker's place says
  of its run, but that every open session, accepted token and running run *has* a
  worker at a place before the call that ends it (`Attended`, inductive on top of
  `Inv`, one part per fault that excuses it). `StopReturns` waits for the
  workers, so nothing is left when it is enabled. `QueueKeepsContract` is the refinement of `RunContract`:
  initial states map to initial states and each of the actions to an action of
  the contract or a stutter.
* **`SchedulerProofs`**. The snapshot of a tick is the danger. `SnapshotIsExact`
  and `PendingIsExact` say that what was read is still what the row holds, or
  the row is gone; `HistoryIsPast` that everything fired lies before
  `next_run_at`. From them `PastOccurrences`, `Coalesces` and the order of
  `AtMostOnce`, for schedules whose cron has a next match. That no instant fires
  twice needs no such match: while a row is there, everything it fired
  is in `schedule_occurrences` (`FiredIsRecorded`), whose key refuses a repeat.
* **`RuntimeAPIProofs`**. Between the two reads of the middleware, a run that is
  still running had a token that was usable at the first read (`LookedUp`): this
  is why checking the status second makes the pair as good as one read. The
  rest relates a handler's place to its temporary file and its effect. The
  steps of runs are those of `RunContract`, so with `QueueKeepsContract` the
  theorems hold over the real queue.
  `GenuineEffects` and `SettledWrites` state what the run checks, from the parts
  `StateIsolated`, `MessagesAuthorized` and `AtomicState`.
* **`RegistryProofs`**. What a request read is out of date when it is used, so
  the invariant says for each place of a request what still holds (`Kept`): its
  version number has no row and it holds the mutex (`VersionKept`); its build row
  is there for as long as the action is, and is still `building` (`BuildKept`);
  the session it compiles in holds its own files (`SessionKept`); the pair it read
  can be executed as long as the action exists (`PairKept`). `Apart` says that no
  two requests number versions of one action, or share a build or a session; it
  stays true because a step of a build changes at most its own artifact, row and
  session (`OwnArtifact`, `OwnRow`, `OwnSession`). It all rests on foreign keys
  (`KeysHold`) and on the fact that a deleted action never comes back. The
  numbers need that `MAX + 1` is new (`BoundedMax`, `NextVersionIsNew`,
  `NextBuildIsPositive`). From it `RowsAlwaysHaveFiles`, `PairsStayExecutable`,
  `BuildsCompileOwnSource`, with any failures and crashes. What these say of files
  they say of versions outside `unheard`; of the rows of a pair they say it of all.
* **`DispatchProofs`**. The answer depends on three things the walk has at once:
  the rest of the snapshot is ranked (`RestIsRanked`), it comes after all that has
  run and what has run lets the walk go on (`RunsComeFirst`), and a matcher that is
  owed a run (steady, neither cut off nor failed itself) is still in the rest or was
  served (`SteadyIsServed`). With the list
  that will be answered (`MineIsExact`) they give `RunsAreRanked`,
  `AnswersAreExact` and `MatchesAreServed`, for any number of requests, matchers
  and changes between two steps.
* **`RoutingProofs`**. The invariant only says that each message is what the
  conversions before it made of the one before; the work is in lemmas about the
  conversions: which writer of a variable wins (`LastWriterWins`,
  `EnvironmentOrder`), that a normalized request is filled in and that this makes
  a second pass idle (`RoutedStays`, `ContentStays`, `NormalizationStays`), and
  what `Reply` addresses (`ReplyIsAddressed`). From them `RepliesReturn`,
  `ScheduledRepliesArrive` and `SecondNormalizationIsIdle`, for any identifiers, bodies,
  captures and states, where the run enumerates a few thousand.
* **`SandboxProofs`**. A worker that appears after its creation was given up was
  never compared with the request: `PolicyHolds` is inductive only with
  `AbandonedIsOver`, the owner of such a creation has nothing left but its
  release. The steps that use a session share one lemma (`WorkStep`): they change
  files of its worker and go on to other work or to the release, never past it.
  From it `PolicyIsKept` and `NothingElseLeaks`, for any set of contracts that a
  gateway may answer with, any versions and any sizes.
* **`SandboxFilesProofs`**. That files arrive exact is only visible at the end of
  a transfer; `FilesInv` says what is true in the middle of one. `Phases` is the
  order of build and runs, which is why the artifact does not change under a run.
  `Transfer`: the worker has of the file in transfer exactly the cells sent so far.
  `Delivery`: what is neither waiting nor in transfer has arrived, and there is
  nothing else in the worker. `Export`: the buffer is the whole chunks read of the
  candidate, and a candidate was passed over only because it was not there.
  `Executed` and `Honest` are about one run each. The arithmetic of chunks is in
  `CellsBefore`, `PartOfPart` and `PartRead`; that the loop over a `go.mod` runs
  through and yields lines is in `ScanRuns`, `ReadLineKeeps` and `GoModIsText`. From it `TypeCorrect`, `FilesAreExact` and
  `OutcomesAreHonest`. `ClientKeepsContract` is the refinement of `Backend`: the
  contract sees how far the owner of each session is (`Views`), and its files only once
  the upload has returned (`Seen`); every command before that is a stutter, the
  return of the upload is `UploadFiles`, and `Delivery` is what makes it one.

Every safety invariant, action property and refinement that a passing run checks
is thus also a theorem, with one exception: `GoModIsCanonical` is about what a fold
over the lines computes, which needs induction over data, and is checked for files of
up to six lines. What is proved for a `go.mod` of any size is that the build
command sees exactly what that loop made of it, with the directive of the builder
last. Also only model-checked are the liveness properties (`QueuedIsClaimed`,
`RunningEnds`, `StopEnds`, `DueIsHandled`, `RequestIsAnswered`, `CallersEnd`):
fairness and ENABLED are out of this prover's reach. The properties of section 6 are
refuted by their runs.

## 6. Where code and documents disagree

1. `RegistryUpdate`: an update of an action writes back every column it read,
   and so undoes an activation in between.
2. `SandboxTimeout`: `backend.go` says that timeouts return a valid result with no
   error. `Exec` asks the gateway for at most 120 s, and its HTTP client gives up
   after 120 s as well, so a program that overruns a timeout of 120 s or more is
   recorded `failed`; below that, `OutcomeIsHonest` shows that it is `timed_out`.
   A version that asks for more than 120 s gets 120 s and no word of it.

Observed while reading, and not a run of its own; where a property has to make room
for it, the property is named:

* The comment above `CommitSourceBundle` (`service.go:218`) promises that no visible
  record exists without files. `ExecContext` can return the error of a context that
  ended while the statement committed, and the creator then removes the files of a
  row that stays, which may be built and activated in between. `RowsHaveFiles` and
  `PairsAreExecutable` except these versions (`unheard`) and nothing else.
* A cron expression that matches no date ("0 0 30 2 *") yields the zero time with no
  error. The schedule is accepted, due at once and for ever, and as the earliest row
  it takes a place of every batch, although the comment of `Tick` says that it
  evaluates all due schedules and advances `next_run_at`. As many such rows as the
  batch has places starve all others. `DueIsHandled` claims nothing of these rows,
  nor of the others once the batch is `Crowded`; `FiresOnceInOrder` shows that the
  key of `schedule_occurrences` keeps such a row from a second run of its instant.
* The comment of `MatchAndDispatch` says that it evaluates events deterministically
  against the enabled matchers. `ListEnabledMatchers` does not ask `rows.Err`: when
  the iteration ends with an error, the matchers read so far are taken for all of
  them, and the event is answered with 200 (`cut` in `EveryMatchIsServed`).
* `CanonicalizeGoModSDK` says that it removes conflicting replacements of the SDK and
  preserves all else. It recognises a directive only by the prefix `replace ` and the
  plain word `actionscat`, and the end of a block only as a bare bracket: a tab or a
  quoted name keeps a second replacement, and a block closed by `) // comment`
  swallows what follows. `GoModIsCanonical` shows that with plain brackets nothing
  but plain replacements of the SDK is lost.
* When both revocations of a run exhaust their retries, the errors are dropped
  and the run ends with an unrevoked token row, although the README promises
  revocation at the end of a run. `CapabilityHasOwner` shows that the
  middleware's second check keeps the token useless.
* A matcher whose own run cannot be created is logged and passed over: the event is
  answered ok without it (`failed` in `EveryMatchIsServed`). This and the list cut
  short are the only silent losses.
* `executeRun` calls `err.Error()` on a nil error when an artifact directory has no
  files: the process ends, with the run recovered at the next start
  (`BundleIsEmpty`).
* A token expires 5 minutes and its timeout after the run was claimed, and
  provisioning and upload come out of that: nothing bounds them by 5 minutes.
  `ExecIsEquipped` shows that this, and an eviction, are the only ways in which a
  program loses its token or its session.
* `WriteState` drops the errors of `os.Remove`: a write that fails may leave its
  temporary file (`WritesAreSettled`).
* `UploadFiles` drops a leading `sandbox/` of a path: a source with a directory
  of that name is flattened, and two files may meet. Names are quoted for Go and
  read by a shell, so one with `$` or a backtick arrives under another name
  (`FilesArriveExact` exempts sources with such names).
* A version may name an entrypoint other than `entrypoint`; the artifact never
  has it, so its builds succeed and its runs fail.
* A read of an export whose `dd` failed or timed out is taken for the end of the
  file, the exit status of a touch is not read, a nil exit code of a program
  counts as success of a run and of a build (`OutcomeIsHonest` names it), and
  `ToolchainBaseline` parses whatever was printed.
* The README says a sandbox is destroyed when its run is over. `LeaksAreExplained`
  names the two ways in which it is not: a release that is not acknowledged,
  which nobody repeats, and a creation that completes after it was given up, a
  graceful stop being one way to give it up (`NothingIsLeft`).
* `main` shuts the HTTP server down, the runtime API with it, before it stops the
  runner: programs that still execute lose their callbacks.
* An event that carries nothing but a session of the form
  `platform:type:target` is answered by `Reply` with the whole session as target
  and the platform `default`, while `SendMessage` on the same session takes it
  apart. `ReplyReachesOrigin` is stated for events with a user or a group.
* A client that leaves during a dispatch and retries its event runs it again,
  since an event has no identity.

## 7. Not modelled, and why

* The gateway behind the sandbox client: it is the environment of `Sandbox`, free to
  fail, to come late, to evict and to provide another contract than was asked for;
  but what it announces it provides, and what a command prints is what the files
  hold. In `RunQueue` and `Registry` it is external steps. Of the client, symbolic
  links, files of the image outside `/sandbox` and the aliases of several export
  paths (every caller passes one) are left out; what a shell makes of a quoted name
  is the constant `Expands`. A file does not grow while it is exported, so
  `CallersEnd` says nothing of one that does; the limit on artifacts ends that loop.
* The directories that `MkdirAll` makes for a state file, which stay when its write
  fails; blank lines and comments of a `go.mod`.
* Authentication of the management and dispatch planes: a stateless comparison
  of bearer tokens in front of every handler; a refused request changes nothing.
* What a pattern matches, what a cron expression matches, contents of files,
  digests, hashes: constants or identities, since no property depends on them.
* `CleanOrphanedVersions` and `UpdateSchedule`: only tests call them.
* Parsing of `.env` files and the additive migration of the table `schedules`:
  text processing, and a single statement at start-up.
* The fake sandbox, the empty adapters and the examples.

## 8. Plan

Done in this order: the contract and the queue with its proofs, the scheduler
with its proofs, the runtime API over the contract with its proofs, the
registry, the dispatch, the routing, the sandbox over its contract; then the
proofs of the last four, of `NothingIsLeft` and of `ClaimsInOrder`.

Next:

1. Composition: the scheduler and the dispatch as callers of `RunContract`, so
   that an occurrence or a match is followed to the end of its run.
2. A clock in the queue, to say under which bounds on provisioning and upload the
   buffer of 5 minutes is enough; now a token may expire at any time.
3. Path sanitization of state files as a pure algorithm beside `Routing`.
