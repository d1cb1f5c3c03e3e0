------------------------------ MODULE Registry ------------------------------
(***************************************************************************)
(* The registry of actions, versions and builds: internal/action/service.go *)
(* and internal/build/builder.go over SQLite and the file store.           *)
(* Management requests run concurrently; a request is a sequence of        *)
(* database statements, file operations and sandbox calls, any of which    *)
(* may fail, and the process may end between any two.  Only the creation   *)
(* of versions is serialized, by a mutex per action; the rest relies on    *)
(* UNIQUE and foreign keys.                                                *)
(***************************************************************************)
EXTENDS Naturals, FiniteSets, FiniteSetsExt

CONSTANTS
  Actions,      \* action identities, never reused
  Builds,       \* build ids, drawn at random and never reused
  Callers,      \* management requests in flight
  MaxVersions,  \* cap on the versions of an action
  Faults,       \* "fail": any call may fail; "crash": the process may end
  None          \* nothing is active; no build

ASSUME RegistryAssumption ==
  /\ MaxVersions \in Nat
  /\ None \notin Builds
  /\ Faults \subseteq {"fail", "crash"}

\* "ver_<action>_<number>"; "build-<action>-<version>-<number>"
Versions == [action : Actions, number : 1..MaxVersions]
Sessions == [version : Versions, number : Nat]
\* The columns active_version_id and active_build_id.
Pairs == [version : Versions, build : Builds]

VARIABLES
  \* database
  actions,   \* the row of each action: "absent", "present", "deleted"
  enabled,   \* its enabled column
  active,    \* its active pair, or None
  versions,  \* rows of action_versions
  builds,    \* rows of artifact_builds: build -> [version, number, status]
  runs,      \* the pairs that rows of runs refer to
  \* disk
  source,    \* versions whose directory holds a committed source bundle
  artifact,  \* the artifact of each build: "none", "partial", "whole"
  \* sandbox service
  inside,    \* what each session compiles: session -> the build that uploaded
  \* process
  locked,    \* actions whose mutex is held
  call,      \* what each request is doing
  \* bookkeeping of the model
  unheard    \* versions whose row was committed while their creator read an error

dbvars == <<actions, enabled, active, versions, builds, runs, unheard>>
diskvars == <<source, artifact>>
vars == <<actions, enabled, active, versions, builds, runs, source, artifact, inside, locked, call,
          unheard>>

CanFail == "fail" \in Faults
Put(f, k, v) == [x \in DOMAIN f \cup {k} |-> IF x = k THEN v ELSE f[x]]
Without(f, K) == [x \in DOMAIN f \ K |-> f[x]]

Idle == [at |-> "idle"]
Become(c, to) == call' = [call EXCEPT ![c] = to]
Go(c, at) == call' = [call EXCEPT ![c].at = at]
Done(c) == Become(c, Idle)

-----------------------------------------------------------------------------
Init ==
  /\ actions = [a \in Actions |-> "absent"]
  /\ enabled = [a \in Actions |-> FALSE]
  /\ active = [a \in Actions |-> None]
  /\ versions = {}
  /\ builds = <<>>
  /\ runs = {}
  /\ source = {}
  /\ artifact = [b \in Builds |-> "none"]
  /\ inside = <<>>
  /\ locked = {}
  /\ call = [c \in Callers |-> Idle]
  /\ unheard = {}

CreateAction(a) ==
  /\ actions[a] = "absent"
  /\ actions' = [actions EXCEPT ![a] = "present"]
  /\ enabled' = [enabled EXCEPT ![a] = TRUE]
  /\ UNCHANGED <<active, versions, builds, runs, diskvars, inside, locked, call, unheard>>

\* Mutant of DeleteAction: foreign keys are off, rows that refer to it stay.
DeleteActionRowOnly(a) ==
  /\ actions[a] = "present"
  /\ actions' = [actions EXCEPT ![a] = "deleted"]
  /\ versions' = {v \in versions : v.action # a}
  /\ builds' = Without(builds, {b \in DOMAIN builds : builds[b].version.action = a})
  /\ active' = [active EXCEPT ![a] = None]
  /\ UNCHANGED <<enabled, runs, diskvars, inside, locked, call, unheard>>

\* runs refers to actions without ON DELETE CASCADE; the rest cascades.
DeleteAction(a) ==
  /\ actions[a] = "present"
  /\ \A p \in runs : p.version.action # a
  /\ actions' = [actions EXCEPT ![a] = "deleted"]
  /\ versions' = {v \in versions : v.action # a}
  /\ builds' = Without(builds, {b \in DOMAIN builds : builds[b].version.action = a})
  /\ active' = [active EXCEPT ![a] = None]
  /\ UNCHANGED <<enabled, runs, diskvars, inside, locked, call, unheard>>

-----------------------------------------------------------------------------
\* action.Service.CreateVersion, up to the mutex.
CreateVersion(c, a) ==
  /\ call[c] = Idle
  /\ actions[a] = "present"
  /\ Become(c, [at |-> "lock", action |-> a])
  /\ UNCHANGED <<dbvars, diskvars, inside, locked>>

NextVersion(a) == 1 + Max({0} \cup {v.number : v \in {u \in versions : u.action = a}})

\* Mutant of NumberVersion: the mutex is not taken.
NumberVersionUnlocked(c) ==
  LET a == call[c].action IN
  /\ call[c].at = "lock"
  /\ NextVersion(a) <= MaxVersions
  /\ Become(c, [at |-> "stage", version |-> [action |-> a, number |-> NextVersion(a)]])
  /\ UNCHANGED <<dbvars, diskvars, inside, locked>>

\* The mutex is taken, and held until the request returns.
NumberVersion(c) ==
  LET a == call[c].action IN
  /\ call[c].at = "lock"
  /\ a \notin locked
  /\ NextVersion(a) <= MaxVersions
  /\ locked' = locked \cup {a}
  /\ Become(c, [at |-> "stage", version |-> [action |-> a, number |-> NextVersion(a)]])
  /\ UNCHANGED <<dbvars, diskvars, inside>>

Unlock(c) == locked' = locked \ {call[c].version.action}

\* The bundle is written to a directory of its own, which nothing else reads.
StageSource(c) ==
  /\ call[c].at = "stage"
  /\ Go(c, "clear")
  /\ UNCHANGED <<dbvars, diskvars, inside, locked>>

\* The directory of a version holds the artifacts of its builds as well.
Rows(v) == {b \in DOMAIN builds : builds[b].version = v}
RemoveDirectory(v) ==
  /\ source' = source \ {v}
  /\ artifact' = [b \in Builds |-> IF b \in Rows(v) THEN "none" ELSE artifact[b]]

\* CommitSourceBundle: what an earlier attempt left goes, then the rename.
ClearVersion(c) ==
  /\ call[c].at = "clear"
  /\ RemoveDirectory(call[c].version)
  /\ Go(c, "rename")
  /\ UNCHANGED <<dbvars, inside, locked>>

RenameSource(c) ==
  /\ call[c].at = "rename"
  /\ source' = source \cup {call[c].version}
  /\ Go(c, "insert")
  /\ UNCHANGED <<dbvars, artifact, inside, locked>>

\* The bundle cannot be staged or committed, and the staging directory goes.
SourceFails(c) ==
  /\ CanFail
  /\ call[c].at \in {"lock", "stage", "clear", "rename"}
  /\ IF call[c].at = "lock" THEN UNCHANGED locked ELSE Unlock(c)
  /\ Done(c)
  /\ UNCHANGED <<dbvars, diskvars, inside>>

InsertVersion(c) ==
  LET v == call[c].version IN
  /\ call[c].at = "insert"
  /\ actions[v.action] = "present"
  /\ v \notin versions
  /\ versions' = versions \cup {v}
  /\ Unlock(c)
  /\ Done(c)
  /\ UNCHANGED <<actions, enabled, active, builds, runs, diskvars, inside, unheard>>

\* The statement commits although its client left while it ran: the row is there
\* and an error is read.
InsertVersionUnheard(c) ==
  LET v == call[c].version IN
  /\ CanFail
  /\ call[c].at = "insert"
  /\ actions[v.action] = "present"
  /\ v \notin versions
  /\ versions' = versions \cup {v}
  /\ unheard' = unheard \cup {v}
  /\ Go(c, "rollback")
  /\ UNCHANGED <<actions, enabled, active, builds, runs, diskvars, inside, locked>>

\* The action was deleted, the number is taken, or the database fails.
InsertVersionFails(c) ==
  LET v == call[c].version IN
  /\ call[c].at = "insert"
  /\ CanFail \/ actions[v.action] # "present" \/ v \in versions
  /\ Go(c, "rollback")
  /\ UNCHANGED <<dbvars, diskvars, inside, locked>>

\* DeleteSourceBundle, whose error is dropped; nothing asks whether the row is
\* really missing.
RollbackSource(c) ==
  /\ call[c].at = "rollback"
  /\ RemoveDirectory(call[c].version) \/ (CanFail /\ UNCHANGED diskvars)
  /\ Unlock(c)
  /\ Done(c)
  /\ UNCHANGED <<dbvars, inside>>

-----------------------------------------------------------------------------
\* Mutant of NextBuild: the increment is forgotten.
NextBuildNotIncremented(v) == Max({0} \cup {builds[b].number : b \in Rows(v)})

NextBuild(v) == 1 + Max({0} \cup {builds[b].number : b \in Rows(v)})

\* Builder.BuildVersion: the version and its source bundle are read.
BuildVersion(c, v) ==
  /\ call[c] = Idle
  /\ v \in versions
  /\ v \in source
  /\ Become(c, [at |-> "number", version |-> v])
  /\ UNCHANGED <<dbvars, diskvars, inside, locked>>

NumberBuild(c) ==
  LET v == call[c].version IN
  /\ call[c].at = "number"
  /\ Become(c, [at |-> "create", version |-> v, number |-> NextBuild(v)])
  /\ UNCHANGED <<dbvars, diskvars, inside, locked>>

\* The stages of a build that has a row, and an id that no build has had.
Building == {"session", "upload", "compile", "save", "saving", "succeed", "fail", "release"}
Unused(b) ==
  /\ b \notin DOMAIN builds
  /\ artifact[b] = "none"
  /\ \A c \in Callers : call[c].at \in Building => call[c].build # b

\* Mutant of CreateBuild: no UNIQUE(version_id, build_number).
CreateBuildAnyNumber(c, b) ==
  LET v == call[c].version IN
  /\ call[c].at = "create"
  /\ v \in versions
  /\ Unused(b)
  /\ builds' = Put(builds, b, [version |-> v, number |-> call[c].number, status |-> "building"])
  /\ Become(c, [at |-> "session", version |-> v, number |-> call[c].number, build |-> b])
  /\ UNCHANGED <<actions, enabled, active, versions, runs, diskvars, inside, locked, unheard>>

CreateBuild(c, b) ==
  LET v == call[c].version IN
  /\ call[c].at = "create"
  /\ v \in versions
  /\ Unused(b)
  /\ \A d \in Rows(v) : builds[d].number # call[c].number
  /\ builds' = Put(builds, b, [version |-> v, number |-> call[c].number, status |-> "building"])
  /\ Become(c, [at |-> "session", version |-> v, number |-> call[c].number, build |-> b])
  /\ UNCHANGED <<actions, enabled, active, versions, runs, diskvars, inside, locked, unheard>>

\* The row is committed, and the request ends with the error it reads.
CreateBuildUnheard(c, b) ==
  LET v == call[c].version IN
  /\ CanFail
  /\ call[c].at = "create"
  /\ v \in versions
  /\ Unused(b)
  /\ \A d \in Rows(v) : builds[d].number # call[c].number
  /\ builds' = Put(builds, b, [version |-> v, number |-> call[c].number, status |-> "building"])
  /\ Done(c)
  /\ UNCHANGED <<actions, enabled, active, versions, runs, diskvars, inside, locked, unheard>>

\* The version is gone, another build took the number, or a read failed.
CreateBuildFails(c) ==
  LET v == call[c].version IN
  /\ call[c].at \in {"number", "create"}
  /\ \/ CanFail
     \/ call[c].at = "create" /\ v \notin versions
     \/ call[c].at = "create" /\ \E d \in Rows(v) : builds[d].number = call[c].number
  /\ Done(c)
  /\ UNCHANGED <<dbvars, diskvars, inside, locked>>

Session(c) == [version |-> call[c].version, number |-> call[c].number]

CreateSession(c) ==
  /\ call[c].at = "session"
  /\ inside' = Put(inside, Session(c), None)
  /\ Go(c, "upload")
  /\ UNCHANGED <<dbvars, diskvars, locked>>

UploadSource(c) ==
  /\ call[c].at = "upload"
  /\ inside' = Put(inside, Session(c), call[c].build)
  /\ Go(c, "compile")
  /\ UNCHANGED <<dbvars, diskvars, locked>>

\* The build command and the export of what it left in the session.
Compile(c) ==
  /\ call[c].at = "compile"
  /\ Go(c, "save")
  /\ UNCHANGED <<dbvars, diskvars, inside, locked>>

\* A call to the sandbox fails, or the command does, or it times out.
SandboxFails(c) ==
  /\ call[c].at \in {"session", "upload", "compile"}
  /\ Go(c, "fail")
  /\ UNCHANGED <<dbvars, diskvars, inside, locked>>

\* SaveArtifactBundle writes in place; what was begun is lost when a rollback
\* removes the directory meanwhile.
SaveArtifact(c) ==
  /\ call[c].at \in {"save", "saving"}
  /\ artifact' = [artifact EXCEPT ![call[c].build] =
                    CASE call[c].at = "save" -> "partial"
                      [] call[c].at = "saving" /\ @ = "partial" -> "whole"
                      [] OTHER -> @]
  /\ Go(c, IF call[c].at = "save" THEN "saving" ELSE "succeed")
  /\ UNCHANGED <<dbvars, source, inside, locked>>

SaveFails(c) ==
  /\ CanFail
  /\ call[c].at \in {"save", "saving"}
  /\ Go(c, "fail")
  /\ UNCHANGED <<dbvars, diskvars, inside, locked>>

\* UpdateBuildResult, with the context of the request: the row may be gone with
\* its action, or the client with its context, and then the result is lost.
Update(c, result) ==
  LET b == call[c].build IN
  /\ \/ b \in DOMAIN builds /\ builds' = [builds EXCEPT ![b].status = result]
     \/ (CanFail \/ b \notin DOMAIN builds) /\ UNCHANGED builds
  /\ Go(c, "release")
  /\ UNCHANGED <<actions, enabled, active, versions, runs, diskvars, inside, locked, unheard>>

RecordSuccess(c) == call[c].at = "succeed" /\ Update(c, "succeeded")

RecordFailure(c) ==
  /\ call[c].at = "fail"
  /\ \E result \in {"failed", "timed_out"} : Update(c, result)

\* The deferred Release.
ReleaseSession(c) ==
  /\ call[c].at = "release"
  /\ inside' = Without(inside, {Session(c)}) \/ (CanFail /\ UNCHANGED inside)
  /\ Done(c)
  /\ UNCHANGED <<dbvars, diskvars, locked>>

-----------------------------------------------------------------------------
\* ActivateBuild reads the build; SetActiveBuild writes the pair.
ActivateBuild(c, a, p) ==
  /\ call[c] = Idle
  /\ p.build \in DOMAIN builds
  /\ p.version = builds[p.build].version /\ p.version.action = a
  /\ builds[p.build].status = "succeeded"
  /\ Become(c, [at |-> "activate", action |-> a, pair |-> p])
  /\ UNCHANGED <<dbvars, diskvars, inside, locked>>

SetActiveBuild(c) ==
  LET a == call[c].action IN
  /\ call[c].at = "activate"
  /\ IF actions[a] = "present"
       THEN active' = [active EXCEPT ![a] = call[c].pair]
       ELSE UNCHANGED active
  /\ Done(c)
  /\ UNCHANGED <<actions, enabled, versions, builds, runs, diskvars, inside, locked, unheard>>

\* UpdateAction reads the whole row and writes the whole row.
UpdateAction(c, a, e) ==
  /\ call[c] = Idle
  /\ actions[a] = "present"
  /\ Become(c, [at |-> "update", action |-> a, enabled |-> e, pair |-> active[a]])
  /\ UNCHANGED <<dbvars, diskvars, inside, locked>>

WriteAction(c) ==
  LET a == call[c].action IN
  /\ call[c].at = "update"
  /\ IF actions[a] = "present"
       THEN /\ enabled' = [enabled EXCEPT ![a] = call[c].enabled]
            /\ active' = [active EXCEPT ![a] = call[c].pair]
       ELSE UNCHANGED <<enabled, active>>
  /\ Done(c)
  /\ UNCHANGED <<actions, versions, builds, runs, diskvars, inside, locked, unheard>>

-----------------------------------------------------------------------------
\* Runner.PrepareRun reads the action, then the version and the build; the run
\* row is inserted later, by CreateRun or RecordScheduleOccurrence.
PrepareRun(c, a) ==
  /\ call[c] = Idle
  /\ actions[a] = "present" /\ enabled[a]
  /\ active[a] # None
  /\ Become(c, [at |-> "check", pair |-> active[a]])
  /\ UNCHANGED <<dbvars, diskvars, inside, locked>>

CheckBuild(c) ==
  LET p == call[c].pair IN
  /\ call[c].at = "check"
  /\ IF /\ p.version \in versions
        /\ p.build \in DOMAIN builds
        /\ builds[p.build].status = "succeeded"
       THEN Go(c, "run")
       ELSE Done(c)
  /\ UNCHANGED <<dbvars, diskvars, inside, locked>>

\* The foreign keys of runs.
CreateRun(c) ==
  LET p == call[c].pair IN
  /\ call[c].at = "run"
  /\ \/ /\ p.version \in versions /\ p.build \in DOMAIN builds
        /\ runs' = runs \cup {p}
     \/ /\ CanFail \/ p.version \notin versions \/ p.build \notin DOMAIN builds
        /\ UNCHANGED runs
  /\ Done(c)
  /\ UNCHANGED <<actions, enabled, active, versions, builds, diskvars, inside, locked, unheard>>

-----------------------------------------------------------------------------
\* The process ends and is started again: requests and mutexes are gone.
Restart ==
  /\ "crash" \in Faults
  /\ locked' = {}
  /\ call' = [c \in Callers |-> Idle]
  /\ UNCHANGED <<dbvars, diskvars, inside>>

Request(c) ==
  \/ \E a \in Actions :
       \/ CreateVersion(c, a) \/ PrepareRun(c, a)
       \/ \E e \in BOOLEAN : UpdateAction(c, a, e)
       \/ \E p \in Pairs : ActivateBuild(c, a, p)
  \/ \E v \in Versions : BuildVersion(c, v)

VersionStep(c) ==
  \/ NumberVersion(c) \/ StageSource(c) \/ ClearVersion(c) \/ RenameSource(c)
  \/ SourceFails(c) \/ InsertVersion(c) \/ InsertVersionUnheard(c)
  \/ InsertVersionFails(c) \/ RollbackSource(c)

BuildStep(c) ==
  \/ NumberBuild(c) \/ CreateBuildFails(c)
  \/ \E b \in Builds : CreateBuild(c, b) \/ CreateBuildUnheard(c, b)
  \/ CreateSession(c) \/ UploadSource(c) \/ Compile(c) \/ SandboxFails(c)
  \/ SaveArtifact(c) \/ SaveFails(c)
  \/ RecordSuccess(c) \/ RecordFailure(c) \/ ReleaseSession(c)

PairStep(c) == SetActiveBuild(c) \/ WriteAction(c) \/ CheckBuild(c) \/ CreateRun(c)

Next ==
  \/ \E a \in Actions : CreateAction(a) \/ DeleteAction(a)
  \/ \E c \in Callers : Request(c) \/ VersionStep(c) \/ BuildStep(c) \/ PairStep(c)
  \/ Restart

Spec == Init /\ [][Next]_vars

-----------------------------------------------------------------------------
BuildStatus == {"building", "succeeded", "failed", "timed_out"}
BuildRow == [version : Versions, number : Nat \ {0}, status : BuildStatus]

TypeOK ==
  /\ actions \in [Actions -> {"absent", "present", "deleted"}]
  /\ enabled \in [Actions -> BOOLEAN]
  /\ active \in [Actions -> Pairs \cup {None}]
  /\ versions \subseteq Versions
  /\ DOMAIN builds \subseteq Builds
  /\ \A b \in DOMAIN builds : builds[b] \in BuildRow
  /\ runs \subseteq Pairs
  /\ source \subseteq Versions
  /\ artifact \in [Builds -> {"none", "partial", "whole"}]
  /\ DOMAIN inside \subseteq Sessions
  /\ \A s \in DOMAIN inside : inside[s] \in Builds \cup {None}
  /\ locked \subseteq Actions
  /\ unheard \subseteq Versions

\* Rows never promise files that are not there, whoever creates versions and
\* builds at the same time and wherever a request fails or is cut off, with one
\* exception: a version in the database has its source on disk, and a build is
\* only reported succeeded when its artifact is complete, unless the insert of the
\* version was committed while its creator read an error and rolled the files back.
RowsHaveFiles ==
  /\ versions \ unheard \subseteq source
  /\ \A b \in DOMAIN builds :
       builds[b].status = "succeeded" /\ builds[b].version \notin unheard => artifact[b] = "whole"

\* A pair that can be executed: the version exists, and the build is one of this
\* version, succeeded, and left its whole artifact, if the version was not rolled
\* back by mistake.
Executable(p) ==
  /\ p.version \in versions
  /\ p.build \in DOMAIN builds
  /\ builds[p.build].version = p.version
  /\ builds[p.build].status = "succeeded"
  /\ p.version \notin unheard => artifact[p.build] = "whole"

\* What is active can be executed: neither the gap between the check and the
\* write of an activation, nor a stale row written back by an update, nor the
\* deletion of an action, leaves a pair that was never built.  And what
\* PrepareRun checked still holds when the run is inserted and for as long as
\* the run exists: executeRun finds its version and, except for a version whose
\* creator rolled its committed row's files back, its artifact.
PairsAreExecutable ==
  /\ \A a \in Actions : active[a] # None =>
       Executable(active[a]) /\ active[a].version.action = a
  /\ \A p \in runs : Executable(p)

\* Two builds of one version at the same time do not share a sandbox session:
\* what a build compiles is what it uploaded itself.
CompilesOwnSource ==
  \A c \in Callers : call[c].at = "compile" =>
    Session(c) \in DOMAIN inside /\ inside[Session(c)] = call[c].build

\* The README on PUT /actions/:id: it updates metadata and the concurrency
\* limit.  So the build that is active stays active.
UpdateKeepsActive ==
  [][\A c \in Callers : WriteAction(c) => active' = active]_vars
=============================================================================
