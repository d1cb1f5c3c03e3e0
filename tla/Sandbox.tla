------------------------------- MODULE Sandbox -------------------------------
(***************************************************************************)
(* The sandbox client (internal/sandbox/client.go) and the calls that      *)
(* carry a version from its source files to a running program: one build   *)
(* (internal/build/builder.go), the runs of its artifact                   *)
(* (internal/runner/runner.go) and toolchain checks.  The gateway and its  *)
(* workers are the environment: they may answer a creation with another    *)
(* contract, answer late or not at all, evict workers and fail commands.   *)
(* Each command sent to a worker is one step.                              *)
(*                                                                         *)
(* A file is a sequence of cells; a cell is a line, and says which file it *)
(* is from.  What a line says matters in go.mod only.  Names are relative  *)
(* to /sandbox and given as their path components.                         *)
(***************************************************************************)
EXTENDS Integers, Sequences, FiniteSets, GoModFile

CONSTANTS
  Build,         \* the session that builds the version
  Runs,          \* the sessions of runs of the built artifact
  Checks,        \* the sessions of ToolchainBaseline
  Scenarios,     \* sets of sessions that are opened together
  None,          \* no worker, no file, nothing yet
  Versions,      \* versions: source (name -> cells), the lines of its go.mod,
                 \* entry, timeout, fetches, policy
  Expands,       \* names that a shell reads as others between double quotes
  Policies,      \* contracts the gateway may provide
  Hosts,         \* the hosts of the network
  MaxBinary,     \* cap on the cells of a compiled binary
  UploadChunk,   \* chunkSize of UploadFiles, in cells
  ExportChunk,   \* exportChunkBytes of ExportFiles
  MaxArtifact,   \* MaxArtifactTotalBytes
  MaxTimeout,    \* the timeout Exec asks for at most
  ClientTimeout, \* the timeout of the HTTP client
  MaxSpan,       \* cap on how long a program runs when it is not stopped
  MaxLag         \* cap on what an answer takes beyond the command

ASSUME SandboxAssumption ==
  /\ Build \notin Runs \cup Checks
  /\ Runs \cap Checks = {}
  /\ Scenarios \subseteq SUBSET ({Build} \cup Runs \cup Checks)
  /\ {UploadChunk, ExportChunk, MaxArtifact, MaxTimeout, ClientTimeout} \subseteq Nat \ {0}
  /\ {MaxBinary, MaxSpan, MaxLag} \subseteq Nat
  /\ \A v \in Versions :
       /\ v.timeout \in Nat /\ v.gomod \in Seq(Line)
       /\ \A n \in DOMAIN v.source : v.source[n] \in Nat

VARIABLES
  version,    \* the version that is built and run
  \* gateway
  worker,     \* the worker of each session: its policy and its files
  late,       \* creations the client gave up and the gateway still works on
  \* process
  held,       \* Client.sessions
  pc,         \* the call each session's owner makes next
  todo,       \* UploadFiles: files not begun
  sending,    \* UploadFiles: the file in transfer
  sent,       \* UploadFiles: its cells sent so far
  cand,       \* BuildVersion: the candidate path exported
  reads,      \* ExportFiles: full chunks read of it
  buf,        \* ExportFiles: fileBuf, None before the file is located
  exported,   \* what ExportFiles returned
  artifact,   \* the saved bundle
  result,     \* the status recorded for a build or run
  \* bookkeeping of the model
  built,      \* the files the build command saw, and those it left
  ran,        \* the program each run executed, its span and exit status
  ignored,    \* failures of commands that the code does not notice
  abandoned,  \* sessions whose creation was given up
  unreleased  \* sessions whose release was not acknowledged

gateway == <<worker, late>>
upload == <<todo, sending, sent>>
export == <<cand, reads, buf, exported>>
outcome == <<artifact, result, built, ran>>
marks == <<ignored, abandoned, unreleased>>
vars == <<version, worker, late, held, pc, todo, sending, sent, cand, reads, buf,
          exported, artifact, result, built, ran, ignored, abandoned, unreleased>>

Sessions == {Build} \cup Runs \cup Checks
PC == {"create", "upload", "exec", "export", "save", "release", "done"}

GoMod == <<"go.mod">>
SdkFiles == {<<"_sdk", "go.mod">>, <<"_sdk", "pkg", "actionscat", "sdk.go">>}
Canonical == <<"out", "entrypoint">>
Entrypoint == <<"entrypoint">>
Binary == <<"binary">>

Min2(a, b) == IF a < b THEN a ELSE b
Put(f, n, v) == [m \in DOMAIN f \cup {n} |-> IF m = n THEN v ELSE f[m]]
Cells(n, k) == [i \in 1..k |-> <<n, [New("other") EXCEPT !.text = i]>>]
\* The i-th run of at most k cells of s.
Chunk(s, i, k) == SubSeq(s, i * k + 1, Min2((i + 1) * k, Len(s)))

-----------------------------------------------------------------------------
\* The file with these lines.
Text(lines) == [i \in 1..Len(lines) |-> <<GoMod, lines[i]>>]

\* The files of the SDK unless the source has its own, and a go.mod.
InjectSDK(source) ==
  [n \in DOMAIN source \cup SdkFiles \cup {GoMod} |->
     CASE n = GoMod -> Text(GoModFor(version.gomod))
       [] n # GoMod /\ n \in DOMAIN source -> Cells(n, source[n])
       [] OTHER -> <<<<n, New("other")>>>>]

Payload(s) == IF s = Build THEN InjectSDK(version.source) ELSE artifact

\* UploadFiles and ExportFiles drop a leading "sandbox/".
CleanRel(n) == IF Len(n) > 1 /\ Head(n) = "sandbox" THEN Tail(n) ELSE n

\* Where UploadFiles puts n: the name goes into shell commands between double
\* quotes (%q), where $, backticks and what %q escapes are read as another name.
Target(n) == IF CleanRel(n) \in DOMAIN Expands THEN Expands[CleanRel(n)] ELSE CleanRel(n)

Asked(s) ==
  CASE s = Build -> [profile |-> "go-builder", hosts |-> {},
                     mode |-> IF version.fetches THEN "public" ELSE "none"]
    [] s \in Runs -> version.policy
    [] OTHER -> [profile |-> "go-builder", mode |-> "", hosts |-> {}]

\* ValidateSessionRequest.
Valid(p) == p.mode = "allowlist" => p.hosts # {}

\* Mutant of Conforms: a host the gateway added is accepted.
ConformsIfIncluded(asked, given) ==
  /\ given.profile = asked.profile
  /\ asked.mode # "" => given.mode = asked.mode
  /\ asked.mode = "allowlist" => asked.hosts \subseteq given.hosts
  /\ asked.mode # "allowlist" => given.hosts = {}

\* Contract conformance validation, fail closed.
Conforms(asked, given) ==
  /\ given.profile = asked.profile
  /\ asked.mode # "" => given.mode = asked.mode
  /\ given.hosts = IF asked.mode = "allowlist" THEN asked.hosts ELSE {}

-----------------------------------------------------------------------------
SourceNames == UNION {DOMAIN v.source : v \in Versions}
OwnNames == SdkFiles \cup {GoMod, Canonical, Entrypoint}
Names == SourceNames \cup {Target(n) : n \in SourceNames} \cup OwnNames
Content == Seq((Names \cup {Binary}) \X Line)

\* None is neither a name nor what a file holds, and a shell reads the names that
\* the process itself gives to files as they are.
ASSUME NamesAssumption ==
  None \notin Names /\ None \notin Content /\ OwnNames \cap DOMAIN Expands = {}

Init ==
  /\ version \in Versions
  /\ worker = [s \in Sessions |-> None]
  /\ late = {}
  /\ held = {}
  /\ \E opened \in Scenarios :
       pc = [s \in Sessions |-> IF s \in opened THEN "create" ELSE "done"]
  /\ todo = [s \in Sessions |-> {}]
  /\ sending = [s \in Sessions |-> None]
  /\ sent = [s \in Sessions |-> 0]
  /\ cand = 1
  /\ reads = 0
  /\ buf = None
  /\ exported = None
  /\ artifact = None
  /\ result = [s \in Sessions |-> "none"]
  /\ built = None
  /\ ran = [s \in Sessions |-> None]
  /\ ignored = {}
  /\ abandoned = {}
  /\ unreleased = {}

Goes(s, to) == pc' = [pc EXCEPT ![s] = to]
\* Mutant of Fails: the release is not deferred but comes last.
FailsUnreleased(s) ==
  /\ Goes(s, "done")
  /\ result' = [result EXCEPT ![s] = "failed"]

\* The call returned an error: the status is recorded and Release is deferred.
Fails(s) ==
  /\ Goes(s, "release")
  /\ result' = [result EXCEPT ![s] = "failed"]

-----------------------------------------------------------------------------
\* A run is created once its action has an active build.
Begins(s) ==
  /\ pc[s] = "create"
  /\ s \in Runs => artifact # None

\* The gateway provisions a worker with the contract p and says so.
CreateSession(s) ==
  \E p \in Policies, ready \in BOOLEAN :
    /\ Begins(s)
    /\ Valid(Asked(s))
    /\ worker' = [worker EXCEPT ![s] = [policy |-> p, files |-> <<>>]]
    /\ IF Conforms(Asked(s), p) /\ ready
         THEN /\ held' = held \cup {s}
              /\ Goes(s, IF s \in Checks THEN "exec" ELSE "upload")
              /\ todo' = [todo EXCEPT ![s] = IF s \in Checks THEN {} ELSE DOMAIN Payload(s)]
              /\ UNCHANGED result
         ELSE /\ Fails(s)
              /\ UNCHANGED <<held, todo>>
    /\ UNCHANGED <<version, late, sending, sent, export, artifact, built, ran, marks>>

\* Invalid request, failed Health, or a status that means no worker.
CreateRefused(s) ==
  /\ Begins(s)
  /\ Fails(s)
  /\ UNCHANGED <<version, gateway, held, upload, export, artifact, built, ran, marks>>

\* The HTTP client times out or the context ends before the answer.
CreateAbandoned(s) ==
  /\ Begins(s)
  /\ Valid(Asked(s))
  /\ Fails(s)
  /\ late' = late \cup {s}
  /\ abandoned' = abandoned \cup {s}
  /\ UNCHANGED <<version, worker, held, upload, export, artifact, built, ran,
                 ignored, unreleased>>

\* The gateway completes a creation nobody waits for, or drops it.
LateCreation(s) ==
  /\ s \in late
  /\ late' = late \ {s}
  /\ \/ \E p \in Policies :
          worker' = [worker EXCEPT ![s] = [policy |-> p, files |-> <<>>]]
     \/ UNCHANGED worker
  /\ UNCHANGED <<version, held, pc, upload, export, outcome, marks>>

\* The gateway discards a worker (session_evicted, session_expired); what it
\* does once the owner is done nobody sees.
Evict(s) ==
  /\ worker[s] # None
  /\ pc[s] # "done"
  /\ worker' = [worker EXCEPT ![s] = None]
  /\ UNCHANGED <<version, late, held, pc, upload, export, outcome, marks>>

-----------------------------------------------------------------------------
\* Files of the worker of s after a command left contents v in n.
Writes(s, n, v) == worker' = [worker EXCEPT ![s].files = Put(@, n, v)]

\* UploadFiles walks a Go map: any order.  The directory is made first.
NextFile(s) ==
  /\ pc[s] = "upload"
  /\ worker[s] # None
  /\ sending[s] = None
  /\ \E n \in todo[s] :
       /\ todo' = [todo EXCEPT ![s] = @ \ {n}]
       /\ sending' = [sending EXCEPT ![s] = n]
  /\ UNCHANGED <<version, gateway, held, pc, sent, export, outcome, marks>>

\* An empty file is touched, and the exit status of that is not looked at.
TouchFile(s) ==
  /\ pc[s] = "upload"
  /\ worker[s] # None
  /\ sending[s] # None
  /\ Payload(s)[sending[s]] = <<>>
  /\ \/ /\ Writes(s, Target(sending[s]), <<>>)
        /\ UNCHANGED ignored
     \/ /\ ignored' = ignored \cup {"touch"}
        /\ UNCHANGED worker
  /\ sending' = [sending EXCEPT ![s] = None]
  /\ UNCHANGED <<version, late, held, pc, todo, sent, export, outcome, abandoned, unreleased>>

\* The first chunk truncates the file (>), the others append to it (>>).
SendChunk(s) ==
  LET data == Payload(s)[sending[s]]
      end == Min2(sent[s] + UploadChunk, Len(data))
      target == Target(sending[s])
      before == IF sent[s] = 0 THEN <<>> ELSE worker[s].files[target]
  IN  /\ pc[s] = "upload"
      /\ worker[s] # None
      /\ sending[s] # None
      /\ sent[s] < Len(data)
      /\ Writes(s, target, before \o SubSeq(data, sent[s] + 1, end))
      /\ sent' = [sent EXCEPT ![s] = IF end = Len(data) THEN 0 ELSE end]
      /\ sending' = [sending EXCEPT ![s] = IF end = Len(data) THEN None ELSE @]
      /\ UNCHANGED <<version, late, held, pc, todo, export, outcome, marks>>

\* A command of UploadFiles fails, or reports no exit code; whether it took effect
\* is not known.
UploadFails(s) ==
  /\ pc[s] = "upload"
  /\ Fails(s)
  /\ UNCHANGED <<version, gateway, held, upload, export, artifact, built, ran, marks>>

UploadReturns(s) ==
  /\ pc[s] = "upload"
  /\ todo[s] = {}
  /\ sending[s] = None
  /\ Goes(s, "exec")
  /\ UNCHANGED <<version, gateway, held, upload, export, outcome, marks>>

-----------------------------------------------------------------------------
\* Mutant of ExecAnswer: the timeout of the caller is not passed on.
ExecAnswerFixed(t, d, lag) ==
  IF Min2(d, MaxTimeout) + lag > ClientTimeout THEN "error"
  ELSE IF d > MaxTimeout THEN "timed_out" ELSE "exited"

\* What Exec returns for a program of span d under timeout t, when its answer
\* takes lag more: the gateway stops it, and the HTTP client gives up.
ExecAnswer(t, d, lag) ==
  LET allowed == Min2(t, MaxTimeout)
  IN  IF Min2(d, allowed) + lag > ClientTimeout THEN "error"
      ELSE IF d > allowed THEN "timed_out" ELSE "exited"

\* ToolchainBaseline: the exit status is not looked at.
QueryToolchain(s) ==
  /\ s \in Checks
  /\ pc[s] = "exec"
  /\ worker[s] # None
  /\ Goes(s, "release")
  /\ UNCHANGED <<version, gateway, held, upload, export, outcome, marks>>

\* The build command leaves a binary in one of the places it can be told to, or
\* nothing: then an entrypoint of the source, if any, is what is exported.  A
\* build whose exit code is not reported counts as one that went well.
Outputs(files) ==
  {files} \cup {Put(files, place, Cells(Binary, k)) :
                  place \in {Canonical, Entrypoint}, k \in 0..MaxBinary}

Compile ==
  /\ pc[Build] = "exec"
  /\ worker[Build] # None
  /\ \E after \in Outputs(worker[Build].files) :
       /\ worker' = [worker EXCEPT ![Build].files = after]
       /\ built' = [from |-> worker[Build].files, left |-> after]
  /\ Goes(Build, "export")
  /\ UNCHANGED <<version, late, held, upload, export, artifact, result, ran, marks>>

\* A failed or timed out build, or one whose answer came after ClientTimeout.
CompileFails ==
  /\ pc[Build] = "exec"
  /\ worker[Build] # None
  /\ Goes(Build, "release")
  /\ \E d \in 0..MaxSpan, lag \in 1..MaxLag :
       result' = [result EXCEPT ![Build] =
         IF ExecAnswer(MaxTimeout, d, lag) = "timed_out" THEN "timed_out" ELSE "failed"]
  /\ UNCHANGED <<version, gateway, held, upload, export, artifact, built, ran, marks>>

\* A program that is not there does not exit with 0.  The gateway may leave the
\* exit code out (None): a run that has none and did not time out succeeded.
Execute(r) ==
  /\ r \in Runs
  /\ pc[r] = "exec"
  /\ worker[r] # None
  /\ Goes(r, "release")
  /\ \E d \in 0..MaxSpan, lag \in 1..MaxLag, exit \in {0, 1, None} :
       LET files == worker[r].files
           answer == ExecAnswer(version.timeout, d, lag)
       IN  /\ version.entry \notin DOMAIN files => exit # 0
           /\ ran' = [ran EXCEPT ![r] =
                [span |-> d, exit |-> exit,
                 bytes |-> IF version.entry \in DOMAIN files THEN files[version.entry] ELSE None]]
           /\ result' = [result EXCEPT ![r] =
                CASE answer = "timed_out" -> "timed_out"
                  [] answer = "exited" /\ exit # 1 -> "succeeded"
                  [] OTHER -> "failed"]
  /\ UNCHANGED <<version, gateway, held, upload, export, artifact, built, marks>>

\* The worker is gone, or the call fails before the command starts.
ExecFails(s) ==
  /\ pc[s] = "exec"
  /\ Fails(s)
  /\ UNCHANGED <<version, gateway, held, upload, export, artifact, built, ran, marks>>

-----------------------------------------------------------------------------
\* Mutant of Candidates: the plain name comes first.
CandidatesReversed == <<Entrypoint, Canonical, <<"sandbox", "out", "entrypoint">>>>

\* candidateFallbacks of BuildVersion, in order.
Candidates == <<<<"sandbox", "out", "entrypoint">>, Canonical, Entrypoint>>
Path == CleanRel(Candidates[cand])

\* Mutant of NextCandidate: no end of the list.
NextCandidateUnbounded ==
  /\ buf' = None
  /\ reads' = 0
  /\ cand' = cand + 1
  /\ UNCHANGED <<pc, result>>

\* Mutant of NextCandidate: the same candidate is tried again.
NextCandidateStays ==
  /\ buf' = None
  /\ reads' = 0
  /\ UNCHANGED <<cand, pc, result>>

\* BuildVersion goes on with the next candidate, or gives up after the last.
NextCandidate ==
  /\ buf' = None
  /\ reads' = 0
  /\ IF cand < Len(Candidates)
       THEN /\ cand' = cand + 1
            /\ UNCHANGED <<pc, result>>
       ELSE /\ Fails(Build)
            /\ UNCHANGED cand

Exporting == pc[Build] = "export" /\ worker[Build] # None

\* A path that is not found is not an error, nor is a lookup that failed.
Locate ==
  /\ Exporting
  /\ buf = None
  /\ \/ /\ Path \in DOMAIN worker[Build].files
        /\ buf' = <<>>
        /\ UNCHANGED <<cand, reads, pc, result, ignored>>
     \/ /\ NextCandidate
        /\ ignored' = IF Path \in DOMAIN worker[Build].files
                        THEN ignored \cup {"locate"} ELSE ignored
  /\ UNCHANGED <<version, gateway, held, upload, exported, artifact, built, ran,
                 abandoned, unreleased>>

\* The loop of ExportFiles ends with the contents b.
Exported(b) ==
  /\ exported' = b
  /\ Goes(Build, "save")
  /\ UNCHANGED <<reads, buf, result>>

\* ExportFiles takes chunk for the next one of the file.
Takes(chunk) ==
  CASE chunk = <<>> -> Exported(buf)
    [] chunk # <<>> /\ Len(buf) + Len(chunk) > MaxArtifact ->
         /\ Fails(Build)
         /\ UNCHANGED <<reads, buf, exported>>
    [] chunk # <<>> /\ Len(buf) + Len(chunk) <= MaxArtifact /\ Len(chunk) < ExportChunk ->
         Exported(buf \o chunk)
    [] OTHER ->
         /\ buf' = buf \o chunk
         /\ reads' = reads + 1
         /\ UNCHANGED <<pc, exported, result>>

\* Mutant of ReadChunk: the number of blocks skipped is off by one.
ReadChunkOffByOne ==
  /\ Exporting
  /\ buf # None
  /\ Takes(Chunk(worker[Build].files[Path], reads + 1, ExportChunk))
  /\ UNCHANGED <<version, gateway, held, upload, cand, artifact, built, ran, marks>>

\* dd of one block: a short one ends the file, an empty one too.
ReadChunk ==
  /\ Exporting
  /\ buf # None
  /\ Takes(Chunk(worker[Build].files[Path], reads, ExportChunk))
  /\ UNCHANGED <<version, gateway, held, upload, cand, artifact, built, ran, marks>>

\* The read timed out or failed in the worker: what it printed is a shorter
\* block, and neither the exit status nor timed_out is looked at.
ReadCutShort ==
  /\ Exporting
  /\ buf # None
  /\ LET chunk == Chunk(worker[Build].files[Path], reads, ExportChunk)
     IN  \E k \in 0..Len(chunk) - 1 : Takes(SubSeq(chunk, 1, k))
  /\ ignored' = ignored \cup {"read"}
  /\ UNCHANGED <<version, gateway, held, upload, cand, artifact, built, ran,
                 abandoned, unreleased>>

\* ExportFiles returns an error that is not ErrArtifactTooLarge: next candidate.
ExportFails ==
  /\ pc[Build] = "export"
  /\ NextCandidate
  /\ ignored' = ignored \cup {"candidate"}
  /\ UNCHANGED <<version, gateway, held, upload, exported, artifact, built, ran,
                 abandoned, unreleased>>

\* The artifact is named by the last component of the candidate's path.
SaveArtifact ==
  /\ pc[Build] = "save"
  /\ artifact' = Put(<<>>, <<Path[Len(Path)]>>, exported)
  /\ result' = [result EXCEPT ![Build] = "succeeded"]
  /\ Goes(Build, "release")
  /\ UNCHANGED <<version, gateway, held, upload, export, built, ran, marks>>

SaveFails ==
  /\ pc[Build] = "save"
  /\ Fails(Build)
  /\ UNCHANGED <<version, gateway, held, upload, export, artifact, built, ran, marks>>

-----------------------------------------------------------------------------
\* 200 or 204, or a 404 whose body says that there is no such session.
Release(s) ==
  /\ pc[s] = "release"
  /\ worker' = [worker EXCEPT ![s] = None]
  /\ held' = held \ {s}
  /\ Goes(s, "done")
  /\ UNCHANGED <<version, late, upload, export, outcome, marks>>

\* Any other answer, or none.  The callers drop the error and do not retry.
ReleaseFails(s) ==
  /\ pc[s] = "release"
  /\ worker' \in {worker, [worker EXCEPT ![s] = None]}
  /\ unreleased' = unreleased \cup {s}
  /\ Goes(s, "done")
  /\ UNCHANGED <<version, late, held, upload, export, outcome, ignored, abandoned>>

-----------------------------------------------------------------------------
Create(s) == CreateSession(s) \/ CreateRefused(s) \/ CreateAbandoned(s)
Upload(s) ==
  NextFile(s) \/ TouchFile(s) \/ SendChunk(s) \/ UploadFails(s) \/ UploadReturns(s)
Step(s) ==
  \/ Create(s) \/ Upload(s) \/ QueryToolchain(s) \/ Execute(s) \/ ExecFails(s)
  \/ Release(s) \/ ReleaseFails(s)
BuildStep ==
  \/ Compile \/ CompileFails \/ Locate \/ ReadChunk \/ ReadCutShort \/ ExportFails
  \/ SaveArtifact \/ SaveFails

Next ==
  \/ \E s \in Sessions : Step(s) \/ LateCreation(s) \/ Evict(s)
  \/ BuildStep

Spec == Init /\ [][Next]_vars
\* Every HTTP call ends within ClientTimeout, and its goroutine goes on.
Fairness == \A s \in Sessions : WF_vars(Step(s) \/ (s = Build /\ BuildStep))
FairSpec == Spec /\ Fairness

-----------------------------------------------------------------------------
IsFiles(f) == DOMAIN f \subseteq Names /\ \A n \in DOMAIN f : f[n] \in Content
ContentOrNone(c) == c = None \/ c \in Content

\* Every variable keeps its type.
TypeOK ==
  /\ version \in Versions
  /\ DOMAIN worker = Sessions
  /\ \A s \in Sessions :
       worker[s] # None => worker[s].policy \in Policies /\ IsFiles(worker[s].files)
  /\ {late, held, abandoned, unreleased} \subseteq SUBSET Sessions
  /\ pc \in [Sessions -> PC]
  /\ todo \in [Sessions -> SUBSET Names]
  /\ sending \in [Sessions -> Names \cup {None}]
  /\ sent \in [Sessions -> Nat]
  /\ cand \in 1..Len(Candidates)
  /\ reads \in Nat
  /\ ContentOrNone(buf)
  /\ ContentOrNone(exported)
  /\ artifact # None => IsFiles(artifact)
  /\ result \in [Sessions -> {"none", "succeeded", "failed", "timed_out"}]
  /\ built # None => IsFiles(built.from) /\ IsFiles(built.left)
  /\ \A r \in Sessions :
       ran[r] # None =>
         /\ ContentOrNone(ran[r].bytes)
         /\ ran[r].span \in 0..MaxSpan
         /\ ran[r].exit \in {0, 1, None}
  /\ ignored \subseteq {"touch", "locate", "read", "candidate"}

\* The hosts a worker with contract p can talk to.
Reach(p) == p.hosts \cup IF p.mode = "public" THEN Hosts ELSE {}

\* The worker that files and commands are sent to has the profile that was
\* asked for and reaches no host beyond the network that was asked for,
\* whatever the gateway answered (CreateSession fails closed).
PolicyHolds ==
  \A s \in Sessions :
    (pc[s] \in {"upload", "exec", "export", "save"} /\ worker[s] # None) =>
      /\ worker[s].policy.profile = Asked(s).profile
      /\ Asked(s).mode # "" => Reach(worker[s].policy) \subseteq Reach(Asked(s))

\* The build command sees every source file as it was stored, with the SDK and
\* with the go.mod that CanonicalizeGoModSDK made, whose last line points to that
\* SDK; unless a touch failed unnoticed, or UploadFiles puts one of the files
\* elsewhere: a top directory named sandbox is dropped, and the shell reads some
\* names as others.
BuildSeesSource ==
  LET moved == \E n \in DOMAIN version.source : Target(n) # n
  IN  (built # None /\ ~ moved /\ "touch" \notin ignored) =>
        /\ \A n \in DOMAIN version.source \ {GoMod} :
             /\ n \in DOMAIN built.from
             /\ built.from[n] = Cells(n, version.source[n])
        /\ SdkFiles \cup {GoMod} \subseteq DOMAIN built.from
        /\ built.from[GoMod] = Text(GoModFor(version.gomod))
        /\ built.from[GoMod][Len(built.from[GoMod])] = <<GoMod, Directive>>

\* What a run executes is byte for byte what the build left at out/entrypoint
\* or else at entrypoint, unless a failed command was ignored on the way.
RunExecutesBuilt ==
  \A r \in Runs :
    (ran[r] # None /\ ignored = {}) =>
      ran[r].bytes \in {None, built.left[IF Canonical \in DOMAIN built.left
                                           THEN Canonical ELSE Entrypoint]}

\* Files arrive as they are: from the stored source to the build command, and
\* from what that left, read from one worker and written to another in chunks
\* of different sizes, to the run.
FilesArriveExact == BuildSeesSource /\ RunExecutesBuilt

\* A session that its owner is done with leaves no entry in the client unless
\* its release was not acknowledged, and no worker unless that, or its
\* creation was given up: every other path of the callers releases it, the
\* paths that refused the worker included.
LeaksAreExplained ==
  \A s \in Sessions : pc[s] = "done" =>
    /\ s \in held => s \in unreleased
    /\ worker[s] # None => s \in unreleased \cup abandoned

\* A run that succeeded ended by itself within its timeout, having executed its
\* entrypoint to exit status 0, or with no exit status reported at all, which
\* counts as success; one that timed out overran what Exec allowed; and an
\* overrun is recorded as one when the HTTP client can still hear of it.
OutcomeIsHonest ==
  \A r \in Runs : ran[r] # None =>
    /\ result[r] = "succeeded" =>
         /\ ran[r].exit = None \/ (ran[r].exit = 0 /\ ran[r].bytes # None)
         /\ ran[r].span <= version.timeout
    /\ result[r] = "timed_out" => ran[r].span > Min2(version.timeout, MaxTimeout)
    /\ (ran[r].span > version.timeout /\ version.timeout + MaxLag <= ClientTimeout
          /\ version.timeout <= MaxTimeout) => result[r] = "timed_out"

\* The comment of Backend.Exec: timeouts return a valid ExecResult.
OverrunIsTimedOut ==
  \A r \in Runs : (ran[r] # None /\ ran[r].span > version.timeout) => result[r] = "timed_out"

\* Whatever the gateway answers, every session that got a worker is worked off
\* and its owner ends: no transfer loops for ever.
CallersEnd == \A s \in Sessions : (pc[s] = "upload") ~> (pc[s] = "done")

-----------------------------------------------------------------------------
\* The contents that a target may have once the files of s are uploaded.
Wanted(s) ==
  IF s \in Checks \/ (s \in Runs /\ artifact = None) THEN <<>>
  ELSE [t \in {Target(n) : n \in DOMAIN Payload(s)} |->
          {Payload(s)[n] : n \in {m \in DOMAIN Payload(s) : Target(m) = t}}]

View(s) ==
  CASE pc[s] = "create" -> "new"
    [] pc[s] = "upload" \/ (pc[s] = "exec" /\ s \in Checks) -> "open"
    [] pc[s] \in {"exec", "export", "save"} /\ s \notin Checks -> "ready"
    [] pc[s] = "release" -> "closing"
    [] pc[s] = "done" -> "closed"

Contract == INSTANCE Backend WITH
  view <- [s \in Sessions |-> View(s)],
  want <- [s \in Sessions |-> Wanted(s)],
  files <- [s \in Sessions |-> IF View(s) = "ready" /\ worker[s] # None
                                 THEN worker[s].files ELSE <<>>],
  got <- exported

\* Seen by its callers the client does what Backend promises: an upload and an
\* export happen at once, although they take many commands.
KeepsContract == Contract!Spec
=============================================================================
