---------------------------- MODULE SandboxProofs ----------------------------
(***************************************************************************)
(* Theorems about Sandbox, for any sessions, versions, contracts a gateway *)
(* may answer with, sizes and timeouts.                                    *)
(***************************************************************************)
EXTENDS Sandbox, TLAPS

(***************************************************************************)
(* The inductive invariant.  A worker that appears late belongs to a       *)
(* session whose creation was given up and whose owner only has its        *)
(* release left: this is why nothing is ever sent to a worker whose        *)
(* contract was not compared with the request.                             *)
(***************************************************************************)
\* What the proofs need of the types: functions over the sessions, and workers
\* that have a policy and files.
Shapes ==
  /\ DOMAIN pc = Sessions /\ \A s \in Sessions : pc[s] \in PC
  /\ DOMAIN worker = Sessions
  /\ \A s \in Sessions : worker[s] # None =>
       DOMAIN worker[s] = {"policy", "files"} /\ worker[s] = [f \in {"policy", "files"} |-> worker[s][f]]
  /\ held \subseteq Sessions /\ late \subseteq abandoned /\ abandoned \subseteq Sessions

\* The owner of an abandoned creation goes straight to its release.
AbandonedIsOver == \A s \in abandoned : pc[s] \in {"release", "done"}

Inv == Shapes /\ AbandonedIsOver /\ PolicyHolds /\ LeaksAreExplained

-----------------------------------------------------------------------------
\* A contract that passes the conformance check reaches no other host.
LEMMA ConformingIsNarrow ==
  ASSUME NEW asked, NEW given, Conforms(asked, given)
  PROVE  /\ given.profile = asked.profile
         /\ asked.mode # "" => Reach(given) \subseteq Reach(asked)
BY DEF Conforms, Reach

\* Init establishes the invariant: there is no worker and no entry.
LEMMA InitInv == Init => Inv
<1> SUFFICES ASSUME Init PROVE Inv
  OBVIOUS
<1>1. PICK opened \in Scenarios :
        pc = [s \in Sessions |-> IF s \in opened THEN "create" ELSE "done"]
  BY DEF Init
<1> QED BY <1>1 DEF Init, Inv, Shapes, PC, AbandonedIsOver, PolicyHolds, LeaksAreExplained

\* The owner of s takes a step that leaves the other sessions alone, that keeps
\* the policy of a worker, and that has a reason for whatever it leaves.
LEMMA OwnerStep ==
  ASSUME Inv, NEW s \in Sessions, NEW to \in PC,
         pc' = [pc EXCEPT ![s] = to] \/ (pc' = pc /\ to = pc[s]),
         DOMAIN worker' = Sessions,
         \A t \in Sessions \ {s} : worker'[t] = worker[t],
         worker'[s] # None =>
           /\ DOMAIN worker'[s] = {"policy", "files"}
           /\ worker'[s] = [f \in {"policy", "files"} |-> worker'[s][f]],
         version' = version, late' \subseteq abandoned',
         late' \subseteq late \cup {s},
         abandoned' \subseteq abandoned \cup {s}, abandoned \subseteq abandoned',
         unreleased \subseteq unreleased', held' \subseteq held \cup {s},
         s \in abandoned' => to \in {"release", "done"},
         (to \in {"upload", "exec", "export", "save"} /\ worker'[s] # None) =>
           /\ worker'[s].policy.profile = Asked(s).profile
           /\ Asked(s).mode # "" => Reach(worker'[s].policy) \subseteq Reach(Asked(s)),
         to = "done" =>
           /\ s \in held' => s \in unreleased'
           /\ worker'[s] # None => s \in unreleased' \cup abandoned'
  PROVE  Inv'
<1> USE DEF Inv
<1>1. /\ DOMAIN pc' = Sessions /\ pc'[s] = to
      /\ \A t \in Sessions \ {s} : pc'[t] = pc[t]
  BY DEF Shapes
<1>2. Shapes'
  BY <1>1 DEF Shapes
<1>3. AbandonedIsOver'
  BY <1>1 DEF AbandonedIsOver, Shapes
<1>4. \A t \in Sessions : Asked(t)' = Asked(t)
  BY DEF Asked
<1>5. PolicyHolds'
  <2> SUFFICES ASSUME NEW t \in Sessions,
                      pc'[t] \in {"upload", "exec", "export", "save"}, worker'[t] # None
               PROVE  /\ worker'[t].policy.profile = Asked(t).profile
                      /\ Asked(t).mode # "" => Reach(worker'[t].policy) \subseteq Reach(Asked(t))
    <3>1. \A w : Reach(w)' = Reach(w)
      BY DEF Reach
    <3> QED BY <1>4, <3>1 DEF PolicyHolds
  <2>1. CASE t = s
    BY <1>1, <2>1
  <2>2. CASE t # s
    BY <1>1, <2>2 DEF PolicyHolds
  <2> QED BY <2>1, <2>2
<1>6. LeaksAreExplained'
  <2> SUFFICES ASSUME NEW t \in Sessions, pc'[t] = "done"
               PROVE  /\ t \in held' => t \in unreleased'
                      /\ worker'[t] # None => t \in unreleased' \cup abandoned'
    BY DEF LeaksAreExplained
  <2>1. CASE t = s
    BY <1>1, <2>1
  <2>2. CASE t # s
    BY <1>1, <2>2 DEF LeaksAreExplained
  <2> QED BY <2>1, <2>2
<1> QED BY <1>2, <1>3, <1>5, <1>6

Working == {"upload", "exec", "export", "save"}

\* While the owner of s works on its session, it changes nothing but files of
\* its worker, and goes on working or to its release.
WorksOn(s) ==
  /\ pc[s] \in Working
  /\ \/ UNCHANGED pc
     \/ \E to \in Working \cup {"release"} : pc' = [pc EXCEPT ![s] = to]
  /\ \/ UNCHANGED worker
     \/ worker[s] # None /\ \E f : worker' = [worker EXCEPT ![s].files = f]
  /\ UNCHANGED <<version, late, held, abandoned, unreleased>>

LEMMA WorkStep ==
  ASSUME Inv, NEW s \in Sessions, WorksOn(s)
  PROVE  Inv'
<1>1. PICK to \in Working \cup {"release"} :
        pc' = [pc EXCEPT ![s] = to] \/ (pc' = pc /\ to = pc[s])
  BY DEF WorksOn
<1>2. /\ DOMAIN worker' = Sessions
      /\ \A t \in Sessions \ {s} : worker'[t] = worker[t]
      /\ worker'[s] # None =>
           /\ worker[s] # None
           /\ DOMAIN worker'[s] = {"policy", "files"}
           /\ worker'[s] = [f \in {"policy", "files"} |-> worker'[s][f]]
           /\ worker'[s].policy = worker[s].policy
  <2>1. CASE UNCHANGED worker
    BY <2>1 DEF Inv, Shapes
  <2>2. ASSUME worker[s] # None, NEW f, worker' = [worker EXCEPT ![s].files = f]
        PROVE  /\ DOMAIN worker' = Sessions
               /\ \A t \in Sessions \ {s} : worker'[t] = worker[t]
               /\ DOMAIN worker'[s] = {"policy", "files"}
               /\ worker'[s] = [g \in {"policy", "files"} |-> worker'[s][g]]
               /\ worker'[s].policy = worker[s].policy
    <3>1. /\ DOMAIN worker = Sessions
          /\ worker[s] = [g \in {"policy", "files"} |-> worker[s][g]]
      BY <2>2 DEF Inv, Shapes
    <3>2. worker'[s] = [worker[s] EXCEPT !.files = f]
      BY <2>2, <3>1
    <3>3. worker'[s] = [g \in {"policy", "files"} |-> IF g = "files" THEN f ELSE worker[s][g]]
      BY <3>1, <3>2
    <3> QED BY <2>2, <3>1, <3>3
  <2>3. UNCHANGED worker \/ (worker[s] # None /\ \E f : worker' = [worker EXCEPT ![s].files = f])
    BY DEF WorksOn
  <2> QED BY <2>1, <2>2, <2>3
<1>3. s \notin abandoned
  BY DEF Inv, AbandonedIsOver, WorksOn, Working
<1>4. /\ UNCHANGED <<version, late, held, abandoned, unreleased>>
      /\ late \subseteq abandoned /\ pc[s] \in Working
  BY DEF WorksOn, Inv, Shapes
<1>5. worker[s] # None =>
        /\ worker[s].policy.profile = Asked(s).profile
        /\ Asked(s).mode # "" => Reach(worker[s].policy) \subseteq Reach(Asked(s))
  BY <1>4 DEF Inv, PolicyHolds, Working
<1> QED BY OwnerStep, <1>1, <1>2, <1>3, <1>4, <1>5 DEF Working, PC

-----------------------------------------------------------------------------
\* The commands of the callers on a session that they hold.
LEMMA UploadWorks ==
  ASSUME Inv, NEW s \in Sessions, Upload(s)
  PROVE  Inv'
<1>1. CASE NextFile(s)
  <2> WorksOn(s)
    BY <1>1 DEF NextFile, WorksOn, Working, gateway, marks
  <2> QED BY WorkStep
<1>2. CASE TouchFile(s)
  <2> WorksOn(s)
    BY <1>2 DEF TouchFile, Writes, WorksOn, Working
  <2> QED BY WorkStep
<1>3. CASE SendChunk(s)
  <2> WorksOn(s)
    BY <1>3 DEF SendChunk, Writes, WorksOn, Working, marks
  <2> QED BY WorkStep
<1>4. CASE UploadFails(s)
  <2> WorksOn(s)
    BY <1>4 DEF UploadFails, Fails, Goes, WorksOn, Working, gateway, marks
  <2> QED BY WorkStep
<1>5. CASE UploadReturns(s)
  <2> WorksOn(s)
    BY <1>5 DEF UploadReturns, Goes, WorksOn, Working, gateway, marks
  <2> QED BY WorkStep
<1> QED BY <1>1, <1>2, <1>3, <1>4, <1>5 DEF Upload

LEMMA ExecWorks ==
  ASSUME Inv, NEW s \in Sessions, QueryToolchain(s) \/ Execute(s) \/ ExecFails(s)
  PROVE  Inv'
<1> WorksOn(s)
  BY DEF QueryToolchain, Execute, ExecFails, Fails, Goes, WorksOn, Working, gateway, marks
<1> QED BY WorkStep

LEMMA BuildWorks ==
  ASSUME Inv, BuildStep
  PROVE  Inv'
<1> Build \in Sessions
  BY DEF Sessions
<1> SUFFICES WorksOn(Build)
  BY WorkStep
<1> USE DEF WorksOn, Working, gateway, marks
<1>1. CASE Compile
  <2>1. \E after : worker' = [worker EXCEPT ![Build].files = after]
    BY <1>1 DEF Compile
  <2>2. /\ pc[Build] = "exec" /\ worker[Build] # None
        /\ pc' = [pc EXCEPT ![Build] = "export"]
        /\ UNCHANGED <<version, late, held, abandoned, unreleased>>
    BY <1>1 DEF Compile, Goes
  <2> QED BY <2>1, <2>2
<1>2. CASE CompileFails
  BY <1>2 DEF CompileFails, Goes
<1>3. NextCandidate => UNCHANGED pc \/ pc' = [pc EXCEPT ![Build] = "release"]
  BY DEF NextCandidate, Fails, Goes
<1>4. CASE Locate
  BY <1>3, <1>4 DEF Locate, Exporting
<1>5. ASSUME NEW chunk, Takes(chunk)
      PROVE  \/ UNCHANGED pc
             \/ pc' = [pc EXCEPT ![Build] = "release"]
             \/ pc' = [pc EXCEPT ![Build] = "save"]
  BY <1>5 DEF Takes, Exported, Fails, Goes
<1>6. CASE ReadChunk
  BY <1>5, <1>6 DEF ReadChunk, Exporting
<1>7. CASE ReadCutShort
  BY <1>5, <1>7 DEF ReadCutShort, Exporting
<1>8. CASE ExportFails
  BY <1>3, <1>8 DEF ExportFails
<1>9. CASE SaveArtifact
  BY <1>9 DEF SaveArtifact, Goes
<1>10. CASE SaveFails
  BY <1>10 DEF SaveFails, Fails, Goes
<1> QED
  BY <1>1, <1>2, <1>4, <1>6, <1>7, <1>8, <1>9, <1>10 DEF BuildStep

-----------------------------------------------------------------------------
\* A creation is answered, refused or given up.  Only a contract that conforms
\* takes the owner further than its release.
LEMMA CreateStep ==
  ASSUME Inv, NEW s \in Sessions, Create(s)
  PROVE  Inv'
<1>1. /\ pc[s] = "create" /\ s \notin abandoned
      /\ DOMAIN worker = Sessions /\ late \subseteq abandoned /\ DOMAIN pc = Sessions
  BY DEF Inv, Shapes, AbandonedIsOver, Create, CreateSession, CreateRefused, CreateAbandoned, Begins
<1>2. CASE CreateSession(s)
  <2>1. PICK p \in Policies, ready \in BOOLEAN :
          /\ worker' = [worker EXCEPT ![s] = [policy |-> p, files |-> <<>>]]
          /\ IF Conforms(Asked(s), p) /\ ready
               THEN held' = held \cup {s} /\ Goes(s, IF s \in Checks THEN "exec" ELSE "upload")
               ELSE Fails(s) /\ UNCHANGED held
          /\ UNCHANGED <<version, late, ignored, abandoned, unreleased>>
    BY <1>2 DEF CreateSession, marks
  <2>2. /\ DOMAIN worker' = Sessions
        /\ \A t \in Sessions \ {s} : worker'[t] = worker[t]
        /\ worker'[s] = [policy |-> p, files |-> <<>>]
    BY <1>1, <2>1
  <2>3. /\ DOMAIN worker'[s] = {"policy", "files"} /\ worker'[s].policy = p
        /\ worker'[s] = [f \in {"policy", "files"} |-> worker'[s][f]]
    BY <2>2
  <2>4. CASE Conforms(Asked(s), p) /\ ready
    <3>1. /\ p.profile = Asked(s).profile
          /\ Asked(s).mode # "" => Reach(p) \subseteq Reach(Asked(s))
      BY <2>4, ConformingIsNarrow
    <3>2. PICK to \in {"exec", "upload"} : pc' = [pc EXCEPT ![s] = to]
      BY <2>1, <2>4 DEF Goes
    <3> QED BY OwnerStep, <1>1, <2>1, <2>2, <2>3, <2>4, <3>1, <3>2 DEF PC
  <2>5. CASE ~ (Conforms(Asked(s), p) /\ ready)
    <3>1. pc' = [pc EXCEPT ![s] = "release"] /\ held' = held
      BY <2>1, <2>5 DEF Fails, Goes
    <3> QED BY OwnerStep, <1>1, <2>1, <2>2, <2>3, <3>1 DEF PC
  <2> QED BY <2>4, <2>5
<1>3. CASE CreateRefused(s)
  <2>1. /\ pc' = [pc EXCEPT ![s] = "release"]
        /\ UNCHANGED <<version, worker, late, held, abandoned, unreleased>>
    BY <1>3 DEF CreateRefused, Fails, Goes, gateway, marks
  <2> QED BY OwnerStep, <1>1, <2>1 DEF PC, Inv, Shapes
<1>4. CASE CreateAbandoned(s)
  <2>1. /\ pc' = [pc EXCEPT ![s] = "release"]
        /\ late' = late \cup {s} /\ abandoned' = abandoned \cup {s}
        /\ UNCHANGED <<version, worker, held, unreleased>>
    BY <1>4 DEF CreateAbandoned, Fails, Goes
  <2> QED BY OwnerStep, <1>1, <2>1 DEF PC, Inv, Shapes
<1> QED BY <1>2, <1>3, <1>4 DEF Create

\* Release empties the entry or leaves a mark.
LEMMA ReleaseStep ==
  ASSUME Inv, NEW s \in Sessions, Release(s) \/ ReleaseFails(s)
  PROVE  Inv'
<1>1. /\ pc' = [pc EXCEPT ![s] = "done"]
      /\ worker' = worker \/ worker' = [worker EXCEPT ![s] = None]
      /\ UNCHANGED <<version, late, abandoned>>
      /\ \/ /\ held' = held \ {s} /\ unreleased' = unreleased
            /\ worker' = [worker EXCEPT ![s] = None]
         \/ held' = held /\ unreleased' = unreleased \cup {s}
  BY DEF Release, ReleaseFails, Goes, marks
<1>2. /\ DOMAIN worker' = Sessions
      /\ \A t \in Sessions \ {s} : worker'[t] = worker[t]
      /\ worker'[s] = worker[s] \/ worker'[s] = None
      /\ held' = held \ {s} => worker'[s] = None \/ s \in unreleased'
  BY <1>1 DEF Inv, Shapes
<1>3. worker'[s] # None =>
        /\ DOMAIN worker'[s] = {"policy", "files"}
        /\ worker'[s] = [f \in {"policy", "files"} |-> worker'[s][f]]
  BY <1>2 DEF Inv, Shapes
<1>4. late \subseteq abandoned
  BY DEF Inv, Shapes
<1>5. /\ s \in held' => s \in unreleased'
      /\ worker'[s] # None => s \in unreleased' \cup abandoned'
  BY <1>1, <1>2
<1> QED BY OwnerStep, <1>1, <1>2, <1>3, <1>4, <1>5 DEF PC

\* What the gateway does by itself: a worker goes, or comes too late.
LEMMA GatewayStep ==
  ASSUME Inv, NEW s \in Sessions, LateCreation(s) \/ Evict(s)
  PROVE  Inv'
<1>1. /\ DOMAIN worker = Sessions /\ late \subseteq abandoned /\ pc[s] \in PC
  BY DEF Inv, Shapes
<1>2. CASE LateCreation(s)
  <2>1. /\ s \in abandoned /\ pc[s] \in {"release", "done"}
        /\ UNCHANGED <<version, held, pc, abandoned, unreleased>> /\ late' = late \ {s}
    BY <1>2 DEF LateCreation, marks, Inv, Shapes, AbandonedIsOver
  <2>2. \/ worker' = worker
        \/ \E p \in Policies : worker' = [worker EXCEPT ![s] = [policy |-> p, files |-> <<>>]]
    BY <1>2 DEF LateCreation
  <2>3. /\ DOMAIN worker' = Sessions
        /\ \A t \in Sessions \ {s} : worker'[t] = worker[t]
        /\ worker'[s] # None =>
             /\ DOMAIN worker'[s] = {"policy", "files"}
             /\ worker'[s] = [f \in {"policy", "files"} |-> worker'[s][f]]
    <3>1. CASE worker' = worker
      BY <1>1, <3>1 DEF Inv, Shapes
    <3>2. ASSUME NEW p \in Policies, worker' = [worker EXCEPT ![s] = [policy |-> p, files |-> <<>>]]
          PROVE  <2>3
      <4>1. worker'[s] = [policy |-> p, files |-> <<>>]
        BY <1>1, <3>2
      <4> QED BY <1>1, <3>2, <4>1
    <3> QED BY <2>2, <3>1, <3>2
  <2>4. pc[s] = "done" => (s \in held => s \in unreleased)
    BY DEF Inv, LeaksAreExplained
  <2> QED BY OwnerStep, <1>1, <2>1, <2>3, <2>4 DEF PC
<1>3. CASE Evict(s)
  <2>1. /\ pc[s] # "done" /\ worker' = [worker EXCEPT ![s] = None]
        /\ UNCHANGED <<version, late, held, pc, abandoned, unreleased>>
    BY <1>3 DEF Evict, marks
  <2>2. s \in abandoned => pc[s] \in {"release", "done"}
    BY DEF Inv, AbandonedIsOver
  <2>3. DOMAIN worker' = Sessions /\ worker'[s] = None
        /\ \A t \in Sessions \ {s} : worker'[t] = worker[t]
    BY <1>1, <2>1
  <2> QED BY OwnerStep, <1>1, <2>1, <2>2, <2>3
<1> QED BY <1>2, <1>3

-----------------------------------------------------------------------------
\* No step breaks the invariant.
LEMMA StepInv == Inv /\ [Next]_vars => Inv'
<1> SUFFICES ASSUME Inv, [Next]_vars PROVE Inv'
  OBVIOUS
<1>1. ASSUME NEW s \in Sessions, Step(s) PROVE Inv'
  BY <1>1, CreateStep, UploadWorks, ExecWorks, ReleaseStep DEF Step
<1>2. ASSUME NEW s \in Sessions, LateCreation(s) \/ Evict(s) PROVE Inv'
  BY <1>2, GatewayStep
<1>3. CASE UNCHANGED vars
  <2> UNCHANGED <<version, worker, late, held, pc, abandoned, unreleased>>
    BY <1>3 DEF vars
  <2>1. Shapes' /\ AbandonedIsOver' /\ LeaksAreExplained'
    BY DEF Inv, Shapes, AbandonedIsOver, LeaksAreExplained
  <2>2. \A t \in Sessions : Asked(t)' = Asked(t)
    BY DEF Asked
  <2>3. PolicyHolds'
    BY <2>2 DEF Inv, PolicyHolds, Reach
  <2> QED BY <2>1, <2>3 DEF Inv
<1> QED BY <1>1, <1>2, <1>3, BuildWorks DEF Next

LEMMA AlwaysInv == Spec => []Inv
<1> QED BY InitInv, StepInv, PTL DEF Spec

\* Whatever contract the gateway answers a creation with, files and commands
\* only go to a worker with the profile and no more network than was asked for.
THEOREM PolicyIsKept == Spec => []PolicyHolds
<1>1. Inv => PolicyHolds
  BY DEF Inv
<1> QED BY AlwaysInv, <1>1, PTL

\* A session leaves an entry or a worker behind only if its release was not
\* acknowledged or its creation was given up: no path of a caller forgets it.
THEOREM NothingElseLeaks == Spec => []LeaksAreExplained
<1>1. Inv => LeaksAreExplained
  BY DEF Inv
<1> QED BY AlwaysInv, <1>1, PTL
=============================================================================
