--------------------------- MODULE RunQueueProofs ---------------------------
(***************************************************************************)
(* Theorems about RunQueue, for any finite set of runs, any set of actions *)
(* and workers, any fault set and any bounds.                              *)
(***************************************************************************)
EXTENDS RunQueue, FiniteSetTheorems, TLAPS

(***************************************************************************)
(* The inductive invariant.  OneOwner and RunningIsOwned are not inductive *)
(* by themselves: a claim keeps them because a run that a worker holds is  *)
(* no longer queued (HolderStatus), the end of a run because no other      *)
(* worker holds it, and a restart because a dead process holds nothing.    *)
(***************************************************************************)

\* A worker holds a run exactly in the stages of executeRun.
HoldsInExecution ==
  \A w \in Workers : cur[w] # NoRun <=> pc[w] \in Busy \cup Deferred

\* The status of a held run: running until it is recorded, never queued after.
HolderStatus ==
  \A w \in Workers :
    /\ pc[w] \in Busy => status[cur[w]] = "running"
    /\ pc[w] \in Deferred => status[cur[w]] \in Terminal \cup {"running"}

\* The token of a held run, stage by stage.
HolderToken ==
  \A w \in Workers :
    /\ pc[w] \in {"load", "issue"} => token[cur[w]] = "none"
    /\ pc[w] \in {"provision", "upload", "exec"} \cup Unwinding => token[cur[w]] = "active"
    /\ pc[w] = "record" /\ "revoke" \notin Faults => token[cur[w]] # "active"

\* A run that was never claimed has no token.
UnclaimedToken ==
  \A r \in Runs : status[r] \in {"absent", "prepared", "queued"} => token[r] = "none"

\* The deferred calls are installed before a session is asked for, and the
\* session of a held run is there until its release or its eviction.
HolderSession ==
  \A w \in Workers :
    /\ pc[w] = "provision" => cur[w] \in guarded
    /\ pc[w] \in {"upload", "exec"} => session[cur[w]] \in {"open", "evicted"}

\* A process that is down has no worker at work.
DownIsEmpty ==
  phase = "down" => \A w \in Workers : pc[w] = "idle"

\* A run whose final status write was lost is left alone until a restart.
LostIsSettled ==
  \A r \in lost :
    /\ status[r] = "running"
    /\ \A w \in Workers : cur[w] = r => pc[w] \in Deferred
    /\ "revoke" \notin Faults => token[r] # "active"

Inv ==
  /\ TypeOK
  /\ HoldsInExecution
  /\ OneOwner
  /\ HolderStatus
  /\ RunningIsOwned
  /\ HolderToken
  /\ UnclaimedToken
  /\ HolderSession
  /\ DownIsEmpty
  /\ LostIsSettled

-----------------------------------------------------------------------------
\* The initial states satisfy the inductive invariant: no run is claimed and
\* every worker is idle.
LEMMA InitInv == Init => Inv
<1> SUFFICES ASSUME Init PROVE Inv
  OBVIOUS
<1>1. TypeOK
  BY QueueAssumption
  DEF Init, TypeOK, Status, TokenState, Session, Phase, PC, Terminal
<1>2. HoldsInExecution /\ OneOwner /\ HolderStatus /\ HolderToken /\ HolderSession
  BY DEF Init, HoldsInExecution, OneOwner, HolderStatus, HolderToken, HolderSession,
         Busy, Stage, Unwinding, Deferred
<1>3. RunningIsOwned /\ UnclaimedToken /\ DownIsEmpty /\ LostIsSettled
  BY DEF Init, RunningIsOwned, UnclaimedToken, DownIsEmpty, LostIsSettled
<1> QED
  BY <1>1, <1>2, <1>3 DEF Inv

\* The end of the process keeps the types.
LEMMA ForgetType ==
  ASSUME TypeOK, ForgetProcess, token' \in [Runs -> TokenState], downs' \in Nat
  PROVE  TypeOK'
<1> USE DEF TypeOK, ForgetProcess
<1>1. status' \in [Runs -> Status]
  BY DEF Status
<1>2. (pc \in [Workers -> PC] /\ cur \in [Workers -> Runs \cup {NoRun}])'
  BY DEF PC
<1>3. (outcome \in [Workers -> Terminal])'
  BY DEF Terminal
<1>4. session' \in [Runs -> Session]
  BY DEF GivenUp, Session
<1>5. phase' \in Phase
  BY DEF Phase
<1> QED BY <1>1, <1>2, <1>3, <1>4, <1>5 DEF marks

\* Every step keeps the types; a step that stores cur[w] needs that w holds a run.
LEMMA TypeStep == TypeOK /\ HoldsInExecution /\ [Next]_vars => TypeOK'
<1> SUFFICES ASSUME TypeOK, HoldsInExecution, [Next]_vars PROVE TypeOK'
  OBVIOUS
<1> USE DEF marks, TypeOK, Status, TokenState, Session, Phase, PC, Stage, Unwinding, Busy, Deferred, Terminal
<1>1. ASSUME Caller PROVE TypeOK'
  <2>1. ASSUME NEW r \in Runs, PrepareRun(r) PROVE TypeOK'
    <3>1. clock' \in Nat /\ created' \in [Runs -> Nat] /\ status' \in [Runs -> Status]
      BY <2>1 DEF PrepareRun
    <3> QED BY <2>1, <3>1 DEF PrepareRun
  <2>2. ASSUME NEW r \in Runs, CreateRun(r) \/ CreateRunFails(r) \/ CreateRunUnheard(r)
        PROVE  TypeOK'
    BY <2>2 DEF CreateRun, CreateRunFails, CreateRunUnheard
  <2> QED BY <1>1, <2>1, <2>2 DEF Caller
<1>2. ASSUME NEW a \in Actions, NEW n \in 1..MaxLimit, UpdateLimit(a, n) PROVE TypeOK'
  BY <1>2 DEF UpdateLimit
<1>3. ASSUME NEW w \in Workers, Loop(w) PROVE TypeOK'
  <2>1. CASE Tick(w) \/ Wake(w) \/ Exit(w) \/ DrainEnds(w)
    BY <2>1 DEF Tick, Wake, Exit, DrainEnds, db
  <2>2. ASSUME NEW r \in Runs, Claim(w, r) PROVE TypeOK'
    BY <2>2 DEF Claim
  <2> QED BY <1>3, <2>1, <2>2 DEF Loop
<1>4. ASSUME NEW w \in Workers, Execute(w) PROVE TypeOK'
  <2>1. CASE LoadVersion(w) \/ UploadArtifact(w) \/ Exec(w)
    BY <2>1 DEF LoadVersion, UploadArtifact, Exec, Advance, db
  <2>2. CASE IssueToken(w) \/ IssueTokenUnheard(w) \/ CreateSession(w)
    BY <2>2 DEF IssueToken, IssueTokenUnheard, CreateSession, Advance, HoldsInExecution, db
  <2>3. CASE StageFails(w)
    <3>1. session' \in [Runs -> Session]
      BY <2>3 DEF StageFails, GivenUp, HoldsInExecution
    <3> QED BY <2>3, <3>1 DEF StageFails, db
  <2>4. CASE FinishRevoke(w) \/ DeferredRevoke(w)
    BY <2>4 DEF FinishRevoke, DeferredRevoke, RevokeTokens, Revoked, db
  <2>5. CASE RecordStatus(w) \/ RecordStatusFails(w)
    BY <2>5 DEF RecordStatus, RecordStatusFails, Return, HoldsInExecution, db
  <2>6. CASE ReleaseSession(w) \/ UnwindRelease(w)
    BY <2>6 DEF ReleaseSession, UnwindRelease, Release, db
  <2>7. CASE BundleIsEmpty(w)
    BY <2>7 DEF BundleIsEmpty, db
  <2>8. CASE UnwindRevoke(w)
    <3>1. token' \in [Runs -> TokenState]
      BY <2>8 DEF UnwindRevoke, Revoked
    <3>2. ForgetProcess /\ downs' = downs
      BY <2>8 DEF UnwindRevoke
    <3> QED BY <3>1, <3>2, ForgetType
  <2> QED BY <1>4, <2>1, <2>2, <2>3, <2>4, <2>5, <2>6, <2>7, <2>8 DEF Execute
<1>5. ASSUME Process PROVE TypeOK'
  <2>1. CASE Stop
    BY <2>1 DEF Stop, db
  <2>2. CASE StopReturns \/ Crash
    <3>1. downs' \in Nat
      BY <2>2 DEF StopReturns, Crash
    <3>2. ForgetProcess /\ token' = token
      BY <2>2 DEF StopReturns, Crash
    <3> QED BY <3>1, <3>2, ForgetType
  <2>3. CASE Start
    BY <2>3 DEF Start, Live
  <2> QED BY <1>5, <2>1, <2>2, <2>3 DEF Process
<1>6. CASE UNCHANGED vars
  BY <1>6 DEF vars
<1>7. ASSUME Outside PROVE TypeOK'
  BY <1>7 DEF Outside, LateCreation, Evict, Expire, db, marks
<1> QED
  BY <1>1, <1>2, <1>3, <1>4, <1>5, <1>6, <1>7 DEF Next

\* The part of the invariant that is not typing.
Ownership ==
  HoldsInExecution /\ OneOwner /\ HolderStatus /\ RunningIsOwned

\* The end of a process, by a crash or after a graceful stop, keeps the
\* invariant: nothing is held, and what is running waits for the recovery.
LEMMA ForgetInv ==
  ASSUME Inv, ForgetProcess, TypeOK',
         \A r \in Runs : token'[r] = token[r] \/ (token[r] = "active" /\ token'[r] = "revoked")
  PROVE  Inv'
<1> USE DEF Inv, ForgetProcess, marks
<1>1. Ownership'
  BY DEF Ownership, HoldsInExecution, OneOwner, HolderStatus, RunningIsOwned,
         Busy, Stage, Unwinding, Deferred
<1>2. UnclaimedToken'
  BY DEF UnclaimedToken, TypeOK
<1>3. (HolderToken /\ HolderSession /\ DownIsEmpty)'
  BY DEF HolderToken, HolderSession, DownIsEmpty, Unwinding
<1>4. LostIsSettled'
  BY QueueAssumption DEF LostIsSettled, TypeOK
<1> QED
  BY <1>1, <1>2, <1>3, <1>4 DEF Ownership

\* What a caller does to a run that was never claimed keeps the invariant.
LEMMA CallerInv ==
  ASSUME Inv, TypeOK', NEW r \in Runs,
         status[r] \in {"absent", "prepared"},
         \A w \in Workers : cur[w] # r,
         \E s \in {"absent", "prepared", "queued"} : status' = [status EXCEPT ![r] = s],
         UNCHANGED <<token, session, phase, pc, cur, guarded, lost>>
  PROVE  Inv'
<1> USE DEF Inv, TypeOK
<1>1. (HoldsInExecution /\ OneOwner /\ HolderSession /\ DownIsEmpty)'
  BY DEF HoldsInExecution, OneOwner, HolderSession, DownIsEmpty
<1>2. HolderStatus'
  BY DEF HolderStatus, HoldsInExecution
<1>3. (HolderToken /\ UnclaimedToken)'
  BY DEF HolderToken, UnclaimedToken
<1>4. LostIsSettled'
  BY DEF LostIsSettled
<1>5. RunningIsOwned'
  BY DEF RunningIsOwned, Owned
<1> QED
  BY <1>1, <1>2, <1>3, <1>4, <1>5

\* Every step keeps the inductive invariant.
LEMMA StepInv == Inv /\ [Next]_vars => Inv'
<1> SUFFICES ASSUME Inv, [Next]_vars PROVE Inv'
  OBVIOUS
<1>0. TypeOK'
  BY TypeStep DEF Inv
<1> USE <1>0, QueueAssumption
    DEF Inv, TypeOK, HoldsInExecution, OneOwner, HolderStatus, RunningIsOwned, Owned,
        HolderToken, UnclaimedToken, HolderSession, DownIsEmpty, LostIsSettled,
        Stage, Unwinding, Busy, Deferred, marks
<1>1. ASSUME NEW r \in Runs, PrepareRun(r) PROVE Inv'
  <2>1. \A w \in Workers : cur[w] # r
    BY <1>1 DEF PrepareRun, Terminal
  <2> QED BY <1>1, <2>1, CallerInv DEF PrepareRun
<1>2. ASSUME NEW r \in Runs, CreateRun(r) PROVE Inv'
  <2>1. \A w \in Workers : cur[w] # r
    BY <1>2 DEF CreateRun, Terminal
  <2> QED BY <1>2, <2>1, CallerInv DEF CreateRun
<1>3. ASSUME NEW r \in Runs, CreateRunFails(r) PROVE Inv'
  <2>1. \A w \in Workers : cur[w] # r
    BY <1>3 DEF CreateRunFails, Terminal
  <2> QED BY <1>3, <2>1, CallerInv DEF CreateRunFails
<1>26. ASSUME NEW r \in Runs, CreateRunUnheard(r) PROVE Inv'
  <2>1. \A w \in Workers : cur[w] # r
    BY <1>26 DEF CreateRunUnheard, Terminal
  <2> QED BY <1>26, <2>1, CallerInv DEF CreateRunUnheard
<1>4. ASSUME NEW a \in Actions, NEW n \in 1..MaxLimit, UpdateLimit(a, n) PROVE Inv'
  BY <1>4 DEF UpdateLimit
<1>5. ASSUME NEW w \in Workers, Tick(w) PROVE Inv'
  BY <1>5 DEF Tick, db
<1>6. ASSUME NEW w \in Workers, Wake(w) PROVE Inv'
  BY <1>6 DEF Wake, db
<1>7. ASSUME NEW w \in Workers, Exit(w) PROVE Inv'
  BY <1>7 DEF Exit, db
<1>8. ASSUME NEW w \in Workers, DrainEnds(w) PROVE Inv'
  BY <1>8 DEF DrainEnds, db
<1>9. ASSUME NEW w \in Workers, NEW r \in Runs, Claim(w, r) PROVE Inv'
  <2> USE <1>9 DEF Claim, Eligible
  <2>1. \A v \in Workers : cur[v] # r
    BY DEF Terminal
  <2>2. (HoldsInExecution /\ OneOwner /\ HolderStatus)'
    BY <2>1
  <2>3. RunningIsOwned'
    BY <2>1
  <2>4. (HolderToken /\ UnclaimedToken /\ HolderSession /\ DownIsEmpty)'
    BY <2>1
  <2>5. LostIsSettled'
    BY <2>1
  <2> QED BY <2>2, <2>3, <2>4, <2>5
<1>10. ASSUME NEW w \in Workers, LoadVersion(w) PROVE Inv'
  BY <1>10 DEF LoadVersion, Advance, db
<1>11. ASSUME NEW w \in Workers, IssueToken(w) PROVE Inv'
  BY <1>11 DEF IssueToken, Advance
<1>12. ASSUME NEW w \in Workers, CreateSession(w) PROVE Inv'
  BY <1>12 DEF CreateSession, Advance, db
<1>13. ASSUME NEW w \in Workers, UploadArtifact(w) PROVE Inv'
  BY <1>13 DEF UploadArtifact, Advance, db
<1>14. ASSUME NEW w \in Workers, Exec(w) PROVE Inv'
  BY <1>14 DEF Exec, Advance, db
<1>15. ASSUME NEW w \in Workers, StageFails(w) PROVE Inv'
  BY <1>15 DEF StageFails, GivenUp, db
<1>16. ASSUME NEW w \in Workers, FinishRevoke(w) PROVE Inv'
  BY <1>16 DEF FinishRevoke, RevokeTokens, Revoked, db
<1>17. ASSUME NEW w \in Workers, RecordStatus(w) PROVE Inv'
  <2> USE <1>17 DEF RecordStatus, Return
  <2>1. \A v \in Workers : v # w => cur[v] # cur[w]
    OBVIOUS
  <2>2. (HoldsInExecution /\ OneOwner /\ HolderStatus)'
    BY <2>1 DEF Terminal
  <2>3. RunningIsOwned'
    <3> SUFFICES ASSUME NEW r \in Runs, (status[r] = "running" /\ phase # "down")'
                 PROVE  (Owned(r) \/ r \in lost)'
      OBVIOUS
    <3>1. r # cur[w] /\ status[r] = "running"
      BY DEF Terminal
    <3>2. CASE r \in lost
      BY <3>2
    <3>3. ASSUME NEW v \in Workers, cur[v] = r, pc[v] \in Busy PROVE Owned(r)'
      BY <3>1, <3>3
    <3> QED BY <3>1, <3>2, <3>3
  <2>4. (HolderToken /\ UnclaimedToken /\ HolderSession /\ DownIsEmpty)'
    BY <2>1 DEF Terminal
  <2>5. LostIsSettled'
    BY <2>1
  <2> QED BY <2>2, <2>3, <2>4, <2>5
<1>18. ASSUME NEW w \in Workers, RecordStatusFails(w) PROVE Inv'
  BY <1>18 DEF RecordStatusFails, Return, db
<1>19. ASSUME NEW w \in Workers, ReleaseSession(w) PROVE Inv'
  BY <1>19 DEF ReleaseSession, Release, db
<1>20. ASSUME NEW w \in Workers, DeferredRevoke(w) PROVE Inv'
  BY <1>20 DEF DeferredRevoke, RevokeTokens, Revoked, db
<1>21. ASSUME Stop PROVE Inv'
  BY <1>21 DEF Stop, db
<1>22. ASSUME StopReturns PROVE Inv'
  BY <1>22, ForgetInv DEF StopReturns
<1>23. ASSUME Crash PROVE Inv'
  BY <1>23, ForgetInv DEF Crash
<1>24. ASSUME Start PROVE Inv'
  BY <1>24 DEF Start, Live
<1>25. CASE UNCHANGED vars
  BY <1>25 DEF vars
<1>27. ASSUME NEW w \in Workers, IssueTokenUnheard(w) PROVE Inv'
  BY <1>27 DEF IssueTokenUnheard
<1>28. ASSUME NEW w \in Workers, BundleIsEmpty(w) PROVE Inv'
  BY <1>28 DEF BundleIsEmpty, db
<1>29. ASSUME NEW w \in Workers, UnwindRelease(w) PROVE Inv'
  BY <1>29 DEF UnwindRelease, Release, db
<1>30. ASSUME NEW w \in Workers, UnwindRevoke(w) PROVE Inv'
  <2>1. \A r \in Runs : token'[r] = token[r] \/ (token[r] = "active" /\ token'[r] = "revoked")
    BY <1>30 DEF UnwindRevoke, Revoked
  <2> QED BY <1>30, <2>1, ForgetInv DEF UnwindRevoke
<1>31. ASSUME NEW r \in Runs, LateCreation(r) \/ Evict(r) \/ Expire(r) PROVE Inv'
  BY <1>31 DEF LateCreation, Evict, Expire, db
<1> QED
  BY <1>1, <1>2, <1>3, <1>4, <1>5, <1>6, <1>7, <1>8, <1>9, <1>10, <1>11, <1>12, <1>13, <1>14, <1>15, <1>16, <1>17, <1>18, <1>19, <1>20, <1>21, <1>22, <1>23, <1>24, <1>25, <1>26, <1>27, <1>28, <1>29, <1>30, <1>31
  DEF Next, Caller, Outside, Loop, Execute, Process

\* The inductive invariant holds of every behaviour of the queue.
THEOREM InvHolds == Spec => []Inv
  BY InitInv, StepInv, PTL DEF Spec

\* Type correctness.
THEOREM TypeCorrect == Spec => []TypeOK
<1>1. Inv => TypeOK
  BY DEF Inv
<1> QED
  BY <1>1, InvHolds, PTL

\* No run is ever executed by two workers.
THEOREM SingleOwner == Spec => []OneOwner
<1>1. Inv => OneOwner
  BY DEF Inv
<1> QED
  BY <1>1, InvHolds, PTL

\* A concurrency slot is held by a worker at work, or by a lost status write.
THEOREM NoSlotLeak == Spec => []RunningIsOwned
<1>1. Inv => RunningIsOwned
  BY DEF Inv
<1> QED
  BY <1>1, InvHolds, PTL

\* A token that the runtime API accepts belongs to a run that a worker has not
\* revoked yet, unless a revocation failed.
THEOREM CapabilityIsOwned == Spec => []CapabilityHasOwner
<1>1. Inv => CapabilityHasOwner
  <2> SUFFICES ASSUME Inv, NEW r \in Runs, Live(r), phase # "down"
               PROVE \/ \E w \in Workers : cur[w] = r /\ pc[w] \in Stage \cup Unwinding \cup {"revoke"}
                     \/ "revoke" \in Faults /\ (Owned(r) \/ r \in lost)
    BY DEF CapabilityHasOwner
  <2>1. Owned(r) \/ r \in lost
    BY DEF Inv, RunningIsOwned, Live
  <2>2. CASE "revoke" \in Faults
    BY <2>1, <2>2
  <2>3. CASE "revoke" \notin Faults
    <3>1. r \notin lost
      BY <2>3 DEF Inv, LostIsSettled, Live
    <3>2. PICK w \in Workers : cur[w] = r /\ pc[w] \in Busy
      BY <2>1, <3>1 DEF Owned
    <3>3. pc[w] # "record"
      BY <2>3, <3>2 DEF Inv, HolderToken, Live
    <3> QED BY <3>2, <3>3 DEF Busy
  <2> QED BY <2>2, <2>3
<1> QED
  BY <1>1, InvHolds, PTL

\* While the program executes, the rows behind its token admit it and no step of
\* the service ends its session: what is left is the expiry and the eviction.
THEOREM ExecEquipped == Spec => []ExecIsEquipped
<1>1. Inv => ExecIsEquipped
  BY DEF Inv, ExecIsEquipped, HolderStatus, HolderToken, HolderSession, Capable, Live, Busy, Stage
<1> QED
  BY <1>1, InvHolds, PTL

-----------------------------------------------------------------------------
\* Only a claim adds to the running runs of an action, and it adds one.
LEMMA RunningGrowth ==
  ASSUME Inv, [Next]_vars, NEW a \in Actions
  PROVE  \/ RunningOf(a)' \subseteq RunningOf(a)
         \/ \E w \in Workers, r \in Runs :
              Claim(w, r) /\ ActionOf[r] = a /\ RunningOf(a)' = RunningOf(a) \cup {r}
<1> USE DEF RunningOf, Inv, TypeOK
<1>1. ASSUME Caller PROVE RunningOf(a)' \subseteq RunningOf(a)
  BY <1>1 DEF Caller, PrepareRun, CreateRun, CreateRunFails, CreateRunUnheard
<1>2. ASSUME NEW b \in Actions, NEW n \in 1..MaxLimit, UpdateLimit(b, n)
      PROVE  RunningOf(a)' \subseteq RunningOf(a)
  BY <1>2 DEF UpdateLimit
<1>3. ASSUME NEW w \in Workers, NEW r \in Runs, Claim(w, r)
      PROVE  \/ RunningOf(a)' \subseteq RunningOf(a)
             \/ ActionOf[r] = a /\ RunningOf(a)' = RunningOf(a) \cup {r}
  BY <1>3 DEF Claim, Eligible
<1>4. ASSUME NEW w \in Workers, Loop(w), ~ \E r \in Runs : Claim(w, r)
      PROVE  RunningOf(a)' \subseteq RunningOf(a)
  BY <1>4 DEF Loop, Tick, Wake, Exit, DrainEnds, db
<1>5. ASSUME NEW w \in Workers, Execute(w) PROVE RunningOf(a)' \subseteq RunningOf(a)
  <2>1. CASE RecordStatus(w)
    BY <2>1 DEF RecordStatus, Terminal
  <2>2. CASE UNCHANGED status
    BY <2>2
  <2>3. CASE UnwindRevoke(w)
    BY <2>3 DEF UnwindRevoke, ForgetProcess
  <2>4. RecordStatus(w) \/ UnwindRevoke(w) \/ UNCHANGED status
    BY <1>5 DEF Execute, LoadVersion, IssueToken, IssueTokenUnheard, CreateSession,
       UploadArtifact, Exec, StageFails, BundleIsEmpty, FinishRevoke, RevokeTokens,
       RecordStatusFails, ReleaseSession, DeferredRevoke, UnwindRelease, db
  <2> QED BY <2>1, <2>2, <2>3, <2>4
<1>6. ASSUME Process PROVE RunningOf(a)' \subseteq RunningOf(a)
  BY <1>6 DEF Process, Stop, StopReturns, Crash, ForgetProcess, Start, db
<1>7. CASE UNCHANGED vars
  BY <1>7 DEF vars
<1>8. ASSUME Outside PROVE RunningOf(a)' \subseteq RunningOf(a)
  BY <1>8 DEF Outside, LateCreation, Evict, Expire, db
<1> QED
  BY <1>1, <1>2, <1>3, <1>4, <1>5, <1>6, <1>7, <1>8 DEF Next, Loop

\* A claim never takes an action over the limit it reads.
THEOREM ClaimsWithinLimit == Spec => LimitRespected
<1>1. Inv /\ [Next]_vars =>
        [\A a \in Actions :
           Cardinality(RunningOf(a)') > Cardinality(RunningOf(a))
             => Cardinality(RunningOf(a)') <= limit[a]]_vars
  <2> SUFFICES ASSUME Inv, [Next]_vars, NEW a \in Actions,
                      Cardinality(RunningOf(a)') > Cardinality(RunningOf(a))
               PROVE  Cardinality(RunningOf(a)') <= limit[a]
    OBVIOUS
  <2>1. IsFiniteSet(RunningOf(a)) /\ Cardinality(RunningOf(a)) \in Nat
    BY QueueAssumption, FS_Subset, FS_CardinalityType DEF RunningOf
  <2>2. ~ (RunningOf(a)' \subseteq RunningOf(a))
    <3> SUFFICES ASSUME RunningOf(a)' \subseteq RunningOf(a) PROVE FALSE
      OBVIOUS
    <3>1. IsFiniteSet(RunningOf(a)') /\ Cardinality(RunningOf(a)') \in Nat
      BY <2>1, FS_Subset, FS_CardinalityType
    <3>2. Cardinality(RunningOf(a)') <= Cardinality(RunningOf(a))
      BY <2>1, FS_Subset
    <3> QED BY <2>1, <3>1, <3>2
  <2>3. PICK w \in Workers, r \in Runs :
          Claim(w, r) /\ ActionOf[r] = a /\ RunningOf(a)' = RunningOf(a) \cup {r}
    BY <2>2, RunningGrowth
  <2>4. Cardinality(RunningOf(a)) < limit[a]
    BY <2>3 DEF Claim, Eligible, HasSlot
  <2>5. Cardinality(RunningOf(a) \cup {r}) <= Cardinality(RunningOf(a)) + 1
    <3>1. Cardinality(RunningOf(a) \cup {r})
            = IF r \in RunningOf(a) THEN Cardinality(RunningOf(a)) ELSE Cardinality(RunningOf(a)) + 1
      BY <2>1, FS_AddElement, Zenon
    <3> QED BY <2>1, <3>1
  <2>6. limit[a] \in Nat
    BY QueueAssumption DEF Inv, TypeOK
  <2>7. Cardinality(RunningOf(a) \cup {r}) \in Nat
    BY <2>1, FS_AddElement, FS_CardinalityType
  <2> QED BY <2>1, <2>3, <2>4, <2>5, <2>6, <2>7
<1> QED
  BY <1>1, InvHolds, PTL DEF Spec, LimitRespected

-----------------------------------------------------------------------------
\* First come, first served within an action: the claim takes the earliest of
\* the runs that have a slot, and runs of one action have one or have none
\* together.
THEOREM ClaimsKeepOrder == Spec => ClaimsInOrder
<1> DEFINE InOrder == \A q, r \in Runs :
             /\ ActionOf[q] = ActionOf[r]
             /\ status[q] = "queued" /\ status[r] = "queued"
             /\ created[q] < created[r]
             /\ status'[r] = "running"
             => status'[q] = "running"
<1>1. Inv /\ [Next]_vars => [InOrder]_vars
  <2> SUFFICES ASSUME Inv, [Next]_vars, NEW q \in Runs, NEW r \in Runs,
                      ActionOf[q] = ActionOf[r],
                      status[q] = "queued" /\ status[r] = "queued",
                      created[q] < created[r], status'[r] = "running"
               PROVE  status'[q] = "running"
    OBVIOUS
  <2>1. r \in RunningOf(ActionOf[r])' /\ r \notin RunningOf(ActionOf[r])
    BY DEF RunningOf
  <2>2. PICK w \in Workers, x \in Runs :
          Claim(w, x) /\ RunningOf(ActionOf[r])' = RunningOf(ActionOf[r]) \cup {x}
    BY <2>1, RunningGrowth, QueueAssumption
  <2>3. r \in Eligible /\ \A y \in Eligible : created[r] <= created[y]
    BY <2>1, <2>2 DEF Claim
  <2>4. q \in Eligible
    BY <2>3 DEF Eligible, HasSlot
  <2>5. created[r] <= created[q] /\ created[q] \in Nat /\ created[r] \in Nat
    BY <2>3, <2>4 DEF Inv, TypeOK
  <2> QED BY <2>5
<1> QED
  BY <1>1, InvHolds, PTL DEF Spec, ClaimsInOrder

-----------------------------------------------------------------------------
(***************************************************************************)
(* What executions and graceful stops leave behind.  Nothing, because      *)
(* every session, accepted token and running run has a worker that has not *)
(* come to the call that ends it, and a stop waits for the workers.        *)
(***************************************************************************)
LostIsExcused == "status" \notin Faults => lost = {}

SessionHasWorker ==
  "release" \notin Faults => \A r \in Runs : session[r] = "open" =>
    /\ r \in guarded
    /\ \E w \in Workers : cur[w] = r /\ pc[w] \in {"upload", "exec", "revoke", "record", "release"}

TokenHasWorker ==
  "revoke" \notin Faults => \A r \in Runs : token[r] = "active" =>
    \E w \in Workers : cur[w] = r /\ pc[w] \in {"provision", "upload", "exec", "revoke"}

RunHasWorker ==
  "status" \notin Faults => \A r \in Runs : status[r] = "running" => Owned(r)

Attended ==
  /\ LostIsExcused
  /\ "crash" \notin Faults =>
       /\ SessionHasWorker /\ TokenHasWorker /\ RunHasWorker
       /\ \A w \in Workers : pc[w] \notin Unwinding

\* At the start there is nothing to attend to.
LEMMA AttendedInit == Init => Attended
BY DEF Init, Attended, LostIsExcused, Unwinding, SessionHasWorker, TokenHasWorker, RunHasWorker

\* A step that only moves one worker, and not past the end of a session or a
\* token that its run has.
LEMMA WorkerMoves ==
  ASSUME Inv, Attended, NEW w \in Workers, NEW to,
         UNCHANGED <<status, token, session, cur, guarded>>, lost' = lost,
         pc' = [pc EXCEPT ![w] = to],
         to \notin Unwinding, cur[w] # NoRun => to \in Busy,
         cur[w] # NoRun /\ session[cur[w]] = "open" => to \in {"upload", "exec", "revoke", "record"},
         cur[w] # NoRun /\ token[cur[w]] = "active" => to \in {"provision", "upload", "exec", "revoke"}
  PROVE  Attended'
<1> USE DEF Inv, TypeOK
<1>1. \A v \in Workers : pc'[v] = IF v = w THEN to ELSE pc[v]
  OBVIOUS
<1>2. ASSUME "crash" \notin Faults PROVE SessionHasWorker'
  BY <1>1, <1>2, QueueAssumption DEF Attended, SessionHasWorker
<1>3. ASSUME "crash" \notin Faults PROVE TokenHasWorker'
  BY <1>1, <1>3, QueueAssumption DEF Attended, TokenHasWorker
<1>4. ASSUME "crash" \notin Faults PROVE RunHasWorker'
  BY <1>1, <1>4, QueueAssumption DEF Attended, RunHasWorker, Owned
<1>5. ASSUME "crash" \notin Faults PROVE \A v \in Workers : pc'[v] \notin Unwinding
  BY <1>1, <1>5 DEF Attended
<1> QED BY <1>2, <1>3, <1>4, <1>5 DEF Attended, LostIsExcused

\* Every step keeps it: a worker goes past a call only when the call has
\* succeeded or its fault is allowed.
LEMMA AttendedStep == Inv /\ Attended /\ [Next]_vars => Attended'
<1> SUFFICES ASSUME Inv, Attended, [Next]_vars PROVE Attended'
  OBVIOUS
<1>0. /\ TypeOK /\ HoldsInExecution /\ OneOwner /\ HolderStatus /\ HolderToken /\ DownIsEmpty
      /\ RunningIsOwned /\ UnclaimedToken /\ HolderSession
  BY DEF Inv
<1> USE DEF marks, Unwinding
<1>1. ASSUME NEW w \in Workers, Loop(w) PROVE Attended'
  <2>1. CASE Tick(w) \/ Wake(w) \/ Exit(w) \/ DrainEnds(w)
    <3>1. cur[w] = NoRun
      BY <1>0, <2>1 DEF Tick, Wake, Exit, DrainEnds, HoldsInExecution, Busy, Stage, Deferred
    <3>2. PICK to \in {"idle", "drain", "exited"} : pc' = [pc EXCEPT ![w] = to]
      BY <2>1 DEF Tick, Wake, Exit, DrainEnds
    <3> QED BY <2>1, <3>1, <3>2, WorkerMoves DEF Tick, Wake, Exit, DrainEnds, db
  <2>2. ASSUME NEW r \in Runs, Claim(w, r) PROVE Attended'
    <3>1. \A v \in Workers : cur[v] # r
      BY <1>0, <2>2, QueueAssumption DEF Claim, Eligible, HoldsInExecution, HolderStatus, Terminal
    <3>2. cur[w] = NoRun
      BY <1>0, <2>2 DEF Claim, HoldsInExecution, Busy, Stage, Deferred
    <3> USE <1>0, <2>2 DEF Claim, TypeOK
    <3>3. ASSUME "crash" \notin Faults PROVE SessionHasWorker' /\ TokenHasWorker'
      BY <3>2, <3>3, QueueAssumption DEF Attended, SessionHasWorker, TokenHasWorker
    <3>4. ASSUME "crash" \notin Faults PROVE RunHasWorker' /\ \A v \in Workers : pc'[v] \notin Unwinding
      BY <3>2, <3>4, QueueAssumption DEF Attended, RunHasWorker, Owned, Busy, Stage
    <3> QED BY <3>3, <3>4 DEF Attended, LostIsExcused
  <2> QED BY <1>1, <2>1, <2>2 DEF Loop
<1>2. ASSUME NEW w \in Workers, LoadVersion(w) \/ UploadArtifact(w) \/ Exec(w)
                                \/ (StageFails(w) /\ session' = session)
      PROVE  Attended'
  <2>1. cur[w] \in Runs /\ (pc[w] = "load" => token[cur[w]] = "none")
    BY <1>0, <1>2
    DEF LoadVersion, UploadArtifact, Exec, StageFails, Advance, TypeOK, HoldsInExecution, Busy, Stage, HolderToken
  <2>2. PICK to \in {"issue", "exec", "revoke"} :
          pc' = [pc EXCEPT ![w] = to] /\ (to = "issue" => pc[w] = "load")
    BY <1>2 DEF LoadVersion, UploadArtifact, Exec, StageFails, Advance
  <2>3. UNCHANGED <<status, token, session, cur, guarded>> /\ lost' = lost
    BY <1>2 DEF LoadVersion, UploadArtifact, Exec, StageFails, Advance, db
  <2>4. ASSUME "crash" \notin Faults PROVE SessionHasWorker' /\ TokenHasWorker' /\ RunHasWorker'
    <3> USE <1>0, <2>1, <2>2, <2>3, <2>4 DEF TypeOK
    <3>1. SessionHasWorker'
      BY DEF Attended, SessionHasWorker
    <3>2. TokenHasWorker'
      BY DEF Attended, TokenHasWorker
    <3>3. RunHasWorker'
      BY DEF Attended, RunHasWorker, Owned, Busy, Stage
    <3> QED BY <3>1, <3>2, <3>3
  <2>5. ASSUME "crash" \notin Faults PROVE \A v \in Workers : pc'[v] \notin Unwinding
    BY <1>0, <2>2, <2>5 DEF Attended, TypeOK
  <2> QED BY <2>3, <2>4, <2>5 DEF Attended, LostIsExcused
<1>3. ASSUME NEW w \in Workers, IssueToken(w) \/ IssueTokenUnheard(w) PROVE Attended'
  <2>1. cur[w] \in Runs /\ token[cur[w]] = "none" /\ pc[w] = "issue"
    BY <1>0, <1>3 DEF IssueToken, IssueTokenUnheard, Advance, TypeOK, HoldsInExecution, HolderToken, Busy, Stage
  <2>5. /\ pc' = [pc EXCEPT ![w] = "provision"] \/ pc' = [pc EXCEPT ![w] = "revoke"]
        /\ token' = [token EXCEPT ![cur[w]] = "active"]
        /\ guarded' = guarded \cup {cur[w]} \/ guarded' = guarded
        /\ UNCHANGED <<status, session, cur, lost>>
    BY <1>3 DEF IssueToken, IssueTokenUnheard, Advance
  <2> USE <1>0, <2>1, <2>5 DEF TypeOK
  <2>2. ASSUME "crash" \notin Faults PROVE SessionHasWorker'
    BY <2>2 DEF Attended, SessionHasWorker
  <2>3. ASSUME "crash" \notin Faults PROVE TokenHasWorker'
    BY <2>3 DEF Attended, TokenHasWorker
  <2>4. ASSUME "crash" \notin Faults PROVE RunHasWorker' /\ \A v \in Workers : pc'[v] \notin Unwinding
    BY <2>4 DEF Attended, RunHasWorker, Owned, Busy, Stage
  <2> QED BY <2>2, <2>3, <2>4 DEF Attended, LostIsExcused
<1>4. ASSUME NEW w \in Workers, CreateSession(w) \/ (StageFails(w) /\ session' # session) PROVE Attended'
  <2>1. cur[w] \in Runs /\ token[cur[w]] = "active" /\ pc[w] = "provision" /\ cur[w] \in guarded
    BY <1>0, <1>4 DEF HolderSession, GivenUp, CreateSession, StageFails, Advance, TypeOK, HoldsInExecution, HolderToken, Busy, Stage
  <2>2. /\ pc' = [pc EXCEPT ![w] = "upload"] \/ pc' = [pc EXCEPT ![w] = "revoke"]
        /\ \A r \in Runs : session'[r] = "open" => r = cur[w] \/ session[r] = "open"
        /\ UNCHANGED <<status, token, cur, guarded, lost>>
    BY <1>0, <1>4, <2>1 DEF CreateSession, StageFails, GivenUp, Advance, TypeOK, db
  <2> USE <1>0, <2>1, <2>2 DEF TypeOK
  <2>3. ASSUME "crash" \notin Faults PROVE SessionHasWorker'
    BY <2>3 DEF Attended, SessionHasWorker
  <2>4. ASSUME "crash" \notin Faults PROVE TokenHasWorker'
    BY <2>4 DEF Attended, TokenHasWorker
  <2>5. ASSUME "crash" \notin Faults PROVE RunHasWorker' /\ \A v \in Workers : pc'[v] \notin Unwinding
    BY <2>5 DEF Attended, RunHasWorker, Owned, Busy, Stage
  <2> QED BY <2>2, <2>3, <2>4, <2>5 DEF Attended, LostIsExcused
<1>5. ASSUME NEW w \in Workers, FinishRevoke(w) PROVE Attended'
  <2>1. cur[w] \in Runs
    BY <1>0, <1>5 DEF FinishRevoke, TypeOK, HoldsInExecution, Busy
  <2> USE <1>0, <1>5, <2>1 DEF FinishRevoke, RevokeTokens, Revoked, TypeOK, db
  <2>2. ASSUME "crash" \notin Faults PROVE SessionHasWorker'
    BY <2>2 DEF Attended, SessionHasWorker, TokenState
  <2>3. ASSUME "crash" \notin Faults PROVE TokenHasWorker'
    BY <2>3 DEF Attended, TokenHasWorker
  <2>4. ASSUME "crash" \notin Faults PROVE RunHasWorker' /\ \A v \in Workers : pc'[v] \notin Unwinding
    BY <2>4 DEF Attended, RunHasWorker, Owned, Busy, Stage
  <2> QED BY <2>2, <2>3, <2>4 DEF Attended, LostIsExcused
<1>6. ASSUME NEW w \in Workers, RecordStatus(w) \/ RecordStatusFails(w) PROVE Attended'
  <2>1. /\ cur[w] \in Runs /\ pc[w] = "record" /\ Return(w)
        /\ \A v \in Workers : v # w => cur[v] # cur[w]
    BY <1>0, <1>6 DEF RecordStatus, RecordStatusFails, TypeOK, HoldsInExecution, OneOwner, Busy
  <2>2. UNCHANGED <<token, session, guarded>>
    BY <1>6 DEF RecordStatus, RecordStatusFails, db
  <2> USE <1>0, <2>1, <2>2 DEF Return, TypeOK
  <2>3. ASSUME "crash" \notin Faults PROVE SessionHasWorker'
    BY <2>3 DEF Attended, SessionHasWorker
  <2>4. ASSUME "crash" \notin Faults PROVE TokenHasWorker'
    BY <2>4 DEF Attended, TokenHasWorker
  <2>5. ASSUME "crash" \notin Faults, "status" \notin Faults PROVE RunHasWorker'
    <3>1. status' = [status EXCEPT ![cur[w]] = outcome[w]] /\ outcome[w] # "running"
      BY <1>6, <2>5 DEF RecordStatus, RecordStatusFails, Terminal
    <3>2. \A r \in Runs : status'[r] = "running" => r # cur[w] /\ Owned(r)
      BY <2>5, <3>1 DEF Attended, RunHasWorker
    <3>3. ASSUME NEW r \in Runs, r # cur[w], Owned(r) PROVE Owned(r)'
      BY <3>3 DEF Owned
    <3> QED BY <3>2, <3>3 DEF RunHasWorker
  <2>6. LostIsExcused'
    BY <1>6 DEF RecordStatus, RecordStatusFails, Attended, LostIsExcused
  <2>7. ASSUME "crash" \notin Faults PROVE \A v \in Workers : pc'[v] \notin Unwinding
    BY <2>7 DEF Attended
  <2> QED BY <2>3, <2>4, <2>5, <2>6, <2>7 DEF Attended, RunHasWorker
<1>7. ASSUME NEW w \in Workers, ReleaseSession(w) \/ DeferredRevoke(w) PROVE Attended'
  <2>1. /\ cur[w] \in Runs /\ pc[w] \in Deferred
        /\ \A v \in Workers : v # w => cur[v] # cur[w]
    BY <1>0, <1>7 DEF ReleaseSession, DeferredRevoke, TypeOK, HoldsInExecution, OneOwner, Deferred
  <2> USE <1>0, <1>7, <2>1 DEF TypeOK, ReleaseSession, DeferredRevoke, Release, RevokeTokens, Revoked, Deferred, db
  <2>2. ASSUME "crash" \notin Faults PROVE SessionHasWorker'
    BY <2>2 DEF Attended, SessionHasWorker, TokenState
  <2>3. ASSUME "crash" \notin Faults PROVE TokenHasWorker'
    BY <2>3 DEF Attended, TokenHasWorker
  <2>4. ASSUME "crash" \notin Faults PROVE RunHasWorker' /\ \A v \in Workers : pc'[v] \notin Unwinding
    BY <2>4 DEF Attended, RunHasWorker, Owned, Busy, Stage
  <2> QED BY <2>2, <2>3, <2>4 DEF Attended, LostIsExcused
<1>8. ASSUME NEW r \in Runs,
             PrepareRun(r) \/ CreateRun(r) \/ CreateRunFails(r) \/ CreateRunUnheard(r)
      PROVE  Attended'
  <2> USE <1>0, <1>8 DEF PrepareRun, CreateRun, CreateRunFails, CreateRunUnheard, TypeOK
  <2>1. ASSUME "crash" \notin Faults PROVE SessionHasWorker' /\ TokenHasWorker'
    BY <2>1 DEF Attended, SessionHasWorker, TokenHasWorker
  <2>2. ASSUME "crash" \notin Faults PROVE RunHasWorker'
    BY <2>2 DEF Attended, RunHasWorker, Owned
  <2> QED BY <2>1, <2>2 DEF Attended, LostIsExcused
<1>9. CASE StopReturns \/ Crash
  <2>1. ForgetProcess /\ ("crash" \notin Faults => \A w \in Workers : pc[w] = "exited")
    BY <1>9 DEF StopReturns, Crash
  <2>2. ASSUME "crash" \notin Faults
        PROVE  /\ SessionHasWorker' /\ TokenHasWorker' /\ RunHasWorker'
               /\ \A w \in Workers : pc'[w] \notin Unwinding
    BY <1>0, <1>9, <2>1, <2>2
    DEF StopReturns, Crash, ForgetProcess, GivenUp, TypeOK, Attended, SessionHasWorker, TokenHasWorker, RunHasWorker, Owned, Busy, Stage
  <2> QED BY <2>1, <2>2 DEF Attended, LostIsExcused, ForgetProcess
<1>10. CASE Start
  <2> USE <1>0, <1>10 DEF Start, TypeOK, Live
  <2>1. ASSUME "crash" \notin Faults PROVE SessionHasWorker' /\ TokenHasWorker'
    BY <2>1 DEF Attended, SessionHasWorker, TokenHasWorker, TokenState
  <2>2. ASSUME "crash" \notin Faults PROVE RunHasWorker'
    BY <2>2 DEF Attended, RunHasWorker, Owned
  <2> QED BY <2>1, <2>2 DEF Attended, LostIsExcused
<1>15. CASE Outside
  <2>1. /\ UNCHANGED <<status, token, pc, cur, guarded, lost>>
        /\ \A r \in Runs : session'[r] = "open" => session[r] = "open"
    BY <1>0, <1>15 DEF Outside, LateCreation, Evict, Expire, TypeOK, db
  <2> QED BY <1>0, <2>1 DEF TypeOK, Attended, LostIsExcused, SessionHasWorker, TokenHasWorker, RunHasWorker, Owned
<1>16. ASSUME NEW w \in Workers, BundleIsEmpty(w) \/ UnwindRelease(w) \/ UnwindRevoke(w) PROVE Attended'
  <2>1. "crash" \in Faults
    BY <1>0, <1>16 DEF BundleIsEmpty, UnwindRelease, UnwindRevoke, Attended
  <2>2. lost' = lost
    BY <1>16 DEF BundleIsEmpty, UnwindRelease, UnwindRevoke, ForgetProcess, db
  <2> QED BY <2>1, <2>2 DEF Attended, LostIsExcused
<1>11. ASSUME UNCHANGED <<status, token, session, pc, cur, guarded, lost>> PROVE Attended'
  BY <1>11 DEF Attended, LostIsExcused, SessionHasWorker, TokenHasWorker, RunHasWorker, Owned
<1>12. ASSUME NEW a \in Actions, NEW n \in 1..MaxLimit, UpdateLimit(a, n) PROVE Attended'
  BY <1>11, <1>12 DEF UpdateLimit
<1>13. CASE Stop \/ UNCHANGED vars
  BY <1>11, <1>13 DEF Stop, vars, db
<1>14. ASSUME NEW w \in Workers, Execute(w) PROVE Attended'
  BY <1>2, <1>3, <1>4, <1>5, <1>6, <1>7, <1>14, <1>16 DEF Execute
<1> QED
  BY <1>1, <1>8, <1>9, <1>10, <1>12, <1>13, <1>14, <1>15 DEF Next, Caller, Process

\* A graceful stop, and every execution that returned, leave no token, no
\* running run and no session behind unless the call that ends it failed; a
\* session whose creation was given up is not counted, for no call knows it.
THEOREM NothingStays == Spec => []NothingIsLeft
<1>1. Inv /\ Attended => NothingIsLeft
  <2> SUFFICES ASSUME Inv, Attended, "crash" \notin Faults PROVE NothingIsLeft
    BY DEF NothingIsLeft
  <2>1. phase = "down" => \A w \in Workers : pc[w] = "idle"
    BY DEF Inv, DownIsEmpty
  <2>2. "release" \notin Faults => \A r \in Runs :
          session[r] = "open" => \E w \in Workers : cur[w] = r
    BY DEF Attended, SessionHasWorker
  <2>3. "revoke" \notin Faults => \A r \in Runs : token[r] = "active" => \E w \in Workers : pc[w] # "idle"
    BY DEF Attended, TokenHasWorker
  <2>4. "status" \notin Faults => \A r \in Runs : status[r] = "running" => \E w \in Workers : pc[w] # "idle"
    BY DEF Attended, RunHasWorker, Owned, Busy, Stage
  <2> QED BY <2>1, <2>2, <2>3, <2>4 DEF NothingIsLeft
<1>2. Spec => []Attended
  BY InvHolds, AttendedInit, AttendedStep, PTL DEF Spec
<1> QED
  BY <1>1, <1>2, InvHolds, PTL

-----------------------------------------------------------------------------
(***************************************************************************)
(* The queue implements RunContract.  Row is what the contract sees of     *)
(* status: a prepared run has no row.                                      *)
(***************************************************************************)
Row == [r \in Runs |-> IF status[r] = "prepared" THEN "absent" ELSE status[r]]

\* The contract and the queue mean the same by a slot and by an accepted token.
LEMMA SameView ==
  ASSUME Inv
  PROVE  /\ \A r \in Runs : Contract!HasSlot(r) <=> HasSlot(r)
         /\ \A r \in Runs : Contract!Live(r) <=> Live(r)
<1>1. \A a : Contract!RunningOf(a) = RunningOf(a)
  BY DEF Contract!RunningOf, RunningOf
<1>2. \A r \in Runs : Contract!HasSlot(r) <=> HasSlot(r)
  BY <1>1, Zenon
  DEF Contract!HasSlot, HasSlot, Contract!Cardinality, Cardinality
<1>3. \A r \in Runs : Contract!Live(r) <=> Live(r)
  BY DEF Contract!Live, Live
<1> QED
  BY <1>2, <1>3

\* The initial states of the queue are initial states of the contract.
LEMMA ContractInit == Init => Contract!Init
  BY DEF Init, Contract!Init

\* Every step of the queue is a step of the contract or leaves its view alone.
LEMMA ContractStep == Inv /\ [Next]_vars => [Contract!Next]_Contract!cvars
<1> SUFFICES ASSUME Inv, [Next]_vars
             PROVE  Contract!Next \/ UNCHANGED <<Row, token, limit>>
  BY DEF Contract!cvars, Row
<1> USE DEF Inv, TypeOK
<1> DEFINE Goal == Contract!Next \/ UNCHANGED <<Row, token, limit>>
<1>1. ASSUME NEW r \in Runs, PrepareRun(r) PROVE Goal
  BY <1>1 DEF PrepareRun, Row
<1>2. ASSUME NEW r \in Runs, CreateRun(r) PROVE Goal
  <2>1. Contract!Create(r)
    BY <1>2 DEF CreateRun, Contract!Create
  <2> QED BY <2>1 DEF Contract!Next
<1>3. ASSUME NEW r \in Runs, CreateRunFails(r) PROVE Goal
  BY <1>3 DEF CreateRunFails, Row
<1>15. ASSUME NEW r \in Runs, CreateRunUnheard(r) PROVE Goal
  <2>1. Contract!Create(r)
    BY <1>15 DEF CreateRunUnheard, Contract!Create
  <2> QED BY <2>1 DEF Contract!Next
<1>4. ASSUME NEW a \in Actions, NEW n \in 1..MaxLimit, UpdateLimit(a, n) PROVE Goal
  <2>1. Contract!SetLimit(a, n)
    BY <1>4 DEF UpdateLimit, Contract!SetLimit
  <2> QED BY <2>1 DEF Contract!Next
<1>5. ASSUME NEW w \in Workers, NEW r \in Runs, Claim(w, r) PROVE Goal
  <2>1. Contract!Claim(r)
    BY <1>5, SameView DEF Claim, Eligible, Contract!Claim
  <2> QED BY <2>1 DEF Contract!Next
<1>6. ASSUME NEW w \in Workers, IssueToken(w) \/ IssueTokenUnheard(w) PROVE Goal
  <2>1. cur[w] \in Runs /\ status[cur[w]] = "running" /\ token[cur[w]] = "none"
    BY <1>6 DEF IssueToken, IssueTokenUnheard, Advance, HoldsInExecution, HolderStatus, HolderToken, Busy, Stage
  <2>2. Contract!Issue(cur[w])
    BY <1>6, <2>1 DEF IssueToken, IssueTokenUnheard, Contract!Issue
  <2> QED BY <2>1, <2>2 DEF Contract!Next
<1>7. ASSUME NEW w \in Workers, FinishRevoke(w) \/ DeferredRevoke(w) \/ UnwindRevoke(w) PROVE Goal
  <2>1. cur[w] \in Runs
    BY <1>7 DEF FinishRevoke, DeferredRevoke, UnwindRevoke, HoldsInExecution, Busy, Unwinding, Deferred
  <2>2. UNCHANGED <<Row, limit>> /\ (token' = Revoked(w) \/ token' = token)
    BY <1>7 DEF FinishRevoke, DeferredRevoke, UnwindRevoke, RevokeTokens, ForgetProcess, Row
  <2>3. CASE token' = token
    BY <2>2, <2>3
  <2>4. CASE token' = Revoked(w) /\ token[cur[w]] = "active"
    <3>1. Contract!Revoke(cur[w])
      BY <2>1, <2>2, <2>4 DEF Revoked, Row, Contract!Revoke
    <3> QED BY <2>1, <3>1 DEF Contract!Next
  <2>5. CASE token' = Revoked(w) /\ token[cur[w]] # "active"
    BY <2>1, <2>2, <2>5 DEF Revoked
  <2> QED BY <2>2, <2>3, <2>4, <2>5
<1>8. ASSUME NEW w \in Workers, RecordStatus(w) PROVE Goal
  <2>1. cur[w] \in Runs /\ status[cur[w]] = "running" /\ outcome[w] \in Terminal
    BY <1>8 DEF RecordStatus, HoldsInExecution, HolderStatus, Busy
  <2>2. Contract!Finish(cur[w], outcome[w])
    BY <1>8, <2>1 DEF RecordStatus, Contract!Finish, Terminal
  <2>3. outcome[w] \in Contract!Terminal
    BY <2>1 DEF Contract!Terminal, Terminal
  <2>4. \E r \in Runs, s \in Contract!Terminal : Contract!Finish(r, s)
    BY <2>1, <2>2, <2>3 DEF Contract!Finish
  <2> QED BY <2>4 DEF Contract!Next
<1>9. ASSUME Start PROVE Goal
  <2>1. Contract!InterruptAll
    BY <1>9, SameView DEF Start, Contract!InterruptAll, Live
  <2> QED BY <2>1 DEF Contract!Next
<1>10. ASSUME StopReturns \/ Crash PROVE Goal
  BY <1>10 DEF StopReturns, Crash, ForgetProcess, Row
<1>11. ASSUME UNCHANGED db PROVE Goal
  BY <1>11 DEF db, Row
<1>12. ASSUME NEW w \in Workers, Loop(w) PROVE Goal
  BY <1>5, <1>11, <1>12 DEF Loop, Tick, Wake, Exit, DrainEnds
<1>13. ASSUME NEW w \in Workers, Execute(w) PROVE Goal
  BY <1>6, <1>7, <1>8, <1>11, <1>13
  DEF Execute, LoadVersion, CreateSession, UploadArtifact, Exec, StageFails, BundleIsEmpty,
      RecordStatusFails, ReleaseSession, UnwindRelease
<1>16. ASSUME Outside PROVE Goal
  BY <1>11, <1>16 DEF Outside, LateCreation, Evict, Expire
<1>14. ASSUME Stop \/ UNCHANGED vars PROVE Goal
  BY <1>11, <1>14 DEF Stop, vars, db
<1> QED
  BY <1>1, <1>2, <1>3, <1>4, <1>9, <1>10, <1>12, <1>13, <1>14, <1>15, <1>16 DEF Next, Caller, Process

\* The runner, with its workers, crashes and restarts, keeps the contract of
\* runs and tokens.
THEOREM QueueKeepsContract == Spec => KeepsContract
  BY InvHolds, ContractInit, ContractStep, PTL DEF Spec, KeepsContract, Contract!Spec
=============================================================================
