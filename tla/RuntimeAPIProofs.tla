-------------------------- MODULE RuntimeAPIProofs --------------------------
(***************************************************************************)
(* Theorems about RuntimeAPI, for any runs, actions, requests and scopes.  *)
(***************************************************************************)
EXTENDS RuntimeAPI, TLAPS

(***************************************************************************)
(* The inductive invariant.  Why two reads are as good as one: a run runs  *)
(* once, and its token is issued while it does.  So if the token was good  *)
(* when it was read and the run is running later, the run was running at   *)
(* the first read too, and the token was usable then.                      *)
(***************************************************************************)

\* A token is issued to a run that was claimed.
TokenOfStarted ==
  \A r \in Runs : token[r] # "none" => status[r] \notin {"absent", "queued"}

\* Nobody presents a token that was not issued.
Presented == \A q \in Requests : rpc[q] # "new" => token[RunOf[q]] # "none"

\* Between the two reads: if the run is still running, the token was usable.
LookedUp ==
  \A q \in Requests : rpc[q] = "run" /\ status[RunOf[q]] = "running" => granted[q]

\* A write in progress belongs to a request with the scope, and it is renamed
\* when it is whole.
WriteInProgress ==
  \A q \in Requests :
    /\ rpc[q] \in {"write", "rename"} => Needs[q] = "state.write" /\ HasScope(q)
    /\ rpc[q] = "rename" => temp[q] = "whole"

\* Who left a message or state is past its handler.
EffectIsPast ==
  \A q \in Requests :
    /\ q \in sent => rpc[q] \in {"reply", "ok", "error", "lost"}
    /\ rpc[q] = "reply" /\ Needs[q] = "frostagent.sendmsg" => q \in sent

Inv ==
  /\ TypeOK
  /\ TokenOfStarted /\ Presented /\ LookedUp /\ WriteInProgress /\ EffectIsPast
  /\ AcceptedWasUsable /\ StateIsGenuine /\ WritesAreAtomic /\ MessagesAreGenuine
  /\ TempsAreExplained

\* The invariant holds before anything happened.
LEMMA InitInv == ApiInit => Inv
BY RuntimeAssumption, ContractAssumption
   DEF ApiInit, Init, Inv, TypeOK, TokenOfStarted, Presented, LookedUp, WriteInProgress,
       EffectIsPast, AcceptedWasUsable, StateIsGenuine, WritesAreAtomic, MessagesAreGenuine,
       TempsAreExplained, RowStatus, TokenState, RPC, Accepted, Handling, InFlight

\* A request moves in the middleware.
LEMMA MiddlewareStep ==
  ASSUME Inv, NEW q \in Requests, Middleware(q)
  PROVE  Inv'
<1> USE RuntimeAssumption DEF Inv, Step
<1>1. UNCHANGED <<status, token, limit, expired, temp, file, sent>>
  BY DEF Middleware, Arrive, LookupToken, CheckRun, Refuse, cvars
<1>2. /\ rpc' \in [Requests -> RPC]
      /\ \A p \in Requests : p # q => rpc'[p] = rpc[p] /\ granted'[p] = granted[p]
      /\ granted' \in [Requests -> BOOLEAN]
  <2>1. CASE Arrive(q)
    BY <2>1 DEF Arrive, TypeOK, RPC, InFlight
  <2>2. CASE LookupToken(q)
    BY <2>2 DEF LookupToken, TypeOK, RPC, InFlight, Usable, Live
  <2>3. CASE CheckRun(q)
    BY <2>3 DEF CheckRun, TypeOK, RPC, InFlight, Handling
  <2>4. CASE Refuse(q)
    BY <2>4 DEF Refuse, TypeOK, RPC
  <2> QED BY <2>1, <2>2, <2>3, <2>4 DEF Middleware
<1>3. \/ rpc[q] = "new" /\ rpc'[q] = "token" /\ granted' = granted /\ token[RunOf[q]] # "none"
      \/ /\ rpc[q] = "token" /\ rpc'[q] = "run"
         /\ status[RunOf[q]] = "running" => granted'[q]
      \/ /\ rpc[q] = "run" /\ rpc'[q] = "handle" /\ granted' = granted
         /\ status[RunOf[q]] = "running"
      \/ rpc[q] \in {"token", "run"} /\ rpc'[q] = "unauthorized" /\ granted' = granted
  BY DEF Middleware, Arrive, LookupToken, CheckRun, Refuse, TypeOK, Usable, Live
<1>4. TypeOK' /\ TokenOfStarted'
  BY <1>1, <1>2 DEF TypeOK, TokenOfStarted
<1>5. Presented' /\ LookedUp'
  BY <1>1, <1>2, <1>3 DEF Presented, LookedUp
<1>6. AcceptedWasUsable'
  BY <1>1, <1>2, <1>3 DEF AcceptedWasUsable, LookedUp, Accepted, Handling
<1>7. WriteInProgress' /\ EffectIsPast' /\ TempsAreExplained'
  BY <1>1, <1>2, <1>3 DEF WriteInProgress, EffectIsPast, TempsAreExplained, HasScope
<1>8. StateIsGenuine' /\ WritesAreAtomic'
  <2>1. \A a \in Actions : file[a].by # q
    BY <1>3, RuntimeAssumption DEF WritesAreAtomic
  <2>2. StateIsGenuine'
    BY <1>1, <1>2, <2>1 DEF StateIsGenuine
  <2>3. \A a \in Actions : file[a].by # NoRequest => file[a].by \in Requests /\ file[a].by # q
    BY <2>1 DEF TypeOK
  <2>4. WritesAreAtomic'
    BY <1>1, <1>2, <2>3 DEF WritesAreAtomic
  <2> QED BY <2>2, <2>4
<1>9. MessagesAreGenuine'
  BY <1>1, <1>2, <1>3 DEF MessagesAreGenuine, EffectIsPast
<1> QED BY <1>4, <1>5, <1>6, <1>7, <1>8, <1>9

\* A request moves in its handler: runs, tokens and clocks stand still.
LEMMA HandlerStep ==
  ASSUME Inv, NEW q \in Requests, Handler(q)
  PROVE  Inv'
<1> USE RuntimeAssumption DEF Inv, Step
<1>1. UNCHANGED <<status, token, limit, expired, granted>>
  BY DEF Handler, Decline, CreateTemp, WriteTemp, Rename, WriteFails, SendMessage, Reply, cvars
<1>2. /\ rpc' \in [Requests -> RPC]
      /\ temp' \in [Requests -> {"none", "partial", "whole"}]
      /\ \A p \in Requests : p # q => rpc'[p] = rpc[p] /\ temp'[p] = temp[p]
      /\ rpc[q] \in Handling /\ rpc'[q] \in Accepted
  <2>0. TypeOK
    OBVIOUS
  <2> HIDE DEF Inv
  <2>1. CASE Decline(q)
    BY <2>0, <2>1 DEF Decline, TypeOK, RPC, Handling, Accepted
  <2>2. CASE SendMessage(q)
    BY <2>0, <2>2 DEF SendMessage, TypeOK, RPC, InFlight, Handling, Accepted
  <2>3. CASE Reply(q)
    BY <2>0, <2>3 DEF Reply, TypeOK, RPC, Handling, Accepted
  <2>4. CASE CreateTemp(q)
    BY <2>0, <2>4 DEF CreateTemp, TypeOK, RPC, InFlight, Handling, Accepted
  <2>5. CASE WriteTemp(q)
    BY <2>0, <2>5 DEF WriteTemp, TypeOK, RPC, InFlight, Handling, Accepted
  <2>6. CASE Rename(q)
    BY <2>0, <2>6 DEF Rename, TypeOK, RPC, InFlight, Handling, Accepted
  <2>7. CASE WriteFails(q)
    BY <2>0, <2>7 DEF WriteFails, TypeOK, RPC, InFlight, Handling, Accepted
  <2> QED BY <2>1, <2>2, <2>3, <2>4, <2>5, <2>6, <2>7 DEF Handler
<1>3. TokenOfStarted' /\ Presented' /\ LookedUp' /\ AcceptedWasUsable'
  BY <1>1, <1>2
     DEF TokenOfStarted, Presented, LookedUp, AcceptedWasUsable, Handling, Accepted
<1>4. granted[q]
  BY <1>2 DEF AcceptedWasUsable, Handling, Accepted
<1>5. CASE Rename(q)
  <2> DEFINE b == ActionOf[RunOf[q]]
             f == [by |-> q, whole |-> temp[q] = "whole"]
  <2>1. /\ rpc[q] = "rename" /\ temp[q] = "whole" /\ rpc'[q] = "reply" /\ temp'[q] = "none"
        /\ Needs[q] = "state.write" /\ "state.write" \in Scopes[RunOf[q]]
        /\ sent' = sent /\ b \in Actions
    BY <1>5, ContractAssumption DEF Rename, WriteInProgress, HasScope, TypeOK
  <2>2. file' = [file EXCEPT ![b] = f] /\ f.by = q /\ f.whole = TRUE
    BY <1>5, <2>1 DEF Rename
  <2>3. \A a \in Actions : file'[a] = IF a = b THEN f ELSE file[a]
    BY <2>2 DEF TypeOK
  <2>4. TypeOK'
    BY <1>1, <1>2, <2>1, <2>2 DEF TypeOK
  <2>5. WriteInProgress' /\ EffectIsPast' /\ TempsAreExplained'
    BY <1>1, <1>2, <2>1 DEF WriteInProgress, EffectIsPast, TempsAreExplained, HasScope
  <2>6. StateIsGenuine'
    BY <1>1, <1>4, <2>1, <2>2, <2>3 DEF StateIsGenuine
  <2>7. WritesAreAtomic'
    <3> SUFFICES ASSUME NEW a \in Actions
                 PROVE  /\ file'[a].whole
                        /\ file'[a].by # NoRequest => rpc'[file'[a].by] \in {"reply", "ok", "lost"}
      BY DEF WritesAreAtomic
    <3>1. CASE a = b
      BY <2>1, <2>2, <2>3, <3>1
    <3>2. CASE a # b
      BY <1>2, <2>1, <2>3, <3>2 DEF WritesAreAtomic, TypeOK
    <3> QED BY <3>1, <3>2
  <2>8. MessagesAreGenuine'
    BY <1>1, <1>2, <2>1 DEF MessagesAreGenuine
  <2> QED BY <1>3, <2>4, <2>5, <2>6, <2>7, <2>8
<1>6. CASE ~ Rename(q)
  <2>1. file' = file /\ (rpc'[q] = "lost" <=> FALSE)
    BY <1>2, <1>6
       DEF Handler, Decline, CreateTemp, WriteTemp, WriteFails, SendMessage, Reply, Accepted, Handling
  <2>2. \/ rpc[q] = "handle" /\ rpc'[q] = "error" /\ temp' = temp /\ sent' = sent
        \/ /\ rpc[q] = "handle" /\ rpc'[q] = "write" /\ sent' = sent
           /\ Needs[q] = "state.write" /\ HasScope(q)
        \/ rpc[q] = "write" /\ rpc'[q] = "rename" /\ temp'[q] = "whole" /\ sent' = sent
        \/ /\ rpc[q] \in {"handle", "write", "rename"} /\ rpc'[q] = "error"
           /\ temp' = temp \/ temp'[q] = "none"
           /\ sent' = sent
        \/ /\ rpc[q] = "handle" /\ rpc'[q] \in {"reply", "error"} /\ temp' = temp
           /\ sent' = sent \cup {q} /\ Needs[q] = "frostagent.sendmsg" /\ HasScope(q)
        \/ rpc[q] = "reply" /\ rpc'[q] = "ok" /\ temp' = temp /\ sent' = sent
    BY <1>6 DEF Handler, Decline, CreateTemp, WriteTemp, WriteFails, SendMessage, Reply, TypeOK
  <2>3. TypeOK'
    BY <1>1, <1>2, <2>1, <2>2 DEF TypeOK
  <2>4. WriteInProgress' /\ EffectIsPast' /\ TempsAreExplained'
    BY <1>1, <1>2, <2>2 DEF WriteInProgress, EffectIsPast, TempsAreExplained, HasScope
  <2>5. StateIsGenuine'
    BY <1>1, <2>1 DEF StateIsGenuine
  <2>6. WritesAreAtomic'
    BY <1>2, <2>1, <2>2 DEF WritesAreAtomic, TypeOK
  <2>7. MessagesAreGenuine'
    BY <1>1, <1>2, <1>4, <2>2 DEF MessagesAreGenuine, EffectIsPast, HasScope
  <2> QED BY <1>3, <2>3, <2>4, <2>5, <2>6, <2>7
<1> QED BY <1>5, <1>6

\* Runs and tokens move on; a run that ended stays ended.
LEMMA RunsStep ==
  ASSUME Inv, RunStep
  PROVE  Inv'
<1> USE RuntimeAssumption, ContractAssumption DEF Inv
<1>1. UNCHANGED <<rpc, expired, temp, file, sent, granted>>
  BY DEF RunStep, apivars
<1>2. /\ status' \in [Runs -> RowStatus] /\ token' \in [Runs -> TokenState]
      /\ limit' \in [Actions -> 1..MaxLimit]
  <2>1. ASSUME NEW r \in Runs, Create(r) \/ Claim(r) PROVE status' \in [Runs -> RowStatus]
    BY <2>1 DEF Create, Claim, TypeOK, RowStatus
  <2>2. ASSUME NEW r \in Runs, NEW s \in Terminal, Finish(r, s)
        PROVE  status' \in [Runs -> RowStatus]
    BY <2>2 DEF Finish, TypeOK, RowStatus
  <2>3. ASSUME NEW r \in Runs, Issue(r) \/ Revoke(r) PROVE token' \in [Runs -> TokenState]
    BY <2>3 DEF Issue, Revoke, TypeOK, TokenState
  <2>4. ASSUME NEW a \in Actions, NEW n \in 1..MaxLimit, SetLimit(a, n)
        PROVE  limit' \in [Actions -> 1..MaxLimit]
    BY <2>4 DEF SetLimit, TypeOK
  <2> QED
    BY <2>1, <2>2, <2>3, <2>4
       DEF RunStep, Create, Claim, Issue, Revoke, Finish, SetLimit, TypeOK
<1>3. \A r \in Runs :
        /\ token[r] # "none" => token'[r] # "none"
        /\ token[r] = "none" /\ token'[r] # "none" => status[r] = "running" /\ status'[r] = "running"
        /\ status'[r] = "running" => status[r] \in {"queued", "running"}
        /\ status'[r] \in {"absent", "queued"} => status[r] \in {"absent", "queued"}
  BY DEF RunStep, Create, Claim, Issue, Revoke, Finish, SetLimit, TypeOK, Terminal
<1>4. TypeOK'
  BY <1>1, <1>2 DEF TypeOK
<1>5. TokenOfStarted' /\ Presented'
  BY <1>1, <1>3 DEF TokenOfStarted, Presented
<1>6. LookedUp'
  BY <1>1, <1>3 DEF LookedUp, Presented, TokenOfStarted
<1>7. WriteInProgress' /\ EffectIsPast' /\ AcceptedWasUsable' /\ TempsAreExplained'
  BY <1>1 DEF WriteInProgress, EffectIsPast, AcceptedWasUsable, TempsAreExplained, HasScope
<1>8. StateIsGenuine' /\ WritesAreAtomic' /\ MessagesAreGenuine'
  BY <1>1 DEF StateIsGenuine, WritesAreAtomic, MessagesAreGenuine
<1> QED BY <1>4, <1>5, <1>6, <1>7, <1>8

\* A restart interrupts every running run and cuts off every request.
LEMMA RestartStep ==
  ASSUME Inv, Restart
  PROVE  Inv'
<1> USE RuntimeAssumption DEF Inv
<1>1. UNCHANGED <<limit, expired, temp, file, sent, granted>>
  BY DEF Restart, InterruptAll
<1>2. \A q \in Requests : rpc'[q] = IF rpc[q] \in InFlight THEN "lost" ELSE rpc[q]
  BY DEF Restart
<1>3. TypeOK'
  BY DEF Restart, InterruptAll, TypeOK, RPC, RowStatus, Terminal, TokenState
<1>4. TokenOfStarted' /\ Presented'
  <2>1. \A r \in Runs :
          /\ status'[r] = IF status[r] = "running" THEN "interrupted" ELSE status[r]
          /\ token'[r] = IF Live(r) THEN "revoked" ELSE token[r]
    BY DEF Restart, InterruptAll
  <2>2. TokenOfStarted'
    BY <2>1 DEF TokenOfStarted, Live
  <2>3. \A r \in Runs : token[r] # "none" => token'[r] # "none"
    BY <2>1
  <2>4. \A q \in Requests : rpc'[q] # "new" => rpc[q] # "new"
    BY <1>2 DEF InFlight, Handling
  <2>5. Presented'
    BY <2>3, <2>4 DEF Presented
  <2> QED BY <2>2, <2>5
<1>5. LookedUp' /\ AcceptedWasUsable'
  BY <1>1, <1>2 DEF LookedUp, AcceptedWasUsable, InFlight, Accepted, Handling
<1>6. WriteInProgress' /\ EffectIsPast' /\ TempsAreExplained'
  BY <1>1, <1>2 DEF WriteInProgress, EffectIsPast, TempsAreExplained, InFlight, Handling
<1>7. StateIsGenuine'
  BY <1>1 DEF StateIsGenuine
<1>8. WritesAreAtomic'
  BY <1>1, <1>2 DEF WritesAreAtomic, TypeOK
<1>9. MessagesAreGenuine'
  BY <1>1, <1>2 DEF MessagesAreGenuine
<1> QED BY <1>3, <1>4, <1>5, <1>6, <1>7, <1>8, <1>9

\* Every step keeps the invariant.
LEMMA StepInv == Inv /\ [ApiNext]_allvars => Inv'
<1> SUFFICES ASSUME Inv, [ApiNext]_allvars PROVE Inv'
  OBVIOUS
<1>1. ASSUME NEW q \in Requests, Middleware(q) \/ Handler(q) PROVE Inv'
  BY <1>1, MiddlewareStep, HandlerStep
<1>2. CASE RunStep
  BY <1>2, RunsStep
<1>3. CASE Restart
  BY <1>3, RestartStep
<1>4. CASE (\E r \in Runs : Expire(r)) \/ UNCHANGED allvars
  <2>1. UNCHANGED <<status, token, limit, rpc, temp, file, sent, granted>> /\ expired' \subseteq Runs
    BY <1>4 DEF Expire, cvars, allvars, Inv, TypeOK
  <2>2. TypeOK' /\ TokenOfStarted' /\ Presented' /\ LookedUp'
    BY <2>1 DEF Inv, TypeOK, TokenOfStarted, Presented, LookedUp
  <2>3. WriteInProgress' /\ EffectIsPast' /\ AcceptedWasUsable' /\ TempsAreExplained'
    BY <2>1 DEF Inv, WriteInProgress, EffectIsPast, AcceptedWasUsable, TempsAreExplained, HasScope
  <2>4. StateIsGenuine' /\ WritesAreAtomic' /\ MessagesAreGenuine'
    BY <2>1 DEF Inv, StateIsGenuine, WritesAreAtomic, MessagesAreGenuine
  <2> QED BY <2>2, <2>3, <2>4 DEF Inv
<1> QED BY <1>1, <1>2, <1>3, <1>4 DEF ApiNext

-----------------------------------------------------------------------------
\* The invariant holds in every reachable state.
THEOREM InvHolds == ApiSpec => []Inv
BY InitInv, StepInv, PTL DEF ApiSpec

\* Every variable has its type.
THEOREM TypeCorrect == ApiSpec => []TypeOK
<1>1. Inv => TypeOK
  BY DEF Inv
<1> QED BY <1>1, InvHolds, PTL

\* A request is let through only with a token that was usable when it was read:
\* no request that arrives after its run ended gets through.
THEOREM NoLateRequest == ApiSpec => []AcceptedWasUsable
<1>1. Inv => AcceptedWasUsable
  BY DEF Inv
<1> QED BY <1>1, InvHolds, PTL

\* The state of an action is only written by its own runs, with the right scope.
THEOREM StateIsolated == ApiSpec => []StateIsGenuine
<1>1. Inv => StateIsGenuine
  BY DEF Inv
<1> QED BY <1>1, InvHolds, PTL

\* A state file holds the whole of one write at every instant.
THEOREM AtomicState == ApiSpec => []WritesAreAtomic
<1>1. Inv => WritesAreAtomic
  BY DEF Inv
<1> QED BY <1>1, InvHolds, PTL

\* A message is only forwarded for a running run with the scope to send it.
THEOREM MessagesAuthorized == ApiSpec => []MessagesAreGenuine
<1>1. Inv => MessagesAreGenuine
  BY DEF Inv
<1> QED BY <1>1, InvHolds, PTL

\* No effect of the runtime API without a usable token of the right scope, and
\* no answer "ok" to a message that was not sent.
THEOREM GenuineEffects == ApiSpec => []EffectsAreGenuine
<1>1. Inv => EffectsAreGenuine
  BY DEF Inv, EffectsAreGenuine
<1> QED BY <1>1, InvHolds, PTL

\* No failure and no end of the process tears a state file, and a write that was
\* answered ok leaves no temporary file.
THEOREM SettledWrites == ApiSpec => []WritesAreSettled
<1>1. Inv => WritesAreSettled
  BY DEF Inv, WritesAreSettled
<1> QED BY <1>1, InvHolds, PTL
=============================================================================
