----------------------------- MODULE RuntimeAPI -----------------------------
(***************************************************************************)
(* The runtime API (internal/runtime/api.go) that a running program calls  *)
(* back, and the atomic state files behind it (internal/store/             *)
(* state_store.go).  Runs and tokens live as RunContract says, which is    *)
(* what RunQueue implements; requests interleave with them.  The           *)
(* middleware makes two separate reads, the token row and the run row, and *)
(* nothing locks either until the handler has had its effect.              *)
(***************************************************************************)
EXTENDS RunContract

CONSTANTS
  Requests,    \* HTTP requests, each sent at most once
  RunOf,       \* the run whose raw token a request presents
  Needs,       \* the scope the handler of its route asks for
  BodyAction,  \* the action_id a request body names
  Scopes,      \* runtime_capabilities of the version each run executes
  NoRequest    \* a state file that was never written

Scope == {"state.write", "frostagent.sendmsg"}

ASSUME RuntimeAssumption ==
  /\ RunOf \in [Requests -> Runs]
  /\ Needs \in [Requests -> Scope]
  /\ BodyAction \in [Requests -> Actions]
  /\ Scopes \in [Runs -> SUBSET Scope]
  /\ NoRequest \notin Requests

VARIABLES
  rpc,      \* how far each request got
  expired,  \* runs whose token is past expires_at
  temp,     \* the temporary file of each request: "none", "partial" (may lack data), "whole"
  file,     \* the state file of each action: who wrote it, and if all of it
  sent,     \* requests whose message reached FrostAgent
  granted   \* history: the token was good when the request was looked up

apivars == <<rpc, expired, temp, file, sent, granted>>
allvars == <<status, token, limit, rpc, expired, temp, file, sent, granted>>

\* Requests the middleware let through, in the order of the handlers' steps.
Handling == {"handle", "write", "rename", "reply"}
InFlight == {"token", "run"} \cup Handling
Accepted == Handling \cup {"ok", "error"}
RPC == InFlight \cup {"new", "unauthorized", "ok", "error", "lost"}

\* The token of r opens the API at this instant.
Usable(r) == Live(r) /\ r \notin expired

-----------------------------------------------------------------------------
ApiInit ==
  /\ Init
  /\ rpc = [q \in Requests |-> "new"]
  /\ expired = {}
  /\ temp = [q \in Requests |-> "none"]
  /\ file = [a \in Actions |-> [by |-> NoRequest, whole |-> TRUE]]
  /\ sent = {}
  /\ granted = [q \in Requests |-> FALSE]

\* The raw token exists once it was issued, and outlives the run.
Arrive(q) ==
  /\ rpc[q] = "new"
  /\ token[RunOf[q]] # "none"
  /\ rpc' = [rpc EXCEPT ![q] = "token"]
  /\ UNCHANGED <<cvars, expired, temp, file, sent, granted>>

Step(q, from, to) ==
  /\ rpc[q] = from
  /\ rpc' = [rpc EXCEPT ![q] = to]

\* Mutant of LookupToken: a revoked or expired row is accepted.
LookupAnyToken(q) ==
  /\ Step(q, "token", "run")
  /\ granted' = [granted EXCEPT ![q] = Usable(RunOf[q])]
  /\ UNCHANGED <<cvars, expired, temp, file, sent>>

\* GetRunTokenByHash and IsValid on the row it returned.
LookupToken(q) ==
  /\ token[RunOf[q]] = "active" /\ RunOf[q] \notin expired
  /\ Step(q, "token", "run")
  /\ granted' = [granted EXCEPT ![q] = Usable(RunOf[q])]
  /\ UNCHANGED <<cvars, expired, temp, file, sent>>

\* GetRun: the run is still active when it is read, a moment later.
CheckRun(q) ==
  /\ status[RunOf[q]] = "running"
  /\ Step(q, "run", "handle")
  /\ UNCHANGED <<cvars, expired, temp, file, sent, granted>>

\* The token or the run is refused, or a query fails: 401.
Refuse(q) ==
  /\ Step(q, "token", "unauthorized") \/ Step(q, "run", "unauthorized")
  /\ UNCHANGED <<cvars, expired, temp, file, sent, granted>>

HasScope(q) == Needs[q] \in Scopes[RunOf[q]]

\* The scope is missing, the body is invalid or too large, or the path is:
\* 403, 413 or 400, and nothing happened.
Decline(q) ==
  /\ Step(q, "handle", "error")
  /\ UNCHANGED <<cvars, expired, temp, file, sent, granted>>

-----------------------------------------------------------------------------
\* HandleWriteState and StateStore.WriteState.
CreateTemp(q) ==
  /\ Needs[q] = "state.write" /\ HasScope(q)
  /\ Step(q, "handle", "write")
  /\ temp' = [temp EXCEPT ![q] = "partial"]
  /\ UNCHANGED <<cvars, expired, file, sent, granted>>

\* Write, Sync and Close succeed.
WriteTemp(q) ==
  /\ Step(q, "write", "rename")
  /\ temp' = [temp EXCEPT ![q] = "whole"]
  /\ UNCHANGED <<cvars, expired, file, sent, granted>>

\* Mutants of Rename: the action comes from the body; the rename does not
\* wait for the data.
RenameInBodyAction(q) ==
  /\ Step(q, "rename", "reply")
  /\ file' = [file EXCEPT ![BodyAction[q]] = [by |-> q, whole |-> temp[q] = "whole"]]
  /\ temp' = [temp EXCEPT ![q] = "none"]
  /\ UNCHANGED <<cvars, expired, sent, granted>>

RenameBeforeWrite(q) ==
  /\ Step(q, "write", "reply")
  /\ file' = [file EXCEPT ![ActionOf[RunOf[q]]] = [by |-> q, whole |-> temp[q] = "whole"]]
  /\ temp' = [temp EXCEPT ![q] = "none"]
  /\ UNCHANGED <<cvars, expired, sent, granted>>

\* The action is the one of the token, whatever the body says.
Rename(q) ==
  /\ Step(q, "rename", "reply")
  /\ file' = [file EXCEPT ![ActionOf[RunOf[q]]] = [by |-> q, whole |-> temp[q] = "whole"]]
  /\ temp' = [temp EXCEPT ![q] = "none"]
  /\ UNCHANGED <<cvars, expired, sent, granted>>

\* An error of the file system: before there is a temporary file, or after, and
\* then it is removed unless the removal fails too, which nobody looks at.
WriteFails(q) ==
  /\ Needs[q] = "state.write" /\ HasScope(q)
  /\ Step(q, "handle", "error") \/ Step(q, "write", "error") \/ Step(q, "rename", "error")
  /\ UNCHANGED temp \/ temp' = [temp EXCEPT ![q] = "none"]
  /\ UNCHANGED <<cvars, expired, file, sent, granted>>

-----------------------------------------------------------------------------
\* HandleFrostAgentSend: one call, which may fail after FrostAgent acted on it.
SendMessage(q) ==
  /\ Needs[q] = "frostagent.sendmsg" /\ HasScope(q)
  /\ Step(q, "handle", "reply") \/ Step(q, "handle", "error")
  /\ sent' = sent \cup {q}
  /\ UNCHANGED <<cvars, expired, temp, file, granted>>

\* Mutant of Reply: an answer the callers do not know.
ReplyAccepted(q) ==
  /\ Step(q, "reply", "accepted")
  /\ UNCHANGED <<cvars, expired, temp, file, sent, granted>>

Reply(q) ==
  /\ Step(q, "reply", "ok")
  /\ UNCHANGED <<cvars, expired, temp, file, sent, granted>>

-----------------------------------------------------------------------------
\* What runs and tokens do meanwhile, except for a restart.
RunStep ==
  /\ \/ \E r \in Runs : Create(r) \/ Claim(r) \/ Issue(r) \/ Revoke(r)
     \/ \E r \in Runs, s \in Terminal : Finish(r, s)
     \/ \E a \in Actions, n \in 1..MaxLimit : SetLimit(a, n)
  /\ UNCHANGED apivars

\* now >= expires_at, which is the run's timeout and five minutes after its start.
Expire(r) ==
  /\ token[r] # "none"
  /\ expired' = expired \cup {r}
  /\ UNCHANGED <<cvars, rpc, temp, file, sent, granted>>

\* The process ends at any point and is started again: requests in flight
\* are cut off, their temporary files stay.
Restart ==
  /\ InterruptAll
  /\ rpc' = [q \in Requests |-> IF rpc[q] \in InFlight THEN "lost" ELSE rpc[q]]
  /\ UNCHANGED <<expired, temp, file, sent, granted>>

Middleware(q) == Arrive(q) \/ LookupToken(q) \/ CheckRun(q) \/ Refuse(q)
Handler(q) ==
  \/ Decline(q)
  \/ CreateTemp(q) \/ WriteTemp(q) \/ Rename(q) \/ WriteFails(q)
  \/ SendMessage(q)
  \/ Reply(q)

ApiNext ==
  \/ \E q \in Requests : Middleware(q) \/ Handler(q)
  \/ RunStep
  \/ \E r \in Runs : Expire(r)
  \/ Restart

ApiSpec == ApiInit /\ [][ApiNext]_allvars

-----------------------------------------------------------------------------
TypeOK ==
  /\ status \in [Runs -> RowStatus]
  /\ token \in [Runs -> TokenState]
  /\ limit \in [Actions -> 1..MaxLimit]
  /\ rpc \in [Requests -> RPC]
  /\ expired \subseteq Runs
  /\ temp \in [Requests -> {"none", "partial", "whole"}]
  /\ file \in [Actions -> [by : Requests \cup {NoRequest}, whole : BOOLEAN]]
  /\ sent \subseteq Requests
  /\ granted \in [Requests -> BOOLEAN]

\* The two reads of the middleware amount to one: a request is let through only
\* if there was an instant, the lookup of its token, at which the token was
\* unrevoked and unexpired and its run was running.  So a request that arrives
\* after its run ended never gets through, even if the revocation failed.
AcceptedWasUsable == \A q \in Requests : rpc[q] \in Accepted => granted[q]

\* The state of an action was written by a request of a run of that very action,
\* with a usable token of the right scope, whatever its body claimed.
StateIsGenuine ==
  \A a \in Actions, q \in Requests :
    file[a].by = q =>
      ActionOf[RunOf[q]] = a /\ granted[q] /\ "state.write" \in Scopes[RunOf[q]]

\* A write is all or nothing: whoever reads the state (the next PrepareRun) finds
\* the whole of one request, wherever requests failed, raced or were cut off by
\* the end of the process, and a request that got an error left nothing there.
WritesAreAtomic ==
  \A a \in Actions :
    /\ file[a].whole
    /\ file[a].by # NoRequest => rpc[file[a].by] \in {"reply", "ok", "lost"}

\* FrostAgent only gets messages of runs that were running with a usable token
\* of the right scope, and a caller that reads "ok" did get its message through.
MessagesAreGenuine ==
  \A q \in Requests :
    /\ q \in sent => granted[q] /\ "frostagent.sendmsg" \in Scopes[RunOf[q]]
    /\ rpc[q] = "ok" /\ Needs[q] = "frostagent.sendmsg" => q \in sent

\* A temporary file belongs to a write in progress, to one that failed or to one
\* that the end of the process cut off.
TempsAreExplained ==
  \A q \in Requests : temp[q] # "none" => rpc[q] \in {"write", "rename", "error", "lost"}

\* What the runtime API did, it did for runs that were allowed to ask for it:
\* both effects, the state and the messages, lead back to a usable token.
EffectsAreGenuine == StateIsGenuine /\ MessagesAreGenuine

\* The state files hold whole writes only, and a write that was answered ok left
\* nothing else.  One that failed or was cut off may leave its temporary file, when
\* its removal failed or the process ended, but never under the name of a state
\* file; the directories it made are not modelled, and stay.
WritesAreSettled == WritesAreAtomic /\ TempsAreExplained
=============================================================================
