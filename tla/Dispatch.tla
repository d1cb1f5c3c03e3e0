------------------------------ MODULE Dispatch ------------------------------
(***************************************************************************)
(* The dispatch of message events (internal/matcher/engine.go behind       *)
(* internal/api/dispatch.go): a request reads the enabled matchers once,   *)
(* then walks that snapshot by priority and creates a run for each match   *)
(* until one does not continue, while the management API creates and       *)
(* deletes matchers, changes and deletes actions, database calls fail and  *)
(* the client goes away, which cancels the context of every later call.    *)
(* A request that reaches the model was let through by the middleware and  *)
(* its event has a text; the others are answered without touching state.   *)
(***************************************************************************)
EXTENDS Naturals, Sequences, FiniteSets, SequencesExt

CONSTANTS
  Matchers,  \* matcher identities, never reused
  Actions,   \* action identities, never reused
  Requests,  \* dispatch requests, one per attempt of a client
  Events,    \* events: what the patterns can tell apart
  rule,      \* the columns each matcher is created with; no handler changes them
  CanFail    \* whether database calls fail for reasons of their own

\* hits: the events evaluateMatcher accepts, none for an invalid pattern.
\* created is read before the row is inserted; equal values leave the order
\* to SQLite.
ASSUME DispatchAssumption ==
  /\ rule \in [Matchers -> [action : Actions, priority : Nat, created : Nat,
                            continue : BOOLEAN, enabled : BOOLEAN, hits : SUBSET Events]]
  /\ IsFiniteSet(Matchers)
  /\ CanFail \in BOOLEAN

VARIABLES
  row,      \* the row of each matcher: "absent", "present", "deleted"
  action,   \* each action: "runnable", "blocked" (no run can be prepared), "deleted"
  runs,     \* rows of runs in the order of creation: [by, matcher]
  request,  \* what each request is doing
  (* Histories, per request. *)
  steady,   \* matching matchers that stayed enabled and runnable since it arrived
  cut,      \* matchers behind an error that ended the reading of the list unnoticed
  failed    \* matchers whose own run could not be created

table == <<row, action>>
history == <<steady, cut, failed>>
vars == <<row, action, runs, request, steady, cut, failed>>

Enabled(m) == row[m] = "present" /\ rule[m].enabled
Runnable(m) == action[rule[m].action] = "runnable"
Matches(m, q) == request[q].event \in rule[m].hits
RunsBy(q) == {i \in 1..Len(runs) : runs[i].by = q}

\* m comes strictly before n: ORDER BY priority DESC, created_at ASC
Before(m, n) ==
  \/ rule[m].priority > rule[n].priority
  \/ rule[m].priority = rule[n].priority /\ rule[m].created < rule[n].created

-----------------------------------------------------------------------------
Init ==
  /\ row = [m \in Matchers |-> "absent"]
  /\ action = [a \in Actions |-> "runnable"]
  /\ runs = <<>>
  /\ request \in [Requests ->
       [at : {"idle"}, event : Events, rest : {<<>>}, mine : {<<>>}, gone : {FALSE}]]
  /\ steady = [q \in Requests |-> {}]
  /\ cut = [q \in Requests |-> {}]
  /\ failed = [q \in Requests |-> {}]

-----------------------------------------------------------------------------
(* The management API, and the histories it changes.                       *)
Disturb(M) ==
  /\ steady' = [q \in Requests |-> steady[q] \ M]
  /\ UNCHANGED <<cut, failed>>

\* The row refers to an action.
CreateMatcher(m) ==
  /\ row[m] = "absent"
  /\ action[rule[m].action] # "deleted"
  /\ row' = [row EXCEPT ![m] = "present"]
  /\ UNCHANGED <<action, runs, request, history>>

DeleteMatcher(m) ==
  /\ row[m] = "present"
  /\ row' = [row EXCEPT ![m] = "deleted"]
  /\ Disturb({m})
  /\ UNCHANGED <<action, runs, request>>

Of(a) == {m \in Matchers : rule[m].action = a}

\* The action is disabled or enabled, loses or gains its active build.
ChangeAction(a) ==
  /\ action[a] # "deleted"
  /\ \E s \in {"runnable", "blocked"} : action' = [action EXCEPT ![a] = s]
  /\ Disturb(Of(a))
  /\ UNCHANGED <<row, runs, request>>

\* Its matchers go with it; runs that refer to it refuse the deletion.
DeleteAction(a) ==
  /\ action[a] # "deleted"
  /\ \A i \in 1..Len(runs) : rule[runs[i].matcher].action # a
  /\ action' = [action EXCEPT ![a] = "deleted"]
  /\ row' = [m \in Matchers |->
               IF m \in Of(a) /\ row[m] = "present" THEN "deleted" ELSE row[m]]
  /\ Disturb(Of(a))
  /\ UNCHANGED <<runs, request>>

-----------------------------------------------------------------------------
(* A dispatch request.                                                     *)
Become(q, r) == request' = [request EXCEPT ![q] = r]
Go(q, at) == request' = [request EXCEPT ![q].at = at]
Leave(q) == request' = [request EXCEPT ![q].at = "loop", ![q].rest = Tail(@)]

Receive(q) ==
  /\ request[q].at = "idle"
  /\ Go(q, "list")
  /\ steady' = [steady EXCEPT ![q] = {m \in Matchers : Enabled(m) /\ Runnable(m) /\ Matches(m, q)}]
  /\ UNCHANGED <<table, runs, cut, failed>>

\* The client closes the connection: the context of the request ends.
Cancel(q) ==
  /\ request[q].at \in {"list", "loop", "prepare", "insert"}
  /\ ~request[q].gone
  /\ request' = [request EXCEPT ![q].gone = TRUE]
  /\ UNCHANGED <<table, runs, history>>

\* s holds each matcher of M once.
Lists(s, M) == IsInjective(s) /\ ToSet(s) = M
Ranked(s) == \A i, j \in 1..Len(s) : i < j => ~Before(s[j], s[i])

Listing(s) == Lists(s, {m \in Matchers : Enabled(m)}) /\ Ranked(s)

\* ListEnabledMatchers. Rows.Err is not read: an error in the middle of the
\* iteration shortens the list.
ListMatchers(q) ==
  /\ request[q].at = "list"
  /\ \E s \in UNION {[1..n -> Matchers] : n \in 0..Cardinality(Matchers)} :
       /\ Listing(s)
       /\ \E n \in (IF CanFail \/ request[q].gone THEN 0 ELSE Len(s))..Len(s) :
            /\ Become(q, [request[q] EXCEPT !.at = "loop", !.rest = SubSeq(s, 1, n)])
            /\ cut' = [cut EXCEPT ![q] = @ \cup ToSet(SubSeq(s, n + 1, Len(s)))]
  /\ UNCHANGED <<table, runs, steady, failed>>

\* 500: the list cannot be read, or the context ended before this matcher.
Refuse(q) ==
  /\ \/ request[q].at = "list" /\ (CanFail \/ request[q].gone)
     \/ request[q].at = "loop" /\ request[q].rest # <<>> /\ request[q].gone
  /\ Go(q, "error")
  /\ UNCHANGED <<table, runs, history>>

\* Mutant of Evaluate: the row is taken off the list before its run is made.
EvaluateConsumes(q) ==
  /\ request[q].at = "loop" /\ request[q].rest # <<>> /\ ~request[q].gone
  /\ Become(q, [request[q] EXCEPT
       !.at = IF Matches(Head(request[q].rest), q) THEN "prepare" ELSE "loop",
       !.rest = Tail(@)])
  /\ UNCHANGED <<table, runs, history>>

\* evaluateMatcher on the next row of the snapshot.
Evaluate(q) ==
  /\ request[q].at = "loop" /\ request[q].rest # <<>> /\ ~request[q].gone
  /\ IF Matches(Head(request[q].rest), q) THEN Go(q, "prepare") ELSE Leave(q)
  /\ UNCHANGED <<table, runs, history>>

\* PrepareRun on the action as it is now.
Prepare(q) ==
  /\ request[q].at = "prepare"
  /\ Runnable(Head(request[q].rest))
  /\ Go(q, "insert")
  /\ UNCHANGED <<table, runs, history>>

\* An action that is not runnable or gone, an environment that is too large, a
\* missing state, the database, or the end of the context.
NoRun(q) ==
  /\ LET a == action[rule[Head(request[q].rest)].action] IN
       \/ request[q].at = "prepare" /\ (CanFail \/ request[q].gone \/ a # "runnable")
       \/ request[q].at = "insert" /\ (CanFail \/ request[q].gone \/ a = "deleted")
  /\ failed' = [failed EXCEPT ![q] = @ \cup {Head(request[q].rest)}]
  /\ UNCHANGED <<table, runs, steady, cut>>

\* Mutant of CreateRunFails: a failed run ends the walk.
CreateRunFailsStop(q) ==
  NoRun(q) /\ Become(q, [request[q] EXCEPT !.at = "loop", !.rest = <<>>])

\* Mutant of CreateRunFails: the same matcher is tried again.
CreateRunFailsRetry(q) == NoRun(q) /\ Go(q, "loop")

\* CreateRun fails: the next matcher is tried, whether or not this one continues.
CreateRunFails(q) == NoRun(q) /\ Leave(q)

Insert(q) ==
  /\ request[q].at = "insert"
  /\ action[rule[Head(request[q].rest)].action] # "deleted"
  /\ runs' = Append(runs, [by |-> q, matcher |-> Head(request[q].rest)])

\* Mutant of CreateRun: continue_matching is not looked at.
CreateRunNoStop(q) ==
  /\ Insert(q)
  /\ Become(q, [request[q] EXCEPT !.at = "loop", !.rest = Tail(@),
                                  !.mine = Append(@, Len(runs) + 1)])
  /\ UNCHANGED <<table, history>>

\* Mutant of CreateRun: the run that stops the walk is not listed.
CreateRunUnlisted(q) ==
  /\ Insert(q)
  /\ LET m == Head(request[q].rest) IN
       Become(q, [request[q] EXCEPT
         !.at = "loop",
         !.rest = IF rule[m].continue THEN Tail(@) ELSE <<>>,
         !.mine = IF rule[m].continue THEN Append(@, Len(runs) + 1) ELSE @])
  /\ UNCHANGED <<table, history>>

\* The run is created and listed; the walk stops unless the matcher continues.
CreateRun(q) ==
  /\ Insert(q)
  /\ Become(q, [request[q] EXCEPT
       !.at = "loop",
       !.rest = IF rule[Head(@)].continue THEN Tail(@) ELSE <<>>,
       !.mine = Append(@, Len(runs) + 1)])
  /\ UNCHANGED <<table, history>>

\* The context ends while the insert runs: an error, although the row is there.
CreateRunUnheard(q) ==
  /\ request[q].gone
  /\ Insert(q)
  /\ Leave(q)
  /\ UNCHANGED <<table, history>>

Answer(q) ==
  /\ request[q].at = "loop" /\ request[q].rest = <<>>
  /\ Go(q, "ok")
  /\ UNCHANGED <<table, runs, history>>

Handle(q) ==
  \/ ListMatchers(q) \/ Refuse(q) \/ Evaluate(q) \/ Prepare(q)
  \/ CreateRun(q) \/ CreateRunUnheard(q) \/ CreateRunFails(q) \/ Answer(q)

Next ==
  \/ \E m \in Matchers : CreateMatcher(m) \/ DeleteMatcher(m)
  \/ \E a \in Actions : ChangeAction(a) \/ DeleteAction(a)
  \/ \E q \in Requests : Receive(q) \/ Cancel(q) \/ Handle(q)

Spec == Init /\ [][Next]_vars

\* net/http runs every handler to its end, and database calls return.
Fairness == \A q \in Requests : WF_vars(Handle(q))
FairSpec == Spec /\ Fairness

-----------------------------------------------------------------------------
TypeOK ==
  /\ row \in [Matchers -> {"absent", "present", "deleted"}]
  /\ action \in [Actions -> {"runnable", "blocked", "deleted"}]
  /\ runs \in Seq([by : Requests, matcher : Matchers])
  /\ request \in [Requests ->
       [at : {"idle", "list", "loop", "prepare", "insert", "ok", "error"},
        event : Events, rest : Seq(Matchers), mine : Seq(Nat), gone : BOOLEAN]]
  /\ \A q \in Requests : request[q].at \in {"prepare", "insert"} => request[q].rest # <<>>
  /\ steady \in [Requests -> SUBSET Matchers]
  /\ cut \in [Requests -> SUBSET Matchers]
  /\ failed \in [Requests -> SUBSET Matchers]

(* Whatever changes between the snapshot and the runs, every run was triggered
   by an enabled matcher that accepts its event, and the runs of a request
   follow the ranking of its matchers, none of which fires twice, and only
   matchers that continue are followed by another. *)
RunsFollowPriority ==
  /\ \A i \in 1..Len(runs) :
       /\ rule[runs[i].matcher].enabled
       /\ Matches(runs[i].matcher, runs[i].by)
  /\ \A q \in Requests : \A i, j \in RunsBy(q) : i < j =>
       /\ ~Before(runs[j].matcher, runs[i].matcher)
       /\ runs[i].matcher # runs[j].matcher
       /\ rule[runs[i].matcher].continue \/ request[q].gone

(* A client that is still there reads the truth: ok lists all the runs of its
   event in order, and an error means there is none, so that it may retry. *)
HeardAnswerIsExact ==
  \A q \in Requests : ~request[q].gone =>
    /\ request[q].at = "ok" =>
         /\ ToSet(request[q].mine) = RunsBy(q)
         /\ \A k \in 2..Len(request[q].mine) : request[q].mine[k - 1] < request[q].mine[k]
    /\ request[q].at = "error" => RunsBy(q) = {}

\* m has its run of q, or one that ends the walk and is not ranked after m has.
Served(q, m) ==
  \E i \in RunsBy(q) :
    \/ runs[i].matcher = m
    \/ ~rule[runs[i].matcher].continue /\ ~Before(m, runs[i].matcher)

Owed(q) == steady[q] \ (cut[q] \cup failed[q])

(* The two silent losses are the only ones. Behind an answer of ok, a matcher
   that was there, enabled and runnable from the arrival of the event to the
   answer has its run, unless a matcher that does not continue and is not ranked
   after it had one, with two exceptions that the answer does not show: the
   reading of the list ended with an error before this matcher (rows.Err is not
   asked), or the creation of this matcher's own run failed (it is only logged).
   No other change, and no failure of another matcher's run, loses a match. *)
EveryMatchIsServed ==
  \A q \in Requests : request[q].at = "ok" /\ ~request[q].gone =>
    \A m \in Owed(q) : Served(q, m)

(* Every request is answered, whatever fails. *)
RequestIsAnswered ==
  \A q \in Requests : request[q].at = "list" ~> request[q].at \in {"ok", "error"}
=============================================================================
