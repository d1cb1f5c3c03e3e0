--------------------------- MODULE DispatchProofs ---------------------------
(***************************************************************************)
(* Theorems about Dispatch, for any matchers, rules, actions and requests, *)
(* and with or without calls that fail.                                    *)
(***************************************************************************)
EXTENDS Dispatch, SequenceTheorems, FiniteSetTheorems, TLAPS

(***************************************************************************)
(* The inductive invariant: what is left of a walk is ranked, enabled, and *)
(* after all that has run; what has run lets the walk go on; and whoever   *)
(* is owed a run is still to come or was served.                           *)
(***************************************************************************)
Walking == {"loop", "prepare", "insert"}

\* Nothing happened before the list is read.
Fresh(q) ==
  request[q].at \in {"idle", "list"} =>
    request[q].mine = <<>> /\ \A i \in 1..Len(runs) : runs[i].by # q

\* The rest of the walk, in itself and against the runs of the request.
RestIsRanked(q) ==
  request[q].at \in Walking => \A k \in 1..Len(request[q].rest) :
    LET m == request[q].rest[k] IN
    /\ rule[m].enabled
    /\ \A l \in 1..Len(request[q].rest) :
         k < l => ~Before(request[q].rest[l], m) /\ request[q].rest[l] # m

RunsComeFirst(q) ==
  request[q].at \in Walking => \A k \in 1..Len(request[q].rest) : \A i \in 1..Len(runs) :
    runs[i].by = q =>
      /\ ~Before(request[q].rest[k], runs[i].matcher)
      /\ request[q].rest[k] # runs[i].matcher
      /\ rule[runs[i].matcher].continue \/ request[q].gone

\* The row whose run is being made was evaluated.
HeadMatches(q) ==
  request[q].at \in {"prepare", "insert"} => Matches(request[q].rest[1], q)

\* The list that will be answered.
MineIsExact(q) ==
  ~request[q].gone =>
    /\ \A k \in 1..Len(request[q].mine) :
         request[q].mine[k] \in 1..Len(runs) /\ runs[request[q].mine[k]].by = q
    /\ \A i \in 1..Len(runs) : runs[i].by = q =>
         \E k \in 1..Len(request[q].mine) : request[q].mine[k] = i
    /\ \A k, l \in 1..Len(request[q].mine) : k < l => request[q].mine[k] < request[q].mine[l]
    /\ request[q].at = "error" => \A i \in 1..Len(runs) : runs[i].by # q

\* Whoever is owed a run is still to come, or was served.
OwedIsServed(q) ==
  \A m \in Owed(q) :
    /\ request[q].at # "idle" => Matches(m, q)
    /\ request[q].at = "list" => Enabled(m)
    /\ request[q].at \in Walking /\ ~request[q].gone =>
         Served(q, m) \/ \E k \in 1..Len(request[q].rest) : request[q].rest[k] = m
    /\ request[q].at = "ok" /\ ~request[q].gone => Served(q, m)

Walk(q) ==
  /\ Fresh(q) /\ RestIsRanked(q) /\ RunsComeFirst(q) /\ HeadMatches(q)
  /\ MineIsExact(q) /\ OwedIsServed(q)

Inv == TypeOK /\ RunsFollowPriority /\ \A q \in Requests : Walk(q)

\* A step that changes no histories but those of q.
Records(q) ==
  /\ steady' \in [Requests -> SUBSET Matchers]
  /\ cut' \in [Requests -> SUBSET Matchers]
  /\ failed' \in [Requests -> SUBSET Matchers]
  /\ \A p \in Requests \ {q} : Owed(p)' = Owed(p)

-----------------------------------------------------------------------------
\* What a request remembers.
Request ==
  [at : {"idle", "list", "loop", "prepare", "insert", "ok", "error"},
   event : Events, rest : Seq(Matchers), mine : Seq(Nat), gone : BOOLEAN]

\* No request was received, so nothing ran.
LEMMA InitInv == Init => Inv
<1> SUFFICES ASSUME Init PROVE Inv
  OBVIOUS
<1>1. /\ <<>> \in Seq(Matchers) /\ <<>> \in Seq(Nat) /\ Len(<<>>) = 0
      /\ runs = <<>> /\ Len(runs) = 0
  BY EmptySeq DEF Init
<1>2. \A q \in Requests : /\ request[q] \in Request /\ request[q].at = "idle"
                          /\ request[q].rest = <<>> /\ request[q].mine = <<>>
  BY <1>1 DEF Init, Request
<1>3. request \in [Requests -> Request]
  BY <1>2 DEF Init
<1>4. TypeOK
  BY <1>1, <1>2, <1>3, EmptySeq DEF Init, TypeOK, Request
<1>5. RunsFollowPriority
  BY <1>1 DEF RunsFollowPriority, RunsBy
<1>6. ASSUME NEW q \in Requests PROVE Walk(q)
  <2>1. /\ request[q].at = "idle" /\ request[q].mine = <<>> /\ Len(request[q].mine) = 0
        /\ Owed(q) = {}
    BY <1>1, <1>2 DEF Init, Owed
  <2>2. Fresh(q)
    BY <1>1, <2>1 DEF Fresh
  <2>3. RestIsRanked(q) /\ RunsComeFirst(q) /\ HeadMatches(q)
    BY <2>1 DEF RestIsRanked, RunsComeFirst, HeadMatches, Walking
  <2>4. MineIsExact(q)
    BY <1>1, <2>1 DEF MineIsExact
  <2>5. OwedIsServed(q)
    BY <2>1 DEF OwedIsServed
  <2> QED BY <2>2, <2>3, <2>4, <2>5 DEF Walk
<1> QED BY <1>4, <1>5, <1>6 DEF Inv

-----------------------------------------------------------------------------
\* A run is added after all others.
LEMMA OneMoreRun ==
  ASSUME TypeOK, NEW q \in Requests, NEW m \in Matchers,
         runs' = Append(runs, [by |-> q, matcher |-> m])
  PROVE  /\ runs' \in Seq([by : Requests, matcher : Matchers])
         /\ Len(runs) \in Nat /\ Len(runs)' = Len(runs) + 1
         /\ \A i \in 1..Len(runs) : runs'[i] = runs[i]
         /\ runs'[Len(runs) + 1] = [by |-> q, matcher |-> m]
BY DEF TypeOK

\* What a step of one request is to the walks of the others: runs that are not
\* theirs, and matchers they are not owed any more.
LEMMA OthersKeepWalking ==
  ASSUME TypeOK, NEW p \in Requests, Walk(p),
         request'[p] = request[p], Owed(p)' \subseteq Owed(p),
         \A m \in Owed(p)' : request[p].at = "list" /\ Enabled(m) => Enabled(m)',
         \/ runs' = runs
         \/ \E q \in Requests \ {p}, m \in Matchers : runs' = Append(runs, [by |-> q, matcher |-> m])
  PROVE  Walk(p)'
<1>1. /\ Len(runs) \in Nat /\ Len(runs)' \in Nat
      /\ \A i \in 1..Len(runs) : i \in 1..Len(runs)' /\ runs'[i] = runs[i]
      /\ \A i \in 1..Len(runs)' : runs'[i].by = p => i \in 1..Len(runs)
  <2>1. CASE runs' = runs
    BY <2>1 DEF TypeOK
  <2>2. ASSUME NEW q \in Requests \ {p}, NEW m \in Matchers, runs' = Append(runs, [by |-> q, matcher |-> m])
        PROVE  <1>1
    <3>1. /\ Len(runs) \in Nat /\ Len(runs)' = Len(runs) + 1
          /\ \A i \in 1..Len(runs) : runs'[i] = runs[i]
          /\ runs'[Len(runs) + 1].by = q
      BY <2>2, OneMoreRun
    <3> QED BY <3>1
  <2> QED BY <2>1, <2>2
<1>2. Fresh(p)' /\ RestIsRanked(p)' /\ HeadMatches(p)'
  <2>1. Fresh(p)'
    BY <1>1 DEF Walk, Fresh
  <2>2. RestIsRanked(p)'
    BY DEF Walk, RestIsRanked, Before, Walking
  <2>3. HeadMatches(p)'
    BY DEF Walk, HeadMatches, Matches
  <2> QED BY <2>1, <2>2, <2>3
<1>3. RunsComeFirst(p)'
  BY <1>1 DEF Walk, RunsComeFirst, Before, Walking
<1>4. MineIsExact(p)'
  <2> SUFFICES ASSUME ~request[p].gone PROVE MineIsExact(p)'
    BY DEF MineIsExact
  <2>1. PICK o : o = request[p].mine
    OBVIOUS
  <2>2. /\ \A k \in 1..Len(o) : o[k] \in 1..Len(runs) /\ runs[o[k]].by = p
        /\ \A i \in 1..Len(runs) : runs[i].by = p => \E k \in 1..Len(o) : o[k] = i
        /\ \A k, l \in 1..Len(o) : k < l => o[k] < o[l]
        /\ request[p].at = "error" => \A i \in 1..Len(runs) : runs[i].by # p
    BY <2>1 DEF Walk, MineIsExact
  <2>3. \A k \in 1..Len(o) : o[k] \in 1..Len(runs)' /\ runs'[o[k]].by = p
    BY <1>1, <2>2
  <2>4. \A i \in 1..Len(runs)' : runs'[i].by = p => \E k \in 1..Len(o) : o[k] = i
    BY <1>1, <2>2
  <2>5. request[p].at = "error" => \A i \in 1..Len(runs)' : runs'[i].by # p
    BY <1>1, <2>2
  <2> QED BY <2>1, <2>2, <2>3, <2>4, <2>5 DEF MineIsExact
<1>5. OwedIsServed(p)'
  <2>1. \A m : Served(p, m) => Served(p, m)'
    BY <1>1 DEF Served, RunsBy, Before
  <2> QED BY <2>1 DEF Walk, OwedIsServed, Matches, Walking
<1> QED BY <1>2, <1>3, <1>4, <1>5 DEF Walk

\* A step of one request: what remains to be shown is its own walk.
LEMMA RequestStep ==
  ASSUME Inv, NEW q \in Requests, NEW r \in Request, request' = [request EXCEPT ![q] = r],
         r.event = request[q].event, request[q].gone => r.gone,
         r.at \in {"prepare", "insert"} => r.rest # <<>>,
         \/ runs' = runs
         \/ /\ request[q].at = "insert"
            /\ runs' = Append(runs, [by |-> q, matcher |-> request[q].rest[1]]),
         Records(q), UNCHANGED table, Walk(q)'
  PROVE  Inv'
<1> USE DEF table
<1>1. /\ TypeOK /\ RunsFollowPriority /\ \A p \in Requests : Walk(p)
      /\ request \in [Requests -> Request]
  BY DEF Inv, TypeOK, Request
<1>2. /\ request' \in [Requests -> Request] /\ request'[q] = r
      /\ \A p \in Requests : p # q => request'[p] = request[p] /\ Owed(p)' = Owed(p)
  BY <1>1 DEF TypeOK, Records
<1>3. request[q].at = "insert" =>
        /\ request[q].rest[1] \in Matchers /\ 1 \in 1..Len(request[q].rest)
  BY <1>1, EmptySeq DEF TypeOK
<1>4. runs' \in Seq([by : Requests, matcher : Matchers])
  BY <1>1, <1>3, OneMoreRun DEF TypeOK
<1>5. TypeOK'
  BY <1>1, <1>2, <1>4 DEF TypeOK, Request, Records
<1>6. ASSUME NEW p \in Requests PROVE Walk(p)'
  <2>1. CASE p = q
    BY <2>1
  <2>2. CASE p # q
    <3>1. request'[p] = request[p] /\ Owed(p)' = Owed(p) /\ \A m : Enabled(m) => Enabled(m)'
      BY <1>2, <2>2 DEF Enabled
    <3>2. \/ runs' = runs
          \/ \E x \in Requests \ {p}, m \in Matchers : runs' = Append(runs, [by |-> x, matcher |-> m])
      BY <1>3, <2>2
    <3> QED BY <1>1, <3>1, <3>2, OthersKeepWalking
  <2> QED BY <2>1, <2>2
<1>7. \A p \in Requests : request'[p].event = request[p].event /\ (request[p].gone => request'[p].gone)
  BY <1>2
<1>8. RunsFollowPriority'
  <2>0. \A i \in 1..Len(runs) : runs[i].by \in Requests
    <3>1. runs \in Seq([by : Requests, matcher : Matchers])
      BY <1>1 DEF TypeOK
    <3>2. \A i \in 1..Len(runs) : runs[i] \in [by : Requests, matcher : Matchers]
      BY <3>1, ElementOfSeq
    <3> QED BY <3>2
  <2>1. CASE runs' = runs
    <3>1. \A p : RunsBy(p)' = RunsBy(p) /\ RunsBy(p) \subseteq 1..Len(runs)
      BY <2>1 DEF RunsBy
    <3>2. \A i \in 1..Len(runs)' : Matches(runs[i].matcher, runs[i].by)'
      BY <1>1, <1>7, <2>0, <2>1 DEF RunsFollowPriority, Matches
    <3> QED BY <1>1, <1>7, <2>1, <3>1, <3>2 DEF RunsFollowPriority, Before
  <2>2. CASE /\ request[q].at = "insert"
             /\ runs' = Append(runs, [by |-> q, matcher |-> request[q].rest[1]])
    <3>1. PICK m \in Matchers, n \in Nat : m = request[q].rest[1] /\ n = Len(runs)
      BY <1>1, <1>3, <2>2 DEF TypeOK
    <3>2. /\ Len(runs)' = n + 1 /\ \A i \in 1..n : runs'[i] = runs[i] /\ runs[i].by \in Requests
          /\ runs'[n + 1] = [by |-> q, matcher |-> m]
      BY <1>1, <2>0, <2>2, <3>1, OneMoreRun
    <3>3. /\ rule[m].enabled /\ Matches(m, q)
          /\ \A i \in 1..n : runs[i].by = q =>
               /\ ~Before(m, runs[i].matcher) /\ m # runs[i].matcher
               /\ rule[runs[i].matcher].continue \/ request[q].gone
      BY <1>1, <1>3, <2>2, <3>1 DEF Walk, RestIsRanked, RunsComeFirst, HeadMatches, Walking
    <3>4. \A i \in 1..(n + 1) : rule[runs'[i].matcher].enabled /\ Matches(runs[i].matcher, runs[i].by)'
      BY <1>1, <1>7, <3>1, <3>2, <3>3 DEF RunsFollowPriority, Matches
    <3>5. ASSUME NEW p \in Requests, NEW i \in 1..(n + 1), NEW j \in 1..(n + 1),
                 runs'[i].by = p, runs'[j].by = p, i < j
          PROVE  /\ ~Before(runs'[j].matcher, runs'[i].matcher)
                 /\ runs'[i].matcher # runs'[j].matcher
                 /\ rule[runs'[i].matcher].continue \/ request'[p].gone
      <4>1. i \in 1..n /\ runs'[i] = runs[i] /\ runs[i].by = p
        BY <3>1, <3>2, <3>5
      <4>2. CASE j = n + 1
        BY <1>7, <3>2, <3>3, <3>5, <4>1, <4>2
      <4>3. CASE j # n + 1
        <5>1. j \in 1..n /\ runs'[j] = runs[j] /\ runs[j].by = p
          BY <3>1, <3>2, <3>5, <4>3
        <5>2. i \in RunsBy(p) /\ j \in RunsBy(p)
          BY <3>1, <4>1, <5>1 DEF RunsBy
        <5> QED BY <1>1, <1>7, <3>5, <4>1, <5>1, <5>2 DEF RunsFollowPriority
      <4> QED BY <4>2, <4>3
    <3> QED BY <3>2, <3>4, <3>5 DEF RunsFollowPriority, RunsBy, Before
  <2> QED BY <2>1, <2>2
<1> QED BY <1>5, <1>6, <1>8 DEF Inv

-----------------------------------------------------------------------------
\* The management API never touches a walk: it only excuses requests.
LEMMA ManagementInv ==
  ASSUME Inv, \/ \E m \in Matchers : CreateMatcher(m) \/ DeleteMatcher(m)
              \/ \E a \in Actions : ChangeAction(a) \/ DeleteAction(a)
  PROVE  Inv'
<1>1. UNCHANGED <<runs, request>>
  BY DEF CreateMatcher, DeleteMatcher, ChangeAction, DeleteAction
<1>2. /\ steady' \in [Requests -> SUBSET Matchers]
      /\ cut' = cut /\ failed' = failed
      /\ \A q \in Requests : steady'[q] \subseteq steady[q]
      /\ row' \in [Matchers -> {"absent", "present", "deleted"}]
      /\ action' \in [Actions -> {"runnable", "blocked", "deleted"}]
      /\ \A q \in Requests : \A m \in steady'[q] : Enabled(m) => Enabled(m)'
  <2>1. TypeOK
    BY DEF Inv
  <2>2. ASSUME NEW m \in Matchers, CreateMatcher(m) PROVE <1>2
    BY <2>1, <2>2 DEF CreateMatcher, TypeOK, Enabled, history
  <2>3. ASSUME NEW m \in Matchers, DeleteMatcher(m) PROVE <1>2
    BY <2>1, <2>3 DEF DeleteMatcher, TypeOK, Enabled, Disturb
  <2>4. ASSUME NEW a \in Actions, ChangeAction(a) PROVE <1>2
    BY <2>1, <2>4 DEF ChangeAction, TypeOK, Enabled, Disturb
  <2>5. ASSUME NEW a \in Actions, DeleteAction(a) PROVE <1>2
    BY <2>1, <2>5 DEF DeleteAction, TypeOK, Enabled, Disturb, Of
  <2> QED BY <2>2, <2>3, <2>4, <2>5
<1>3. TypeOK'
  BY <1>1, <1>2 DEF Inv, TypeOK
<1>4. RunsFollowPriority'
  BY <1>1 DEF Inv, RunsFollowPriority, RunsBy, Matches, Before
<1>5. \A q \in Requests : Walk(q)'
  <2>1. \A q \in Requests : Owed(q)' \subseteq Owed(q) /\ Owed(q)' \subseteq steady'[q]
    BY <1>2 DEF Owed
  <2> QED BY <1>1, <1>2, <2>1, OthersKeepWalking DEF Inv
<1> QED BY <1>3, <1>4, <1>5 DEF Inv

-----------------------------------------------------------------------------
\* A request that goes on, with the list it walks as it is.
LEMMA PlaceStep ==
  ASSUME Inv, NEW q \in Requests,
         NEW to \in {"list", "loop", "prepare", "insert", "ok", "error"},
         request' = [request EXCEPT ![q].at = to],
         UNCHANGED table, runs' = runs,
         Records(q),
         to = "list" => /\ request[q].at = "idle"
                        /\ Owed(q)' \subseteq {m \in Matchers : Enabled(m) /\ Runnable(m) /\ Matches(m, q)},
         to # "list" => Owed(q)' = Owed(q) /\ request[q].at # "idle",
         to \in {"loop", "prepare", "insert"} =>
           request[q].at \in {"loop", "prepare", "insert"} /\ request[q].rest # <<>>,
         to \in {"prepare", "insert"} => Matches(request[q].rest[1], q),
         to = "ok" => request[q].at = "loop" /\ request[q].rest = <<>>,
         to = "error" => request[q].gone \/ request[q].at = "list"
  PROVE  Inv'
<1>1. Walk(q) /\ request[q] \in Request /\ request \in [Requests -> Request]
  BY DEF Inv, TypeOK, Request
<1>2. PICK r : r = [request[q] EXCEPT !.at = to]
  OBVIOUS
<1>3. /\ r \in Request /\ r.at = to /\ r.event = request[q].event /\ r.rest = request[q].rest
      /\ r.mine = request[q].mine /\ r.gone = request[q].gone
  BY <1>1, <1>2 DEF Request
<1>4. /\ request' = [request EXCEPT ![q] = r] /\ request'[q] = r
  BY <1>1, <1>2
<1>5. Fresh(q)'
  BY <1>1, <1>3, <1>4 DEF Walk, Fresh
<1>6. RestIsRanked(q)' /\ RunsComeFirst(q)'
  <2>0. \A x, y : Before(x, y)' <=> Before(x, y)
    BY DEF Before, table
  <2>1. RestIsRanked(q)'
    BY <1>1, <1>3, <1>4, <2>0 DEF Walk, RestIsRanked, Walking, table
  <2>2. RunsComeFirst(q)'
    BY <1>1, <1>3, <1>4, <2>0 DEF Walk, RunsComeFirst, Walking
  <2> QED BY <2>1, <2>2
<1>7. HeadMatches(q)'
  BY <1>3, <1>4 DEF HeadMatches, Matches
<1>8. MineIsExact(q)'
  BY <1>1, <1>3, <1>4 DEF Walk, MineIsExact, Fresh
<1>9. OwedIsServed(q)'
  <2>1. \A m : (Enabled(m)' <=> Enabled(m)) /\ (Matches(m, q)' <=> Matches(m, q)) /\ (Served(q, m)' <=> Served(q, m))
    BY <1>3, <1>4 DEF Enabled, Matches, Served, RunsBy, Before, table
  <2>2. to = "ok" => Len(request[q].rest) = 0
    BY EmptySeq
  <2> QED BY <1>1, <1>3, <1>4, <2>1, <2>2 DEF Walk, OwedIsServed, Walking
<1>10. Walk(q)'
  BY <1>5, <1>6, <1>7, <1>8, <1>9 DEF Walk
<1> QED BY <1>3, <1>4, <1>10, RequestStep

\* The client goes away: from now on nothing is promised to it.
LEMMA CancelInv ==
  ASSUME Inv, NEW q \in Requests, Cancel(q)
  PROVE  Inv'
<1>1. Walk(q) /\ request[q] \in Request /\ request \in [Requests -> Request]
      /\ TypeOK
  BY DEF Inv, TypeOK, Request
<1>2. PICK r : r = [request[q] EXCEPT !.gone = TRUE]
  OBVIOUS
<1>3. /\ r \in Request /\ r.at = request[q].at /\ r.event = request[q].event /\ r.rest = request[q].rest
      /\ r.mine = request[q].mine /\ r.gone
  BY <1>1, <1>2 DEF Request
<1>4. /\ request' = [request EXCEPT ![q] = r] /\ request'[q] = r
      /\ runs' = runs /\ UNCHANGED table /\ request[q].at # "ok"
      /\ Owed(q)' = Owed(q) /\ Records(q)
  BY <1>1, <1>2 DEF Cancel, history, Owed, Records, TypeOK
<1>5. Walk(q)'
  <2>1. \A m : (Enabled(m)' <=> Enabled(m)) /\ (Matches(m, q)' <=> Matches(m, q)) /\ (Served(q, m)' <=> Served(q, m))
    BY <1>3, <1>4 DEF Enabled, Matches, Served, RunsBy, Before, table
  <2>2. Fresh(q)' /\ RestIsRanked(q)' /\ RunsComeFirst(q)'
    <3>1. Fresh(q)'
      BY <1>1, <1>3, <1>4 DEF Walk, Fresh
    <3>0. \A x, y : Before(x, y)' <=> Before(x, y)
      BY DEF Before
    <3>2. RestIsRanked(q)'
      BY <1>1, <1>3, <1>4, <3>0 DEF Walk, RestIsRanked, Walking
    <3>3. RunsComeFirst(q)'
      BY <1>1, <1>3, <1>4 DEF Walk, RunsComeFirst, Before, Walking, table
    <3> QED BY <3>1, <3>2, <3>3
  <2>3. HeadMatches(q)' /\ MineIsExact(q)'
    BY <1>1, <1>3, <1>4, <2>1 DEF Walk, HeadMatches, MineIsExact, Matches
  <2>4. OwedIsServed(q)'
    BY <1>1, <1>3, <1>4, <2>1 DEF Walk, OwedIsServed, Walking
  <2> QED BY <2>2, <2>3, <2>4 DEF Walk
<1>6. r.at \in {"prepare", "insert"} => r.rest # <<>>
  BY <1>1, <1>3 DEF TypeOK
<1> QED BY <1>3, <1>4, <1>5, <1>6, RequestStep

\* Steps that do not touch the list.
LEMMA PlaceInv ==
  ASSUME Inv, NEW q \in Requests,
         \/ Receive(q) \/ Refuse(q) \/ Prepare(q) \/ Answer(q)
         \/ Evaluate(q) /\ Matches(Head(request[q].rest), q)
  PROVE  Inv'
<1>1. /\ request[q].at \in {"prepare", "insert"} => request[q].rest # <<>> /\ Matches(request[q].rest[1], q)
      /\ UNCHANGED history => Owed(q)' = Owed(q) /\ Records(q)
  BY DEF Inv, TypeOK, Walk, HeadMatches, history, Owed, Records
<1>2. CASE Receive(q)
  <2>1. PICK M : M = {m \in Matchers : Enabled(m) /\ Runnable(m) /\ Matches(m, q)}
    OBVIOUS
  <2>2. Records(q) /\ Owed(q)' \subseteq M
    BY <1>2, <2>1 DEF Receive, Records, Owed, Inv, TypeOK
  <2> QED BY <1>2, <2>1, <2>2, PlaceStep DEF Receive, Go
<1>3. CASE Refuse(q)
  <2>1. /\ request' = [request EXCEPT ![q].at = "error"] /\ UNCHANGED table /\ runs' = runs /\ UNCHANGED history
        /\ request[q].at # "idle" /\ (request[q].gone \/ request[q].at = "list")
    BY <1>3 DEF Refuse, Go
  <2> QED BY <1>1, <2>1, PlaceStep
<1>4. CASE Prepare(q)
  <2>1. /\ request' = [request EXCEPT ![q].at = "insert"] /\ UNCHANGED table /\ runs' = runs /\ UNCHANGED history
        /\ request[q].at = "prepare"
    BY <1>4 DEF Prepare, Go
  <2> QED BY <1>1, <2>1, PlaceStep
<1>5. CASE Answer(q)
  <2>1. /\ request' = [request EXCEPT ![q].at = "ok"] /\ UNCHANGED table /\ runs' = runs /\ UNCHANGED history
        /\ request[q].at = "loop" /\ request[q].rest = <<>>
    BY <1>5 DEF Answer, Go
  <2> QED BY <1>1, <2>1, PlaceStep
<1>6. CASE Evaluate(q) /\ Matches(Head(request[q].rest), q)
  <2>1. /\ request' = [request EXCEPT ![q].at = "prepare"] /\ UNCHANGED table /\ runs' = runs /\ UNCHANGED history
        /\ request[q].at = "loop" /\ request[q].rest # <<>>
    BY <1>6 DEF Evaluate, Go
  <2>2. Matches(request[q].rest[1], q)
    BY <1>6
  <2> QED BY <1>1, <2>1, <2>2, PlaceStep
<1> QED BY <1>2, <1>3, <1>4, <1>5, <1>6

\* The next matcher is left without a run, and nobody is owed one by it.
LEMMA LeaveStep ==
  ASSUME Inv, NEW q \in Requests, Leave(q), UNCHANGED table, runs' = runs,
         request[q].at \in Walking, request[q].rest # <<>>,
         Records(q), Owed(q)' \subseteq Owed(q), request[q].rest[1] \notin Owed(q)'
  PROVE  Inv'
<1>1. Walk(q) /\ request[q] \in Request /\ request \in [Requests -> Request]
  BY DEF Inv, TypeOK, Request
<1>2. PICK s, t, r, S : /\ s = request[q].rest /\ t = Tail(s) /\ S = Owed(q)'
                        /\ r = [request[q] EXCEPT !.at = "loop", !.rest = t]
  OBVIOUS
<1>3. /\ s \in Seq(Matchers) /\ t \in Seq(Matchers) /\ Len(s) \in Nat /\ Len(t) = Len(s) - 1
      /\ \A k \in 1..Len(t) : t[k] = s[k + 1] /\ k + 1 \in 1..Len(s)
      /\ \A k \in 1..Len(s) : k # 1 => k - 1 \in 1..Len(t) /\ t[k - 1] = s[k]
  <2>1. s \in Seq(Matchers) /\ s # <<>>
    BY <1>1, <1>2 DEF Request
  <2>2. /\ t \in Seq(Matchers) /\ Len(s) \in Nat /\ Len(t) = Len(s) - 1
        /\ \A k \in 1..Len(t) : t[k] = s[k + 1]
    BY <1>2, <2>1, HeadTailProperties
  <2> QED BY <2>1, <2>2
<1>4. /\ r \in Request /\ r.at = "loop" /\ r.event = request[q].event /\ r.rest = t
      /\ r.mine = request[q].mine /\ r.gone = request[q].gone
  BY <1>1, <1>2, <1>3 DEF Request
<1>5. request' = [request EXCEPT ![q] = r] /\ request'[q] = r
  BY <1>1, <1>2 DEF Leave
<1>6. \A m : (Enabled(m)' <=> Enabled(m)) /\ (Matches(m, q)' <=> Matches(m, q)) /\ (Served(q, m)' <=> Served(q, m))
  BY <1>4, <1>5 DEF Enabled, Matches, Served, RunsBy, Before, table
<1>7. Fresh(q)' /\ HeadMatches(q)'
  BY <1>4, <1>5 DEF Fresh, HeadMatches
<1>8. RestIsRanked(q)'
  <2>1. \A k \in 1..Len(s) : rule[s[k]].enabled /\ \A l \in 1..Len(s) : k < l => ~Before(s[l], s[k]) /\ s[l] # s[k]
    BY <1>1, <1>2 DEF Walk, RestIsRanked
  <2>2. \A k \in 1..Len(t) : rule[t[k]].enabled /\ \A l \in 1..Len(t) : k < l => ~Before(t[l], t[k]) /\ t[l] # t[k]
    BY <1>3, <2>1
  <2> QED BY <1>4, <1>5, <2>2 DEF RestIsRanked, Before
<1>9. RunsComeFirst(q)'
  <2>1. \A k \in 1..Len(s) : \A i \in 1..Len(runs) : runs[i].by = q =>
          /\ ~Before(s[k], runs[i].matcher) /\ s[k] # runs[i].matcher
          /\ rule[runs[i].matcher].continue \/ request[q].gone
    BY <1>1, <1>2 DEF Walk, RunsComeFirst
  <2>2. \A k \in 1..Len(t) : \A i \in 1..Len(runs) : runs[i].by = q =>
          /\ ~Before(t[k], runs[i].matcher) /\ t[k] # runs[i].matcher
          /\ rule[runs[i].matcher].continue \/ request[q].gone
    BY <1>3, <2>1
  <2> QED BY <1>4, <1>5, <2>2 DEF RunsComeFirst, Before
<1>10. MineIsExact(q)'
  BY <1>1, <1>4, <1>5 DEF Walk, MineIsExact
<1>11. OwedIsServed(q)'
  <2>1. \A m \in S : /\ Matches(m, q)
                     /\ ~request[q].gone => Served(q, m) \/ \E k \in 1..Len(s) : s[k] = m /\ k # 1
    BY <1>1, <1>2 DEF Walk, OwedIsServed, Walking
  <2>2. ASSUME NEW m \in S, ~r.gone, ~Served(q, m) PROVE \E k \in 1..Len(t) : t[k] = m
    <3>1. PICK k \in 1..Len(s) : s[k] = m /\ k # 1
      BY <1>4, <2>1, <2>2
    <3>2. k - 1 \in 1..Len(t) /\ t[k - 1] = m
      BY <1>3, <3>1
    <3> QED BY <3>2
  <2>3. ASSUME NEW m \in Owed(q)'
        PROVE  Matches(m, q)' /\ (~r.gone => Served(q, m)' \/ \E k \in 1..Len(t) : t[k] = m)
    BY <1>2, <1>6, <2>1, <2>2, <2>3
  <2> QED BY <1>4, <1>5, <2>3 DEF OwedIsServed
<1>12. Walk(q)'
  BY <1>7, <1>8, <1>9, <1>10, <1>11 DEF Walk
<1> QED BY <1>4, <1>5, <1>12, RequestStep

LEMMA LeaveInv ==
  ASSUME Inv, NEW q \in Requests,
         \/ Evaluate(q) /\ ~Matches(Head(request[q].rest), q)
         \/ CreateRunFails(q)
  PROVE  Inv'
<1>1. CASE Evaluate(q) /\ ~Matches(Head(request[q].rest), q)
  <2>1. /\ request[q].at = "loop" /\ request[q].rest # <<>> /\ Leave(q)
        /\ UNCHANGED table /\ runs' = runs /\ UNCHANGED history
    BY <1>1 DEF Evaluate
  <2>2. Owed(q)' = Owed(q) /\ Records(q)
    BY <2>1 DEF Inv, TypeOK, history, Owed, Records
  <2>3. ~Matches(request[q].rest[1], q)
    BY <1>1
  <2>4. request[q].rest[1] \notin Owed(q)
    BY <2>1, <2>3 DEF Inv, Walk, OwedIsServed
  <2> QED BY <2>1, <2>2, <2>4, LeaveStep DEF Walking
<1>2. CASE CreateRunFails(q)
  <2>1. PICK m : m = Head(request[q].rest)
    OBVIOUS
  <2>2. /\ request[q].at \in {"prepare", "insert"} /\ Leave(q)
        /\ UNCHANGED <<table, runs, steady, cut>> /\ failed' = [failed EXCEPT ![q] = @ \cup {m}]
    BY <1>2, <2>1 DEF CreateRunFails, NoRun
  <2>3. request[q].rest # <<>> /\ request[q].rest \in Seq(Matchers)
    BY <2>2 DEF Inv, TypeOK
  <2>4. m = request[q].rest[1] /\ m \in Matchers
    BY <2>1, <2>3
  <2>5. /\ failed' \in [Requests -> SUBSET Matchers] /\ failed'[q] = failed[q] \cup {m}
        /\ \A p \in Requests \ {q} : failed'[p] = failed[p]
    BY <2>2, <2>4 DEF Inv, TypeOK
  <2>6. Records(q) /\ Owed(q)' \subseteq Owed(q) /\ m \notin Owed(q)'
    BY <2>2, <2>5 DEF Inv, TypeOK, Records, Owed
  <2> QED BY <2>2, <2>3, <2>4, <2>6, LeaveStep DEF Walking
<1> QED BY <1>1, <1>2

-----------------------------------------------------------------------------
\* A run is created: it comes last, and what may follow it is ranked after it.
\* Whether it is listed, and whether the walk stops, depends on the client too.
LEMMA RunStep ==
  ASSUME Inv, NEW q \in Requests, Insert(q), UNCHANGED <<table, history>>,
         NEW m, m = request[q].rest[1],
         NEW R, \/ R = Tail(request[q].rest) /\ (rule[m].continue \/ request[q].gone)
                \/ R = <<>> /\ ~rule[m].continue,
         NEW L, \/ L = Append(request[q].mine, Len(runs) + 1)
                \/ L = request[q].mine /\ request[q].gone,
         request' = [request EXCEPT ![q] = [request[q] EXCEPT !.at = "loop", !.rest = R, !.mine = L]]
  PROVE  Inv'
<1>1. /\ Walk(q) /\ request[q] \in Request /\ request \in [Requests -> Request] /\ TypeOK
      /\ request[q].at = "insert" /\ request[q].rest # <<>>
  BY DEF Inv, TypeOK, Request, Insert
<1>2. PICK s, r, n : /\ s = request[q].rest /\ n = Len(runs)
                     /\ r = [request[q] EXCEPT !.at = "loop", !.rest = R, !.mine = L]
  OBVIOUS
<1>3. /\ s \in Seq(Matchers) /\ Len(s) \in Nat /\ R \in Seq(Matchers) /\ Len(R) \in Nat
      /\ m = s[1] /\ m \in Matchers /\ 1 \in 1..Len(s)
      /\ \A k \in 1..Len(R) : R[k] = s[k + 1] /\ k + 1 \in 1..Len(s)
      /\ \A k \in 1..Len(s) : k # 1 /\ rule[m].continue => k - 1 \in 1..Len(R) /\ R[k - 1] = s[k]
      /\ 1 \in 1..Len(R) => rule[m].continue \/ request[q].gone
  <2>1. s \in Seq(Matchers) /\ s # <<>>
    BY <1>1, <1>2 DEF Request
  <2>2. /\ Tail(s) \in Seq(Matchers) /\ Len(s) \in Nat /\ Len(Tail(s)) = Len(s) - 1 /\ Len(s) # 0
        /\ \A k \in 1..Len(Tail(s)) : Tail(s)[k] = s[k + 1]
    BY <2>1, HeadTailProperties, EmptySeq
  <2>3. m = s[1] /\ m \in Matchers /\ 1 \in 1..Len(s)
    BY <1>2, <2>1, <2>2, ElementOfSeq
  <2>4. CASE R = Tail(s) /\ (rule[m].continue \/ request[q].gone)
    BY <2>1, <2>2, <2>3, <2>4
  <2>5. CASE R = <<>> /\ ~rule[m].continue
    <3>1. R \in Seq(Matchers) /\ Len(R) = 0
      BY <2>5, EmptySeq
    <3> QED BY <2>1, <2>2, <2>3, <2>5, <3>1
  <2> QED BY <1>2, <2>4, <2>5
<1>4. /\ n \in Nat /\ Len(runs)' = n + 1 /\ runs' = Append(runs, [by |-> q, matcher |-> m])
      /\ \A i \in 1..n : runs'[i] = runs[i] /\ i \in 1..(n + 1)
      /\ runs'[n + 1] = [by |-> q, matcher |-> m] /\ n + 1 \in 1..(n + 1)
      /\ \A i \in 1..(n + 1) : i \in 1..n \/ i = n + 1
  <2>1. runs' = Append(runs, [by |-> q, matcher |-> m])
    BY DEF Insert
  <2>2. /\ Len(runs) \in Nat /\ Len(runs)' = Len(runs) + 1
        /\ \A i \in 1..Len(runs) : runs'[i] = runs[i]
        /\ runs'[Len(runs) + 1] = [by |-> q, matcher |-> m]
    BY <1>1, <1>3, <2>1, OneMoreRun
  <2> QED BY <1>2, <2>1, <2>2
<1>5. L \in Seq(Nat)
  <2>1. PICK o : o = request[q].mine
    OBVIOUS
  <2>2. o \in Seq(Nat) /\ n + 1 \in Nat
    BY <1>1, <1>4, <2>1 DEF Request
  <2>3. Append(o, n + 1) \in Seq(Nat)
    BY <2>2
  <2> QED BY <1>2, <2>1, <2>2, <2>3
<1>6. /\ r \in Request /\ r.at = "loop" /\ r.event = request[q].event /\ r.rest = R
      /\ r.mine = L /\ r.gone = request[q].gone /\ r.gone \in BOOLEAN
  BY <1>1, <1>2, <1>3, <1>5 DEF Request
<1>7. request' = [request EXCEPT ![q] = r] /\ request'[q] = r /\ Owed(q)' = Owed(q) /\ Records(q)
  BY <1>1, <1>2 DEF history, Owed, Records, TypeOK
<1>8. Fresh(q)' /\ HeadMatches(q)'
  BY <1>6, <1>7 DEF Fresh, HeadMatches
<1>9. \A k \in 1..Len(s) : rule[s[k]].enabled /\ \A l \in 1..Len(s) : k < l => ~Before(s[l], s[k]) /\ s[l] # s[k]
  BY <1>1, <1>2 DEF Walk, RestIsRanked, Walking
<1>10. RestIsRanked(q)'
  <2>1. \A k \in 1..Len(R) : rule[R[k]].enabled /\ \A l \in 1..Len(R) : k < l => ~Before(R[l], R[k]) /\ R[l] # R[k]
    BY <1>3, <1>9
  <2> QED BY <1>6, <1>7, <2>1 DEF RestIsRanked, Before
<1>11. RunsComeFirst(q)'
  <2>1. \A k \in 1..Len(s) : \A i \in 1..n : runs[i].by = q =>
          /\ ~Before(s[k], runs[i].matcher) /\ s[k] # runs[i].matcher
          /\ rule[runs[i].matcher].continue \/ request[q].gone
    BY <1>1, <1>2 DEF Walk, RunsComeFirst, Walking
  <2>2. \A k \in 1..Len(R) : ~Before(R[k], m) /\ R[k] # m /\ (rule[m].continue \/ request[q].gone)
    <3> SUFFICES ASSUME NEW k \in 1..Len(R)
                 PROVE  ~Before(R[k], m) /\ R[k] # m /\ (rule[m].continue \/ request[q].gone)
      OBVIOUS
    <3>1. PICK l \in 1..Len(s) : l = k + 1 /\ R[k] = s[l]
      BY <1>3
    <3>2. 1 < l /\ 1 \in 1..Len(R)
      BY <1>3, <3>1
    <3>3. ~Before(s[l], s[1]) /\ s[l] # s[1]
      BY <1>3, <1>9, <3>2
    <3> QED BY <1>3, <3>1, <3>2, <3>3
  <2>3. \A k \in 1..Len(R) : \A i \in 1..(n + 1) : runs'[i].by = q =>
          /\ ~Before(R[k], runs'[i].matcher) /\ R[k] # runs'[i].matcher
          /\ rule[runs'[i].matcher].continue \/ r.gone
    BY <1>3, <1>4, <1>6, <2>1, <2>2
  <2>4. \A x, y : Before(x, y)' <=> Before(x, y)
    BY DEF Before, table
  <2>5. request'[q].rest = R /\ request'[q].gone = r.gone /\ Len(runs)' = n + 1
    BY <1>4, <1>6, <1>7
  <2> QED BY <2>3, <2>4, <2>5 DEF RunsComeFirst
<1>12. MineIsExact(q)'
  <2> SUFFICES ASSUME ~r.gone PROVE MineIsExact(q)'
    BY <1>7 DEF MineIsExact
  <2>1. PICK o, j : o = request[q].mine /\ j = Len(o)
    OBVIOUS
  <2>2. /\ o \in Seq(Nat) /\ j \in Nat /\ Len(L) = j + 1 /\ L[j + 1] = n + 1
        /\ \A k \in 1..j : L[k] = o[k]
    BY <1>1, <1>2, <1>4, <1>6, <2>1 DEF Request
  <2>3. /\ \A k \in 1..j : o[k] \in 1..n /\ runs[o[k]].by = q
        /\ \A i \in 1..n : runs[i].by = q => \E k \in 1..j : o[k] = i
        /\ \A k, l \in 1..j : k < l => o[k] < o[l]
    BY <1>1, <1>2, <1>6, <2>1 DEF Walk, MineIsExact
  <2>4. \A k \in 1..(j + 1) : (k \in 1..j \/ k = j + 1) /\ (k \in 1..j => k < j + 1)
    BY <2>2
  <2>5. ASSUME NEW k \in 1..(j + 1) PROVE L[k] \in 1..(n + 1) /\ runs'[L[k]].by = q
    <3>1. CASE k \in 1..j
      <4>1. o[k] \in 1..n /\ runs[o[k]].by = q /\ L[k] = o[k]
        BY <2>2, <2>3, <3>1
      <4> QED BY <1>4, <4>1
    <3>2. CASE k = j + 1
      BY <1>4, <2>2, <3>2
    <3> QED BY <2>4, <3>1, <3>2
  <2>6. \A i \in 1..(n + 1) : runs'[i].by = q => \E k \in 1..(j + 1) : L[k] = i
    <3>1. ASSUME NEW i \in 1..n, runs'[i].by = q PROVE \E k \in 1..(j + 1) : L[k] = i
      <4>1. PICK k \in 1..j : o[k] = i
        BY <1>4, <2>3, <3>1
      <4> QED BY <2>2, <4>1
    <3>2. \E k \in 1..(j + 1) : L[k] = n + 1
      BY <2>2
    <3> QED BY <1>4, <3>1, <3>2
  <2>7. ASSUME NEW k \in 1..(j + 1), NEW l \in 1..(j + 1), k < l PROVE L[k] < L[l]
    <3>1. k \in 1..j /\ L[k] = o[k] /\ o[k] \in 1..n
      BY <2>2, <2>3, <2>7
    <3>2. CASE l \in 1..j
      BY <2>2, <2>3, <2>7, <3>1, <3>2
    <3>3. CASE l = j + 1
      BY <1>4, <2>2, <3>1, <3>3
    <3> QED BY <2>4, <3>2, <3>3
  <2>8. /\ request'[q].mine = L /\ request'[q].at = "loop"
        /\ Len(L) = j + 1 /\ Len(runs)' = n + 1
    BY <1>4, <1>6, <1>7, <2>2
  <2> QED BY <2>5, <2>6, <2>7, <2>8 DEF MineIsExact
<1>13. OwedIsServed(q)'
  <2>1. \A x : (Matches(x, q)' <=> Matches(x, q)) /\ (Served(q, x) => Served(q, x)')
    <3>1. \A x : Matches(x, q)' <=> Matches(x, q)
      BY <1>6, <1>7 DEF Matches, table
    <3>2. \A x, y : Before(x, y)' <=> Before(x, y)
      BY DEF Before, table
    <3>3. \A i \in 1..Len(runs) : i \in 1..Len(runs') /\ runs'[i] = runs[i]
      BY <1>2, <1>4
    <3>4. \A x : Served(q, x) => Served(q, x)'
      BY <3>2, <3>3 DEF Served, RunsBy
    <3> QED BY <3>1, <3>4
  <2>2. ASSUME NEW x, x = m \/ (~rule[m].continue /\ ~Before(x, m)) PROVE Served(q, x)'
    <3>1. /\ runs'[n + 1].by = q /\ runs'[n + 1].matcher = m /\ n + 1 \in 1..Len(runs')
      BY <1>4
    <3> QED BY <2>2, <3>1 DEF Served, RunsBy, Before
  <2>3. ASSUME NEW x \in Owed(q), ~r.gone
        PROVE  Served(q, x)' \/ \E k \in 1..Len(R) : R[k] = x
    <3>1. Served(q, x) \/ \E k \in 1..Len(s) : s[k] = x
      BY <1>1, <1>2, <1>6, <2>3 DEF Walk, OwedIsServed, Walking
    <3>2. ASSUME NEW k \in 1..Len(s), s[k] = x PROVE Served(q, x)' \/ \E y \in 1..Len(R) : R[y] = x
      <4>1. CASE k = 1
        BY <1>3, <2>2, <3>2, <4>1
      <4>2. CASE k # 1 /\ rule[m].continue
        BY <1>3, <3>2, <4>2
      <4>3. CASE k # 1 /\ ~rule[m].continue
        <5>1. 1 < k
          BY <4>3
        <5> QED BY <1>3, <1>9, <2>2, <3>2, <4>3, <5>1
      <4> QED BY <4>1, <4>2, <4>3
    <3> QED BY <2>1, <3>1, <3>2
  <2>4. \A x \in Owed(q) : Matches(x, q)
    BY <1>1 DEF Walk, OwedIsServed
  <2> QED BY <1>6, <1>7, <2>1, <2>3, <2>4 DEF OwedIsServed
<1>14. Walk(q)'
  BY <1>8, <1>10, <1>11, <1>12, <1>13 DEF Walk
<1>15. runs' = Append(runs, [by |-> q, matcher |-> request[q].rest[1]])
  BY <1>3, <1>4
<1> QED BY <1>1, <1>6, <1>7, <1>14, <1>15, RequestStep

LEMMA RunInv ==
  ASSUME Inv, NEW q \in Requests, CreateRun(q) \/ CreateRunUnheard(q)
  PROVE  Inv'
<1>1. PICK m : m = request[q].rest[1]
  OBVIOUS
<1>2. Head(request[q].rest) = m
  BY <1>1
<1>3. request \in [Requests -> Request] /\ request[q] \in Request
  BY DEF Inv, TypeOK, Request
<1>4. CASE CreateRun(q)
  <2>1. PICK R, L : /\ R = IF rule[m].continue THEN Tail(request[q].rest) ELSE <<>>
                    /\ L = Append(request[q].mine, Len(runs) + 1)
    OBVIOUS
  <2>2. /\ Insert(q) /\ UNCHANGED <<table, history>>
        /\ request' = [request EXCEPT ![q] = [request[q] EXCEPT !.at = "loop", !.rest = R, !.mine = L]]
    BY <1>2, <1>4, <2>1 DEF CreateRun, Become
  <2> QED BY <1>1, <2>1, <2>2, RunStep
<1>5. CASE CreateRunUnheard(q)
  <2>1. PICK R, L : R = Tail(request[q].rest) /\ L = request[q].mine
    OBVIOUS
  <2>2. /\ Insert(q) /\ UNCHANGED <<table, history>> /\ request[q].gone
        /\ request' = [request EXCEPT ![q].at = "loop", ![q].rest = R]
    BY <1>5, <2>1 DEF CreateRunUnheard, Leave
  <2>3. request' = [request EXCEPT ![q] = [request[q] EXCEPT !.at = "loop", !.rest = R, !.mine = L]]
    BY <1>3, <2>1, <2>2 DEF Request
  <2>4. UNCHANGED <<table, history>> /\ Insert(q)
    BY <2>2
  <2>5. R = Tail(request[q].rest) /\ (rule[m].continue \/ request[q].gone)
    BY <2>1, <2>2
  <2>6. L = request[q].mine /\ request[q].gone
    BY <2>1, <2>2
  <2> QED BY <1>1, <2>3, <2>4, <2>5, <2>6, RunStep
<1> QED BY <1>4, <1>5

-----------------------------------------------------------------------------
\* The list holds every enabled matcher, or a beginning of it; whoever was cut
\* off is owed nothing.
LEMMA ListInv ==
  ASSUME Inv, NEW q \in Requests, ListMatchers(q)
  PROVE  Inv'
<1>1. /\ Walk(q) /\ request[q] \in Request /\ request \in [Requests -> Request] /\ TypeOK
      /\ request[q].at = "list"
  BY DEF Inv, TypeOK, Request, ListMatchers
<1>2. PICK d \in 0..Cardinality(Matchers) : \E s \in [1..d -> Matchers] :
        /\ Listing(s)
        /\ \E n \in (IF CanFail \/ request[q].gone THEN 0 ELSE Len(s))..Len(s) :
            /\ Become(q, [request[q] EXCEPT !.at = "loop", !.rest = SubSeq(s, 1, n)])
            /\ cut' = [cut EXCEPT ![q] = @ \cup ToSet(SubSeq(s, n + 1, Len(s)))]
  BY DEF ListMatchers
<1>3. PICK s \in [1..d -> Matchers] :
        /\ Listing(s)
        /\ \E n \in (IF CanFail \/ request[q].gone THEN 0 ELSE Len(s))..Len(s) :
            /\ Become(q, [request[q] EXCEPT !.at = "loop", !.rest = SubSeq(s, 1, n)])
            /\ cut' = [cut EXCEPT ![q] = @ \cup ToSet(SubSeq(s, n + 1, Len(s)))]
  BY <1>2
<1>4. d \in Nat /\ s \in Seq(Matchers) /\ Len(s) = d /\ DOMAIN s = 1..d
  <2>1. Cardinality(Matchers) \in Nat
    BY DispatchAssumption, FS_CardinalityType
  <2> QED BY <2>1
<1>5. PICK n \in 0..d :
        /\ request' = [request EXCEPT ![q] = [request[q] EXCEPT !.at = "loop", !.rest = SubSeq(s, 1, n)]]
        /\ cut' = [cut EXCEPT ![q] = cut[q] \cup ToSet(SubSeq(s, n + 1, Len(s)))]
  <2>1. PICK n \in (IF CanFail \/ request[q].gone THEN 0 ELSE Len(s))..Len(s) :
          /\ Become(q, [request[q] EXCEPT !.at = "loop", !.rest = SubSeq(s, 1, n)])
          /\ cut' = [cut EXCEPT ![q] = @ \cup ToSet(SubSeq(s, n + 1, Len(s)))]
    BY <1>3
  <2>2. n \in 0..d
    BY <1>4
  <2>3. /\ request' = [request EXCEPT ![q] = [request[q] EXCEPT !.at = "loop", !.rest = SubSeq(s, 1, n)]]
        /\ cut' = [cut EXCEPT ![q] = cut[q] \cup ToSet(SubSeq(s, n + 1, Len(s)))]
    BY <2>1 DEF Become
  <2> QED BY <2>2, <2>3
<1>6. PICK R, C, S, r :
        /\ R = SubSeq(s, 1, n) /\ C = ToSet(SubSeq(s, n + 1, d)) /\ S = Owed(q)'
        /\ r = [request[q] EXCEPT !.at = "loop", !.rest = R]
  OBVIOUS
<1>7. R \in Seq(Matchers) /\ Len(R) = n /\ \A k \in 1..n : R[k] = s[k] /\ k \in 1..d
  <2>1. \A i \in 1..n : s[i] \in Matchers
    BY <1>4
  <2>2. /\ R \in Seq(Matchers) /\ Len(R) = (IF 1 <= n THEN n - 1 + 1 ELSE 0)
        /\ \A i \in 1..(n - 1 + 1) : R[i] = s[1 + i - 1]
    BY <1>6, <2>1, SubSeqProperties
  <2> QED BY <1>4, <2>2
<1>8. \A k \in (n + 1)..d : s[k] \in C
  <2>1. PICK t : t = SubSeq(s, n + 1, d)
    OBVIOUS
  <2>2. \A i \in (n + 1)..d : s[i] \in Matchers
    BY <1>4
  <2>3. /\ t \in Seq(Matchers) /\ Len(t) = (IF n + 1 <= d THEN d - (n + 1) + 1 ELSE 0)
        /\ \A i \in 1..(d - (n + 1) + 1) : t[i] = s[n + 1 + i - 1]
    BY <1>4, <2>1, <2>2, SubSeqProperties
  <2>4. ASSUME NEW k \in (n + 1)..d PROVE s[k] \in C
    <3>1. k - n \in 1..Len(t) /\ t[k - n] = s[k] /\ DOMAIN t = 1..Len(t)
      BY <1>4, <2>3, <2>4
    <3> QED BY <1>6, <2>1, <3>1 DEF ToSet
  <2> QED BY <2>4
<1>9. /\ r \in Request /\ r.at = "loop" /\ r.event = request[q].event /\ r.rest = R
      /\ r.mine = request[q].mine /\ r.gone = request[q].gone
  BY <1>1, <1>6, <1>7 DEF Request
<1>10. /\ request' = [request EXCEPT ![q] = r] /\ request'[q] = r
       /\ Records(q) /\ S \subseteq Owed(q) /\ S \subseteq steady[q] \ C
       /\ UNCHANGED table /\ runs' = runs
  <2>1. UNCHANGED <<table, runs, steady, failed>>
    BY DEF ListMatchers
  <2>2. cut' = [cut EXCEPT ![q] = cut[q] \cup C]
    BY <1>4, <1>5, <1>6
  <2>3. C \subseteq Matchers
    <3>1. \A i \in (n + 1)..d : s[i] \in Matchers
      BY <1>4
    <3>2. SubSeq(s, n + 1, d) \in Seq(Matchers)
      BY <1>4, <3>1, SubSeqProperties
    <3> QED BY <1>6, <3>2 DEF ToSet
  <2>4. /\ cut' \in [Requests -> SUBSET Matchers] /\ cut'[q] = cut[q] \cup C
        /\ \A p \in Requests \ {q} : cut'[p] = cut[p]
    BY <1>1, <2>2, <2>3 DEF TypeOK
  <2>5. Records(q) /\ S \subseteq Owed(q) /\ S \subseteq steady[q] \ C
    BY <1>1, <1>6, <2>1, <2>4 DEF TypeOK, Records, Owed
  <2>6. request' = [request EXCEPT ![q] = r] /\ request'[q] = r
    BY <1>1, <1>5, <1>6
  <2> QED BY <2>1, <2>5, <2>6
<1>11. request[q].mine = <<>> /\ Len(request[q].mine) = 0 /\ \A i \in 1..Len(runs) : runs[i].by # q
  BY <1>1, EmptySeq DEF Walk, Fresh
<1>12. Fresh(q)' /\ HeadMatches(q)'
  BY <1>9, <1>10 DEF Fresh, HeadMatches
<1>13. /\ \A k, l \in 1..d : s[k] = s[l] => k = l
       /\ \A x \in Matchers : Enabled(x) <=> \E k \in 1..d : s[k] = x
       /\ \A k, l \in 1..d : k < l => ~Before(s[l], s[k])
  BY <1>3, <1>4 DEF Listing, Lists, Ranked, IsInjective, ToSet
<1>14. RestIsRanked(q)'
  <2>1. ASSUME NEW k \in 1..n, NEW l \in 1..n, k < l PROVE ~Before(R[l], R[k]) /\ R[l] # R[k]
    <3>1. R[k] = s[k] /\ R[l] = s[l] /\ k \in 1..d /\ l \in 1..d /\ k # l
      BY <1>7, <2>1
    <3> QED BY <1>13, <2>1, <3>1
  <2>2. \A k \in 1..n : rule[R[k]].enabled
    BY <1>4, <1>7, <1>13 DEF Enabled
  <2> QED BY <1>7, <1>9, <1>10, <2>1, <2>2 DEF RestIsRanked, Before
<1>15. RunsComeFirst(q)' /\ MineIsExact(q)'
  BY <1>9, <1>10, <1>11 DEF RunsComeFirst, MineIsExact
<1>16. OwedIsServed(q)'
  <2>1. ASSUME NEW x \in S PROVE Matches(x, q) /\ \E k \in 1..n : R[k] = x
    <3>1. x \in Owed(q) /\ x \in Matchers /\ x \notin C
      BY <1>1, <1>6, <1>10, <2>1 DEF TypeOK
    <3>2. Matches(x, q) /\ Enabled(x)
      BY <1>1, <3>1 DEF Walk, OwedIsServed
    <3>3. PICK k \in 1..d : s[k] = x
      BY <1>13, <3>1, <3>2
    <3>4. k \in 1..n
      BY <1>4, <1>8, <3>1, <3>3
    <3> QED BY <1>7, <3>2, <3>3, <3>4
  <2>2. \A x : Matches(x, q)' <=> Matches(x, q)
    BY <1>9, <1>10 DEF Matches
  <2>3. \A x \in S : Matches(x, q)' /\ \E k \in 1..Len(R) : R[k] = x
    BY <1>7, <2>1, <2>2
  <2>4. request'[q].at = "loop" /\ request'[q].rest = R /\ Owed(q)' = S
    BY <1>6, <1>9, <1>10
  <2> QED BY <2>3, <2>4 DEF OwedIsServed
<1>17. Walk(q)'
  BY <1>12, <1>14, <1>15, <1>16 DEF Walk
<1> QED BY <1>9, <1>10, <1>17, RequestStep

-----------------------------------------------------------------------------
\* No step breaks the invariant.
LEMMA StepInv == Inv /\ [Next]_vars => Inv'
<1> SUFFICES ASSUME Inv, [Next]_vars PROVE Inv'
  OBVIOUS
<1>1. ASSUME NEW q \in Requests, Receive(q) \/ Cancel(q) \/ Handle(q) PROVE Inv'
  <2>1. CASE Evaluate(q)
    BY <2>1, PlaceInv, LeaveInv
  <2>2. CASE Receive(q) \/ Refuse(q) \/ Prepare(q) \/ Answer(q)
    BY <2>2, PlaceInv
  <2>3. CASE Cancel(q)
    BY <2>3, CancelInv
  <2>4. CASE ListMatchers(q)
    BY <2>4, ListInv
  <2>5. CASE CreateRun(q) \/ CreateRunUnheard(q)
    BY <2>5, RunInv
  <2>6. CASE CreateRunFails(q)
    BY <2>6, LeaveInv
  <2> QED BY <1>1, <2>1, <2>2, <2>3, <2>4, <2>5, <2>6 DEF Handle
<1>2. CASE UNCHANGED vars
  <2>1. UNCHANGED <<row, action, runs, request, steady, cut, failed>>
    BY <1>2 DEF vars, table
  <2>2. TypeOK'
    BY <2>1 DEF Inv, TypeOK
  <2>3. RunsFollowPriority'
    BY <2>1 DEF Inv, RunsFollowPriority, RunsBy, Matches, Before
  <2>4. \A q \in Requests : Walk(q)'
    BY <2>1, OthersKeepWalking DEF Inv, Enabled, Owed
  <2> QED BY <2>2, <2>3, <2>4 DEF Inv
<1> QED BY <1>1, <1>2, ManagementInv DEF Next

\* The inductive invariant holds in every reachable state.
THEOREM InvHolds == Spec => []Inv
<1> QED BY InitInv, StepInv, PTL DEF Spec

\* Every variable keeps its type, and a request that prepares or inserts a run
\* has a matcher to do so for: Head is never taken of an empty list.
THEOREM TypeCorrect == Spec => []TypeOK
<1>1. Inv => TypeOK
  BY DEF Inv
<1> QED BY InvHolds, <1>1, PTL

\* Whatever the management API, the database and the client do between the
\* snapshot and the runs: every run was triggered by a matcher that was enabled
\* and accepts its event; the runs of one request follow the ranking, each
\* matcher fires once, and only one that continues is followed by another.
THEOREM RunsAreRanked == Spec => []RunsFollowPriority
<1>1. Inv => RunsFollowPriority
  BY DEF Inv
<1> QED BY InvHolds, <1>1, PTL

\* A client that stays until the answer reads the truth: ok lists the runs of its
\* event, all of them, in order; an error means that there is none.
THEOREM AnswersAreExact == Spec => []HeardAnswerIsExact
<1>1. Inv => HeardAnswerIsExact
  <2> SUFFICES ASSUME Inv, NEW q \in Requests, ~request[q].gone
               PROVE  /\ ToSet(request[q].mine) = RunsBy(q)
                      /\ \A k \in 2..Len(request[q].mine) : request[q].mine[k - 1] < request[q].mine[k]
                      /\ request[q].at = "error" => RunsBy(q) = {}
    BY DEF HeardAnswerIsExact
  <2>1. PICK o, n : o = request[q].mine /\ n = Len(o)
    OBVIOUS
  <2>2. o \in Seq(Nat) /\ n \in Nat /\ DOMAIN o = 1..n
    BY <2>1 DEF Inv, TypeOK
  <2>3. /\ \A k \in 1..n : o[k] \in 1..Len(runs) /\ runs[o[k]].by = q
        /\ \A i \in 1..Len(runs) : runs[i].by = q => \E k \in 1..n : o[k] = i
        /\ \A k, l \in 1..n : k < l => o[k] < o[l]
        /\ request[q].at = "error" => \A i \in 1..Len(runs) : runs[i].by # q
    BY <2>1 DEF Inv, Walk, MineIsExact
  <2>4. ToSet(o) = RunsBy(q)
    BY <2>2, <2>3 DEF ToSet, RunsBy
  <2>5. ASSUME NEW k \in 2..n PROVE o[k - 1] < o[k]
    <3>1. k - 1 \in 1..n /\ k \in 1..n /\ k - 1 < k
      BY <2>2, <2>5
    <3> QED BY <2>3, <3>1
  <2>6. request[q].at = "error" => RunsBy(q) = {}
    BY <2>3 DEF RunsBy
  <2> QED BY <2>1, <2>4, <2>5, <2>6
<1> QED BY InvHolds, <1>1, PTL

\* Behind an answer of ok that is heard, a matcher that stayed enabled and
\* runnable from the arrival of the event to the answer has its run, unless one
\* that does not continue and is not ranked after it had one, or it is one of the
\* two losses the answer does not show: it was cut off the list by an error that
\* is not asked for (cut), or its own run could not be created (failed).
THEOREM MatchesAreServed == Spec => []EveryMatchIsServed
<1>1. Inv => EveryMatchIsServed
  BY DEF Inv, Walk, OwedIsServed, EveryMatchIsServed
<1> QED BY InvHolds, <1>1, PTL
=============================================================================
