--------------------------- MODULE RegistryProofs ---------------------------
(***************************************************************************)
(* Theorems about Registry, for any actions, builds and requests, any cap  *)
(* on versions, with or without failures and crashes.                      *)
(***************************************************************************)
EXTENDS Registry, WellFoundedInduction, TLAPS

(***************************************************************************)
(* The inductive invariant.  What a request read may be out of date when   *)
(* it is used; the invariant says, for each place of a request, what still *)
(* holds of it.  All of it rests on two facts: the action of a row is      *)
(* never deleted while the row is there, and a deleted action never comes  *)
(* back.                                                                   *)
(***************************************************************************)
\* The places of a request between the mutex and its release.
Numbered == {"stage", "clear", "rename", "insert", "rollback"}

\* What a request remembers at each of its places.
Call ==
  {Idle}
    \cup [at : {"lock"}, action : Actions]
    \cup [at : Numbered \cup {"number"}, version : Versions]
    \cup [at : {"create"}, version : Versions, number : Nat \ {0}]
    \cup [at : Building, version : Versions, number : Nat \ {0}, build : Builds]
    \cup [at : {"activate"}, action : Actions, pair : Pairs]
    \cup [at : {"update"}, action : Actions, enabled : BOOLEAN, pair : Pairs \cup {None}]
    \cup [at : {"check", "run"}, pair : Pairs]

\* Foreign keys; and build numbers have a maximum.
KeysHold ==
  /\ \A v \in versions : actions[v.action] = "present"
  /\ \A b \in DOMAIN builds : builds[b].version \in versions
  /\ \E n \in Nat : \A b \in DOMAIN builds : builds[b].number <= n

\* A request that numbered a version: no row has the number, but for one that was
\* inserted unheard and waits for its rollback, and the mutex is held.  The source is there from the rename on.
VersionKept(k) ==
  k.at \in Numbered =>
    /\ k.version \in versions => k.at = "rollback" /\ k.version \in unheard
    /\ k.version.action \in locked
    /\ k.at = "insert" => k.version \in source

\* A request that builds: its row is there for as long as the action is, it is
\* not recorded before its end, and its artifact is whole when it succeeds.
BuildKept(k) ==
  k.at \in Building =>
    /\ actions[k.version.action] # "deleted" => k.build \in DOMAIN builds
    /\ k.build \in DOMAIN builds =>
         /\ builds[k.build].version = k.version
         /\ builds[k.build].number = k.number
         /\ k.at # "release" => builds[k.build].status = "building"
    /\ k.version \notin unheard =>
         /\ k.at = "saving" => artifact[k.build] = "partial"
         /\ k.at = "succeed" => artifact[k.build] = "whole"

SessionOf(k) == [version |-> k.version, number |-> k.number]
SessionKept(k) ==
  k.at = "compile" =>
    SessionOf(k) \in DOMAIN inside /\ inside[SessionOf(k)] = k.build

\* A pair that was read can be executed for as long as its action exists.
Lasting(p) == actions[p.version.action] # "deleted" => Executable(p)
PairKept(k) ==
  /\ k.at \in {"activate", "check", "run"} => Lasting(k.pair)
  /\ k.at = "activate" => k.pair.version.action = k.action
  /\ k.at = "update" /\ k.pair # None => Lasting(k.pair) /\ k.pair.version.action = k.action

Kept(k) == k \in Call /\ VersionKept(k) /\ BuildKept(k) /\ SessionKept(k) /\ PairKept(k)

\* Two requests never work on the versions of one action, on one build, or in
\* one sandbox session.
Apart(k, l) ==
  /\ k.at \in Numbered /\ l.at \in Numbered => k.version.action # l.version.action
  /\ k.at \in Building /\ l.at \in Building =>
       k.build # l.build /\ SessionOf(k) # SessionOf(l)

Inv ==
  /\ TypeOK
  /\ KeysHold
  /\ RowsHaveFiles
  /\ PairsAreExecutable
  /\ call \in [Callers -> Call]
  /\ \A c \in Callers : Kept(call[c])
  /\ \A c, d \in Callers : c # d => Apart(call[c], call[d])

-----------------------------------------------------------------------------
\* Max of a set of naturals that has a bound: what NextVersion and NextBuild add
\* one to is the largest number that is taken.
LEMMA BoundedMax ==
  ASSUME NEW S \in SUBSET Nat, S # {}, NEW n \in Nat, \A x \in S : x <= n
  PROVE  Max(S) \in S /\ \A x \in S : x <= Max(S)
<1> DEFINE T == {y \in Nat : \E x \in S : y = n - x}
           R == OpToRel(<, Nat)
<1>1. T \subseteq Nat /\ T # {}
  <2>1. PICK x \in S : TRUE
    OBVIOUS
  <2>2. n - x \in T
    BY <2>1
  <2> QED BY <2>2
<1>2. PICK y \in T : \A z \in T : ~ (<<z, y>> \in R)
  <2> HIDE DEF T, R
  <2> QED BY <1>1, NatLessThanWellFounded, WFMin DEF R
<1>3. \A z \in T : y <= z
  <2> SUFFICES ASSUME NEW z \in T, z < y PROVE FALSE
    BY <1>1
  <2>1. <<z, y>> \in Nat \X Nat
    BY <1>1
  <2>2. <<z, y>> \in R
    BY <2>1 DEF OpToRel
  <2> QED BY <1>2, <2>2
<1>4. PICK x \in S : y = n - x
  BY <1>2
<1>5. \A u \in S : x >= u
  <2> SUFFICES ASSUME NEW u \in S PROVE x >= u
    OBVIOUS
  <2>1. n - u \in T
    OBVIOUS
  <2> QED BY <1>3, <1>4, <2>1
<1> QED BY <1>5 DEF Max

\* The number of a new version is one that no version of the action has.
LEMMA NextVersionIsNew ==
  ASSUME TypeOK, NEW a \in Actions
  PROVE  /\ NextVersion(a) \in Nat \ {0}
         /\ \A v \in versions : v.action = a => v.number < NextVersion(a)
<1> DEFINE S == {0} \cup {v.number : v \in {u \in versions : u.action = a}}
<1>1. MaxVersions \in Nat /\ S \in SUBSET Nat /\ \A x \in S : x <= MaxVersions
  BY RegistryAssumption DEF TypeOK, Versions
<1>2. Max(S) \in S /\ \A x \in S : x <= Max(S)
  <2> HIDE DEF S
  <2>1. S # {}
    BY DEF S
  <2> QED BY <1>1, <2>1, BoundedMax
<1>3. NextVersion(a) = 1 + Max(S)
  BY DEF NextVersion
<1>4. \A v \in versions : v.action = a => v.number \in S
  OBVIOUS
<1> HIDE DEF S
<1> DEFINE m == Max(S)
<1>5. m \in Nat /\ (\A x \in S : x \in Nat /\ x <= m)
  BY <1>1, <1>2
<1>6. NextVersion(a) = 1 + m
  BY <1>3
<1> HIDE DEF m
<1> QED BY <1>4, <1>5, <1>6

\* Build numbers start at one.
LEMMA NextBuildIsPositive ==
  ASSUME TypeOK, KeysHold, NEW v \in Versions
  PROVE  NextBuild(v) \in Nat \ {0}
<1> DEFINE S == {0} \cup {builds[b].number : b \in Rows(v)}
<1>1. S \in SUBSET Nat /\ \E n \in Nat : \A x \in S : x <= n
  <2>1. \A b \in Rows(v) : b \in DOMAIN builds /\ builds[b].number \in Nat
    BY DEF TypeOK, Rows, BuildRow
  <2>2. PICK n \in Nat : \A b \in DOMAIN builds : builds[b].number <= n
    BY DEF KeysHold
  <2> QED BY <2>1, <2>2
<1>2. Max(S) \in S
  <2> HIDE DEF S
  <2>1. S # {}
    BY DEF S
  <2> QED BY <1>1, <2>1, BoundedMax
<1>3. NextBuild(v) = 1 + Max(S)
  BY DEF NextBuild
<1> HIDE DEF S
<1>4. Max(S) \in Nat
  BY <1>1, <1>2
<1> QED BY <1>3, <1>4

\* The directory of a version without a row holds no artifact that matters.
LEMMA RemoveUnlisted ==
  ASSUME TypeOK, KeysHold, NEW v, v \notin versions, RemoveDirectory(v)
  PROVE  source' = source \ {v} /\ artifact' = artifact
BY DEF TypeOK, KeysHold, RemoveDirectory, Rows

-----------------------------------------------------------------------------
\* Nothing exists and nothing is being done.
LEMMA InitInv == Init => Inv
<1> SUFFICES ASSUME Init PROVE Inv
  OBVIOUS
<1>1. TypeOK /\ KeysHold
  BY DEF Init, TypeOK, KeysHold
<1>2. RowsHaveFiles /\ PairsAreExecutable
  BY DEF Init, RowsHaveFiles, PairsAreExecutable
<1>3. \A c \in Callers : call[c] = Idle
  BY DEF Init
<1>4. Kept(Idle)
  BY DEF Kept, Call, Idle, VersionKept, BuildKept, SessionKept, PairKept, Numbered, Building
<1>5. call \in [Callers -> Call]
  BY <1>4 DEF Init, Kept
<1>6. \A c, d \in Callers : Apart(call[c], call[d])
  BY <1>3 DEF Apart, Idle, Numbered, Building
<1> QED BY <1>1, <1>2, <1>3, <1>4, <1>5, <1>6 DEF Inv

\* A step of one request that leaves versions, builds, files and sessions alone.
LEMMA CallStep ==
  ASSUME Inv, NEW c \in Callers, NEW k, call' = [call EXCEPT ![c] = k],
         UNCHANGED <<actions, versions, unheard, builds, source, artifact, inside>>,
         TypeOK', PairsAreExecutable',
         \A d \in Callers \ {c} :
           /\ Apart(call[d], k) /\ Apart(k, call[d])
           /\ call[d].at \in Numbered => call[d].version.action \in locked',
         Kept(k)'
  PROVE  Inv'
<1> USE DEF Inv
<1>1. /\ call' \in [Callers -> Call] /\ call'[c] = k
      /\ \A d \in Callers \ {c} : call'[d] = call[d]
  BY DEF Kept
<1>2. KeysHold' /\ RowsHaveFiles'
  BY DEF KeysHold, RowsHaveFiles
<1>3. \A p : Executable(p)' <=> Executable(p)
  BY DEF Executable
<1>4. ASSUME NEW d \in Callers \ {c} PROVE Kept(call[d])'
  <2>1. Kept(call[d]) /\ call'[d] = call[d]
    BY <1>1
  <2>2. VersionKept(call[d])'
    BY <2>1 DEF Kept, VersionKept
  <2>3. BuildKept(call[d])' /\ SessionKept(call[d])'
    BY <2>1 DEF Kept, BuildKept, SessionKept, SessionOf
  <2>4. PairKept(call[d])'
    BY <1>3, <2>1 DEF Kept, PairKept, Lasting
  <2> QED BY <2>1, <2>2, <2>3, <2>4 DEF Kept
<1>5. \A d \in Callers : Kept(call[d])'
  BY <1>1, <1>4
<1>6. \A d, e \in Callers : d # e => Apart(call'[d], call'[e])
  BY <1>1
<1> QED BY <1>1, <1>2, <1>5, <1>6 DEF Apart, SessionOf

\* A step of one request that changes only what it remembers, and perhaps takes
\* or leaves the mutex of its action.
LEMMA OnlyCall ==
  ASSUME Inv, NEW c \in Callers, NEW k, call' = [call EXCEPT ![c] = k],
         UNCHANGED <<dbvars, diskvars, inside>>,
         locked' \subseteq Actions,
         \A d \in Callers \ {c} :
           /\ Apart(call[d], k) /\ Apart(k, call[d])
           /\ call[d].at \in Numbered => call[d].version.action \in locked',
         Kept(k)'
  PROVE  Inv'
<1>1. UNCHANGED <<actions, enabled, active, versions, unheard, builds, runs, source, artifact, inside>>
  BY DEF dbvars, diskvars
<1>2. TypeOK'
  BY <1>1 DEF Inv, TypeOK
<1>3. PairsAreExecutable'
  BY <1>1 DEF Inv, PairsAreExecutable, Executable
<1> QED BY <1>1, <1>2, <1>3, CallStep

\* What a request remembers, by its place.
LEMMA Shapes ==
  ASSUME NEW k \in Call
  PROVE  /\ k.at = "lock" => k.action \in Actions
         /\ k.at \in Numbered \cup {"number"} =>
              k \in [at : Numbered \cup {"number"}, version : Versions]
         /\ k.at = "create" => k.version \in Versions /\ k.number \in Nat \ {0}
         /\ k.at \in Building =>
              k \in [at : Building, version : Versions, number : Nat \ {0}, build : Builds]
         /\ k.at = "activate" => k.action \in Actions /\ k.pair \in Pairs
         /\ k.at = "update" =>
              k.action \in Actions /\ k.enabled \in BOOLEAN /\ k.pair \in Pairs \cup {None}
         /\ k.at \in {"check", "run"} => k \in [at : {"check", "run"}, pair : Pairs]
BY DEF Call, Idle, Numbered, Building

\* A request that is through with its call is in nobody's way.
LEMMA IdleIsKept ==
  Kept(Idle) /\ Kept(Idle)' /\ \A l : Apart(Idle, l) /\ Apart(l, Idle)
BY DEF Kept, Call, Idle, VersionKept, BuildKept, SessionKept, PairKept, Apart, Numbered, Building

-----------------------------------------------------------------------------
\* The steps of the creation of a version.
LEMMA CreateVersionInv ==
  ASSUME Inv, NEW c \in Callers, NEW a \in Actions, CreateVersion(c, a)
  PROVE  Inv'
<1> DEFINE k == [at |-> "lock", action |-> a]
<1>1. Kept(k)' /\ \A l : Apart(k, l) /\ Apart(l, k)
  BY DEF Kept, Call, VersionKept, BuildKept, SessionKept, PairKept, Apart, Numbered, Building
<1>2. locked' \subseteq Actions /\ locked' = locked
  BY DEF CreateVersion, Inv, TypeOK
<1>3. \A d \in Callers : VersionKept(call[d])
  BY DEF Inv, Kept
<1> QED BY <1>1, <1>2, <1>3, OnlyCall DEF CreateVersion, Become, VersionKept

LEMMA NumberVersionInv ==
  ASSUME Inv, NEW c \in Callers, NumberVersion(c)
  PROVE  Inv'
<1>0. PICK a, v, k : /\ a = call[c].action
                     /\ v = [action |-> a, number |-> NextVersion(a)]
                     /\ k = [at |-> "stage", version |-> v]
  OBVIOUS
<1>1. a \in Actions /\ a \notin locked
  BY <1>0, Shapes DEF NumberVersion, Inv
<1>2. NextVersion(a) \in 1..MaxVersions /\ v \notin versions
  <2>1. /\ NextVersion(a) \in Nat \ {0}
        /\ \A u \in versions : u.action = a => u.number < NextVersion(a)
    BY <1>1, NextVersionIsNew DEF Inv
  <2>2. NextVersion(a) <= MaxVersions
    BY <1>0 DEF NumberVersion
  <2>3. v \notin versions
    <3> SUFFICES ASSUME v \in versions PROVE FALSE
      OBVIOUS
    <3>1. NextVersion(a) < NextVersion(a)
      BY <1>0, <2>1
    <3> QED BY <2>1, <3>1
  <2> QED BY <2>1, <2>2, <2>3, RegistryAssumption
<1>3. v \in Versions
  BY <1>0, <1>1, <1>2 DEF Versions
<1>4. /\ locked' = locked \cup {a} /\ call' = [call EXCEPT ![c] = k]
      /\ UNCHANGED <<dbvars, diskvars, inside>>
  BY <1>0 DEF NumberVersion, Become
<1>5. Kept(k)'
  <2>1. k \in Call /\ k.at = "stage" /\ k.version = v
    BY <1>0, <1>3 DEF Call, Numbered
  <2>2. versions' = versions /\ v.action = a
    BY <1>0, <1>4 DEF dbvars
  <2> QED BY <1>2, <1>4, <2>1, <2>2
      DEF Kept, VersionKept, BuildKept, SessionKept, PairKept, Building
<1>6. \A d \in Callers \ {c} :
         /\ call[d].at \in Numbered => call[d].version.action \in locked
         /\ Apart(call[d], k) /\ Apart(k, call[d])
  BY <1>0, <1>1 DEF Inv, Kept, VersionKept, Apart, Building, Numbered
<1>7. locked' \subseteq Actions
  BY <1>1, <1>4 DEF Inv, TypeOK
<1> QED BY <1>4, <1>5, <1>6, <1>7, OnlyCall

\* A request that holds a mutex works on one version, of which there is no row
\* until it inserts it.
OnVersion(c, v, k) ==
  /\ call[c].at \in Numbered /\ v = call[c].version
  /\ k = Idle \/ (k \in Call /\ k.at \in Numbered /\ k.version = v)
  /\ call' = [call EXCEPT ![c] = k]
  /\ UNCHANGED <<actions, enabled, active, builds, runs, inside>>
  /\ source' = source \/ source' = source \ {v} \/ source' = source \cup {v}
  /\ \/ versions' = versions /\ unheard' = unheard
     \/ /\ versions' = versions \cup {v} /\ unheard' = unheard
        /\ v \in source' /\ actions[v.action] = "present" /\ k = Idle
     \/ /\ versions' = versions \cup {v} /\ unheard' = unheard \cup {v}
        /\ actions[v.action] = "present" /\ k.at = "rollback"
  /\ \/ artifact' = artifact
     \/ artifact' = [x \in Builds |-> IF x \in Rows(v) THEN "none" ELSE artifact[x]]
  /\ locked' = IF k = Idle THEN locked \ {v.action} ELSE locked
  /\ v \in versions => k = Idle
  /\ k.at = "insert" => v \in source'

LEMMA VersionWork ==
  ASSUME Inv, NEW c \in Callers, NEW v, NEW k, OnVersion(c, v, k)
  PROVE  Inv'
<1> USE DEF Inv, OnVersion
<1>1. /\ v \in Versions /\ (v \in versions => v \in unheard) /\ v.action \in locked
      /\ k \in Call
  BY Shapes, IdleIsKept DEF Kept, VersionKept
<1>0. /\ unheard \subseteq unheard' /\ versions \subseteq versions'
      /\ \A x \in DOMAIN builds : builds[x].version \notin unheard => artifact'[x] = artifact[x]
  BY <1>1 DEF KeysHold, Rows, TypeOK
<1>2. /\ call' \in [Callers -> Call] /\ call'[c] = k
      /\ \A d \in Callers \ {c} : call'[d] = call[d]
  BY <1>1
<1>3. TypeOK'
  BY <1>1 DEF TypeOK, Rows
<1>4. KeysHold' /\ RowsHaveFiles'
  <2>1. KeysHold'
    BY DEF KeysHold
  <2>2. versions' \ unheard' \subseteq source'
    BY <1>1 DEF RowsHaveFiles
  <2>3. \A b \in DOMAIN builds :
          builds[b].status = "succeeded" /\ builds[b].version \notin unheard' => artifact'[b] = "whole"
    BY <1>0 DEF RowsHaveFiles
  <2> QED BY <2>1, <2>2, <2>3 DEF RowsHaveFiles
<1>5. \A p : Executable(p) => Executable(p)'
  BY <1>0 DEF Executable
<1>6. PairsAreExecutable'
  BY <1>5 DEF PairsAreExecutable
<1>7. \A l : Apart(l, k) <=> ((l.at \in Numbered /\ k # Idle) => l.version.action # v.action)
  BY DEF Apart, Idle, Numbered, Building
<1>8. ASSUME NEW d \in Callers \ {c} PROVE Kept(call[d])' /\ Apart(call[d], k) /\ Apart(k, call[d])
  <2>1. Kept(call[d]) /\ call'[d] = call[d]
    BY <1>2
  <2>2. call[d].at \in Numbered => call[d].version.action # v.action
    BY DEF Apart
  <2>3. VersionKept(call[d])'
    BY <2>1, <2>2 DEF Kept, VersionKept
  <2>4. BuildKept(call[d])' /\ SessionKept(call[d])'
    <3>1. SessionKept(call[d])'
      BY <2>1 DEF Kept, SessionKept, SessionOf
    <3>2. call[d].at \in Building => call[d].build \in Builds
      BY <2>1, Shapes DEF Kept
    <3>3. ASSUME call[d].at \in Building, call[d].version \notin unheard'
          PROVE  artifact'[call[d].build] = artifact[call[d].build]
      <4>1. call[d].build \in Rows(v) => call[d].version = v
        BY <2>1, <3>3 DEF Kept, BuildKept, Rows
      <4>2. call[d].build \in Rows(v) => v \in versions
        BY DEF Rows, KeysHold
      <4>3. call[d].build \notin Rows(v)
        BY <1>0, <1>1, <3>3, <4>1, <4>2
      <4> QED BY <3>2, <3>3, <4>3 DEF TypeOK
    <3>4. BuildKept(call[d])'
      BY <1>0, <2>1, <3>3 DEF Kept, BuildKept
    <3> QED BY <3>1, <3>4
  <2>5. PairKept(call[d])'
    BY <1>5, <2>1 DEF Kept, PairKept, Lasting
  <2>6. Apart(call[d], k) /\ Apart(k, call[d])
    BY <2>2 DEF Apart, Idle, Numbered, Building
  <2> QED BY <2>1, <2>3, <2>4, <2>5, <2>6 DEF Kept
<1>9. Kept(k)'
  <2>1. CASE k = Idle
    BY <2>1, IdleIsKept
  <2>2. CASE k \in Call /\ k.at \in Numbered /\ k.version = v /\ k # Idle
    BY <1>0, <1>1, <2>2 DEF Kept, VersionKept, BuildKept, SessionKept, PairKept, Building, Numbered
  <2> QED BY <2>1, <2>2
<1>10. \A d \in Callers : Kept(call[d])'
  BY <1>2, <1>8, <1>9
<1>11. \A d, e \in Callers : d # e => Apart(call'[d], call'[e])
  BY <1>2, <1>8
<1> QED BY <1>2, <1>3, <1>4, <1>6, <1>10, <1>11 DEF Apart, SessionOf

\* A request that goes on to another place of the creation of its version.
LEMMA NumberedGoes ==
  ASSUME Inv, NEW c \in Callers, call[c].at \in Numbered, NEW to \in Numbered
  PROVE  LET k == [call[c] EXCEPT !.at = to]
         IN  k \in Call /\ k.at = to /\ k.version = call[c].version
<1>1. call[c] \in [at : Numbered \cup {"number"}, version : Versions]
  BY Shapes DEF Inv
<1> QED BY <1>1 DEF Call

LEMMA VersionStepInv ==
  ASSUME Inv, NEW c \in Callers, VersionStep(c)
  PROVE  Inv'
<1> PICK v : v = call[c].version
  OBVIOUS
<1>1. CASE NumberVersion(c)
  BY <1>1, NumberVersionInv
<1>2. ASSUME call[c].at \in Numbered \ {"rollback"},
             \/ StageSource(c) \/ ClearVersion(c) \/ RenameSource(c)
             \/ InsertVersionUnheard(c) \/ InsertVersionFails(c)
      PROVE  Inv'
  <2>1. PICK to \in Numbered : /\ call' = [call EXCEPT ![c].at = to]
                               /\ to = "insert" => v \in source'
                               /\ InsertVersionUnheard(c) => to = "rollback"
    BY <1>2 DEF StageSource, ClearVersion, RenameSource, InsertVersionUnheard, InsertVersionFails,
       Go, Numbered
  <2>2. PICK k : k = [call[c] EXCEPT !.at = to]
    OBVIOUS
  <2>3. call' = [call EXCEPT ![c] = k]
    BY <2>1, <2>2
  <2>4. k \in Call /\ k.at = to /\ k.version = v
    BY <1>2, <2>2, NumberedGoes
  <2>5. v \notin versions
    BY <1>2 DEF Inv, Kept, VersionKept
  <2>6. /\ UNCHANGED <<actions, enabled, active, builds, runs, artifact, inside, locked>>
        /\ source' = source \/ source' = source \ {v} \/ source' = source \cup {v}
    BY <1>2, <2>5, RemoveUnlisted
    DEF StageSource, ClearVersion, RenameSource, InsertVersionUnheard, InsertVersionFails,
        dbvars, diskvars, Inv
  <2>7. k # Idle
    BY <2>4 DEF Idle, Numbered
  <2>8. \/ versions' = versions /\ unheard' = unheard
        \/ versions' = versions \cup {v} /\ unheard' = unheard \cup {v}
             /\ actions[v.action] = "present" /\ k.at = "rollback"
    BY <1>2, <2>1, <2>4
    DEF StageSource, ClearVersion, RenameSource, InsertVersionUnheard, InsertVersionFails, dbvars
  <2>9. OnVersion(c, v, k)
    BY <1>2, <2>1, <2>3, <2>4, <2>5, <2>6, <2>7, <2>8 DEF OnVersion
  <2> QED BY <2>9, VersionWork
<1>3. CASE SourceFails(c) /\ call[c].at = "lock"
  <2>1. /\ UNCHANGED <<dbvars, diskvars, inside, locked>>
        /\ call' = [call EXCEPT ![c] = Idle]
    BY <1>3 DEF SourceFails, Done, Become
  <2>2. locked' \subseteq Actions /\ \A d \in Callers : VersionKept(call[d])
    BY <2>1 DEF Inv, TypeOK, Kept
  <2> QED BY <2>1, <2>2, IdleIsKept, OnlyCall DEF VersionKept
<1>4. CASE \/ SourceFails(c) /\ call[c].at # "lock"
           \/ InsertVersion(c) \/ RollbackSource(c)
  <2>1. call[c].at \in Numbered
    BY <1>4 DEF SourceFails, InsertVersion, RollbackSource, Numbered
  <2>2. call[c].at = "insert" => v \in source
    BY <2>1 DEF Inv, Kept, VersionKept
  <2>3. call' = [call EXCEPT ![c] = Idle] /\ locked' = locked \ {v.action}
    BY <1>4 DEF SourceFails, InsertVersion, RollbackSource, Done, Become, Unlock
  <2>4. /\ UNCHANGED <<actions, enabled, active, builds, runs, unheard, inside>>
        /\ source' = source \/ source' = source \ {v}
        /\ \/ artifact' = artifact
           \/ artifact' = [x \in Builds |-> IF x \in Rows(v) THEN "none" ELSE artifact[x]]
        /\ \/ versions' = versions
           \/ versions' = versions \cup {v} /\ v \in source' /\ actions[v.action] = "present"
    BY <1>4, <2>2
    DEF SourceFails, InsertVersion, RollbackSource, RemoveDirectory, dbvars, diskvars, Inv
  <2>5. Idle.at # "insert"
    BY DEF Idle
  <2>6. OnVersion(c, v, Idle)
    BY <2>1, <2>3, <2>4, <2>5 DEF OnVersion
  <2> QED BY <2>6, VersionWork
<1> QED BY <1>1, <1>2, <1>3, <1>4
    DEF VersionStep, StageSource, ClearVersion, RenameSource, InsertVersionUnheard,
        InsertVersionFails, Numbered

-----------------------------------------------------------------------------
\* What a step of build b of a call k may change: of the artifacts and of the rows
\* at most its own, the row only as its last write; of the sessions its own.
OwnArtifact(b) ==
  \/ artifact' = artifact
  \/ \E x \in {"none", "partial", "whole"} : artifact' = [artifact EXCEPT ![b] = x]
OwnRow(b, to) ==
  \/ builds' = builds
  \/ /\ to = "release" /\ b \in DOMAIN builds
     /\ \E r \in BuildStatus :
          /\ builds' = [builds EXCEPT ![b].status = r]
          /\ r = "succeeded" /\ builds[b].version \notin unheard => artifact'[b] = "whole"
OwnSession(k) ==
  /\ DOMAIN inside' \subseteq Sessions
  /\ \A s \in DOMAIN inside' : inside'[s] \in Builds \cup {None}
  /\ \A s \in DOMAIN inside :
       s # SessionOf(k) => s \in DOMAIN inside' /\ inside'[s] = inside[s]

\* The steps of a build after its row was created: they change its own row,
\* artifact and session, and nothing of another build.
LEMMA BuildWork ==
  ASSUME Inv, NEW c \in Callers, call[c].at \in Building \ {"release"},
         NEW to \in Building, NEW b, b = call[c].build,
         call' = [call EXCEPT ![c].at = to],
         UNCHANGED <<actions, enabled, active, versions, unheard, runs, source, locked>>,
         OwnArtifact(b), OwnRow(b, to), OwnSession(call[c]),
         to = "compile" => SessionOf(call[c]) \in DOMAIN inside' /\ inside'[SessionOf(call[c])] = b,
         call[c].version \notin unheard =>
           /\ to = "saving" => artifact'[b] = "partial"
           /\ to = "succeed" => artifact'[b] = "whole"
  PROVE  Inv'
<1> USE DEF Inv, OwnArtifact, OwnRow, OwnSession
<1>1. PICK k : k = [call[c] EXCEPT !.at = to]
  OBVIOUS
<1>2. call[c] \in [at : Building, version : Versions, number : Nat \ {0}, build : Builds]
  BY Shapes
<1>3. /\ k \in [at : Building, version : Versions, number : Nat \ {0}, build : Builds]
      /\ k.at = to /\ k.version = call[c].version /\ k.number = call[c].number /\ k.build = b
      /\ k \in Call /\ SessionOf(k) = SessionOf(call[c])
  <2>1. /\ k \in [at : Building, version : Versions, number : Nat \ {0}, build : Builds]
        /\ k.at = to /\ k.version = call[c].version /\ k.number = call[c].number /\ k.build = b
    BY <1>1, <1>2
  <2> QED BY <2>1 DEF Call, SessionOf
<1>4. /\ call' \in [Callers -> Call] /\ call'[c] = k
      /\ \A d \in Callers \ {c} : call'[d] = call[d]
  BY <1>1, <1>3
<1>5. b \in Builds /\ BuildKept(call[c])
  BY <1>2 DEF Kept
<1>6. /\ b \in DOMAIN builds => builds[b].status = "building"
      /\ artifact' \in [Builds -> {"none", "partial", "whole"}]
      /\ \A x \in Builds \ {b} : artifact'[x] = artifact[x]
  <2>1. b \in DOMAIN builds => builds[b].status = "building"
    BY <1>5 DEF BuildKept
  <2>2. artifact \in [Builds -> {"none", "partial", "whole"}]
    BY DEF TypeOK
  <2> QED BY <1>5, <2>1, <2>2
<1>7. /\ DOMAIN builds' = DOMAIN builds
      /\ \A x \in DOMAIN builds : x # b => builds'[x] = builds[x]
      /\ \A x \in DOMAIN builds : builds'[x] \in BuildRow /\ builds'[x].version = builds[x].version
                                /\ builds'[x].number = builds[x].number
  <2>1. CASE builds' = builds
    BY <2>1 DEF TypeOK
  <2>2. ASSUME b \in DOMAIN builds, NEW r \in BuildStatus,
               builds' = [builds EXCEPT ![b].status = r]
        PROVE  <1>7
    <3>1. \A x \in DOMAIN builds : builds[x] \in BuildRow
      BY DEF TypeOK
    <3>2. /\ DOMAIN builds' = DOMAIN builds /\ builds'[b] = [builds[b] EXCEPT !.status = r]
          /\ \A x \in DOMAIN builds : x # b => builds'[x] = builds[x]
      BY <2>2
    <3>3. /\ builds'[b] \in BuildRow /\ builds'[b].version = builds[b].version
          /\ builds'[b].number = builds[b].number
      BY <2>2, <3>1, <3>2 DEF BuildRow
    <3> QED BY <3>1, <3>2, <3>3
  <2> QED BY <2>1, <2>2
<1>8. TypeOK'
  BY <1>6, <1>7 DEF TypeOK
<1>9. KeysHold'
  BY <1>7 DEF KeysHold
<1>10. \A p : Executable(p) => Executable(p)'
  BY <1>6, <1>7 DEF Executable, TypeOK
<1>11. PairsAreExecutable'
  BY <1>10 DEF PairsAreExecutable
<1>12. RowsHaveFiles'
  <2>1. versions' \ unheard' \subseteq source'
    BY DEF RowsHaveFiles
  <2>2. ASSUME NEW x \in DOMAIN builds, builds'[x].status = "succeeded",
               builds[x].version \notin unheard
        PROVE  artifact'[x] = "whole"
    <3>1. CASE x # b
      BY <1>6, <1>7, <2>2, <3>1 DEF RowsHaveFiles, TypeOK
    <3>2. CASE x = b
      <4>1. CASE builds' = builds
        BY <1>6, <2>2, <3>2, <4>1
      <4>2. ASSUME NEW r \in BuildStatus, builds' = [builds EXCEPT ![b].status = r],
                   r = "succeeded" /\ builds[b].version \notin unheard => artifact'[b] = "whole"
            PROVE  artifact'[x] = "whole"
        <5>1. builds[b] \in BuildRow /\ builds'[b] = [builds[b] EXCEPT !.status = r]
          BY <2>2, <3>2, <4>2 DEF TypeOK
        <5>2. builds'[b].status = r
          BY <5>1 DEF BuildRow
        <5> QED BY <2>2, <3>2, <4>2, <5>2
      <4> QED BY <4>1, <4>2
    <3> QED BY <3>1, <3>2
  <2> QED BY <1>7, <2>1, <2>2 DEF RowsHaveFiles
<1>13. ASSUME NEW d \in Callers \ {c}
       PROVE  Kept(call[d])' /\ Apart(call[d], k) /\ Apart(k, call[d])
  <2>1. Kept(call[d]) /\ call'[d] = call[d] /\ call[d] \in Call
    BY <1>4
  <2>2. VersionKept(call[d])'
    BY <2>1 DEF Kept, VersionKept
  <2>3. call[d].at \in Building =>
          call[d].build # b /\ SessionOf(call[d]) # SessionOf(call[c]) /\ call[d].build \in Builds
    BY <2>1, Shapes DEF Apart
  <2>4. BuildKept(call[d])'
    BY <1>6, <1>7, <2>1, <2>3 DEF Kept, BuildKept
  <2>5. SessionKept(call[d])'
    <3> SUFFICES ASSUME call[d].at = "compile"
                 PROVE  SessionOf(call[d]) \in DOMAIN inside' /\ inside'[SessionOf(call[d])] = call[d].build
      BY <2>1 DEF SessionKept, SessionOf
    <3>1. call[d].at \in Building
      BY DEF Building
    <3> QED BY <2>1, <2>3, <3>1 DEF Kept, SessionKept
  <2>6. PairKept(call[d])'
    BY <1>10, <2>1 DEF Kept, PairKept, Lasting
  <2>7. Apart(call[d], k) /\ Apart(k, call[d])
    BY <1>3, <2>3 DEF Apart, Numbered, Building
  <2> QED BY <2>1, <2>2, <2>4, <2>5, <2>6, <2>7 DEF Kept
<1>14. Kept(k)'
  <2>1. VersionKept(k)' /\ PairKept(k)'
    BY <1>3 DEF VersionKept, PairKept, Numbered, Building
  <2>2. BuildKept(k)'
    BY <1>3, <1>5, <1>6, <1>7 DEF BuildKept
  <2>3. SessionKept(k)'
    BY <1>3 DEF SessionKept, SessionOf
  <2> QED BY <1>3, <2>1, <2>2, <2>3 DEF Kept
<1>15. \A d \in Callers : Kept(call[d])'
  BY <1>4, <1>13, <1>14
<1>16. \A d, e \in Callers : d # e => Apart(call'[d], call'[e])
  BY <1>4, <1>13
<1> QED BY <1>4, <1>8, <1>9, <1>11, <1>12, <1>15, <1>16 DEF Apart, SessionOf

LEMMA BuildWorkInv ==
  ASSUME Inv, NEW c \in Callers,
         \/ CreateSession(c) \/ UploadSource(c) \/ Compile(c) \/ SandboxFails(c)
         \/ SaveArtifact(c) \/ SaveFails(c) \/ RecordSuccess(c) \/ RecordFailure(c)
  PROVE  Inv'
<1> PICK b : b = call[c].build
  OBVIOUS
<1> USE DEF Inv
<1>1. /\ call[c].at \in Building \ {"release"}
      /\ call[c].version \notin unheard =>
           /\ call[c].at = "saving" => artifact[b] = "partial"
           /\ call[c].at = "succeed" => artifact[b] = "whole"
      /\ b \in DOMAIN builds => builds[b].version = call[c].version
  BY DEF CreateSession, UploadSource, Compile, SandboxFails, SaveArtifact, SaveFails,
         RecordSuccess, RecordFailure, Building, Kept, BuildKept
<1>2. b \in Builds /\ Session(c) = SessionOf(call[c]) /\ Session(c) \in Sessions
  BY <1>1, Shapes DEF Session, SessionOf, Sessions
<1>3. /\ DOMAIN inside \subseteq Sessions /\ artifact \in [Builds -> {"none", "partial", "whole"}]
      /\ \A s \in DOMAIN inside : inside[s] \in Builds \cup {None}
  BY DEF TypeOK
<1> USE DEF Go, dbvars, diskvars, Building
<1>4. CASE CreateSession(c) \/ UploadSource(c)
  <2>1. PICK x \in {None, b} : inside' = Put(inside, Session(c), x) /\ (UploadSource(c) => x = b)
    BY <1>4 DEF CreateSession, UploadSource
  <2>2. /\ DOMAIN inside' = DOMAIN inside \cup {Session(c)}
        /\ inside'[Session(c)] = x
        /\ \A s \in DOMAIN inside : s # Session(c) => inside'[s] = inside[s]
    BY <2>1 DEF Put
  <2>3. PICK to \in {"upload", "compile"} :
          call' = [call EXCEPT ![c].at = to] /\ (to = "compile" => UploadSource(c))
    BY <1>4 DEF CreateSession, UploadSource
  <2>4. UNCHANGED <<actions, enabled, active, versions, unheard, builds, runs, source, artifact, locked>>
    BY <1>4 DEF CreateSession, UploadSource
  <2>5. OwnArtifact(b) /\ OwnRow(b, to)
    BY <2>4 DEF OwnArtifact, OwnRow
  <2>6. OwnSession(call[c])
    BY <1>2, <1>3, <2>1, <2>2 DEF OwnSession
  <2> QED BY <1>1, <1>2, <2>1, <2>2, <2>3, <2>4, <2>5, <2>6, BuildWork
<1>5. CASE Compile(c) \/ SandboxFails(c) \/ SaveFails(c)
  <2>1. PICK to \in {"save", "fail"} : call' = [call EXCEPT ![c].at = to]
    BY <1>5 DEF Compile, SandboxFails, SaveFails
  <2>2. UNCHANGED <<actions, enabled, active, versions, unheard, builds, runs, source, artifact, inside, locked>>
    BY <1>5 DEF Compile, SandboxFails, SaveFails
  <2>3. OwnArtifact(b) /\ OwnRow(b, to) /\ OwnSession(call[c])
    BY <1>3, <2>2 DEF OwnArtifact, OwnRow, OwnSession
  <2> QED BY <1>1, <2>1, <2>2, <2>3, BuildWork
<1>6. CASE SaveArtifact(c)
  <2>1. PICK to \in {"saving", "succeed"}, x \in {"none", "partial", "whole"} :
          /\ call' = [call EXCEPT ![c].at = to] /\ artifact' = [artifact EXCEPT ![b] = x]
          /\ to = "saving" => x = "partial"
          /\ to = "succeed" /\ call[c].version \notin unheard => x = "whole"
    BY <1>1, <1>2, <1>3, <1>6 DEF SaveArtifact
  <2>2. UNCHANGED <<actions, enabled, active, versions, unheard, builds, runs, source, inside, locked>>
    BY <1>6 DEF SaveArtifact
  <2>3. OwnArtifact(b) /\ artifact'[b] = x
    BY <1>2, <1>3, <2>1 DEF OwnArtifact
  <2>4. OwnSession(call[c]) /\ OwnRow(b, to)
    BY <1>3, <2>2 DEF OwnSession, OwnRow
  <2>5. /\ to \in Building /\ to # "compile" /\ builds' = builds
        /\ call[c].version \notin unheard =>
             /\ to = "saving" => artifact'[b] = "partial"
             /\ to = "succeed" => artifact'[b] = "whole"
        /\ call[c].at \in Building \ {"release"} /\ call' = [call EXCEPT ![c].at = to]
    BY <1>1, <2>1, <2>2, <2>3
  <2>6. UNCHANGED <<actions, enabled, active, versions, unheard, runs, source, locked>>
    BY <2>2
  <2> HIDE DEF Inv, Go, dbvars, diskvars, Building
  <2> QED BY <2>3, <2>4, <2>5, <2>6, BuildWork
<1>7. CASE RecordSuccess(c) \/ RecordFailure(c)
  <2>0. PICK to : to = "release"
    OBVIOUS
  <2>1. PICK r \in BuildStatus :
          /\ Update(c, r)
          /\ r = "succeeded" /\ call[c].version \notin unheard => artifact[b] = "whole"
    BY <1>1, <1>7 DEF RecordSuccess, RecordFailure, BuildStatus
  <2>2. /\ call' = [call EXCEPT ![c].at = to]
        /\ UNCHANGED <<actions, enabled, active, versions, unheard, runs, source, artifact, inside, locked>>
        /\ builds' = builds \/ (b \in DOMAIN builds /\ builds' = [builds EXCEPT ![b].status = r])
    BY <2>0, <2>1 DEF Update
  <2>3. OwnArtifact(b) /\ OwnSession(call[c])
    BY <1>3, <2>2 DEF OwnArtifact, OwnSession
  <2>4. OwnRow(b, to)
    BY <1>1, <2>0, <2>1, <2>2 DEF OwnRow
  <2>5. to \in Building /\ to # "compile" /\ to # "succeed" /\ to # "saving"
    BY <2>0
  <2> HIDE DEF Inv, Go, dbvars, diskvars, Building
  <2> QED BY <1>1, <2>2, <2>3, <2>4, <2>5, BuildWork
<1> QED BY <1>4, <1>5, <1>6, <1>7

\* The next build number is read, or the build ends before it has a row.
LEMMA BuildNumberInv ==
  ASSUME Inv, NEW c \in Callers, NumberBuild(c) \/ CreateBuildFails(c)
  PROVE  Inv'
<1> USE DEF Inv
<1>1. \A d \in Callers : VersionKept(call[d])
  BY DEF Kept
<1>2. locked \subseteq Actions
  BY DEF TypeOK
<1>3. CASE NumberBuild(c)
  <2>1. PICK k : k = [at |-> "create", version |-> call[c].version, number |-> NextBuild(call[c].version)]
    OBVIOUS
  <2>2. call[c].version \in Versions
    BY <1>3, Shapes DEF NumberBuild
  <2>3. k \in Call /\ k.at = "create"
    BY <2>1, <2>2, NextBuildIsPositive DEF Call
  <2>4. Kept(k)' /\ \A l : Apart(k, l) /\ Apart(l, k)
    BY <2>3 DEF Kept, VersionKept, BuildKept, SessionKept, PairKept, Apart, Numbered, Building
  <2>5. /\ call' = [call EXCEPT ![c] = k]
        /\ UNCHANGED <<dbvars, diskvars, inside, locked>>
    BY <1>3, <2>1 DEF NumberBuild, Become
  <2> QED BY <1>1, <1>2, <2>4, <2>5, OnlyCall DEF VersionKept
<1>4. CASE CreateBuildFails(c)
  <2>1. /\ call' = [call EXCEPT ![c] = Idle]
        /\ UNCHANGED <<dbvars, diskvars, inside, locked>>
    BY <1>4 DEF CreateBuildFails, Done, Become
  <2> QED BY <1>1, <1>2, <2>1, IdleIsKept, OnlyCall DEF VersionKept
<1> QED BY <1>3, <1>4

\* The row of a build is inserted: nobody builds under its number.
LEMMA BuildRowInv ==
  ASSUME Inv, NEW c \in Callers, NEW b \in Builds, CreateBuild(c, b) \/ CreateBuildUnheard(c, b)
  PROVE  Inv'
<1> USE DEF Inv
<1> PICK v, n, row, k :
      /\ v = call[c].version /\ n = call[c].number
      /\ row = [version |-> v, number |-> n, status |-> "building"]
      /\ \/ k = [at |-> "session", version |-> v, number |-> n, build |-> b]
         \/ k = Idle
      /\ call' = [call EXCEPT ![c] = k]
  BY DEF CreateBuild, CreateBuildUnheard, Done, Become
<1>1. /\ v \in versions /\ v \in Versions /\ n \in Nat \ {0}
      /\ b \notin DOMAIN builds
      /\ \A d \in Callers : call[d].at \in Building => call[d].build # b
      /\ \A x \in Rows(v) : builds[x].number # n
  BY Shapes DEF CreateBuild, CreateBuildUnheard, Unused
<1>2. /\ builds' = Put(builds, b, row) /\ call' = [call EXCEPT ![c] = k]
      /\ UNCHANGED <<actions, enabled, active, versions, unheard, runs, source, artifact, inside, locked>>
  BY DEF CreateBuild, CreateBuildUnheard, diskvars
<1>3. /\ DOMAIN builds' = DOMAIN builds \cup {b} /\ builds'[b] = row
      /\ \A x \in DOMAIN builds : builds'[x] = builds[x]
  BY <1>1, <1>2 DEF Put
<1>4. /\ row \in BuildRow /\ k \in Call
      /\ \/ k.at = "session" /\ k.version = v /\ k.number = n /\ k.build = b
         \/ k = Idle /\ k.at \notin Numbered \cup Building
  BY <1>1, IdleIsKept DEF BuildRow, BuildStatus, Call, Building, Numbered, Idle
<1>5. /\ call' \in [Callers -> Call] /\ call'[c] = k
      /\ \A d \in Callers \ {c} : call'[d] = call[d]
  BY <1>2, <1>4
<1>6. TypeOK'
  BY <1>2, <1>3, <1>4 DEF TypeOK
<1>7. KeysHold'
  <2>1. PICK m \in Nat : \A x \in DOMAIN builds : builds[x].number <= m
    BY DEF KeysHold
  <2>2. \A x \in DOMAIN builds : builds[x].number \in Nat
    BY DEF TypeOK, BuildRow
  <2>3. m + n \in Nat /\ \A x \in DOMAIN builds' : builds'[x].number <= m + n
    BY <1>1, <1>3, <2>1, <2>2
  <2>4. \A x \in DOMAIN builds' : builds'[x].version \in versions
    BY <1>1, <1>3 DEF KeysHold
  <2> QED BY <1>2, <2>3, <2>4 DEF KeysHold
<1>8. \A p : Executable(p) => Executable(p)'
  BY <1>1, <1>2, <1>3 DEF Executable
<1>9. PairsAreExecutable'
  BY <1>2, <1>8 DEF PairsAreExecutable
<1>10. RowsHaveFiles'
  BY <1>2, <1>3 DEF RowsHaveFiles
<1>11. ASSUME NEW d \in Callers \ {c}
       PROVE  Kept(call[d])' /\ Apart(call[d], k) /\ Apart(k, call[d])
  <2>1. Kept(call[d]) /\ call'[d] = call[d]
    BY <1>5
  <2>2. VersionKept(call[d])' /\ SessionKept(call[d])'
    BY <1>2, <2>1 DEF Kept, VersionKept, SessionKept, SessionOf
  <2>3. BuildKept(call[d])'
    BY <1>1, <1>2, <1>3, <2>1 DEF Kept, BuildKept
  <2>4. PairKept(call[d])'
    BY <1>2, <1>8, <2>1 DEF Kept, PairKept, Lasting
  <2>5. k # Idle /\ call[d].at \in Building => SessionOf(call[d]) # SessionOf(k)
    <3> SUFFICES ASSUME call[d].at \in Building, call[d].version = v, call[d].number = n PROVE FALSE
      BY <1>4 DEF SessionOf
    <3>1. actions[v.action] = "present"
      BY <1>1 DEF KeysHold
    <3>2. /\ call[d].build \in DOMAIN builds /\ builds[call[d].build].version = v
          /\ builds[call[d].build].number = n
      BY <2>1, <3>1 DEF Kept, BuildKept
    <3> QED BY <1>1, <3>2 DEF Rows
  <2>6. Apart(call[d], k) /\ Apart(k, call[d])
    <3>1. CASE k = Idle
      BY <1>4, <3>1 DEF Apart, Numbered, Building, Idle
    <3>2. CASE k # Idle
      BY <1>1, <1>4, <2>5, <3>2 DEF Apart, Numbered
    <3> QED BY <3>1, <3>2
  <2> QED BY <2>1, <2>2, <2>3, <2>4, <2>6 DEF Kept
<1>12. Kept(k)'
  <2>1. CASE k = Idle
    BY <2>1, IdleIsKept
  <2>2. CASE k # Idle
    BY <1>1, <1>3, <1>4, <2>2
    DEF Kept, VersionKept, BuildKept, SessionKept, PairKept, Numbered, Building
  <2> QED BY <2>1, <2>2
<1>13. \A d \in Callers : Kept(call[d])'
  BY <1>5, <1>11, <1>12
<1>14. \A d, e \in Callers : d # e => Apart(call'[d], call'[e])
  BY <1>5, <1>11
<1> QED BY <1>5, <1>6, <1>7, <1>9, <1>10, <1>13, <1>14 DEF Apart, SessionOf

\* The session that is released is nobody else's.
LEMMA ReleaseInv ==
  ASSUME Inv, NEW c \in Callers, ReleaseSession(c)
  PROVE  Inv'
<1> USE DEF Inv
<1>1. /\ call' = [call EXCEPT ![c] = Idle] /\ call[c].at \in Building
      /\ UNCHANGED <<actions, enabled, active, versions, unheard, builds, runs, source, artifact, locked>>
      /\ inside' = Without(inside, {Session(c)}) \/ inside' = inside
  BY DEF ReleaseSession, Done, Become, dbvars, diskvars, Building
<1>2. /\ DOMAIN inside' \subseteq DOMAIN inside
      /\ \A s \in DOMAIN inside' : inside'[s] = inside[s]
      /\ \A s \in DOMAIN inside : s # SessionOf(call[c]) => s \in DOMAIN inside'
  BY <1>1 DEF Without, Session, SessionOf
<1>3. /\ call' \in [Callers -> Call] /\ call'[c] = Idle
      /\ \A d \in Callers \ {c} : call'[d] = call[d]
  BY <1>1, IdleIsKept DEF Kept
<1>4. TypeOK' /\ KeysHold' /\ RowsHaveFiles'
  <2>1. TypeOK'
    BY <1>1, <1>2 DEF TypeOK
  <2>2. KeysHold' /\ RowsHaveFiles'
    BY <1>1 DEF KeysHold, RowsHaveFiles
  <2> QED BY <2>1, <2>2
<1>5. \A p : Executable(p)' <=> Executable(p)
  BY <1>1 DEF Executable
<1>6. PairsAreExecutable'
  BY <1>1, <1>5 DEF PairsAreExecutable
<1>7. ASSUME NEW d \in Callers \ {c} PROVE Kept(call[d])'
  <2>1. Kept(call[d]) /\ call'[d] = call[d]
    BY <1>3
  <2>2. VersionKept(call[d])' /\ BuildKept(call[d])'
    BY <1>1, <2>1 DEF Kept, VersionKept, BuildKept
  <2>3. SessionKept(call[d])'
    <3> SUFFICES ASSUME call[d].at = "compile"
                 PROVE  SessionOf(call[d]) \in DOMAIN inside' /\ inside'[SessionOf(call[d])] = call[d].build
      BY <2>1 DEF SessionKept, SessionOf
    <3>1. SessionOf(call[d]) # SessionOf(call[c])
      BY <1>1 DEF Apart, Building
    <3> QED BY <1>2, <2>1, <3>1 DEF Kept, SessionKept
  <2>4. PairKept(call[d])'
    BY <1>1, <1>5, <2>1 DEF Kept, PairKept, Lasting
  <2> QED BY <2>1, <2>2, <2>3, <2>4 DEF Kept
<1>8. \A d \in Callers : Kept(call[d])'
  BY <1>3, <1>7, IdleIsKept
<1>9. \A d, e \in Callers : d # e => Apart(call'[d], call'[e])
  BY <1>3, IdleIsKept
<1> QED BY <1>3, <1>4, <1>6, <1>8, <1>9 DEF Apart, SessionOf

-----------------------------------------------------------------------------
\* A request that goes to a place outside the mutex and outside a build, and
\* whose pair, if it has one, can be executed.
LEMMA ElsewhereInv ==
  ASSUME Inv, NEW c \in Callers, NEW k \in Call, k.at \notin Numbered \cup Building, PairKept(k),
         call' = [call EXCEPT ![c] = k], UNCHANGED <<dbvars, diskvars, inside, locked>>
  PROVE  Inv'
<1>1. /\ k.at \notin {"compile"} /\ \A l : Apart(k, l) /\ Apart(l, k)
      /\ VersionKept(k)' /\ BuildKept(k)' /\ SessionKept(k)'
  BY DEF Apart, Building, VersionKept, BuildKept, SessionKept
<1>2. \A p : Executable(p)' <=> Executable(p)
  BY DEF Executable, dbvars, diskvars
<1>3. PairKept(k)'
  BY <1>2 DEF PairKept, Lasting, dbvars
<1>4. locked' \subseteq Actions /\ \A d \in Callers : VersionKept(call[d])
  BY DEF Inv, TypeOK, Kept
<1>5. \A d \in Callers : call[d].at \in Numbered => call[d].version.action \in locked'
  BY <1>4 DEF VersionKept
<1>6. Kept(k)'
  BY <1>1, <1>3 DEF Kept
<1> QED BY <1>1, <1>4, <1>5, <1>6, OnlyCall

\* A build that is reported succeeded, and its version, are a pair that lasts.
LEMMA SucceededLasts ==
  ASSUME Inv, NEW p, p.build \in DOMAIN builds, p.version = builds[p.build].version,
         builds[p.build].status = "succeeded"
  PROVE  Lasting(p)
BY DEF Inv, KeysHold, RowsHaveFiles, Lasting, Executable

\* A request is accepted: what it reads is true at that moment.
LEMMA RequestInv ==
  ASSUME Inv, NEW c \in Callers, Request(c)
  PROVE  Inv'
<1>1. ASSUME NEW a \in Actions, CreateVersion(c, a) PROVE Inv'
  BY <1>1, CreateVersionInv
<1>2. ASSUME NEW v \in Versions, BuildVersion(c, v) PROVE Inv'
  <2>1. PICK k : k = [at |-> "number", version |-> v]
    OBVIOUS
  <2>2. k \in Call /\ k.at = "number"
    BY <2>1 DEF Call
  <2>3. k.at \notin Numbered \cup Building /\ PairKept(k)
    BY <2>2 DEF Numbered, Building, PairKept
  <2> QED BY <1>2, <2>1, <2>2, <2>3, ElsewhereInv DEF BuildVersion, Become
<1>3. ASSUME NEW a \in Actions, NEW p \in Pairs, ActivateBuild(c, a, p) PROVE Inv'
  <2>1. PICK k : k = [at |-> "activate", action |-> a, pair |-> p]
    OBVIOUS
  <2>2. k \in Call /\ k.at = "activate"
    BY <2>1 DEF Call
  <2>3. k.at \notin Numbered \cup Building
    BY <2>2 DEF Numbered, Building
  <2>4. Lasting(p) /\ p.version.action = a
    BY <1>3, SucceededLasts DEF ActivateBuild
  <2>5. PairKept(k)
    BY <2>1, <2>4 DEF PairKept
  <2> QED BY <1>3, <2>1, <2>2, <2>3, <2>5, ElsewhereInv DEF ActivateBuild, Become
<1>4. ASSUME NEW a \in Actions, NEW e \in BOOLEAN, UpdateAction(c, a, e) PROVE Inv'
  <2>1. PICK k : k = [at |-> "update", action |-> a, enabled |-> e, pair |-> active[a]]
    OBVIOUS
  <2>2. k \in Call /\ k.at = "update"
    BY <2>1 DEF Call, Inv, TypeOK
  <2>3. k.at \notin Numbered \cup Building
    BY <2>2 DEF Numbered, Building
  <2>4. active[a] # None => Lasting(active[a]) /\ active[a].version.action = a
    BY DEF Inv, PairsAreExecutable, Lasting
  <2>5. PairKept(k)
    BY <2>1, <2>4 DEF PairKept
  <2> QED BY <1>4, <2>1, <2>2, <2>3, <2>5, ElsewhereInv DEF UpdateAction, Become
<1>5. ASSUME NEW a \in Actions, PrepareRun(c, a) PROVE Inv'
  <2>1. PICK k : k = [at |-> "check", pair |-> active[a]]
    OBVIOUS
  <2>2. k \in Call /\ k.at = "check"
    BY <1>5, <2>1 DEF Call, Inv, TypeOK, PrepareRun
  <2>3. k.at \notin Numbered \cup Building
    BY <2>2 DEF Numbered, Building
  <2>4. Lasting(active[a])
    BY <1>5 DEF Inv, PairsAreExecutable, Lasting, PrepareRun
  <2>5. PairKept(k)
    BY <2>1, <2>4 DEF PairKept
  <2> QED BY <1>5, <2>1, <2>2, <2>3, <2>5, ElsewhereInv DEF PrepareRun, Become
<1> QED BY <1>1, <1>2, <1>3, <1>4, <1>5 DEF Request

\* A request that ends after it wrote the active pairs, the metadata or a run.
LEMMA EndsInv ==
  ASSUME Inv, NEW c \in Callers, call' = [call EXCEPT ![c] = Idle],
         UNCHANGED <<actions, versions, unheard, builds, source, artifact, inside, locked>>,
         TypeOK', PairsAreExecutable'
  PROVE  Inv'
<1>1. \A d \in Callers : call[d].at \in Numbered => call[d].version.action \in locked
  BY DEF Inv, Kept, VersionKept
<1> QED BY <1>1, IdleIsKept, CallStep

\* What a request read about a pair before it writes the pair is old, and still
\* enough: the action is there, so the pair can be executed.
LEMMA PairStepInv ==
  ASSUME Inv, NEW c \in Callers, PairStep(c)
  PROVE  Inv'
<1>1. TypeOK /\ PairsAreExecutable /\ call[c] \in Call /\ PairKept(call[c])
  BY DEF Inv, Kept
<1>2. \A p : actions[p.version.action] = "present" /\ Lasting(p) => Executable(p)
  BY DEF Lasting
<1>3. CASE SetActiveBuild(c)
  <2>1. /\ call' = [call EXCEPT ![c] = Idle]
        /\ UNCHANGED <<actions, enabled, versions, unheard, builds, runs, source, artifact, inside, locked>>
        /\ \/ active' = active
           \/ /\ actions[call[c].action] = "present"
              /\ active' = [active EXCEPT ![call[c].action] = call[c].pair]
    BY <1>3 DEF SetActiveBuild, Done, Become, diskvars
  <2>2. /\ call[c].action \in Actions /\ call[c].pair \in Pairs
        /\ Lasting(call[c].pair) /\ call[c].pair.version.action = call[c].action
    BY <1>1, <1>3, Shapes DEF SetActiveBuild, PairKept
  <2>3. TypeOK'
    BY <1>1, <2>1, <2>2 DEF TypeOK
  <2>4. PairsAreExecutable'
    BY <1>1, <1>2, <2>1, <2>2 DEF PairsAreExecutable, Executable, TypeOK
  <2> QED BY <2>1, <2>3, <2>4, EndsInv
<1>4. CASE WriteAction(c)
  <2>1. /\ call' = [call EXCEPT ![c] = Idle]
        /\ UNCHANGED <<actions, versions, unheard, builds, runs, source, artifact, inside, locked>>
        /\ \/ active' = active /\ enabled' = enabled
           \/ /\ actions[call[c].action] = "present"
              /\ active' = [active EXCEPT ![call[c].action] = call[c].pair]
              /\ enabled' = [enabled EXCEPT ![call[c].action] = call[c].enabled]
    BY <1>4 DEF WriteAction, Done, Become, diskvars
  <2>2. /\ call[c].action \in Actions /\ call[c].pair \in Pairs \cup {None} /\ call[c].enabled \in BOOLEAN
        /\ call[c].pair # None =>
             Lasting(call[c].pair) /\ call[c].pair.version.action = call[c].action
    BY <1>1, <1>4, Shapes DEF WriteAction, PairKept
  <2>3. TypeOK'
    BY <1>1, <2>1, <2>2 DEF TypeOK
  <2>4. PairsAreExecutable'
    BY <1>1, <1>2, <2>1, <2>2 DEF PairsAreExecutable, Executable, TypeOK
  <2> QED BY <2>1, <2>3, <2>4, EndsInv
<1>5. CASE CheckBuild(c)
  <2>1. call[c] \in [at : {"check", "run"}, pair : Pairs] /\ Lasting(call[c].pair)
    BY <1>1, <1>5, Shapes DEF CheckBuild, PairKept
  <2>2. UNCHANGED <<dbvars, diskvars, inside, locked>>
    BY <1>5 DEF CheckBuild
  <2>3. CASE call' = [call EXCEPT ![c].at = "run"]
    <3>1. PICK k : k = [call[c] EXCEPT !.at = "run"]
      OBVIOUS
    <3>2. k \in Call /\ k.at = "run" /\ k.pair = call[c].pair
      BY <2>1, <3>1 DEF Call
    <3>3. k.at \notin Numbered \cup Building /\ PairKept(k)
      BY <2>1, <3>2 DEF Numbered, Building, PairKept
    <3> QED BY <2>2, <2>3, <3>1, <3>2, <3>3, ElsewhereInv
  <2>4. CASE call' = [call EXCEPT ![c] = Idle]
    <3>1. TypeOK' /\ PairsAreExecutable'
      BY <1>1, <2>2 DEF TypeOK, PairsAreExecutable, Executable, dbvars, diskvars
    <3> QED BY <2>2, <2>4, <3>1, EndsInv DEF dbvars, diskvars
  <2> QED BY <1>5, <2>3, <2>4 DEF CheckBuild, Go, Done, Become
<1>6. CASE CreateRun(c)
  <2>1. /\ call' = [call EXCEPT ![c] = Idle]
        /\ UNCHANGED <<actions, enabled, active, versions, unheard, builds, source, artifact, inside, locked>>
        /\ \/ runs' = runs
           \/ call[c].pair.version \in versions /\ runs' = runs \cup {call[c].pair}
    BY <1>6 DEF CreateRun, Done, Become, diskvars
  <2>2. call[c].pair \in Pairs /\ Lasting(call[c].pair)
    BY <1>1, <1>6, Shapes DEF CreateRun, PairKept
  <2>3. TypeOK'
    BY <1>1, <2>1, <2>2 DEF TypeOK
  <2>4. PairsAreExecutable'
    <3>1. \A p : Executable(p)' <=> Executable(p)
      BY <2>1 DEF Executable
    <3>2. runs' # runs => Executable(call[c].pair)
      BY <1>2, <2>1, <2>2 DEF Inv, KeysHold
    <3> QED BY <1>1, <2>1, <3>1, <3>2 DEF PairsAreExecutable
  <2> QED BY <2>1, <2>3, <2>4, EndsInv
<1> QED BY <1>3, <1>4, <1>5, <1>6 DEF PairStep

-----------------------------------------------------------------------------
\* The steps that no request remembers: actions come and go, the process ends.
LEMMA CreateActionInv ==
  ASSUME Inv, NEW a \in Actions, CreateAction(a)
  PROVE  Inv'
<1> USE DEF Inv
<1>1. /\ actions[a] = "absent" /\ actions' = [actions EXCEPT ![a] = "present"]
      /\ enabled' = [enabled EXCEPT ![a] = TRUE]
      /\ UNCHANGED <<active, versions, unheard, builds, runs, source, artifact, inside, locked, call>>
  BY DEF CreateAction, diskvars
<1>2. \A x : actions[x] # "deleted" <=> actions'[x] # "deleted"
  BY <1>1 DEF TypeOK
<1>3. TypeOK'
  BY <1>1 DEF TypeOK
<1>4. KeysHold'
  BY <1>1 DEF KeysHold, TypeOK, Versions
<1>5. RowsHaveFiles' /\ \A p : Executable(p)' <=> Executable(p)
  BY <1>1 DEF RowsHaveFiles, Executable
<1>6. PairsAreExecutable'
  BY <1>1, <1>5 DEF PairsAreExecutable
<1>7. ASSUME NEW c \in Callers PROVE Kept(call[c])'
  <2>1. Kept(call[c]) /\ call'[c] = call[c]
    BY <1>1
  <2>2. VersionKept(call[c])' /\ SessionKept(call[c])'
    BY <1>1, <2>1 DEF Kept, VersionKept, SessionKept, SessionOf
  <2>3. BuildKept(call[c])'
    BY <1>1, <1>2, <2>1 DEF Kept, BuildKept
  <2>4. PairKept(call[c])'
    BY <1>1, <1>2, <1>5, <2>1 DEF Kept, PairKept, Lasting
  <2> QED BY <2>1, <2>2, <2>3, <2>4 DEF Kept
<1>8. (\A c, d \in Callers : c # d => Apart(call[c], call[d]))'
  BY <1>1
<1> QED BY <1>1, <1>3, <1>4, <1>5, <1>6, <1>7, <1>8

\* With an action go its versions and builds, and no run refers to them.
LEMMA DeleteActionInv ==
  ASSUME Inv, NEW a \in Actions, DeleteAction(a)
  PROVE  Inv'
<1> USE DEF Inv
<1>1. /\ actions[a] = "present" /\ actions' = [actions EXCEPT ![a] = "deleted"]
      /\ \A p \in runs : p.version.action # a
      /\ active' = [active EXCEPT ![a] = None]
      /\ UNCHANGED <<enabled, runs, source, artifact, inside, locked, call, unheard>>
  BY DEF DeleteAction, diskvars
<1>2. versions' = {v \in versions : v.action # a}
  BY DEF DeleteAction
<1>3. /\ DOMAIN builds' \subseteq DOMAIN builds
      /\ \A b \in DOMAIN builds' : builds'[b] = builds[b]
      /\ \A b \in DOMAIN builds : b \in DOMAIN builds' <=> builds[b].version.action # a
  BY DEF DeleteAction, Without
<1>4. actions'[a] = "deleted" /\ \A x : x # a => actions'[x] = actions[x]
  BY <1>1 DEF TypeOK
<1>5. TypeOK'
  <2>1. DOMAIN builds' \subseteq Builds /\ \A b \in DOMAIN builds' : builds'[b] \in BuildRow
    BY <1>3 DEF TypeOK
  <2> QED BY <1>1, <1>2, <2>1 DEF TypeOK
<1>6. KeysHold'
  <2>1. \A v \in versions' : actions'[v.action] = "present"
    BY <1>2, <1>4 DEF KeysHold
  <2>2. \A b \in DOMAIN builds' : builds'[b].version \in versions'
    BY <1>2, <1>3 DEF KeysHold
  <2>3. \E n \in Nat : \A b \in DOMAIN builds' : builds'[b].number <= n
    BY <1>3 DEF KeysHold
  <2> QED BY <2>1, <2>2, <2>3 DEF KeysHold
<1>7. RowsHaveFiles'
  BY <1>1, <1>2, <1>3 DEF RowsHaveFiles
<1>8. \A p : p.version.action # a /\ Executable(p) => Executable(p)'
  BY <1>1, <1>2, <1>3 DEF Executable
<1>9. PairsAreExecutable'
  BY <1>1, <1>8 DEF PairsAreExecutable, TypeOK
<1>10. ASSUME NEW c \in Callers PROVE Kept(call[c])'
  <2>1. Kept(call[c]) /\ call'[c] = call[c]
    BY <1>1
  <2>2. VersionKept(call[c])' /\ SessionKept(call[c])'
    BY <1>1, <1>2, <2>1 DEF Kept, VersionKept, SessionKept, SessionOf
  <2>3. BuildKept(call[c])'
    BY <1>1, <1>3, <1>4, <2>1 DEF Kept, BuildKept
  <2>4. \A p : Lasting(p) => Lasting(p)'
    BY <1>4, <1>8 DEF Lasting
  <2>5. PairKept(call[c])'
    BY <2>1, <2>4 DEF Kept, PairKept
  <2> QED BY <2>1, <2>2, <2>3, <2>5 DEF Kept
<1>11. (\A c, d \in Callers : c # d => Apart(call[c], call[d]))'
  BY <1>1
<1> QED BY <1>1, <1>5, <1>6, <1>7, <1>9, <1>10, <1>11

LEMMA RestartInv ==
  ASSUME Inv, Restart
  PROVE  Inv'
<1> USE DEF Inv
<1>1. /\ UNCHANGED <<actions, enabled, active, versions, unheard, builds, runs, source, artifact, inside>>
      /\ locked' = {} /\ call' = [c \in Callers |-> Idle]
  BY DEF Restart, dbvars, diskvars
<1>2. TypeOK' /\ KeysHold' /\ RowsHaveFiles'
  BY <1>1 DEF TypeOK, KeysHold, RowsHaveFiles
<1>3. PairsAreExecutable'
  BY <1>1 DEF PairsAreExecutable, Executable
<1>4. call' \in [Callers -> Call] /\ \A c \in Callers : call'[c] = Idle
  BY <1>1, IdleIsKept DEF Kept
<1>5. \A c \in Callers : Kept(call[c])'
  BY <1>4, IdleIsKept
<1>6. (\A c, d \in Callers : c # d => Apart(call[c], call[d]))'
  BY <1>4 DEF Apart, Idle, Numbered, Building
<1> QED BY <1>2, <1>3, <1>4, <1>5, <1>6

-----------------------------------------------------------------------------
\* Nothing at all happened.
LEMMA StutterInv ==
  ASSUME Inv, UNCHANGED vars
  PROVE  Inv'
<1>1. TypeOK'
  BY DEF Inv, vars, TypeOK
<1>2. KeysHold' /\ RowsHaveFiles'
  BY DEF Inv, vars, KeysHold, RowsHaveFiles
<1>3. PairsAreExecutable'
  BY DEF Inv, vars, PairsAreExecutable, Executable
<1>4. \A k : Kept(k)' <=> Kept(k)
  <2> SUFFICES ASSUME NEW k PROVE Kept(k)' <=> Kept(k)
    OBVIOUS
  <2>1. VersionKept(k)' <=> VersionKept(k)
    BY DEF vars, VersionKept
  <2>2. BuildKept(k)' <=> BuildKept(k)
    BY DEF vars, BuildKept
  <2>3. SessionKept(k)' <=> SessionKept(k)
    BY DEF vars, SessionKept, SessionOf
  <2>4. PairKept(k)' <=> PairKept(k)
    <3>1. \A p : Lasting(p)' <=> Lasting(p)
      BY DEF vars, Lasting, Executable
    <3> QED BY <3>1 DEF PairKept
  <2> QED BY <2>1, <2>2, <2>3, <2>4 DEF Kept
<1>5. call' = call
  BY DEF vars
<1>6. /\ call' \in [Callers -> Call]
      /\ \A c \in Callers : Kept(call[c])'
      /\ (\A c, d \in Callers : c # d => Apart(call[c], call[d]))'
  BY <1>4, <1>5 DEF Inv, Apart
<1> QED BY <1>1, <1>2, <1>3, <1>6 DEF Inv

\* Every step keeps the invariant.
LEMMA StepInv == Inv /\ [Next]_vars => Inv'
<1> SUFFICES ASSUME Inv, [Next]_vars PROVE Inv'
  OBVIOUS
<1>1. ASSUME NEW a \in Actions, CreateAction(a) \/ DeleteAction(a) PROVE Inv'
  BY <1>1, CreateActionInv, DeleteActionInv
<1>2. ASSUME NEW c \in Callers, BuildStep(c) PROVE Inv'
  BY <1>2, BuildNumberInv, BuildRowInv, BuildWorkInv, ReleaseInv DEF BuildStep
<1>3. ASSUME NEW c \in Callers, Request(c) \/ VersionStep(c) \/ PairStep(c) PROVE Inv'
  BY <1>3, RequestInv, VersionStepInv, PairStepInv
<1>4. CASE Restart
  BY <1>4, RestartInv
<1>5. CASE UNCHANGED vars
  BY <1>5, StutterInv
<1> QED BY <1>1, <1>2, <1>3, <1>4, <1>5 DEF Next

\* The invariant holds in every state of every behaviour.
THEOREM InvHolds == Spec => []Inv
BY InitInv, StepInv, PTL DEF Spec

\* Rows, files, sessions and mutexes keep their types, whatever requests do to
\* each other and wherever they are cut off.
THEOREM TypeCorrect == Spec => []TypeOK
<1>1. Inv => TypeOK
  BY DEF Inv
<1> QED BY <1>1, InvHolds, PTL

\* A version in the database has its source on disk, and a build that is
\* reported succeeded its whole artifact: the rollback of one request never
\* removes the files of a row that another inserted, and a result is recorded
\* only after the artifact is written.  Excepted are the versions in "unheard":
\* their own creator read an error from the insert that committed them, and
\* removed their directory.
THEOREM RowsAlwaysHaveFiles == Spec => []RowsHaveFiles
<1>1. Inv => RowsHaveFiles
  BY DEF Inv
<1> QED BY <1>1, InvHolds, PTL

\* What is active, and what a run was inserted with, can be executed: the gap
\* between a check and the write that relies on it is harmless, because only
\* the deletion of the action takes a pair away, and that the write notices.
\* The rows of a pair are always there; its artifact is, unless the version is
\* one whose creator rolled back a row that was committed.
THEOREM PairsStayExecutable == Spec => []PairsAreExecutable
<1>1. Inv => PairsAreExecutable
  BY DEF Inv
<1> QED BY <1>1, InvHolds, PTL

\* Builds of one version that run at the same time never share a session: the
\* number that names it is unique among the rows, and as long as a build runs
\* and its action is there, so is its row.
THEOREM BuildsCompileOwnSource == Spec => []CompilesOwnSource
<1>1. Inv => CompilesOwnSource
  BY DEF Inv, Kept, SessionKept, SessionOf, CompilesOwnSource, Session
<1> QED BY <1>1, InvHolds, PTL
=============================================================================
