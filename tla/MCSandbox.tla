------------------------------ MODULE MCSandbox ------------------------------
EXTENDS Sandbox
CONSTANTS b, r, c, h1, h2

\* A build and a run of its artifact, and a check of the toolchain on its own.
MCScenarios == {{b, r}, {c}}
\* There may also be none at all.
AllScenarios == MCScenarios \cup {{}}

Nothing == [profile |-> "action-runtime", mode |-> "none", hosts |-> {}]
Listed == [Nothing EXCEPT !.mode = "allowlist", !.hosts = {h1}]
Main == <<"main.go">>
Empty == <<"empty.txt">>
Nested == <<"sandbox", "main.go">>
Dollar == <<"$x.go">>

\* The variable x is not set.
MCExpands == [n \in {Dollar} |-> <<".go">>]

Entry(kind) == [says |-> kind, plain |-> TRUE, text |-> 1]
Of(source, gomod, entry, timeout, policy) ==
  [source |-> source, gomod |-> gomod, entry |-> entry, timeout |-> timeout,
   fetches |-> timeout = 3, policy |-> policy]

MCVersions == {
  Of([n \in {Main, Empty} |-> IF n = Main THEN 2 ELSE 0], <<>>, Entrypoint, 1, Listed),
  Of([n \in {Main, GoMod, Entrypoint} |-> IF n = GoMod THEN 2 ELSE 1],
     <<Entry("require sdk"), Entry("replace sdk")>>, Entrypoint, 3, Nothing),
  Of([n \in {Main, Nested} |-> 1], <<>>, <<"app">>, 2, [Nothing EXCEPT !.mode = "allowlist"]),
  Of([n \in {Main, Dollar} |-> 1], <<>>, Entrypoint, 2, Nothing)}

\* A gateway may keep to what it is asked, ignore the profile or the network,
\* or add a host to the list.
MCPolicies ==
  {[profile |-> "go-builder", mode |-> m, hosts |-> {}] : m \in {"none", "public"}}
  \cup {Nothing, Listed, [Listed EXCEPT !.hosts = {h1, h2}]}

-----------------------------------------------------------------------------
(* Beside the sessions, and while there are none, somebody writes the go.mod of *)
(* a version line by line, with the brackets and places that go accepts.        *)
CONSTANT MaxLines
VARIABLE lines  \* the file, None while sessions are at work

SessionsOnly == Init /\ lines = None /\ [][Next /\ UNCHANGED lines]_<<vars, lines>>

WriteLine ==
  /\ lines # None
  /\ Len(lines) < MaxLines
  /\ \E kind \in Kinds, plain \in BOOLEAN :
       /\ kind \in {"require other", "other", "other ("} => plain
       /\ lines' = Append(lines, [says |-> kind, plain |-> plain, text |-> Len(lines) + 1])
       /\ Placed(lines', Len(lines'))
  /\ UNCHANGED vars

MCInit ==
  /\ Init
  /\ lines = IF \A s \in Sessions : pc[s] = "done" THEN <<>> ELSE None
  /\ lines # None => version.gomod = <<>> /\ version.policy = Listed
MCNext == (Next /\ UNCHANGED lines) \/ WriteLine
MCSpec == MCInit /\ [][MCNext]_<<vars, lines>> /\ Fairness

\* A go.mod whose brackets are in the plain form loses nothing but what it says
\* in plain form about a replacement of the SDK: every other directive is still
\* there, in the same kind of block, and the SDK is required and replaced by the
\* injected copy.  An SDK replacement in another form stays beside that
\* (CanonicalizeGoModSDK, InjectSDK).
GoModIsCanonical ==
  lines # None /\ WellFormed(lines) /\ PlainBrackets(lines) =>
    UsesSDK(lines, GoModFor(lines),
            {i \in 1..Len(lines) : Replaces(lines, i) /\ lines[i].plain})
=============================================================================
