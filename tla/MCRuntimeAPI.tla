---------------------------- MODULE MCRuntimeAPI ----------------------------
(* Two runs of two actions; the first has both scopes, the second only     *)
(* state.write.  Requests write state twice, send once, and name in their  *)
(* body the other action.                                                  *)
EXTENDS RuntimeAPI

CONSTANTS r1, r2, a1, a2, q1, q2, q3

TheRuns == {r1, r2}
TheActions == {a1, a2}
TheRequests == {q1, q2, q3}
TheActionOf == [r \in TheRuns |-> IF r = r1 THEN a1 ELSE a2]
TheRunOf == [q \in TheRequests |-> IF q = q2 THEN r2 ELSE r1]
TheNeeds == [q \in TheRequests |-> IF q = q3 THEN "frostagent.sendmsg" ELSE "state.write"]
TheBodyAction == [q \in TheRequests |-> a1]
TheScopes == [r \in TheRuns |-> IF r = r1 THEN Scope ELSE {"state.write"}]
=============================================================================
