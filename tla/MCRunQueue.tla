----------------------------- MODULE MCRunQueue -----------------------------
(* Small instances of RunQueue: two actions, the first with two runs that  *)
(* compete for its slots.                                                  *)
EXTENDS RunQueue, TLC

CONSTANTS r1, r2, r3, a1, a2

ThreeRuns == {r1, r2, r3}
TwoRuns == {r1, r2}
TwoActions == {a1, a2}
OneAction == {a1}

ActionOfThree == [r \in ThreeRuns |-> IF r = r3 THEN a2 ELSE a1]
ActionOfTwo == [r \in TwoRuns |-> a1]

\* Workers run the same code on interchangeable identities.
WorkerSymmetry == Permutations(Workers)
=============================================================================
