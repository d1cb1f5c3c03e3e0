---------------------------- MODULE RunContract ----------------------------
(***************************************************************************)
(* What the runner promises of a Run and of its capability token, with no  *)
(* workers, queue or process: the life of a run is queued, running, then   *)
(* one terminal status for good; a claim respects the concurrency limit of *)
(* the action; a token is issued once, to a running run, and is never      *)
(* valid again once revoked; a restart interrupts all running runs at once *)
(* and takes their tokens away in the same step.                           *)
(***************************************************************************)
EXTENDS Naturals, FiniteSets

CONSTANTS
  Runs,      \* run identities
  Actions,   \* action identities
  ActionOf,  \* the action each run was created for
  MaxLimit   \* cap on actions.max_concurrency

ASSUME ContractAssumption ==
  /\ IsFiniteSet(Runs)
  /\ ActionOf \in [Runs -> Actions]
  /\ MaxLimit \in Nat \ {0}

VARIABLES
  status,    \* the status column of each run row ("absent": no row)
  token,     \* the run_tokens row of each run
  limit      \* actions.max_concurrency

cvars == <<status, token, limit>>

\* RunStatus; the values IsTerminal accepts are the terminal ones.
Terminal == {"succeeded", "failed", "timed_out", "interrupted"}
RowStatus == {"absent", "queued", "running"} \cup Terminal
TokenState == {"none", "active", "revoked"}

RunningOf(a) == {r \in Runs : ActionOf[r] = a /\ status[r] = "running"}
HasSlot(r) == Cardinality(RunningOf(ActionOf[r])) < limit[ActionOf[r]]

\* The rows that the runtime API reads admit the token of r (it also expires).
Live(r) == token[r] = "active" /\ status[r] = "running"

-----------------------------------------------------------------------------
Init ==
  /\ status = [r \in Runs |-> "absent"]
  /\ token = [r \in Runs |-> "none"]
  /\ limit \in [Actions -> 1..MaxLimit]

Create(r) ==
  /\ status[r] = "absent"
  /\ status' = [status EXCEPT ![r] = "queued"]
  /\ UNCHANGED <<token, limit>>

Claim(r) ==
  /\ status[r] = "queued"
  /\ HasSlot(r)
  /\ status' = [status EXCEPT ![r] = "running"]
  /\ UNCHANGED <<token, limit>>

Issue(r) ==
  /\ status[r] = "running"
  /\ token[r] = "none"
  /\ token' = [token EXCEPT ![r] = "active"]
  /\ UNCHANGED <<status, limit>>

Revoke(r) ==
  /\ token[r] = "active"
  /\ token' = [token EXCEPT ![r] = "revoked"]
  /\ UNCHANGED <<status, limit>>

Finish(r, s) ==
  /\ status[r] = "running"
  /\ status' = [status EXCEPT ![r] = s]
  /\ UNCHANGED <<token, limit>>

InterruptAll ==
  /\ status' = [r \in Runs |-> IF status[r] = "running" THEN "interrupted" ELSE status[r]]
  /\ token' = [r \in Runs |-> IF Live(r) THEN "revoked" ELSE token[r]]
  /\ UNCHANGED limit

SetLimit(a, n) ==
  /\ limit' = [limit EXCEPT ![a] = n]
  /\ UNCHANGED <<status, token>>

Next ==
  \/ \E r \in Runs : Create(r) \/ Claim(r) \/ Issue(r) \/ Revoke(r)
  \/ \E r \in Runs, s \in Terminal : Finish(r, s)
  \/ InterruptAll
  \/ \E a \in Actions, n \in 1..MaxLimit : SetLimit(a, n)

Spec == Init /\ [][Next]_cvars
=============================================================================
