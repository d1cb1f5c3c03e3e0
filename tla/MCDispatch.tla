----------------------------- MODULE MCDispatch -----------------------------
(* Four matchers over two actions: a tie between one that stops and one that *)
(* continues, a lower one that only the events decide about, and a disabled  *)
(* one with the highest priority.                                            *)
EXTENDS Dispatch

CONSTANTS a1, a2, e1, e2, m1, m2, m3, m4

Rules ==
  m1 :> [action |-> a1, priority |-> 2, created |-> 1, continue |-> FALSE,
         enabled |-> TRUE, hits |-> {e1}] @@
  m2 :> [action |-> a2, priority |-> 2, created |-> 1, continue |-> TRUE,
         enabled |-> TRUE, hits |-> {e1, e2}] @@
  m3 :> [action |-> a1, priority |-> 1, created |-> 0, continue |-> FALSE,
         enabled |-> TRUE, hits |-> {e1, e2}] @@
  m4 :> [action |-> a2, priority |-> 3, created |-> 2, continue |-> FALSE,
         enabled |-> FALSE, hits |-> {e1}]

MCRule == [m \in Matchers |-> Rules[m]]
=============================================================================
