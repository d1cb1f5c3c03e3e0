SPECIFICATION FairSpec
CONSTANTS
  a1 = a1
  a2 = a2
  e1 = e1
  e2 = e2
  m1 = m1
  m2 = m2
  m3 = m3
  m4 = m4
  Matchers = {m1, m2, m3, m4}
  Actions = {a1, a2}
  Requests = {q1}
  Events = {e1, e2}
  rule <- MCRule
  CanFail = TRUE
INVARIANTS
  TypeOK
  RunsFollowPriority
  HeardAnswerIsExact
  EveryMatchIsServed
PROPERTIES
  RequestIsAnswered
CHECK_DEADLOCK FALSE
