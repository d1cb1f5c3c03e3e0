SPECIFICATION ApiSpec
CONSTANTS
  r1 = r1
  r2 = r2
  a1 = a1
  a2 = a2
  q1 = q1
  q2 = q2
  q3 = q3
  NoRequest = NoRequest
  Runs <- TheRuns
  Actions <- TheActions
  ActionOf <- TheActionOf
  MaxLimit = 1
  Requests <- TheRequests
  RunOf <- TheRunOf
  Needs <- TheNeeds
  BodyAction <- TheBodyAction
  Scopes <- TheScopes
INVARIANTS
  TypeOK
  AcceptedWasUsable
  EffectsAreGenuine
  WritesAreSettled
