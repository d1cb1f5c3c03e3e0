SPECIFICATION Spec
CONSTANTS
  None = None
  Parts <- MCParts
  Incoming <- MCIncoming
  Captures <- MCCaptures
  Injections <- MCInjections
  Deliveries <- MCDeliveries
  Malformed <- MCMalformed
  Bodies <- MCBodies
INVARIANTS
  ReplyReachesOrigin
  ScheduledReplyReachesTarget
  NormalizedTwiceIsOnce
CHECK_DEADLOCK FALSE
