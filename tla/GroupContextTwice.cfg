SPECIFICATION ContextSpec
CONSTANTS
  u1 = u1
  u2 = u2
  p1 = p1
  r1 = r1
  r2 = r2
  Members = {u1, u2}
  Passive = {p1}
  Requests = {r1, r2}
  Proactive = {t1}
  Aliases = {p1}
  SpeakerOf <- MCSpeakerOf
  Low <- MCLow
  Weight <- MCWeight
  AmbientMax = 4
  AmbientChars = 3
  LocalMax = 2
  LocalChars = 2
  RecentMax = 1
  WindowMax = 1
  WindowChars = 2
  Ttl = 0
  RawMax = 1
  RawChars = 2
  TriggerLines = 2
  TriggerChars = 2
  CapsuleMax = 2
  CapsuleTtl = 1
  SelectedMax = 1
  Unknown = Unknown
  MaxDelivered = 3
  MaxProduced = 3
  MaxClock = 2
INVARIANTS
  EventRenderedOnce
CHECK_DEADLOCK FALSE
