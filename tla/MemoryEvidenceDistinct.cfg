SPECIFICATION PartSpec
CONSTANTS
  habit = habit
  note = note
  address = address
  city = city
  owner = owner
  g1 = g1
  g2 = g2
  c1 = c1
  c2 = c2
  Keys = {habit}
  AddressKeys = {}
  SlotKeys = {}
  LegacyKeys = {}
  Scopes = {owner, g1, g2}
  GroupScopes = {g1, g2}
  ScopeOf <- MCScopeOf
  Commands = {c1, c2}
  Reach <- MCReach
  Refs = {m1, m2}
  Threshold = 2
  TTL = 1
  EligibleLimit = 30
  ClockStepsBack = FALSE
  MaxMentions = 2
  MaxIds = 2
  MaxCount = 2
  MaxBatches = 1
  MaxClock = 2
INVARIANTS
  CountIsDistinct
CHECK_DEADLOCK FALSE
