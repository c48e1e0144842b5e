SPECIFICATION FairSpec
CONSTANTS
  Groups = {g1, g2}
  Messages = {m1, m2, m3}
  SeenLimit = 2
  Cooldown = 2
  Budget = 3
  MaxOffers = 5
  MaxClock = 5
INVARIANTS
  SingleFlightPerGroup
  RedeliveryForgottenOnlyWhenFull
PROPERTIES
  FlagIsReleased
CHECK_DEADLOCK FALSE
