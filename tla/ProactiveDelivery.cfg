SPECIFICATION FairSpec
CONSTANTS
  Groups = {g1, g2}
  Messages = {m1, m2}
  Texts = {t1}
  SeenLimit = 2
  Cooldown = 1
  Budget = 1
  QueueMax = 2
  QueueTtl = 1
  StoreMax = 1
  StoreTtl = 1
  MaxOffers = 2
  MaxTasks = 2
  MaxClock = 2
INVARIANTS
  AmbientIsWhatWasSent
  OneCommandPerTask
  RepliesNeedWakes
PROPERTIES
  SentIsRecorded
CHECK_DEADLOCK FALSE
