SPECIFICATION QueuesSpec
CONSTANTS
  Groups = {g1}
  Texts = {t1}
  Intents = {OWNER_COMMANDED_DISPATCH}
  MaxEntries = 2
  Ttl = 2
  MaxTasks = 4
  MaxClock = 4
  r1 = r1
  r2 = r2
  a = a
  b = b
  c = c
  e = e
  Requesters = {r1, r2}
  Messages = {a, b, c, e}
  Sender <- MCSender
  Cap = 3
  BatchSize = 3
  Minimum = 2
  SeenLimit = 2
  MaxAdmissions = 8
INVARIANTS
  ReadyListAgrees
  InOrder
  RepeatedOnlyWhenForgotten
PROPERTIES
  ReadyTaskIsServed
  ImplementsTaskQueue
  OnlyOverflowIsLost
  BufferIsDrained
CHECK_DEADLOCK FALSE
