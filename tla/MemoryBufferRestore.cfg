SPECIFICATION BufferSpec
CONSTANTS
  r1 = r1
  r2 = r2
  a = a
  b = b
  c = c
  e = e
  Requesters = {r1, r2}
  Messages = {a, b, c, e}
  Sender <- MCSender
  Cap = 3
  BatchSize = 3
  Minimum = 2
  SeenLimit = 2
  MaxAdmissions = 8
PROPERTIES
  RestoreLosesNothing
CHECK_DEADLOCK FALSE
