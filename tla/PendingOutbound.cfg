SPECIFICATION Spec
CONSTANTS
  Requests = {r1, r2}
  Texts = {t1, t2}
  MaxEntries = 2
  Ttl = 2
  MaxIssued = 4
  MaxClock = 3
SYMMETRY Symmetry
INVARIANTS
  SettledOnce
  NeverSettledLate
PROPERTIES
  NoSilentLoss
  ImplementsLedger
CHECK_DEADLOCK FALSE
