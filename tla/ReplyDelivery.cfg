SPECIFICATION ReplyFairSpec
CONSTANTS
  c1 = c1
  c2 = c2
  c3 = c3
  m1 = m1
  m2 = m2
  s1 = s1
  s2 = s2
  g1 = g1
  Calls = {c1, c2, c3}
  Requests = {m1, m2}
  Sockets = {s1, s2}
  Groups = {g1}
  OwnerDirect = OwnerDirect
  Texts = {t1, fallback}
  Fallback = fallback
  NoText = NoText
  MessageOf <- MCMessageOf
  SocketOf <- MCSocketOf
  ConversationOf <- MCConversationOf
  Budget = 1
  MaxEntries = 2
  Ttl = 2
  MaxIssued = 5
  MaxClock = 2
  MaxRestarts = 1
INVARIANTS
  ContextIsWhatWasSent
PROPERTIES
  NoRecordStolen
  RequestIsAnswered
CHECK_DEADLOCK FALSE
