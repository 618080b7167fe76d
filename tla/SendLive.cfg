SPECIFICATION LiveSpec
CONSTANTS
  o1 = o1
  o2 = o2
  r1 = r1
  r2 = r2
  Ops = {o1}
  Requests = {r1, r2}
  ReqOp <- RaceOp
  ReqReply <- RaceReply
  SendingIds = {s1}
  MessageIds = {m1}
  Limit = 1
  MaxEpoch = 2
  MaxAuth = 2
  None = None
  Attempts = {0}
  WatchRequests = {q1, q2}
  Calls = {c1, c2}
  MaxKeys = 1
  PostAttempts = 2
CHECK_DEADLOCK FALSE
INVARIANTS DispatchedOnce
PROPERTIES KeepsContract SendsEnd WatchIsAnswered
