SPECIFICATION SendsSpec
CONSTANTS
  Posters = {x1, x2}
  Pollers = {q1}
  Texts = {y1, y2}
  PostTimeout = 1
  StatusTimeout = 1
  Grace = 2
  o1 = o1
  o2 = o2
  r1 = r1
  r2 = r2
  Ops = {o1, o2}
  Requests = {r1, r2}
  ReqOp <- PairOp
  ReqReply <- PairReply
  SendingIds = {x1, x2}
  MessageIds = {y1, y2}
  Limit = 2
  MaxEpoch = 2
  MaxAuth = 1
  None = None
  Attempts = {0, 1}
  WatchRequests = {x1, x2}
  Calls = {y1, y2}
  MaxKeys = 2
  PostAttempts = 2
CHECK_DEADLOCK FALSE
SYMMETRY SendsSymmetric
INVARIANTS TablesSound Truthful RowTruthful PostedOnce UnknownAfterPost  SentIsDelivered
PROPERTIES RowForward KeyStays
