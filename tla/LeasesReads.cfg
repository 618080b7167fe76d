SPECIFICATION BothSpec
CONSTANTS
  k1 = k1
  k2 = k2
  k3 = k3
  p1 = p1
  p2 = p2
  r1 = r1
  N = 1
  Chats <- OneChat
  AccountOf <- OneChatAccount
  Keys <- TwoKeys
  ChatOf <- TwoKeysChat
  PrincipalOf <- TwoKeysPrincipal
  Callers = {r1}
  LeaseLimit = 2
  PrincipalLimit = 1
  CloseLimit = 2
  MaxTransitions = 2
  BrokerFull = {TRUE, FALSE}
  Unstable = {1}
  MaxSessions = 1
  MaxQueue = 2
  Ids = {1, 2}
  Stored = {1}
  Local = {}
  Clients = {1}
  PageLimit = 1
  BatchLimit = 1
  Retained = 1
  PerChat = 1
  QueueLimit = 1
  MaxVersion = 2
  MaxSequence = 2
  MaxEpoch = 2
CHECK_DEADLOCK FALSE
INVARIANTS  ChatsFollowed CacheFresh ClientMissesNothing
PROPERTIES ActiveIsOpen
