SPECIFICATION Spec
CONSTANTS
  k1 = k1
  k2 = k2
  k3 = k3
  p1 = p1
  p2 = p2
  r1 = r1
  N = 1
  Chats <- OneChat
  AccountOf <- OneChatAccount
  Keys <- TwoKeys
  ChatOf <- TwoKeysChat
  PrincipalOf <- TwoKeysPrincipal
  Callers = {r1}
  LeaseLimit = 2
  PrincipalLimit = 1
  CloseLimit = 3
  MaxTransitions = 4
  BrokerFull = {TRUE, FALSE}
  Unstable = {1}
  MaxSessions = 0
  MaxQueue = 2
PROPERTY UndecidedIsClosed
CHECK_DEADLOCK FALSE
