SPECIFICATION LiveSpec
CONSTANTS
  k1 = k1
  k2 = k2
  k3 = k3
  p1 = p1
  p2 = p2
  r1 = r1
  N = 2
  Chats <- TwoChats
  AccountOf <- OwnAccounts
  Keys <- ThreeKeys
  ChatOf <- ThreeKeysChat
  PrincipalOf <- ThreeKeysPrincipal
  Callers = {}
  LeaseLimit = 1
  PrincipalLimit = 1
  CloseLimit = 1
  MaxTransitions = 1
  BrokerFull = {FALSE}
  Unstable = {}
  MaxSessions = 0
  MaxQueue = 1
  RefreshAccounts = {"a", "b"}
  Reads = {1, 2}
  QueueLimit = 1
  MaxJobs = 2
CHECK_DEADLOCK FALSE
INVARIANTS QueuesAgree
PROPERTIES  RefreshDone
