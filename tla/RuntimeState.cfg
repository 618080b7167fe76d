SPECIFICATION StateSpec
CONSTANTS
  Proxies = {"inherit", "socks"}
  Creds = {1, 2}
  MaxRev = 2
  MaxAuth = 2
  Faults = {"write", "refused", "unknown", "stall"}
  MaxFaults = 1
  MaxCrashes = 1
  Ids = {1, 2, 3}
  Orders = {0, 1, 2}
  Announced <- Tied
  Limit = 1
  Retained = 2
  MaxLoads = 2
  MaxVersion = 7
  MaxEpoch = 2
  StoreAccounts = {1, 2}
  Messages <- SomeMessages
  Date <- Dates
  Sizes = {1}
  Senders <- SenderSets
  Watched <- WatchedSets
  PerChat = 1
  PerAccount = 2
  PerProcess = 3
  Bytes = 6
  Scan = 4
  MediaAccounts = {"a", "b"}
  Files = {1, 2}
  Owner <- OneEach
  Size <- UnitSize
  Requests = {1, 2}
  TotalBytes = 1
  MaxAttempts = 1
  MaxAsked = 2
CHECK_DEADLOCK FALSE
INVARIANTS  SettledIsActual RemovedForGood PagesSound  MediaSound
PROPERTIES  PageContinues
