SPECIFICATION WatchSpec
CONSTANTS
  a1 = a1
  a2 = a2
  NoAccount = NoAccount
  Defaults = {a2}
  Listings <- TwoAccounts
  NumChats = 2
  PageLimit = 1
  ChatCapacity = 2
  ConnectingInterval = 1
  ConnectingLimit = 1
  UpdatingInterval = 1
  UpdatingStep = 1
  UpdatingLimit = 1
  Slots = 2
  MaxSequence = 3
  Kinds <- MCKinds
  QueueRetry = 1
  MaxTotal = 2
  MaxAir = 2
CHECK_DEADLOCK FALSE
INVARIANTS WindowsAgree NeverStuck SlotsSound
PROPERTIES EndsInTime LayerKeepsContract
