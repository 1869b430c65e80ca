SPECIFICATION Spec
CONSTANTS
  c1 = c1
  Kinds = {"tcp_connect", "detection"}
  Share <- Shares
  MaxEvents = 3
  RecCap = 2
  LogMax = 2
  Clients <- OneClient
  Setups <- Apart
  MaxSeq = 5
  MaxBoots = 2
  MaxFaults = 2
CHECK_DEADLOCK FALSE
INVARIANTS ListsKept NoLostWakeup NothingSkipped NewestSurvive
PROPERTIES ShareKept
