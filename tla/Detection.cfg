SPECIFICATION Spec
CONSTANTS
  p1 = p1
  p2 = p2
  Procs = {p1, p2}
  VMOf <- OwnVM
  Worlds <- SomeWorlds
  Configs <- SomeConfigs
  Events <- SomeEvents
  MaxSteps = 3
  MaxQueue = 2
  StopAfter = 2
  Names = {v1}
  Items = {1, 2}
  KindOf <- AllDestinations
  OptionSets <- SomeOptions
  LargestCap = 2
  Day = 2
  MaxTime = 3
  MaxFaults = 2
INVARIANTS NoFactHidden ChangeIsReal  CleanMeansSaved
PROPERTIES LifeIsTold
CHECK_DEADLOCK FALSE
