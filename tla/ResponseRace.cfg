SPECIFICATION Spec
CONSTANTS
  v1 = v1
  t1 = t1
  run = run
  h1 = h1
  h2 = h2
  propose = propose
  enforce = enforce
  dry = dry
  VMs <- OneVM
  Taps <- OneTap
  Owner <- OneOwner
  Callers <- AllCallers
  Run = run
  Handlers <- TwoHandlers
  Responses <- OnlyPropose
  ModeOf <- Modes
  Rules <- SameRules
  Pinned = TRUE
  Avails = {TRUE}
  Serial = FALSE
  Cooldown = 1
  Expire = 1
  ReleaseAfter = 0
  Hour = 3
  MaxPerHour = 1
  QueueSize = 1
  KeepActions = 2
  MaxTime = 0
  MaxActions = 1
  MaxDetections = 1
  MaxDecisions = 2
  MaxReloads = 0
  MaxCalls = 0
  MaxFaults = 0
CHECK_DEADLOCK FALSE
PROPERTIES RejectedStays
