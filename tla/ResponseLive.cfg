SPECIFICATION FairSpec
CONSTANTS
  v1 = v1
  t1 = t1
  run = run
  h1 = h1
  h2 = h2
  propose = propose
  enforce = enforce
  dry = dry
  VMs <- OneVM
  Taps <- OneTap
  Owner <- OneOwner
  Callers <- AllCallers
  Run = run
  Handlers <- OneHandler
  Responses <- AllThree
  ModeOf <- Modes
  Rules <- ChangingRules
  Pinned = TRUE
  Avails = {TRUE, FALSE}
  Serial = FALSE
  Cooldown = 1
  Expire = 1
  ReleaseAfter = 1
  Hour = 3
  MaxPerHour = 1
  QueueSize = 1
  KeepActions = 1
  MaxTime = 2
  MaxActions = 1
  MaxDetections = 1
  MaxDecisions = 2
  MaxReloads = 1
  MaxCalls = 0
  MaxFaults = 1
CHECK_DEADLOCK FALSE
 
PROPERTIES TimersEnd
