SPECIFICATION BothFairSpec
CONSTANTS
  v1 = v1
  t1 = t1
  t2 = t2
  p1 = p1
  p2 = p2
  VMs <- OneVM
  Taps <- TwoTaps
  Owner <- OneVMOwner
  Callers <- People
  Pinned = TRUE
  Avails = {TRUE, FALSE}
  Serial = TRUE
  MaxCalls = 3
  MaxFaults = 2
  a = a
  b = b
  c = c
  hook = hook
  disk = disk
  Keys <- ThreeKeys
  Webhooks <- Hooks
  Locals <- Files
  Setups <- Apart
  MaxKeys = 2
  QueueSize = 1
  Tries = 2
  MaxRaises = 5
  MaxNow = 4
  MaxReloads = 1
CHECK_DEADLOCK FALSE
INVARIANTS  Accounted
PROPERTIES ReleasedConverges ActiveConverges HeldBehindAnAlert Settles
