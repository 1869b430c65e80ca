SPECIFICATION IsoFairSpec
CONSTANTS
  v1 = v1
  t1 = t1
  p1 = p1
  p2 = p2
  VMs <- OneVM
  Taps <- OneTap
  Owner <- OneVMOwner
  Callers <- People
  Pinned = TRUE
  Avails = {TRUE}
  Serial = FALSE
  MaxCalls = 2
  MaxFaults = 0
CHECK_DEADLOCK FALSE
PROPERTIES ReleasedConverges
