SPECIFICATION FairSpec
CONSTANTS
  v1 = v1
  v2 = v2
  t1 = t1
  t2 = t2
  n1 = n1
  n2 = n2
  VMs <- TwoVMs
  Taps <- TwoTaps
  Owner <- TwoVMsOwner
  Nets <- OneNet
  MaxAllow = 2
  Confirms = {1}
  HasStore = TRUE
  Overlap = FALSE
  Floors = {TRUE}
  MaxTime = 1
  MaxOps = 2
  MaxFaults = 2
CHECK_DEADLOCK FALSE
PROPERTIES TimerRunsOut KernelConverges
