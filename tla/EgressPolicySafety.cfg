SPECIFICATION Spec
CONSTANTS
  v1 = v1
  v2 = v2
  t1 = t1
  t2 = t2
  n1 = n1
  n2 = n2
  VMs <- OneVM
  Taps <- TwoTaps
  Owner <- OneVMOwner
  Nets <- TwoNets
  MaxAllow = 2
  Confirms = {1}
  HasStore = TRUE
  Overlap = TRUE
  Floors = {TRUE}
  MaxTime = 1
  MaxOps = 2
  MaxFaults = 2
CHECK_DEADLOCK FALSE
INVARIANTS TypeOK EnforceNeverEmpty RecordSaved
PROPERTIES ListedStaysAllowed RecordBeforeKernel KeepsTrialPromise
