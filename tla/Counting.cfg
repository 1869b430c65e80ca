SPECIFICATION Spec
CONSTANTS
  Running = {"history", "taps", "contention", "thresholds", "verdicts"}
  t1 = t1
  t2 = t2
  Tids <- TwoTids
  SnapEvery = 1
  SnapKeep = 3
  MaxWindow = 2
  MinSpan = 1
  RollEvery = 1
  RollMax = 2
  Windows = {1, 2}
  Setups <- LiveAndPast
  MaxWork = 2
  c1 = c1
  c2 = c2
  Conns <- TwoConns
  MaxAge = 1
  Parts = {"handshakes", "drops"}
  MaxPackets = 5
  MaxMoves = 2
  MaxTicks = 2
  Names = {"db", "web"}
  Threads = {"d1", "w1", "w2", "kworker"}
  VCPUs = {"d1", "w1"}
  VMOf <- MCVMOf
  Floor = 2
  Medium = 5
  MaxSlices = 3
  MaxMishaps = 1
  Guests = {v1}
  RuleSets <- SomeRules
  LongestWindow = 2
  MaxClk = 4
  MaxEvents = 3
  MaxUpsets = 2
  Subjects = {"latency", "counts", "size"}
  VThreads = {"vcpu0", "vcpu1"}
  Latencies = {0, 3, 30, 100, 150}
  Batch = {1, 100}
  MaxBatches <- FewBatches
  Sizes = {1, 3}
  PreemptFloor = 1
  LeastSpan = 1
  ShortSpan = 2
  Ticks <- SomeTicks
  MaxSpan = 5
SYMMETRY Same
INVARIANTS  ForeignShown ContentionIsTrue ThresholdsAreTrue  AdviceIsSafe
PROPERTIES WindowsAreTrue
CHECK_DEADLOCK FALSE
