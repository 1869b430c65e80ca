SPECIFICATION FairSpec
CONSTANTS
  t1 = t1
  t2 = t2
  ticker = ticker
  netlink = netlink
  Taps <- TwoTaps
  Indexes = {1, 2}
  Refreshers <- Both
  Setups <- AloneAndBoth
  Quarantine = TRUE
  Ticker = TRUE
  MaxHost = 5
  MaxAsks = 2
  MaxFaults = 2
CHECK_DEADLOCK FALSE
INVARIANTS ReportIsTrue
PROPERTIES IsolationHolds
