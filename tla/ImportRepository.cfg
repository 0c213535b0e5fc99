\* Two hosts, a new repository per call, every failure.
CONSTANTS
  h1 = h1  h2 = h2  d1 = d1  d2 = d2  m1 = m1  m2 = m2
  math = math  art = art
  Hosts = {h1, h2}
  NoHost = NoHost
  Idle = Idle
  Days = {d1, d2}
  Months = {m1, m2}
  MonthOf <- MCMonthOf
  Names = {math, art}
  Batches <- MCBatches
  RuntimePerCall = TRUE
  MaxCalls = 3
SYMMETRY MCHosts
SPECIFICATION Spec
INVARIANT SnapshotAgrees
PROPERTY ImplementsPromise
