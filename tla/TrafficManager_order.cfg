CONSTANTS
  p1 = p1  p2 = p2  p3 = p3
  Pkts = {p1, p2}
  Producers = {ingress}
  PortOf <- MCPortOf
  ColorOf <- MCColorOf
  NbWorkers = 4
  Capacity = 1
  ConfNodes = 1
  ConfSched = "FIFO"
  TqCap = 4
  MaxEvals = 0
  None = None
SPECIFICATION Spec
INVARIANT ReleasedAsScheduled
CHECK_DEADLOCK FALSE
