CONSTANTS
  p1 = p1  p2 = p2  p3 = p3
  Pkts = {p1, p2, p3}
  Producers = {ingress, egress}
  PortOf <- MCPortOf
  ColorOf <- MCColorOf
  NbWorkers = 4
  Capacity = 1
  ConfNodes = 1
  ConfSched = "FIFO"
  TqCap = 4
  MaxEvals = 0
  None = None
SPECIFICATION Spec
SYMMETRY ProducerSymmetry
INVARIANTS TypeOK StoreInv PopNeverStarves EvaluationPending OldHierarchyDrained
PROPERTIES EmplaceInserts ImplementsFifo
CHECK_DEADLOCK FALSE
