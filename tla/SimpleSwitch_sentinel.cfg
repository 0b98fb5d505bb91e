CONSTANTS
  NbPkts = 2
  NbEgress = 2
  Ports = {0, 1}
  CapHi = 1
  CapLo = 1
  TmCap = 1
  EgressCap = 1
  OutCap = 1
  NbQueues = 1
  McastPorts <- MCMcastPorts
  Sessions <- MCSessions
  MaxCopies = 2
SPECIFICATION SwSpec

PROPERTIES OnlyEgressClones
CHECK_DEADLOCK FALSE
