CONSTANTS
  Samples = {a, b}
  Learner = ingress
  RpcThreads = {r1}
  MaxSamplesSet = {1, 2}
  MaxBuffers = 2
  MaxResets = 1
  RcThreads = {"r1", "r2"}
  RcCxts = 1
  RcPackets = {"p1", "p2"}
  RcConfigs = {"two"}
  RcKindOf <- MCRcKindOf
  RcNames = {"T", "R"}
  RcFirst = "one"
  RcNoP4 = FALSE
  RcMaxLoads = 2
  RcMaxHops = 1
  PiThreads = {"r1", "r2"}
  PiCalls <- MCPiCalls
  PiSlots = 1
  PiMaxPrio = 2
  PiHandleBits = 3
  PiBytes = 2
  PiConstDefault = "none"
  PiMaxCalls = 4
  PiMaxCount = 1
  PsMembers = {1, 2}
  PsGroups = {1, 2}
  PsHashes = {0, 1, 2}
  PsMaxOps = 8
  DpThreads = {"r1"}
  DpNums = {1, 2}
  DpFdNums = {1, 2, 3}
  DpCtlFd = 2
  DpMaxPorts = 2
  DpMaxOps = 3
  DpMaxPolls = 1
  PkPorts = {1}
  PkMaxSent = 4
  PkMaxCalls = 1
  PkMaxOut = 1
  BqPushers = {10, 11}
  BqWorkers = {0}
  BqQueues = {0, 1}
  BqCapacity = 1
  BqCapacities = {0, 2}
  BqMaxPush = 4
  BqMaxSets = 1
  RqQueues = {0}
  RqPriorities = 2
  RqCapacity = 2
  RqCapacities = {0}
  RqDelays = {1}
  RqMaxTime = 2
  RqMaxPush = 3
  RqMaxSets = 1
  DgPackets <- MCDgPackets
  DgRequests = {"CONTINUE", "NEXT", "GET_VALUE", "GET_BACKTRACE",
    "BREAK_PACKET_IN", "REMOVE_PACKET_IN", "STOP_PACKET_IN", "RESUME_PACKET_IN",
    "FILTER_NOTIFICATIONS", "SET_WATCHPOINT", "UNSET_WATCHPOINT", "RESET",
    "ATTACH", "DETACH"}
  DgMaxRequests = 3
  DgMaxUpdates = 1
  DgMaxChanges = 1
  PsPorts = {1, 2}
  PsaGroups <- MCPsaGroups
  PsConfigs <- MCPsConfigs
  PsOutcomes <- MCPsOutcomes
  PsWorkers = 2
  PsInCap = 2
  PsEgCap = 2
  PsOutCap = 1
  PsCells = 1
  PsMaxPkts = 1
  PsMaxMade = 5
  PsMaxRpcs = 1
  Tasks = {"t1", "t2"}
  Interval <- MCInterval
  TaskMaxTime = 2
  TaskMaxStarts = 1
  ReplayInputs <- MCReplayInputs
  ReplayPorts = {1}
  ReplayMaxFiles = 2
  ReplayMaxTime = 2
  ReplayMaxOut = 1
  BtPorts = {1, 2}
  BtGroup <- MCBtGroup
  BtInCap = 1
  BtOutCap = 1
  BtMaxPackets = 3
  BtMaxSwaps = 2
SPECIFICATION ServicesSpec
INVARIANTS LearningSound SwapSafe SelectionSound  QueuesSound
  TasksSound DebuggerSound TargetsSound
PROPERTIES 
   SampleReported 
CHECK_DEADLOCK FALSE
