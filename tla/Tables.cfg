CONSTANTS
  any = any  zero = zero  one = one  p0 = p0  p1 = p1
  MtSize = 3
  MtKeys = {any, zero}
  MtPackets = {p0, p1}
  MtMatches <- MCMatches
  MtPriorities = {1, 2}
  MtActions = {act}
  MtVersions = 4
  MtThreads = {t1, t2}
  CacheSize = 1
  CacheMin = 2
  MtMaxAdds = 3
  ByteBits = 2
  KeyBytes = 2
  MaxPrefixes = 3
  KbBits = 2
  KbLayouts <- MCLayouts
  AgeTables <- MCAgeTables
  AgeSlots <- MCAgeSlots
  AgeTtls = {1}
  AgeMaxIdle = 1
  AgeVersions = 2
  Keys = {k1, k2}
  Actions = {a1}
  TableSize = 2
  CountMod = 8
  MaxMbrs = 2
  MaxGrps = 1
  MaxLeaks = 1
  MaxFailed = 1
  CfNodes <- CfN
  CfFirst = "t1"
  CfKeys = {0, 1}
  CfThreads = {"p"}
  CfMaxOps = 3
  PreMgids = {1, 2}
  PrePorts = 2
  PreLags = {0}
  PreLagHash = 255
  PreMgidSize = 2
  PreL1Max = 2
  CtSize = 2
  CtThreads = {"i", "e"}
  CtLens = {2}
  CtMaxHits = 2
  CtMaxRequests = 3
SPECIFICATION TablesSpec
INVARIANTS TableLookups TableHandles TrieLookups KeysFaithful ReferencesSound
  ControlFollowsProgram ReplicationSound
PROPERTIES SweepsSound
CHECK_DEADLOCK FALSE
