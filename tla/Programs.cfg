CONSTANTS
  PoConfigs <- MCPoConfigs
  PoWidth = 2
  PoPipelines = 2
  PhFixed = {"v"}
  PhStack <- MCPhStack
  PhUnions <- MCPhUnions
  PhOrder <- MCPhOrder
  PhPackets <- MCPhPackets
  PhBuilds = {"p4_16", "legacy"}
  PhMaxOps = 3
  ExTrees <- MCExTrees
  ExHeaders <- MCExHeaders
  ExStacks <- MCExStacks
  ExUnions <- MCExUnions
  ExLocals <- MCExLocals
  ExArrays <- MCExArrays
  VsThreads = {"r1", "r2"}
  VsByte = 2
  VsWidths <- MCVsWidths
  VsValues <- MCVsValues
  VsMasks <- MCVsMasks
  RgThreads = {"i", "e"}
  RgArrays = {"A", "B"}
  RgActions <- MCRgActions
  RgBits = 1
  RgRuns = 2
  MtrThreads = {"i", "e"}
  MtrCount = 2
  MtrConfigs <- MCMtrConfigs
  MtrSizes = {1}
  MtrMaxTime = 2
  MtrMaxPassed = 5
  CaByte = 2
  CaWidth = 4
  CaThreads = {"i", "e"}
  CaRpcs = {"r1"}
  CaConfigs <- MCCaConfigs
  CaFirst <- MCCaFirst
  CaKeys <- MCCaKeys
  CaBuilders <- MCCaBuilders
  CaMaxOps = 2
  AcThreads = {"e0", "e1"}
  AcActions <- MCAcActions
  AcDatas <- MCAcDatas
  AcHoles <- MCAcHoles
  AcBits = 2
  AcFlagBits = 2
  AcCells = 4
  AcHdrLen = 2
  AcMaxRuns = 2
SPECIFICATION ProgramsSpec
INVARIANTS   ValueSetsAgree 
  CalculationsSound 
  
CHECK_DEADLOCK FALSE
