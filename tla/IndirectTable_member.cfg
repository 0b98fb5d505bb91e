CONSTANTS
  Keys = {k1}
  Actions = {a1}
  TableSize = 1
  CountMod = 8
  MaxMbrs = 1
  MaxGrps = 1
  MaxLeaks = 1
  MaxFailed = 1
SPECIFICATION Spec
PROPERTY MemberKeptWhileUsed
CHECK_DEADLOCK FALSE
