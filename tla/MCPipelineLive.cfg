CONSTANTS
  x = x
  y = y
  z = z
  Target <- MCTarget
  Order <- MCOrder
  Cfg <- MCCfg
  SuiteArgs <- MCSuiteArgs
  Insns <- MCInsns
  BatchSize = 2
  MaxRuns = 1
SPECIFICATION Spec
INVARIANTS
  EachObjectSubmittedOnce
PROPERTIES
  JobDecided
CHECK_DEADLOCK FALSE
