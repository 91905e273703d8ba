CONSTANTS
  x = x
  y = y
  Target <- MCTarget
  Order <- MCOrder
  Cfg <- MCCfg
  SuiteArgs <- MCSuiteArgs
  Insns <- MCInsns
  BatchSize = 1
  MaxRuns = 2
SPECIFICATION Spec
INVARIANT
  ExecutedMeansFinished
CHECK_DEADLOCK FALSE
