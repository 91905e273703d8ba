SPECIFICATION PartsSpec
CONSTANTS
  Ref = {main, pr}
  Pin = {p1, p2}
  Harness = {1, 2}
  MaxPushes = 2
  Kit <- MCKit
  Iters = 3
  MaxDisk = 17
  SetupRuns = 3
  Tracked = {t1, t2}
  TrackRuns = 3
  ShimFiles <- MCShimFiles
  KernelFiles <- MCKernelFiles
  NoFile = NoFile
  SHIM_COPIES <- MCCopies
  NObjects = 2
  iters = 6
  MaxReport = 1
  NCorners = 2
  Entries = 2
  MayDie = {3}
  MayFail = {1, 4, 5}
INVARIANTS
  JobsSound
  LegSound
  TrackingReports
  DriftFound
  GuestTruthful
PROPERTIES
  SetupSound
  ReportAlwaysWritten
CHECK_DEADLOCK FALSE
