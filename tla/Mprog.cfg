SPECIFICATION Spec
CONSTANTS
  Prog = {p0, p1, p2, p3}
  Link = {l0}
  MPROG_MAX = 4
  Reader = {r0}
  MaxRevision = 5
  NULL = NULL
INVARIANTS
  BundleSound
  WalkIsFaithful
PROPERTIES
  ImplementsProgList
