SPECIFICATION PartsSpec
CONSTANTS
  Value = {a, b}
  Words = 2
  WordBits = 2
  NrHash = 2
  HashMax = 7
  CPU = {c1, c2}
  Shape <- MCShape
  BmapCase <- MCBmapCase
  BufCase <- MCBufCase
  RateCase <- MCRateCase
INVARIANTS
  NoFalseNegative
  OnlyCollisions
  MatchIsLongest
PROPERTIES
  ImplementsBitSet
  TextKept
  RateHeld
CHECK_DEADLOCK FALSE
