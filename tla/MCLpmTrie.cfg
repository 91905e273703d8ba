SPECIFICATION Spec
CONSTANTS
  Slot = {s1, s2, s3, s4}
  Trie = Trie
  NULL = NULL
  ByteBits = 2
  DataSize = 1
  MaxEntries = 3
  Value = {v, w}
  None = None
SYMMETRY Symmetry
INVARIANTS
  TrieSound
  LookupIsLongest
PROPERTIES
  ImplementsMap
